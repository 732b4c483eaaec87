----------------------------- MODULE Monitoring -----------------------------
(***************************************************************************)
(* Monitoring of the VPN connection in a VPN pod                           *)
(* (src/monitoring/monitoring.go, parseStrongswanOutput in                 *)
(* src/strongswan/strongswan.go).                                          *)
(*                                                                         *)
(* Two goroutines share the package's variables without a lock:            *)
(* monitorThread, and the one that parses the output of ipsec and calls    *)
(* Start and Stop.  Each assignment is a step.  Time passes in ticks of    *)
(* the two seconds that monitorThread sleeps; the times in the code are    *)
(* the ticks left until then.                                              *)
(***************************************************************************)
EXTENDS Naturals

CONSTANTS
  SAs,    \* names of IKE SAs
  Tests,  \* the kinds of tests that are configured: "ping", "curl"
  Warmup, \* Start: ticks before the first tests
  Grace,  \* Stop: ticks before the VPN counts as down
  Delay   \* monitoring.delay, in ticks

\* The output of a kind of tests: all, some or none of them succeed
Outputs == {"all", "some", "none"}
None == ""

ASSUME MonitoringAssumption ==
  /\ Tests # {} /\ None \notin Outputs
  /\ Warmup \in Nat \ {0} /\ Grace \in Nat \ {0} /\ Delay \in Nat \ {0}
  /\ Warmup < Grace

VARIABLES
  established, \* establishedMap
  enabled,     \* monitoringEnabled
  active,      \* monitorActive
  stop,        \* stopMonitor
  runIn,       \* ticks until timeToRunMonitoring
  downIn,      \* ticks until timeToLive
  result,      \* monitorResult: the last output of each kind, None if there is none
  todo,        \* execute: the kinds of tests not yet run
  changed,     \* execute: the outputs in message
  thread,      \* where monitorThread is
  slept,       \* has monitorThread slept for a tick?
  parser,      \* where the call of Start or Stop is, or "read"
  stopChan,    \* messages in stopMonitorThreadChan
  said,        \* history: the last message of monitorThread
  quiet,       \* history: ticks since the last line of ipsec, up to Grace
  raced        \* history: has there been a Race?

settings == <<active, stop, runIn, downIn>>
testing == <<result, todo, changed, thread, slept>>
history == <<said, quiet, raced>>
vars == <<established, enabled, settings, testing, parser, stopChan, history>>

-----------------------------------------------------------------------------
(* The goroutine that parses the output of ipsec.                          *)

\* Start or Stop runs while monitorThread, which has decided that the VPN is
\* down, assigns its variables
Race == raced' = (raced \/ (parser # "read" /\ thread \in {"down1", "down2"}))

\* parseStrongswanOutput, "state change: CONNECTING => ESTABLISHED", also
\* for an SA that is in the map
Established(sa) ==
  /\ parser = "read"
  /\ established' = established \cup {sa}
  /\ parser' = IF enabled /\ established' = {sa} THEN "start1" ELSE "read"
  /\ quiet' = 0
  /\ UNCHANGED <<enabled, settings, testing, stopChan, said, raced>>

\* parseStrongswanOutput, "state change: ESTABLISHED => DELETING" or "REKEYING => DELETING",
\* also for an SA that is not in the map
Deleting(sa) ==
  /\ parser = "read"
  /\ established' = established \ {sa}
  /\ parser' = IF enabled /\ established' = {} THEN "stop1" ELSE "read"
  /\ quiet' = 0
  /\ UNCHANGED <<enabled, settings, testing, stopChan, said, raced>>

Parser(from, to) == parser = from /\ parser' = to /\ Race

\* Faulty variant: a stop that is pending is not called off
KeepsStop ==
  /\ \/ Parser("start1", "start2") /\ runIn' = Warmup /\ UNCHANGED active
     \/ Parser("start2", "read") /\ active' = TRUE /\ UNCHANGED runIn
  /\ UNCHANGED <<established, enabled, stop, downIn, testing, stopChan, said, quiet>>

Start ==
  /\ \/ Parser("start1", "start2") /\ runIn' = Warmup /\ UNCHANGED <<stop, active>>
     \/ Parser("start2", "start3") /\ stop' = FALSE /\ UNCHANGED <<runIn, active>>
     \/ Parser("start3", "read") /\ active' = TRUE /\ UNCHANGED <<runIn, stop>>
  /\ UNCHANGED <<established, enabled, downIn, testing, stopChan, said, quiet>>

\* Faulty variant: stopMonitor is set before timeToLive
StopsTooSoon ==
  /\ \/ Parser("stop1", "stop2") /\ stop' = TRUE /\ UNCHANGED downIn
     \/ Parser("stop2", "read") /\ downIn' = Grace /\ UNCHANGED stop
  /\ UNCHANGED <<established, enabled, active, runIn, testing, stopChan, said, quiet>>

Stop ==
  /\ \/ Parser("stop1", "stop2") /\ downIn' = Grace /\ UNCHANGED stop
     \/ Parser("stop2", "read") /\ stop' = TRUE /\ UNCHANGED downIn
  /\ UNCHANGED <<established, enabled, active, runIn, testing, stopChan, said, quiet>>

-----------------------------------------------------------------------------
(* monitorThread.                                                          *)

Thread(from, to) == thread = from /\ thread' = to

\* The head of the loop: is it time for the tests?
LoopHead ==
  /\ Thread("top", IF ~active THEN "select" ELSE IF runIn = 0 THEN "test" ELSE "check")
  /\ todo' = IF thread' = "test" THEN Tests ELSE {}
  /\ changed' = {}
  /\ UNCHANGED <<established, enabled, settings, result, slept, parser, stopChan, history>>

\* execute, one kind of tests: an output that is new goes into the message
RunTest ==
  /\ Thread("test", "test")
  /\ \E k \in todo, out \in Outputs :
       /\ todo' = todo \ {k}
       /\ result' = [result EXCEPT ![k] = out]
       /\ changed' = changed \cup ({out} \ {result[k]})
  /\ UNCHANGED <<established, enabled, settings, slept, parser, stopChan, history>>

\* execute, the message: "VPN is up" if a new output has a success in it
Report ==
  /\ todo = {} /\ Thread("test", "next")
  /\ said' = IF changed = {} THEN said
             ELSE IF changed # {"none"} THEN "up" ELSE "failed"
  /\ UNCHANGED <<established, enabled, settings, result, todo, changed, slept, parser,
                 stopChan, quiet, raced>>

\* timeToRunMonitoring = time.Now().Unix() + monitorCfg.Delay
NextRun ==
  /\ Thread("next", "check")
  /\ runIn' = Delay
  /\ UNCHANGED <<established, enabled, active, stop, downIn, result, todo, changed, slept,
                 parser, stopChan, history>>

\* if stopMonitor && (time.Now().Unix() >= timeToLive)
CheckStop ==
  /\ Thread("check", IF stop /\ downIn = 0 THEN "down1" ELSE "select")
  /\ UNCHANGED <<established, enabled, settings, result, todo, changed, slept, parser,
                 stopChan, history>>

\* Faulty variant: the results outlive the connection
KeepsResults ==
  /\ \/ Thread("down1", "down2") /\ active' = FALSE /\ UNCHANGED stop
     \/ Thread("down2", "down3") /\ stop' = FALSE /\ UNCHANGED active
  /\ Race
  /\ UNCHANGED <<established, enabled, runIn, downIn, result, todo, changed, slept, parser,
                 stopChan, said, quiet>>

\* Faulty variant: monitorActive stays
StaysActive ==
  /\ \/ /\ Thread("down1", "down2") /\ result' = [k \in Tests |-> None] /\ UNCHANGED stop
     \/ Thread("down2", "down3") /\ stop' = FALSE /\ UNCHANGED result
  /\ Race
  /\ UNCHANGED <<established, enabled, active, runIn, downIn, todo, changed, slept, parser,
                 stopChan, said, quiet>>

\* The three assignments that end the monitoring of a connection
TurnOff ==
  /\ \/ /\ Thread("down1", "down2") /\ active' = FALSE /\ UNCHANGED stop
        /\ result' = [k \in Tests |-> None]
     \/ Thread("down2", "down3") /\ stop' = FALSE /\ UNCHANGED <<active, result>>
  /\ Race
  /\ UNCHANGED <<established, enabled, runIn, downIn, todo, changed, slept, parser,
                 stopChan, said, quiet>>

\* "VPN is down"
SayDown ==
  /\ Thread("down3", "select")
  /\ said' = "down"
  /\ UNCHANGED <<established, enabled, settings, result, todo, changed, slept, parser,
                 stopChan, quiet, raced>>

\* select: a message ends the thread, two seconds begin the loop again
Select ==
  /\ \/ /\ stopChan > 0 /\ Thread("select", "over")
        /\ stopChan' = stopChan - 1 /\ UNCHANGED slept
     \/ /\ slept /\ Thread("select", "top")
        /\ slept' = FALSE /\ UNCHANGED stopChan
  /\ UNCHANGED <<established, enabled, settings, result, todo, changed, parser, history>>

-----------------------------------------------------------------------------
(* The clock, and the end of the VPN pod.                                  *)

Less(n) == IF n = 0 THEN 0 ELSE n - 1

\* Time passes while monitorThread sleeps and while it tests; the rest of its
\* loop takes none
Tick ==
  /\ thread \in {"select", "test", "over"}
  /\ runIn' = Less(runIn) /\ downIn' = Less(downIn)
  /\ quiet' = IF quiet = Grace THEN Grace ELSE quiet + 1
  /\ slept' = (thread = "select")
  /\ UNCHANGED <<established, enabled, active, stop, result, todo, changed, thread, parser,
                 stopChan, said, raced>>

\* Faulty variant: the send does not wait
CancelsTwice ==
  /\ enabled
  /\ stopChan' = stopChan + 1
  /\ UNCHANGED <<established, enabled, settings, testing, parser, history>>

\* Cancel in vpnPodCleanup, by main, by handleSignal or by both
Cancel ==
  /\ enabled /\ stopChan < 1
  /\ stopChan' = stopChan + 1
  /\ UNCHANGED <<established, enabled, settings, testing, parser, history>>

\* monitoringEnabled = false, after Cancel
MonitoringOff ==
  /\ enabled /\ (stopChan > 0 \/ thread = "over")
  /\ enabled' = FALSE
  /\ UNCHANGED <<established, settings, testing, parser, stopChan, history>>

Init ==
  /\ established = {} /\ enabled = TRUE
  /\ active = FALSE /\ stop = FALSE /\ runIn = 0 /\ downIn = 0
  /\ result = [k \in Tests |-> None] /\ todo = {} /\ changed = {}
  /\ thread = "top" /\ slept = FALSE
  /\ parser = "read" /\ stopChan = 0
  /\ said = None /\ quiet = 0 /\ raced = FALSE

MonitorThread ==
  LoopHead \/ RunTest \/ Report \/ NextRun \/ CheckStop \/ TurnOff \/ SayDown \/ Select

Next ==
  \/ \E sa \in SAs : Established(sa) \/ Deleting(sa)
  \/ Start \/ Stop \/ MonitorThread \/ Tick \/ Cancel \/ MonitoringOff

Spec == Init /\ [][Next]_vars

(***************************************************************************)
(* Goroutines that can run do run, and time passes.  Nothing is assumed of *)
(* ipsec.                                                                  *)
(***************************************************************************)
FairSpec ==
  Spec /\ WF_vars(Start) /\ WF_vars(Stop) /\ WF_vars(MonitorThread) /\ WF_vars(Tick)
  /\ WF_vars(MonitoringOff)

-----------------------------------------------------------------------------
(* Properties.                                                             *)

\* Type invariant: every variable holds a value of the kind the code gives it.
TypeOK ==
  /\ established \subseteq SAs /\ enabled \in BOOLEAN
  /\ active \in BOOLEAN /\ stop \in BOOLEAN
  /\ runIn \in Nat /\ downIn \in 0 .. Grace
  /\ result \in [Tests -> Outputs \cup {None}]
  /\ todo \subseteq Tests /\ changed \subseteq Outputs
  /\ thread \in {"top", "test", "next", "check", "down1", "down2", "down3", "select", "over"}
  /\ slept \in BOOLEAN
  /\ parser \in {"read", "start1", "start2", "start3", "stop1", "stop2"}
  /\ stopChan \in 0 .. 1
  /\ said \in {None, "up", "failed", "down"} /\ quiet \in 0 .. Grace /\ raced \in BOOLEAN

\* monitorThread decides that the VPN is down only when there has been no SA
\* for the whole grace period, while the parser is about to change stopMonitor
\* or timeToLive, or when the pod ends: a short outage is not reported in
\* whatever order the goroutines run.
DownAfterGrace ==
  [][thread = "check" /\ thread' = "down1" =>
       \/ established = {} /\ quiet = Grace
       \/ parser \in {"start1", "start2", "stop1"}
       \/ ~enabled]_vars

\* Between two messages "VPN is down" there is a report on the tests, because
\* the results are forgotten with the connection: one message per outage.
DownOncePerReport ==
  [][thread = "down3" /\ thread' = "select" => said # "down" \/ raced]_vars

\* "Start - request to start the monitoring testing" (monitoring.go:54): when
\* the VPN has come up to stay, the tests run again and again, unless Start
\* once ran between monitorThread's decision and its assignments.
TestsWhileUp ==
  <>[](enabled /\ established # {} /\ quiet = Grace) => []<>(thread = "test" \/ raced)

\* "Stop - request to stop the monitoring testing" (monitoring.go:61): when the
\* VPN has gone down to stay, the tests end, with the same exception.
StopsWhenDown ==
  <>[](enabled /\ established = {} /\ quiet = Grace) => <>[](thread # "test" \/ raced)
=============================================================================
