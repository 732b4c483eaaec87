-------------------------- MODULE MonitoringProofs --------------------------
(* Proofs about Monitoring, for any tests, SAs and times.                   *)
EXTENDS Monitoring, TLAPS

(* TypeOK, one step per action of Next.                                     *)

LEMMA InitType ==
  ASSUME MonitoringAssumption
  PROVE  Init => TypeOK
  <1>1. Init => /\ enabled \in BOOLEAN /\ active \in BOOLEAN /\ stop \in BOOLEAN
                /\ slept \in BOOLEAN /\ raced \in BOOLEAN
    BY DEF Init
  <1>2. Init => result \in [Tests -> Outputs \cup {None}]
    BY DEF Init
  <1>3. Grace \in Nat
    BY DEF MonitoringAssumption
  <1>4. QED
    BY <1>1, <1>2, <1>3 DEF Init, TypeOK

\* The goroutine that parses the output of ipsec keeps the types.
LEMMA ParserType ==
  ASSUME MonitoringAssumption, TypeOK,
         (\E sa \in SAs : Established(sa) \/ Deleting(sa)) \/ Start \/ Stop
           \/ Cancel \/ MonitoringOff
  PROVE  TypeOK'
  <1>g. Grace \in Nat /\ Warmup \in Nat
    BY DEF MonitoringAssumption
  <1>1. ASSUME NEW sa \in SAs, Established(sa)
        PROVE  TypeOK'
    BY <1>1, <1>g DEF Established, TypeOK, settings, testing
  <1>2. ASSUME NEW sa \in SAs, Deleting(sa)
        PROVE  TypeOK'
    BY <1>2, <1>g DEF Deleting, TypeOK, settings, testing
  <1>r. Race => raced' \in BOOLEAN
    BY DEF Race
  <1>3. CASE Start
    <2>1. active' \in BOOLEAN /\ stop' \in BOOLEAN
      BY <1>3 DEF Start, TypeOK
    <2>2. raced' \in BOOLEAN
      BY <1>3, <1>r DEF Start, Parser
    <2>3. QED
      BY <1>3, <1>g, <2>1, <2>2 DEF Start, Parser, TypeOK, testing
  <1>4. CASE Stop
    <2>1. stop' \in BOOLEAN
      BY <1>4 DEF Stop, TypeOK
    <2>2. raced' \in BOOLEAN
      BY <1>4, <1>r DEF Stop, Parser
    <2>3. QED
      BY <1>4, <1>g, <2>1, <2>2 DEF Stop, Parser, TypeOK, testing
  <1>5. CASE Cancel
    <2>1. stopChan' \in 0 .. 1
      BY <1>5 DEF Cancel, TypeOK
    <2>2. QED
      BY <1>5, <2>1 DEF Cancel, TypeOK, settings, testing, history
  <1>6. CASE MonitoringOff
    <2>1. enabled' \in BOOLEAN
      BY <1>6 DEF MonitoringOff
    <2>2. QED
      BY <1>6, <2>1 DEF MonitoringOff, TypeOK, settings, testing, history
  <1>7. QED
    BY <1>1, <1>2, <1>3, <1>4, <1>5, <1>6

\* The thread that tests keeps the types.
LEMMA ThreadType ==
  ASSUME MonitoringAssumption, TypeOK, MonitorThread
  PROVE  TypeOK'
  <1>1. CASE LoopHead
    BY <1>1 DEF LoopHead, Thread, TypeOK, settings, history
  <1>2. CASE RunTest
    <2>1. PICK k \in todo, out \in Outputs :
            /\ todo' = todo \ {k} /\ result' = [result EXCEPT ![k] = out]
            /\ changed' = changed \cup ({out} \ {result[k]})
      BY <1>2 DEF RunTest
    <2>2. result' \in [Tests -> Outputs \cup {None}]
      BY <2>1 DEF TypeOK
    <2>3. QED
      BY <1>2, <2>1, <2>2 DEF RunTest, Thread, TypeOK, settings, history
  <1>3. CASE Report
    BY <1>3 DEF Report, Thread, TypeOK, settings
  <1>4. CASE NextRun
    BY <1>4 DEF NextRun, Thread, TypeOK, history, MonitoringAssumption
  <1>5. CASE CheckStop
    BY <1>5 DEF CheckStop, Thread, TypeOK, settings, history
  <1>6. CASE TurnOff
    <2>1. raced' \in BOOLEAN
      BY <1>6 DEF TurnOff, Race
    <2>2. result' \in [Tests -> Outputs \cup {None}]
      BY <1>6 DEF TurnOff, TypeOK
    <2>3. QED
      BY <1>6, <2>1, <2>2 DEF TurnOff, Thread, TypeOK
  <1>7. CASE SayDown
    BY <1>7 DEF SayDown, Thread, TypeOK, settings
  <1>8. CASE Select
    <2>1. stopChan' \in 0 .. 1 /\ thread' \in {"over", "top"}
      BY <1>8 DEF Select, Thread, TypeOK
    <2>2. slept' \in BOOLEAN
      BY <1>8 DEF Select, TypeOK
    <2>3. QED
      BY <1>8, <2>1, <2>2 DEF Select, TypeOK, settings, history
  <1>9. QED
    BY <1>1, <1>2, <1>3, <1>4, <1>5, <1>6, <1>7, <1>8 DEF MonitorThread

LEMMA TickType ==
  ASSUME MonitoringAssumption, TypeOK, Tick
  PROVE  TypeOK'
  <1>1. runIn' \in Nat /\ downIn' \in 0 .. Grace /\ quiet' \in 0 .. Grace
    BY DEF Tick, Less, TypeOK, MonitoringAssumption
  <1>2. slept' \in BOOLEAN
    BY DEF Tick
  <1>3. QED
    BY <1>1, <1>2 DEF Tick, TypeOK

LEMMA StepType ==
  ASSUME MonitoringAssumption, TypeOK, [Next]_vars
  PROVE  TypeOK'
  <1>1. CASE UNCHANGED vars
    BY <1>1 DEF vars, settings, testing, history, TypeOK
  <1>2. QED
    BY <1>1, ParserType, ThreadType, TickType DEF Next

\* Every variable keeps its type in whatever order the goroutines of
\* monitoring.go and the parser of ipsec's output run.
THEOREM MonitorTypeCorrect ==
  ASSUME MonitoringAssumption
  PROVE  Spec => []TypeOK
  BY InitType, StepType, PTL DEF Spec

-----------------------------------------------------------------------------
(* DownAfterGrace.  Start and Stop assign in two steps each, and the thread  *)
(* may look between them.  Once stopMonitor is set, and unless one of the    *)
(* two is on its way, there is no SA and what is left of the grace period    *)
(* adds up with the silence of ipsec.                                       *)

SilenceAddsUp == quiet + downIn >= Grace

StopsWithNoSA == parser \in {"stop1", "stop2"} => established = {}
StopHasTime == parser = "stop2" => SilenceAddsUp
StartCalledOff == parser = "start3" => ~stop
StopMeansSilence == stop /\ parser \in {"read", "stop2"} => established = {} /\ SilenceAddsUp

GraceInv ==
  enabled => StopsWithNoSA /\ StopHasTime /\ StartCalledOff /\ StopMeansSilence

\* A line of ipsec: with a stop pending, the first SA calls Start.
LEMMA LineGrace ==
  ASSUME TypeOK, GraceInv, NEW sa \in SAs, Established(sa) \/ Deleting(sa)
  PROVE  GraceInv'
  <1>1. CASE Established(sa)
    BY <1>1 DEF Established, GraceInv, StopsWithNoSA, StopHasTime, StartCalledOff,
           StopMeansSilence, settings
  <1>2. CASE Deleting(sa)
    BY <1>2 DEF Deleting, GraceInv, StopsWithNoSA, StopHasTime, StartCalledOff,
           StopMeansSilence, settings
  <1>3. QED
    BY <1>1, <1>2

\* timeToLive is assigned before stopMonitor.
LEMMA StopGrace ==
  ASSUME MonitoringAssumption, TypeOK, GraceInv, Start \/ Stop
  PROVE  GraceInv'
  <1>1. CASE Start
    BY <1>1 DEF Start, Parser, GraceInv, StopsWithNoSA, StopHasTime, StartCalledOff,
           StopMeansSilence, SilenceAddsUp
  <1>2. CASE Stop
    BY <1>2 DEF Stop, Parser, GraceInv, StopsWithNoSA, StopHasTime, StartCalledOff,
           StopMeansSilence, SilenceAddsUp, TypeOK, MonitoringAssumption
  <1>3. QED
    BY <1>1, <1>2

\* monitorThread only ever clears stopMonitor.
LEMMA ThreadGrace ==
  ASSUME TypeOK, GraceInv, MonitorThread
  PROVE  GraceInv'
  <1>1. UNCHANGED <<enabled, established, parser, downIn, quiet>> /\ (stop' => stop)
    BY DEF MonitorThread, LoopHead, RunTest, Report, NextRun, CheckStop, TurnOff, SayDown,
           Select, settings, history
  <1>2. QED
    BY <1>1 DEF GraceInv, StopsWithNoSA, StopHasTime, StartCalledOff, StopMeansSilence,
           SilenceAddsUp

\* A tick takes from the one what it gives to the other.
LEMMA TickGrace ==
  ASSUME MonitoringAssumption, TypeOK, GraceInv, Tick
  PROVE  GraceInv'
  <1>1. SilenceAddsUp => SilenceAddsUp'
    BY DEF Tick, Less, SilenceAddsUp, TypeOK, MonitoringAssumption
  <1>2. QED
    BY <1>1 DEF Tick, GraceInv, StopsWithNoSA, StopHasTime, StartCalledOff, StopMeansSilence

LEMMA GraceStep ==
  ASSUME MonitoringAssumption, TypeOK, GraceInv, [Next]_vars
  PROVE  GraceInv'
  <1>1. CASE Cancel
    BY <1>1 DEF Cancel, GraceInv, StopsWithNoSA, StopHasTime, StartCalledOff,
           StopMeansSilence, SilenceAddsUp, settings, history
  <1>2. CASE UNCHANGED vars
    BY <1>2 DEF vars, settings, history, GraceInv, StopsWithNoSA, StopHasTime,
           StartCalledOff, StopMeansSilence, SilenceAddsUp
  <1>3. CASE MonitoringOff
    BY <1>3 DEF MonitoringOff, GraceInv
  <1>4. QED
    BY <1>1, <1>2, <1>3, LineGrace, StopGrace, ThreadGrace, TickGrace DEF Next

\* Only CheckStop decides that the VPN is down.
LEMMA DecidedByCheckStop ==
  ASSUME [Next]_vars, thread = "check", thread' = "down1"
  PROVE  stop /\ downIn = 0
  <1>1. CheckStop
    BY DEF Next, vars, testing, Established, Deleting, Start, Stop, Cancel, MonitoringOff, Tick,
           MonitorThread, LoopHead, RunTest, Report, NextRun, TurnOff, SayDown, Select, Thread
  <1>2. QED
    BY <1>1 DEF CheckStop, Thread

\* A short outage is never reported, for any grace period and in whatever
\* order the goroutines run: monitorThread decides that the VPN is down only
\* after the grace period, or while Start or Stop is assigning, or when the pod
\* ends (monitorThread, Start and Stop of monitoring.go).
THEOREM DownIsDecided ==
  ASSUME MonitoringAssumption
  PROVE  Spec => DownAfterGrace
  <1>1. Init => GraceInv
    BY DEF Init, GraceInv, StopsWithNoSA, StopHasTime, StartCalledOff, StopMeansSilence
  <1>2. TypeOK /\ GraceInv /\ [Next]_vars
          => [thread = "check" /\ thread' = "down1" =>
                \/ established = {} /\ quiet = Grace
                \/ parser \in {"start1", "start2", "stop1"}
                \/ ~enabled]_vars
    <2>1. SUFFICES ASSUME TypeOK, GraceInv, [Next]_vars, thread = "check", thread' = "down1",
                          enabled, parser \notin {"start1", "start2", "stop1"}
                   PROVE  established = {} /\ quiet = Grace
      OBVIOUS
    <2>2. stop /\ downIn = 0
      BY <2>1, DecidedByCheckStop
    <2>3. established = {} /\ SilenceAddsUp
      BY <2>1, <2>2 DEF GraceInv, StopMeansSilence, StartCalledOff, TypeOK
    <2>4. QED
      BY <2>1, <2>2, <2>3 DEF SilenceAddsUp, TypeOK, MonitoringAssumption
  <1>3. GraceInv /\ TypeOK /\ [Next]_vars => GraceInv'
    BY GraceStep
  <1>4. QED
    BY <1>1, <1>2, <1>3, MonitorTypeCorrect, PTL DEF Spec, DownAfterGrace

-----------------------------------------------------------------------------
(* DownOncePerReport.  While the last message is "VPN is down" the results  *)
(* are forgotten, and an active monitor tests before the grace period ends, *)
(* because the warm-up is the shorter of the two: its report comes first.   *)
(* Only Start, between its assignments to timeToRunMonitoring and           *)
(* stopMonitor, lets the thread past the tests, and that is a race.         *)

Forgotten == result = [k \in Tests |-> None]
TestsFirst == runIn = 0 \/ runIn < downIn

\* From the decision to the message
Ending ==
  /\ thread = "down2" => Forgotten /\ ~active /\ parser \in {"read", "start1", "stop1"}
  /\ thread \in {"down2", "down3"} => said # "down"

\* A new run of the tests has something to say
SomethingNew ==
  IF thread = "test" THEN changed # {} \/ (todo = Tests /\ Forgotten) ELSE Forgotten

InWarmup == active \/ parser \in {"start2", "start3"} => runIn <= Warmup
TestsBeforeEnd ==
  active /\ parser # "start2" /\ (stop \/ parser = "stop2") => TestsFirst

\* What holds from the forgetting of the results to the next report
Silent ==
  /\ thread \notin {"next", "down2"}
  /\ thread = "down1" => parser # "read"
  /\ thread = "check" => active /\ runIn # 0
  /\ SomethingNew /\ InWarmup /\ TestsBeforeEnd

OnceInv ==
  /\ parser = "start3" => ~stop
  /\ ~raced => Ending /\ (said = "down" \/ thread = "down3" => Silent)

\* A line of ipsec lets Start or Stop begin.
LEMMA LineOnce ==
  ASSUME TypeOK, OnceInv, NEW sa \in SAs, Established(sa) \/ Deleting(sa)
  PROVE  OnceInv'
  <1>1. /\ UNCHANGED <<active, stop, runIn, downIn, result, todo, changed, thread, said, raced>>
        /\ parser = "read" /\ parser' \in {"read", "start1", "stop1"}
    BY DEF Established, Deleting, settings, testing
  <1>2. QED
    BY <1>1 DEF OnceInv, Ending, Silent, SomethingNew, InWarmup, TestsBeforeEnd, TestsFirst,
           Forgotten

\* Start and Stop: a step while the thread is ending the monitoring is a race.
LEMMA StartOnce ==
  ASSUME MonitoringAssumption, TypeOK, OnceInv, Start
  PROVE  OnceInv'
  <1>1. /\ UNCHANGED <<downIn, result, todo, changed, thread, said>>
        /\ ~raced' => ~raced /\ thread \notin {"down1", "down2"}
    BY DEF Start, Parser, Race, testing, TypeOK
  <1>2. Warmup \in Nat \ {0}
    BY DEF MonitoringAssumption
  <1>3. CASE Parser("start1", "start2") /\ runIn' = Warmup /\ UNCHANGED <<stop, active>>
    BY <1>1, <1>2, <1>3 DEF Parser, OnceInv, Ending, Silent, SomethingNew, InWarmup,
           TestsBeforeEnd, Forgotten
  <1>4. CASE Parser("start2", "start3") /\ stop' = FALSE /\ UNCHANGED <<runIn, active>>
    BY <1>1, <1>4 DEF Parser, OnceInv, Ending, Silent, SomethingNew, InWarmup,
           TestsBeforeEnd, Forgotten
  <1>5. CASE Parser("start3", "read") /\ active' = TRUE /\ UNCHANGED <<runIn, stop>>
    BY <1>1, <1>5 DEF Parser, OnceInv, Ending, Silent, SomethingNew, InWarmup,
           TestsBeforeEnd, Forgotten
  <1>6. QED
    BY <1>3, <1>4, <1>5 DEF Start

LEMMA StopOnce ==
  ASSUME MonitoringAssumption, TypeOK, OnceInv, Stop
  PROVE  OnceInv'
  <1>1. /\ UNCHANGED <<active, runIn, result, todo, changed, thread, said>>
        /\ ~raced' => ~raced /\ thread \notin {"down1", "down2"}
    BY DEF Stop, Parser, Race, testing, TypeOK
  <1>2. CASE Parser("stop1", "stop2") /\ downIn' = Grace /\ UNCHANGED stop
    BY <1>1, <1>2 DEF Parser, OnceInv, Ending, Silent, SomethingNew, InWarmup,
           TestsBeforeEnd, TestsFirst, Forgotten, TypeOK, MonitoringAssumption
  <1>3. CASE Parser("stop2", "read") /\ stop' = TRUE /\ UNCHANGED downIn
    BY <1>1, <1>3 DEF Parser, OnceInv, Ending, Silent, SomethingNew, InWarmup,
           TestsBeforeEnd, TestsFirst, Forgotten
  <1>4. QED
    BY <1>2, <1>3 DEF Stop

\* The tests: the first output after an outage is new.
LEMMA TestOnce ==
  ASSUME MonitoringAssumption, TypeOK, OnceInv, LoopHead \/ RunTest \/ Report \/ NextRun
  PROVE  OnceInv'
  <1>1. UNCHANGED <<active, stop, downIn, parser, raced>>
    BY DEF LoopHead, RunTest, Report, NextRun, settings, history
  <1>2. CASE LoopHead
    BY <1>1, <1>2 DEF LoopHead, Thread, settings, history, OnceInv, Ending, Silent,
           SomethingNew, InWarmup, TestsBeforeEnd, TestsFirst, Forgotten
  <1>3. CASE RunTest
    <2>1. PICK k \in todo, out \in Outputs :
            /\ todo' = todo \ {k} /\ result' = [result EXCEPT ![k] = out]
            /\ changed' = changed \cup ({out} \ {result[k]})
      BY <1>3 DEF RunTest
    <2>2. UNCHANGED <<runIn, said, thread>> /\ thread = "test"
      BY <1>3 DEF RunTest, Thread, settings, history
    <2>3. SomethingNew => changed' # {}
      BY <2>1, <2>2 DEF SomethingNew, Forgotten, MonitoringAssumption
    <2>4. QED
      BY <1>1, <2>2, <2>3 DEF OnceInv, Ending, Silent, SomethingNew, InWarmup,
             TestsBeforeEnd, TestsFirst
  <1>4. CASE Report
    <2>1. /\ UNCHANGED <<runIn, result>> /\ thread = "test" /\ thread' = "next" /\ todo = {}
      BY <1>4 DEF Report, Thread, settings
    <2>2. SomethingNew => changed # {}
      BY <2>1 DEF SomethingNew, MonitoringAssumption
    <2>3. said' = "down" => said = "down" /\ changed = {}
      BY <1>4 DEF Report
    <2>4. QED
      BY <1>1, <2>1, <2>2, <2>3 DEF OnceInv, Ending, Silent
  <1>5. CASE NextRun
    BY <1>1, <1>5 DEF NextRun, Thread, history, OnceInv, Ending, Silent
  <1>6. QED
    BY <1>2, <1>3, <1>4, <1>5

\* The end of the monitoring, and the select.
LEMMA EndOnce ==
  ASSUME MonitoringAssumption, TypeOK, OnceInv, CheckStop \/ TurnOff \/ SayDown \/ Select
  PROVE  OnceInv'
  <1>1. UNCHANGED <<runIn, downIn, todo, changed, parser>>
    BY DEF CheckStop, TurnOff, SayDown, Select, settings
  <1>2. CASE CheckStop
    <2>1. UNCHANGED <<active, stop, result, said, raced>> /\ thread = "check"
      BY <1>2 DEF CheckStop, Thread, settings, history
    <2>2. CASE stop /\ downIn = 0 /\ thread' = "down1"
      <3>1. Silent => parser = "start2"
        BY <1>1, <2>1, <2>2 DEF OnceInv, Silent, SomethingNew, Forgotten, InWarmup,
               TestsBeforeEnd, TestsFirst, TypeOK
      <3>2. QED
        BY <1>1, <2>1, <2>2, <3>1 DEF OnceInv, Ending, Silent, SomethingNew, InWarmup,
               TestsBeforeEnd, TestsFirst, Forgotten
    <2>3. CASE thread' = "select"
      BY <1>1, <2>1, <2>3 DEF OnceInv, Ending, Silent, SomethingNew, InWarmup,
             TestsBeforeEnd, TestsFirst, Forgotten
    <2>4. QED
      BY <1>2, <2>2, <2>3 DEF CheckStop, Thread
  <1>3. CASE TurnOff
    <2>1. said' = said /\ (~raced' => ~raced /\ parser = "read")
      BY <1>3 DEF TurnOff, Thread, Race, TypeOK
    <2>2. CASE /\ Thread("down1", "down2") /\ active' = FALSE /\ UNCHANGED stop
               /\ result' = [k \in Tests |-> None]
      BY <1>1, <2>1, <2>2 DEF Thread, OnceInv, Ending, Silent, Forgotten
    <2>3. CASE Thread("down2", "down3") /\ stop' = FALSE /\ UNCHANGED <<active, result>>
      BY <1>1, <2>1, <2>3 DEF Thread, OnceInv, Ending, Silent, SomethingNew, InWarmup,
             TestsBeforeEnd, Forgotten
    <2>4. QED
      BY <1>3, <2>2, <2>3 DEF TurnOff
  <1>4. CASE SayDown
    BY <1>1, <1>4 DEF SayDown, Thread, settings, OnceInv, Ending, Silent, SomethingNew,
           InWarmup, TestsBeforeEnd, TestsFirst, Forgotten
  <1>5. CASE Select
    BY <1>1, <1>5 DEF Select, Thread, settings, history, OnceInv, Ending, Silent,
           SomethingNew, InWarmup, TestsBeforeEnd, TestsFirst, Forgotten
  <1>6. QED
    BY <1>2, <1>3, <1>4, <1>5

\* Time does not pass between the head of the loop and the decision.
LEMMA TickOnce ==
  ASSUME MonitoringAssumption, TypeOK, OnceInv, Tick
  PROVE  OnceInv'
  <1>1. /\ UNCHANGED <<active, stop, result, todo, changed, thread, parser, said, raced>>
        /\ thread \in {"select", "test", "over"}
    BY DEF Tick
  <1>2. /\ TestsFirst => TestsFirst'
        /\ runIn <= Warmup => runIn' <= Warmup
    BY DEF Tick, Less, TestsFirst, TypeOK, MonitoringAssumption
  <1>3. QED
    BY <1>1, <1>2 DEF OnceInv, Ending, Silent, SomethingNew, InWarmup, TestsBeforeEnd,
           Forgotten

LEMMA OnceStep ==
  ASSUME MonitoringAssumption, TypeOK, OnceInv, [Next]_vars
  PROVE  OnceInv'
  <1>1. CASE Cancel \/ MonitoringOff \/ UNCHANGED vars
    <2>1. UNCHANGED <<active, stop, runIn, downIn, result, todo, changed, thread, parser,
                      said, raced>>
      BY <1>1 DEF Cancel, MonitoringOff, vars, settings, testing, history
    <2>2. QED
      BY <2>1 DEF OnceInv, Ending, Silent, SomethingNew, InWarmup, TestsBeforeEnd,
             TestsFirst, Forgotten
  <1>2. QED
    BY <1>1, LineOnce, StartOnce, StopOnce, TestOnce, EndOnce, TickOnce DEF Next, MonitorThread

\* One outage is one message "VPN is down", for any tests and times of which
\* the warm-up is shorter than the grace period (monitorThread and Start of
\* monitoring.go), unless Start or Stop raced with the assignments of the thread.
THEOREM DownIsSaidOnce ==
  ASSUME MonitoringAssumption
  PROVE  Spec => DownOncePerReport
  <1>1. Init => OnceInv
    BY DEF Init, OnceInv, Ending, None
  <1>2. OnceInv => [thread = "down3" /\ thread' = "select" => said # "down" \/ raced]_vars
    BY DEF OnceInv, Ending
  <1>3. OnceInv /\ TypeOK /\ [Next]_vars => OnceInv'
    BY OnceStep
  <1>4. QED
    BY <1>1, <1>2, <1>3, MonitorTypeCorrect, PTL DEF Spec, DownOncePerReport
=============================================================================
