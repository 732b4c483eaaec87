----------------------------- MODULE VpnCluster -----------------------------
(***************************************************************************)
(* The VPN pods of one release, and what they share: the config map, the   *)
(* Calico IPPools and the route daemons of the nodes                       *)
(* (src/strongswan/strongswan.go, main.go, src/utils/shell.go).            *)
(*                                                                         *)
(* The pods are the revisions 1, 2, ... of the deployment; a rolling       *)
(* update starts a revision and deletes the one before it when the new one *)
(* is ready.  In a pod, the goroutine "main" configures the pod, waits for *)
(* the route daemon of its node, runs ipsec and cleans up; "sig" is        *)
(* handleSignal.  A route daemon is its callbacks only: RouteDaemon shows  *)
(* that between two of them the kernel holds what savedRouteMap says.      *)
(***************************************************************************)
EXTENDS Integers, Sequences

CONSTANTS
  N,              \* the revisions are 1..N
  Nodes,          \* the worker nodes
  nodeOf,         \* revision -> the node its pod runs on
  connectUsingVip,\* do outbound packets leave by the load balancer's address?
  poolSubnets,    \* the IPPools for the remote subnets; none with SNAT
  gateway,        \* the IPPool for the remote gateway
  monitoring,     \* is monitoring enabled?
  Budget          \* how often each event of the environment happens; -1: any number

Pods == 1 .. N
Places == {"list", "remove", "apply", "append", "get", "put", "wait", "start", "started",
           "run", "clean", "check", "cancel", "off", "exited"}
Events == {"early", "crash", "fail", "probe", "relist"}

ASSUME ClusterAssumption ==
  /\ N \in Nat \ {0}
  /\ nodeOf \in [Pods -> Nodes]
  /\ connectUsingVip \in BOOLEAN /\ monitoring \in BOOLEAN
  /\ gateway \notin poolSubnets
  /\ Budget \in [Events -> Nat \cup {-1}]

VARIABLES
  left,     \* what is left of Budget
  cm,       \* the revision whose data is in the config map; 0 after helm install
  version,  \* its resource version
  pools,    \* subnet -> the revision whose IPPool it is; 0 if there is none
  feed,     \* per node: events the informer has not delivered
  saved,    \* per node: savedRouteMap, and the routes and rules in its kernel
  target,   \* per node: the data being added
  installed,\* per node: the pods whose data has been added (history)
  at,       \* per node: "idle", "add" or "dial"
  phase,    \* per pod: "new", "up", "down" (between two containers), "over"
  deleted,  \* per pod: has the deployment deleted it?
  pc,       \* per pod and goroutine: where it is
  toMake,   \* per pod: IPPools to create
  making,   \* per pod: the IPPool being created, until it is in cleanupCalico
  listed,   \* per pod: whose IPPool its calicoCmd.sh has found; 0: none
  cleanup,  \* per pod: cleanupCalico
  toDelete, \* per pod and goroutine: what its loop in vpnPodCleanup has left
  excused,  \* per pod: may its IPPools stay? (history: see Signalled, DeleteFails)
  enabled,  \* per pod: monitoringEnabled
  stopChan, \* per pod: messages in monitoring's stopMonitorThreadChan
  monitor,  \* per pod: does monitorThread run?
  listener, \* per pod: is there a listener on port 4500?
  woken,    \* per pod: has the listener a connection?
  got,      \* per pod: the resource version UpdateConfigMap has read
  ipsec,    \* per pod: "no", "up", "term" (told to stop) or "gone"
  running   \* per pod: ShellCommand.running

apiVars == <<cm, version, feed>>
daemonVars == <<saved, target, at, installed>>
makeVars == <<toMake, making, listed>>
poolVars == <<makeVars, cleanup, toDelete, excused, pools>>
monitorVars == <<enabled, stopChan, monitor>>
waitVars == <<listener, woken, got>>
ipsecVars == <<ipsec, running>>
podVars == <<phase, deleted>>
vars == <<left, apiVars, daemonVars, poolVars, monitorVars, waitVars, ipsecVars, podVars, pc>>

Threads == {"main", "sig"}
Subnets == poolSubnets \cup {gateway}

Spend(event) ==
  /\ left[event] # 0
  /\ left' = IF left[event] < 0 THEN left ELSE [left EXCEPT ![event] = @ - 1]

-----------------------------------------------------------------------------
(* The deployment and the kubelet.                                         *)

\* vpnPodInit reads the settings and validates ipsec.conf
vpnPodInit(p) == enabled' = [enabled EXCEPT ![p] = monitoring]

\* vpnPodConfig, first part: it reads the cluster, makes monitorThread and finds
\* out which IPPools the pod needs
vpnPodConfig(p) ==
  /\ monitor' = [monitor EXCEPT ![p] = monitoring]
  /\ toMake' = [toMake EXCEPT ![p] =
       poolSubnets \cup {g \in {gateway} : connectUsingVip}]

\* A container starts
Boot(p) ==
  /\ phase' = [phase EXCEPT ![p] = "up"]
  /\ pc' = [pc EXCEPT ![p] = [main |-> "list", sig |-> "none"]]
  /\ vpnPodInit(p) /\ vpnPodConfig(p)
  /\ UNCHANGED <<apiVars, daemonVars, deleted, making, listed, cleanup, toDelete, excused,
                 pools, stopChan, waitVars, ipsecVars>>

Ready(p) == phase[p] = "up" /\ ipsec[p] \in {"up", "term"}

\* The deployment creates the pod of the next revision
Deploy(p) ==
  /\ phase[p] = "new" /\ \A q \in Pods : q = p - 1 => Ready(q)
  /\ left' = left /\ Boot(p)

\* An upgrade that does not wait until the last revision is ready
DeployEarly(p) ==
  /\ phase[p] = "new" /\ \E q \in Pods : q = p - 1 /\ phase[q] # "new" /\ ~Ready(q)
  /\ Spend("early") /\ Boot(p)

\* The kubelet starts the container again, in the same pod: with the same
\* address, device and node, and so the same route data
RestartContainer(p) == phase[p] = "down" /\ ~deleted[p] /\ left' = left /\ Boot(p)

\* The process of the container ends, and everything in it
End(p) ==
  /\ phase' = [phase EXCEPT ![p] = IF deleted'[p] THEN "over" ELSE "down"]
  /\ pc' = [pc EXCEPT ![p] = [main |-> "exited", sig |-> "none"]]
  /\ toMake' = [toMake EXCEPT ![p] = {}] /\ making' = [making EXCEPT ![p] = {}]
  /\ listed' = [listed EXCEPT ![p] = 0] /\ excused' = [excused EXCEPT ![p] = FALSE]
  /\ cleanup' = [cleanup EXCEPT ![p] = {}]
  /\ toDelete' = [toDelete EXCEPT ![p] = [t \in Threads |-> {}]]
  /\ enabled' = [enabled EXCEPT ![p] = FALSE]
  /\ monitor' = [monitor EXCEPT ![p] = FALSE]
  /\ stopChan' = [stopChan EXCEPT ![p] = 0]
  /\ listener' = [listener EXCEPT ![p] = FALSE]
  /\ woken' = [woken EXCEPT ![p] = FALSE]
  /\ got' = [got EXCEPT ![p] = 0]
  /\ ipsec' = [ipsec EXCEPT ![p] = "no"]
  /\ running' = [running EXCEPT ![p] = FALSE]

\* Faulty variant: cleanupCalico is emptied before the loop
EmptiesFirst(p, t) ==
  /\ pc' = [pc EXCEPT ![p][t] = IF cleanup[p] = {} THEN "check" ELSE "clean"]
  /\ toDelete' = [toDelete EXCEPT ![p][t] = cleanup[p]]
  /\ cleanup' = [cleanup EXCEPT ![p] = {}]

\* The goroutine t enters vpnPodCleanup, and its loop if there is what to delete
StartCleanup(p, t) ==
  /\ pc' = [pc EXCEPT ![p][t] = IF cleanup[p] = {} THEN "check" ELSE "clean"]
  /\ toDelete' = [toDelete EXCEPT ![p][t] = cleanup[p]]
  /\ UNCHANGED cleanup

\* SIGTERM, which handleSignal catches once, wherever main is
Signalled(p) ==
  /\ phase[p] = "up" /\ pc[p].sig = "none"
  /\ StartCleanup(p, "sig")
  /\ excused' = [excused EXCEPT ![p] = @ \/ toMake[p] \cup making[p] # {}]
  /\ UNCHANGED <<apiVars, daemonVars, makeVars, pools, monitorVars, waitVars, ipsecVars, phase>>

\* The deployment deletes a pod when one of a later revision is ready
Delete(p) ==
  /\ ~deleted[p] /\ \E q \in Pods : q > p /\ Ready(q)
  /\ deleted' = [deleted EXCEPT ![p] = TRUE]
  /\ left' = left
  /\ \/ Signalled(p)
     \/ /\ phase[p] = "up" /\ pc[p].sig # "none"   \* has been told to stop already
        /\ UNCHANGED <<apiVars, daemonVars, poolVars, monitorVars, waitVars, ipsecVars, phase, pc>>
     \/ /\ phase[p] = "down" /\ phase' = [phase EXCEPT ![p] = "over"]
        /\ UNCHANGED <<apiVars, daemonVars, poolVars, monitorVars, waitVars, ipsecVars, pc>>

\* The liveness probe has failed too often
Probe(p) == ~Ready(p) /\ Spend("probe") /\ deleted' = deleted /\ Signalled(p)

\* SIGKILL, when memory is short
Kill(p) ==
  /\ phase[p] = "up" /\ pc[p].sig = "none" /\ Spend("crash")
  /\ deleted' = deleted
  /\ End(p) /\ UNCHANGED <<apiVars, daemonVars, pools>>

\* SIGKILL, when the grace period that follows SIGTERM is over
GraceOver(p) ==
  /\ phase[p] = "up" /\ pc[p].sig # "none"
  /\ deleted' = deleted
  /\ End(p) /\ UNCHANGED <<left, apiVars, daemonVars, pools>>

-----------------------------------------------------------------------------
(* vpnPodConfig, from the IPPools to the config map.                       *)

Main(p, from, to) ==
  /\ phase[p] = "up" /\ pc[p].main = from
  /\ pc' = [pc EXCEPT ![p].main = to]

\* The next IPPool that main asks calico.CreateIPPool for, the gateway's last
Asks(p, s) ==
  /\ s \in toMake[p] /\ (s = gateway => toMake[p] = {gateway})
  /\ making' = [making EXCEPT ![p] = {s}]
  /\ toMake' = [toMake EXCEPT ![p] = @ \ {s}]

\* calicoCmd.sh lists the IPPools
ListIPPools(p) ==
  /\ \E s \in toMake[p] :
       /\ Asks(p, s)
       /\ Main(p, "list", IF pools[s] = 0 THEN "apply" ELSE "remove")
       /\ listed' = [listed EXCEPT ![p] = pools[s]]
  /\ UNCHANGED <<left, apiVars, daemonVars, cleanup, toDelete, excused, pools, monitorVars,
                 waitVars, ipsecVars, podVars>>

\* It deletes the one it has found, by its name
RemoveIPPool(p) ==
  /\ Main(p, "remove", "apply")
  /\ pools' = [s \in Subnets |-> IF s \in making[p] /\ pools[s] = listed[p] THEN 0 ELSE pools[s]]
  /\ listed' = [listed EXCEPT ![p] = 0]
  /\ UNCHANGED <<left, apiVars, daemonVars, toMake, making, cleanup, toDelete, excused,
                 monitorVars, waitVars, ipsecVars, podVars>>

\* It creates its own; Calico refuses one that overlaps another, which is fatal
ApplyIPPool(p) ==
  \/ /\ \A s \in making[p] : pools[s] \in {0, p}
     /\ Main(p, "apply", "append")
     /\ pools' = [s \in Subnets |-> IF s \in making[p] THEN p ELSE pools[s]]
     /\ UNCHANGED <<left, apiVars, daemonVars, makeVars, cleanup, toDelete, excused, monitorVars,
                    waitVars, ipsecVars, podVars>>
  \/ /\ \E s \in making[p] : pools[s] \notin {0, p}
     /\ phase[p] = "up" /\ pc[p].main = "apply"
     /\ deleted' = deleted /\ End(p)
     /\ UNCHANGED <<left, apiVars, daemonVars, pools>>

\* cleanupCalico = append(cleanupCalico, subnet)
Append1(p) ==
  /\ Main(p, "append", "list")
  /\ cleanup' = [cleanup EXCEPT ![p] = @ \cup making[p]]
  /\ making' = [making EXCEPT ![p] = {}]
  /\ UNCHANGED <<left, apiVars, daemonVars, toMake, listed, toDelete, excused, pools,
                 monitorVars, waitVars, ipsecVars, podVars>>

\* A command of calicoCmd.sh fails: only that of the last one is noticed
ListFails(p) ==
  /\ Spend("fail") /\ Main(p, "list", "apply")
  /\ \E s \in toMake[p] : Asks(p, s)
  /\ UNCHANGED <<apiVars, daemonVars, listed, cleanup, toDelete, excused, pools, monitorVars,
                 waitVars, ipsecVars, podVars>>

RemoveFails(p) ==
  /\ Spend("fail") /\ Main(p, "remove", "apply")
  /\ listed' = [listed EXCEPT ![p] = 0]
  /\ UNCHANGED <<apiVars, daemonVars, toMake, making, cleanup, toDelete, excused, pools,
                 monitorVars, waitVars, ipsecVars, podVars>>

ApplyFails(p) ==
  /\ Spend("fail") /\ phase[p] = "up" /\ pc[p].main = "apply"
  /\ deleted' = deleted /\ End(p)
  /\ UNCHANGED <<apiVars, daemonVars, pools>>

\* Faulty variant: the listener is opened when main comes to wait
ListensLate(p) ==
  \/ /\ toMake[p] = {} /\ Main(p, "list", "get")
     /\ UNCHANGED <<left, apiVars, daemonVars, poolVars, monitorVars, waitVars, ipsecVars,
                    podVars>>
  \/ /\ ~listener[p] /\ Main(p, "wait", "wait")
     /\ listener' = [listener EXCEPT ![p] = connectUsingVip]
     /\ UNCHANGED <<left, apiVars, daemonVars, poolVars, monitorVars, woken, got, ipsecVars,
                    podVars>>

\* The listener the route daemon will connect to
Listen(p) ==
  /\ toMake[p] = {} /\ Main(p, "list", "get")
  /\ listener' = [listener EXCEPT ![p] = connectUsingVip]
  /\ UNCHANGED <<left, apiVars, daemonVars, poolVars, monitorVars, woken, got, ipsecVars,
                 podVars>>

\* UpdateConfigMap, the read
GetConfigMap(p) ==
  /\ Main(p, "get", "put")
  /\ got' = [got EXCEPT ![p] = version]
  /\ UNCHANGED <<left, apiVars, daemonVars, poolVars, monitorVars, listener, woken, ipsecVars,
                 podVars>>

\* UpdateConfigMap, the write: a conflict is fatal, equal data makes no event
PutConfigMap(p) ==
  \/ /\ got[p] = version /\ Main(p, "put", "wait")
     /\ IF cm = p THEN UNCHANGED apiVars
        ELSE /\ cm' = p /\ version' = version + 1
             /\ feed' = [n \in Nodes |-> Append(feed[n], p)]
     /\ UNCHANGED <<left, daemonVars, poolVars, monitorVars, waitVars, ipsecVars, podVars>>
  \/ /\ phase[p] = "up" /\ pc[p].main = "put" /\ got[p] # version
     /\ deleted' = deleted /\ End(p)
     /\ UNCHANGED <<left, apiVars, daemonVars, pools>>

\* Faulty variant: main does not wait
DoesNotWait(p) ==
  /\ Main(p, "wait", "start")
  /\ listener' = [listener EXCEPT ![p] = FALSE]
  /\ woken' = [woken EXCEPT ![p] = FALSE]
  /\ UNCHANGED <<left, apiVars, daemonVars, poolVars, monitorVars, got, ipsecVars, podVars>>

\* vpnPodWaitRouteDaemon: AcceptTCP has no deadline
WaitRouteDaemon(p) ==
  /\ Main(p, "wait", "start")
  /\ connectUsingVip => woken[p]
  /\ listener' = [listener EXCEPT ![p] = FALSE]
  /\ woken' = [woken EXCEPT ![p] = FALSE]
  /\ UNCHANGED <<left, apiVars, daemonVars, poolVars, monitorVars, got, ipsecVars, podVars>>

-----------------------------------------------------------------------------
(* Running and stopping ipsec (ShellCommand).                              *)

\* Start: the process is there before running says so
StartCmd(p) ==
  /\ Main(p, "start", "started")
  /\ ipsec' = [ipsec EXCEPT ![p] = "up"]
  /\ UNCHANGED <<left, apiVars, daemonVars, poolVars, monitorVars, waitVars, running, podVars>>

StartRunning(p) ==
  /\ Main(p, "started", "run")
  /\ running' = [running EXCEPT ![p] = TRUE]
  /\ UNCHANGED <<left, apiVars, daemonVars, poolVars, monitorVars, waitVars, ipsec, podVars>>

\* ipsec ends because it was told to, or by itself
IpsecStops(p) ==
  /\ ipsec[p] = "term"
  /\ ipsec' = [ipsec EXCEPT ![p] = "gone"]
  /\ UNCHANGED <<left, apiVars, daemonVars, poolVars, monitorVars, waitVars, running, podVars, pc>>

IpsecFails(p) ==
  /\ ipsec[p] = "up" /\ Spend("crash")
  /\ ipsec' = [ipsec EXCEPT ![p] = "gone"]
  /\ UNCHANGED <<apiVars, daemonVars, poolVars, monitorVars, waitVars, running, podVars, pc>>

\* Wait returns; main goes to its deferred vpnPodCleanup
Wait(p) ==
  /\ ipsec[p] = "gone" /\ phase[p] = "up" /\ pc[p].main = "run"
  /\ StartCleanup(p, "main")
  /\ UNCHANGED <<left, apiVars, daemonVars, makeVars, excused, pools, monitorVars, waitVars,
                 ipsecVars, podVars>>

\* Faulty variant: running is cleared before it is tested
ClearsFirst(p) ==
  /\ phase[p] = "up" /\ pc[p].sig = "stop"
  /\ pc' = [pc EXCEPT ![p].sig = "done"]
  /\ running' = [running EXCEPT ![p] = FALSE]
  /\ UNCHANGED <<left, apiVars, daemonVars, poolVars, monitorVars, waitVars, ipsec, podVars>>

\* Stop, in handleSignal: it does nothing unless running is set, and to fail
\* to kill a process that Wait has reaped is fatal
Stop(p) ==
  /\ phase[p] = "up" /\ pc[p].sig = "stop"
  /\ UNCHANGED <<left, apiVars, daemonVars, pools, deleted>>
  /\ \/ /\ ~running[p] \/ pc[p].main = "run"
        /\ pc' = [pc EXCEPT ![p].sig = "done"]
        /\ ipsec' = [ipsec EXCEPT ![p] = IF running[p] /\ @ = "up" THEN "term" ELSE @]
        /\ running' = [running EXCEPT ![p] = FALSE]
        /\ UNCHANGED <<poolVars, monitorVars, waitVars, phase>>
     \/ running[p] /\ pc[p].main # "run" /\ End(p)

-----------------------------------------------------------------------------
(* vpnPodCleanup, which main and sig may run at the same time.             *)

Cleaning(p, t, place) == phase[p] = "up" /\ pc[p][t] = place

\* Faulty variant: the name of the IPPool does not tell whose it is
DeletesAnyIPPool(p, t) ==
  /\ Cleaning(p, t, "clean")
  /\ \E s \in toDelete[p][t] :
       /\ pools' = [pools EXCEPT ![s] = 0]
       /\ toDelete' = [toDelete EXCEPT ![p][t] = @ \ {s}]
  /\ UNCHANGED <<left, apiVars, daemonVars, makeVars, cleanup, excused, monitorVars, waitVars,
                 ipsecVars, podVars, pc>>

\* calico.DeleteIPPool: only an IPPool with the name of this pod goes
DeleteIPPool(p, t) ==
  /\ Cleaning(p, t, "clean")
  /\ \E s \in toDelete[p][t] :
       /\ pools' = [pools EXCEPT ![s] = IF @ = p THEN 0 ELSE @]
       /\ toDelete' = [toDelete EXCEPT ![p][t] = @ \ {s}]
  /\ UNCHANGED <<left, apiVars, daemonVars, makeVars, cleanup, excused, monitorVars, waitVars,
                 ipsecVars, podVars, pc>>

\* calicoCmd.sh says that all is well when calicoctl could not delete
DeleteFails(p, t) ==
  /\ Cleaning(p, t, "clean") /\ Spend("fail")
  /\ \E s \in toDelete[p][t] : toDelete' = [toDelete EXCEPT ![p][t] = @ \ {s}]
  /\ excused' = [excused EXCEPT ![p] = TRUE]
  /\ UNCHANGED <<apiVars, daemonVars, makeVars, cleanup, pools, monitorVars, waitVars,
                 ipsecVars, podVars, pc>>

\* cleanupCalico = []string{}, after the loop
CleanupDone(p, t) ==
  /\ Cleaning(p, t, "clean") /\ toDelete[p][t] = {}
  /\ cleanup' = [cleanup EXCEPT ![p] = {}]
  /\ pc' = [pc EXCEPT ![p][t] = "check"]
  /\ UNCHANGED <<left, apiVars, daemonVars, makeVars, toDelete, excused, pools, monitorVars,
                 waitVars, ipsecVars, podVars>>

\* What follows vpnPodCleanup
AfterCleanup(t) == IF t = "sig" THEN "stop" ELSE "exited"

\* if monitoringEnabled
CheckMonitoring(p, t) ==
  /\ Cleaning(p, t, "check")
  /\ pc' = [pc EXCEPT ![p][t] = IF enabled[p] THEN "cancel" ELSE AfterCleanup(t)]
  /\ UNCHANGED <<left, apiVars, daemonVars, poolVars, monitorVars, waitVars, ipsecVars,
                 podVars>>

\* Faulty variant: two messages in a channel with room for one
CancelOverflows(p, t) ==
  /\ Cleaning(p, t, "cancel")
  /\ stopChan' = [stopChan EXCEPT ![p] = @ + 1]
  /\ pc' = [pc EXCEPT ![p][t] = "off"]
  /\ UNCHANGED <<left, apiVars, daemonVars, poolVars, enabled, monitor, waitVars, ipsecVars,
                 podVars>>

\* monitoring.Cancel sends on a channel with room for one message
Cancel(p, t) ==
  /\ Cleaning(p, t, "cancel") /\ stopChan[p] < 1
  /\ stopChan' = [stopChan EXCEPT ![p] = @ + 1]
  /\ pc' = [pc EXCEPT ![p][t] = "off"]
  /\ UNCHANGED <<left, apiVars, daemonVars, poolVars, enabled, monitor, waitVars, ipsecVars,
                 podVars>>

MonitoringOff(p, t) ==
  /\ Cleaning(p, t, "off")
  /\ enabled' = [enabled EXCEPT ![p] = FALSE]
  /\ pc' = [pc EXCEPT ![p][t] = AfterCleanup(t)]
  /\ UNCHANGED <<left, apiVars, daemonVars, poolVars, stopChan, monitor, waitVars, ipsecVars,
                 podVars>>

\* monitorThread takes the message and returns
MonitorThreadStops(p) ==
  /\ phase[p] = "up" /\ monitor[p] /\ stopChan[p] > 0
  /\ stopChan' = [stopChan EXCEPT ![p] = @ - 1]
  /\ monitor' = [monitor EXCEPT ![p] = FALSE]
  /\ UNCHANGED <<left, apiVars, daemonVars, poolVars, enabled, waitVars, ipsecVars, podVars, pc>>

\* main returns, which ends every goroutine
Exit(p) ==
  /\ phase[p] = "up" /\ pc[p].main = "exited"
  /\ deleted' = deleted /\ End(p)
  /\ UNCHANGED <<left, apiVars, daemonVars, pools>>

-----------------------------------------------------------------------------
(* The route daemon of a node.                                             *)

\* configMapUpdated starts: equal data changes nothing, else the old goes
Deliver(n) ==
  /\ at[n] = "idle" /\ feed[n] # <<>>
  /\ feed' = [feed EXCEPT ![n] = Tail(@)]
  /\ IF Head(feed[n]) = saved[n] THEN UNCHANGED daemonVars
     ELSE /\ saved' = [saved EXCEPT ![n] = 0]
          /\ target' = [target EXCEPT ![n] = Head(feed[n])]
          /\ at' = [at EXCEPT ![n] = "add"]
          /\ installed' = installed
  /\ UNCHANGED <<left, cm, version, poolVars, monitorVars, waitVars, ipsecVars, podVars, pc>>

\* The routes are added; on the pod's node, with SNAT rules, it is woken next
Install(n) ==
  /\ at[n] = "add"
  /\ saved' = [saved EXCEPT ![n] = target[n]]
  /\ installed' = [installed EXCEPT ![n] = @ \cup {target[n]}]
  /\ at' = [at EXCEPT ![n] = IF connectUsingVip /\ nodeOf[target[n]] = n THEN "dial" ELSE "idle"]
  /\ UNCHANGED <<left, apiVars, target, poolVars, monitorVars, waitVars, ipsecVars, podVars, pc>>

\* net.Dial, once; without a listener it fails and the daemon goes on
Dial(n) ==
  /\ at[n] = "dial"
  /\ woken' = [woken EXCEPT ![target[n]] = @ \/ listener[target[n]]]
  /\ at' = [at EXCEPT ![n] = "idle"]
  /\ UNCHANGED <<left, apiVars, saved, target, installed, poolVars, monitorVars, listener, got,
                 ipsecVars, podVars, pc>>

\* The watch breaks, and a list replaces the events not delivered
Relist(n) ==
  /\ Len(feed[n]) > 1 /\ Spend("relist")
  /\ feed' = [feed EXCEPT ![n] = <<cm>>]
  /\ UNCHANGED <<cm, version, daemonVars, poolVars, monitorVars, waitVars, ipsecVars, podVars, pc>>

-----------------------------------------------------------------------------
Init ==
  /\ left = Budget /\ cm = 0 /\ version = 1
  /\ pools = [s \in Subnets |-> 0]
  /\ feed = [n \in Nodes |-> <<>>]
  /\ saved = [n \in Nodes |-> 0] /\ target = [n \in Nodes |-> 0]
  /\ at = [n \in Nodes |-> "idle"] /\ installed = [n \in Nodes |-> {}]
  /\ phase = [p \in Pods |-> "new"] /\ deleted = [p \in Pods |-> FALSE]
  /\ pc = [p \in Pods |-> [main |-> "exited", sig |-> "none"]]
  /\ toMake = [p \in Pods |-> {}] /\ making = [p \in Pods |-> {}]
  /\ listed = [p \in Pods |-> 0] /\ excused = [p \in Pods |-> FALSE]
  /\ cleanup = [p \in Pods |-> {}]
  /\ toDelete = [p \in Pods |-> [t \in Threads |-> {}]]
  /\ enabled = [p \in Pods |-> FALSE] /\ monitor = [p \in Pods |-> FALSE]
  /\ stopChan = [p \in Pods |-> 0]
  /\ listener = [p \in Pods |-> FALSE] /\ woken = [p \in Pods |-> FALSE]
  /\ got = [p \in Pods |-> 0]
  /\ ipsec = [p \in Pods |-> "no"] /\ running = [p \in Pods |-> FALSE]

MainStep(p) ==
  \/ ListIPPools(p) \/ RemoveIPPool(p) \/ ApplyIPPool(p) \/ Append1(p) \/ Listen(p)
  \/ GetConfigMap(p) \/ PutConfigMap(p) \/ WaitRouteDaemon(p)
  \/ StartCmd(p) \/ StartRunning(p) \/ Wait(p) \/ Exit(p)

CleanupStep(p, t) ==
  DeleteIPPool(p, t) \/ CleanupDone(p, t) \/ CheckMonitoring(p, t) \/ Cancel(p, t)
    \/ MonitoringOff(p, t)

CalicoctlFails(p) ==
  ListFails(p) \/ RemoveFails(p) \/ ApplyFails(p) \/ \E t \in Threads : DeleteFails(p, t)

DaemonStep(n) == Deliver(n) \/ Install(n) \/ Dial(n)

KubeStep(p) == Deploy(p) \/ RestartContainer(p) \/ Delete(p)

Next ==
  \/ \E p \in Pods :
       \/ MainStep(p) \/ Stop(p) \/ IpsecStops(p) \/ MonitorThreadStops(p) \/ KubeStep(p)
       \/ IpsecFails(p) \/ Probe(p) \/ Kill(p) \/ GraceOver(p)
       \/ DeployEarly(p) \/ CalicoctlFails(p)
       \/ \E t \in Threads : CleanupStep(p, t)
  \/ \E n \in Nodes : DaemonStep(n) \/ Relist(n)

Spec == Init /\ [][Next]_vars

(***************************************************************************)
(* Goroutines that can run do run, ipsec stops when it is told to, the     *)
(* deployment and the kubelet do their work, and so do the daemons.        *)
(* Nothing is assumed of failures, probes and SIGKILL, nor of upgrades     *)
(* that do not wait.                                                       *)
(***************************************************************************)
Fairness ==
  /\ \A p \in Pods :
       /\ WF_vars(MainStep(p)) /\ WF_vars(Stop(p)) /\ WF_vars(IpsecStops(p))
       /\ WF_vars(MonitorThreadStops(p)) /\ WF_vars(KubeStep(p))
       /\ \A t \in Threads : WF_vars(CleanupStep(p, t))
  /\ \A n \in Nodes : WF_vars(DaemonStep(n))

FairSpec == Spec /\ Fairness

\* The kubelet also acts on its probes, and when a grace period is over
KubeletSpec == FairSpec /\ \A p \in Pods : WF_vars(Probe(p)) /\ WF_vars(GraceOver(p))

-----------------------------------------------------------------------------
(* Properties.                                                             *)

\* Type invariant: every variable holds a value of the kind the code gives it.
TypeOK ==
  /\ left \in [Events -> Nat \cup {-1}]
  /\ cm \in 0 .. N /\ version \in Nat \ {0}
  /\ pools \in [Subnets -> 0 .. N]
  /\ feed \in [Nodes -> Seq(Pods)]
  /\ saved \in [Nodes -> 0 .. N] /\ target \in [Nodes -> 0 .. N]
  /\ at \in [Nodes -> {"idle", "add", "dial"}] /\ installed \in [Nodes -> SUBSET (0 .. N)]
  /\ phase \in [Pods -> {"new", "up", "down", "over"}] /\ deleted \in [Pods -> BOOLEAN]
  /\ pc \in [Pods -> [main : Places, sig : {"none", "clean", "check", "cancel", "off", "stop", "done"}]]
  /\ toMake \in [Pods -> SUBSET Subnets] /\ making \in [Pods -> SUBSET Subnets]
  /\ listed \in [Pods -> 0 .. N] /\ excused \in [Pods -> BOOLEAN]
  /\ cleanup \in [Pods -> SUBSET Subnets]
  /\ toDelete \in [Pods -> [Threads -> SUBSET Subnets]]
  /\ enabled \in [Pods -> BOOLEAN] /\ monitor \in [Pods -> BOOLEAN]
  /\ stopChan \in [Pods -> 0 .. 1]
  /\ listener \in [Pods -> BOOLEAN] /\ woken \in [Pods -> BOOLEAN]
  /\ got \in [Pods -> Nat]
  /\ ipsec \in [Pods -> {"no", "up", "term", "gone"}] /\ running \in [Pods -> BOOLEAN]

\* The pods whose data the daemon of node n has to add still
Ahead(n) ==
  {target[n] : x \in {at[n]} \cap {"add"}} \cup {feed[n][i] : i \in DOMAIN feed[n]}

\* A pod that waits for its route daemon will be woken: the daemon of its node
\* has connected, is about to, or has the pod's data still to add.  Holds when
\* no container that has published is restarted, because vpnPodConfig opens the
\* listener before it updates the config map.
WakeUpComes ==
  \A p \in Pods :
    phase[p] = "up" /\ pc[p].main = "wait" /\ connectUsingVip /\ cm = p =>
      \/ woken[p] \/ p \in Ahead(nodeOf[p])
      \/ at[nodeOf[p]] = "dial" /\ target[nodeOf[p]] = p

\* ipsec starts only when the daemon of its node has installed the pod's own
\* SNAT rules, and they are there still, unless the data of a later pod is in
\* the config map by now.  Holds when no container that has published is
\* restarted: a pod that publishes again while the daemon is behind starts ipsec
\* too soon.
IpsecAfterSNAT ==
  [][\A p \in Pods : connectUsingVip /\ ipsec[p] = "no" /\ ipsec'[p] = "up" =>
       \/ saved[nodeOf[p]] = p
       \/ p \in installed[nodeOf[p]] /\ cm # p]_vars

\* vpnPodCleanup removes every IPPool of the pod before the process exits or
\* ipsec is stopped, also when main and handleSignal clean up at the same
\* time.  Excused are deletions that failed in calicoctl, and processes that got
\* SIGTERM while main was making their IPPools: theirs do stay, when the cleanup
\* of handleSignal resets cleanupCalico before main appends to it.
PoolsCleanedUp ==
  \A p \in Pods :
    phase[p] = "up" /\ ~excused[p] /\ (pc[p].main = "exited" \/ pc[p].sig \in {"stop", "done"})
      => \A s \in Subnets : pools[s] # p

\* A pod whose ipsec runs ends by itself when it is told to stop: ipsec is
\* stopped, Wait returns, and no send on the channel of the monitor blocks both
\* cleanups for ever.  Holds for a pod with running set: to one that StartCmd has
\* left without it, Stop does nothing, and only the kubelet's SIGKILL ends it.
SignalEndsPod ==
  \A p \in Pods :
    running[p] /\ pc[p].sig \in {"clean", "check", "cancel", "off", "stop"} ~> pc[p].sig = "none"

\* A rolling update that waits for ready pods ends with the newest one: it
\* runs ipsec, the config map and the kernel of every node are its own, and so
\* is each IPPool, also when a command of calicoctl fails on the way.
RollsOut ==
  <>[](\/ left["early"] < Budget["early"]
       \/ /\ Ready(N) /\ cm = N /\ \A n \in Nodes : saved[n] = N
          /\ \A s \in Subnets : (s = gateway => connectUsingVip) => pools[s] = N
          /\ \A p \in Pods \ {N} : phase[p] = "over")

\* "Kubernetes will restart the pod if it fails, but there will be a slight
\* down time while the new pod starts up and the VPN connection is
\* re-established" (helm/strongswan/README.md:235): a pod that comes to its wait
\* again and again is ready again and again.
VpnComesBack ==
  \A p \in Pods : []<>(phase[p] = "up" /\ pc[p].main = "wait") => []<>Ready(p)
=============================================================================
