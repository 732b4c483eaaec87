-------------------------- MODULE VpnClusterProofs --------------------------
(* Proofs about VpnCluster, for any number of revisions and nodes.          *)
EXTENDS VpnCluster, TLAPS

(* TypeOK.  The helpers that several actions share come first.              *)

SigPlaces == {"none", "clean", "check", "cancel", "off", "stop", "done"}

LEMMA SpendType ==
  ASSUME TypeOK, NEW event \in Events, Spend(event)
  PROVE  left' \in [Events -> Nat \cup {-1}]
  <1>1. left[event] \in Nat \cup {-1} /\ left[event] # 0
    BY DEF Spend, TypeOK
  <1>2. CASE left[event] < 0
    BY <1>2 DEF Spend, TypeOK
  <1>3. CASE ~(left[event] < 0)
    <2>1. left[event] - 1 \in Nat
      BY <1>1, <1>3
    <2>2. left' = [left EXCEPT ![event] = left[event] - 1]
      BY <1>3 DEF Spend
    <2>3. QED
      BY <2>1, <2>2 DEF TypeOK
  <1>4. QED
    BY <1>2, <1>3

LEMMA BootType ==
  ASSUME ClusterAssumption, TypeOK, NEW p \in Pods, Boot(p),
         left' \in [Events -> Nat \cup {-1}]
  PROVE  TypeOK'
  <1>1. phase' \in [Pods -> {"new", "up", "down", "over"}]
    BY DEF Boot, TypeOK
  <1>2. pc' \in [Pods -> [main : Places, sig : SigPlaces]]
    BY DEF Boot, TypeOK, Places, SigPlaces
  <1>3. enabled' \in [Pods -> BOOLEAN] /\ monitor' \in [Pods -> BOOLEAN]
    BY DEF Boot, vpnPodInit, vpnPodConfig, TypeOK, ClusterAssumption
  <1>4. toMake' \in [Pods -> SUBSET Subnets]
    BY DEF Boot, vpnPodConfig, TypeOK, Subnets
  <1>5. QED
    BY <1>1, <1>2, <1>3, <1>4 DEF Boot, TypeOK, apiVars, daemonVars, waitVars, ipsecVars, SigPlaces

\* The end of a process leaves every variable of it as it was before.
LEMMA EndType ==
  ASSUME ClusterAssumption, TypeOK, NEW p \in Pods, End(p), deleted' = deleted,
         left' \in [Events -> Nat \cup {-1}], UNCHANGED <<apiVars, daemonVars, pools>>
  PROVE  TypeOK'
  <1>1. phase' \in [Pods -> {"new", "up", "down", "over"}]
    BY DEF End, TypeOK
  <1>2. pc' \in [Pods -> [main : Places, sig : SigPlaces]]
    <2>1. "exited" \in Places /\ "none" \in SigPlaces
      BY DEF Places, SigPlaces
    <2>2. pc \in [Pods -> [main : Places, sig : SigPlaces]]
      BY DEF TypeOK, SigPlaces
    <2>3. QED
      BY <2>1, <2>2 DEF End
  <1>3. /\ toMake' \in [Pods -> SUBSET Subnets] /\ making' \in [Pods -> SUBSET Subnets]
        /\ cleanup' \in [Pods -> SUBSET Subnets]
    BY DEF End, TypeOK
  <1>8. listed' \in [Pods -> 0 .. N] /\ excused' \in [Pods -> BOOLEAN]
    BY DEF End, TypeOK, ClusterAssumption
  <1>4. toDelete' \in [Pods -> [Threads -> SUBSET Subnets]]
    BY DEF End, TypeOK
  <1>5. /\ enabled' \in [Pods -> BOOLEAN] /\ monitor' \in [Pods -> BOOLEAN]
        /\ listener' \in [Pods -> BOOLEAN] /\ woken' \in [Pods -> BOOLEAN]
        /\ running' \in [Pods -> BOOLEAN]
    BY DEF End, TypeOK
  <1>6. /\ stopChan' \in [Pods -> 0 .. 1] /\ got' \in [Pods -> Nat]
        /\ ipsec' \in [Pods -> {"no", "up", "term", "gone"}]
    BY DEF End, TypeOK
  <1>7. QED
    BY <1>1, <1>2, <1>3, <1>4, <1>5, <1>6, <1>8 DEF TypeOK, apiVars, daemonVars, SigPlaces

\* A step of a goroutine in vpnPodCleanup.
LEMMA CleanupPlace ==
  ASSUME TypeOK, NEW p \in Pods, NEW t \in Threads,
         NEW to \in {"clean", "check", "cancel", "off", AfterCleanup(t)},
         pc' = [pc EXCEPT ![p][t] = to]
  PROVE  pc' \in [Pods -> [main : Places, sig : SigPlaces]]
  <1>0. pc \in [Pods -> [main : Places, sig : SigPlaces]]
    BY DEF TypeOK, SigPlaces
  <1>1. CASE t = "main"
    <2>1. to \in Places
      BY <1>1 DEF Places, AfterCleanup
    <2>2. pc' = [pc EXCEPT ![p].main = to]
      BY <1>1
    <2>3. QED
      BY <1>0, <2>1, <2>2
  <1>2. CASE t = "sig"
    <2>1. to \in SigPlaces
      BY <1>2 DEF SigPlaces, AfterCleanup
    <2>2. pc' = [pc EXCEPT ![p].sig = to]
      BY <1>2
    <2>3. QED
      BY <1>0, <2>1, <2>2
  <1>3. QED
    BY <1>1, <1>2 DEF Threads

LEMMA StartCleanupType ==
  ASSUME TypeOK, NEW p \in Pods, NEW t \in Threads, StartCleanup(p, t)
  PROVE  /\ pc' \in [Pods -> [main : Places, sig : SigPlaces]]
         /\ toDelete' \in [Pods -> [Threads -> SUBSET Subnets]]
         /\ cleanup' \in [Pods -> SUBSET Subnets]
  <1>1. toDelete' \in [Pods -> [Threads -> SUBSET Subnets]] /\ cleanup' \in [Pods -> SUBSET Subnets]
    BY DEF StartCleanup, TypeOK
  <1>2. PICK to \in {"check", "clean"} : pc' = [pc EXCEPT ![p][t] = to]
    <2>1. CASE cleanup[p] = {}
      BY <2>1 DEF StartCleanup
    <2>2. CASE cleanup[p] # {}
      BY <2>2 DEF StartCleanup
    <2>3. QED
      BY <2>1, <2>2
  <1>3. QED
    BY <1>1, <1>2, CleanupPlace

LEMMA SignalledType ==
  ASSUME TypeOK, NEW p \in Pods, Signalled(p), left' \in [Events -> Nat \cup {-1}],
         deleted' \in [Pods -> BOOLEAN]
  PROVE  TypeOK'
  <1>1. StartCleanup(p, "sig") /\ "sig" \in Threads
    BY DEF Signalled, Threads
  <1>2. excused' \in [Pods -> BOOLEAN]
    BY DEF Signalled, TypeOK
  <1>3. QED
    BY <1>1, <1>2, StartCleanupType DEF Signalled, TypeOK, apiVars, daemonVars, makeVars,
       monitorVars, waitVars, ipsecVars, SigPlaces

\* A step of the goroutine main from one place to another.
LEMMA MainPlace ==
  ASSUME TypeOK, NEW p \in Pods, NEW from, NEW to \in Places, Main(p, from, to)
  PROVE  pc' \in [Pods -> [main : Places, sig : SigPlaces]]
  <1>1. pc \in [Pods -> [main : Places, sig : SigPlaces]]
    BY DEF TypeOK, SigPlaces
  <1>2. pc' = [pc EXCEPT ![p].main = to]
    BY DEF Main
  <1>3. QED
    BY <1>1, <1>2

\* What the deployment and the kubelet do keeps the types.
LEMMA KubeType ==
  ASSUME ClusterAssumption, TypeOK, NEW p \in Pods,
         KubeStep(p) \/ DeployEarly(p) \/ Probe(p) \/ Kill(p) \/ GraceOver(p)
  PROVE  TypeOK'
  <1>e. {"early", "probe", "crash"} \subseteq Events
    BY DEF Events
  <1>l. left \in [Events -> Nat \cup {-1}]
    BY DEF TypeOK
  <1>1. CASE Deploy(p)
    BY <1>1, <1>l, BootType DEF Deploy
  <1>8. CASE DeployEarly(p)
    BY <1>8, <1>e, BootType, SpendType DEF DeployEarly
  <1>2. CASE RestartContainer(p)
    BY <1>2, <1>l, BootType DEF RestartContainer
  <1>3. CASE Delete(p)
    <2>1. left' \in [Events -> Nat \cup {-1}] /\ deleted' \in [Pods -> BOOLEAN]
      BY <1>3 DEF Delete, TypeOK
    <2>2. CASE Signalled(p)
      BY <2>1, <2>2, SignalledType
    <2>3. CASE /\ phase' = [phase EXCEPT ![p] = "over"]
               /\ UNCHANGED <<apiVars, daemonVars, poolVars, monitorVars, waitVars, ipsecVars, pc>>
      <3>1. phase' \in [Pods -> {"new", "up", "down", "over"}]
        BY <2>3 DEF TypeOK
      <3>2. QED
        BY <2>1, <2>3, <3>1 DEF TypeOK, apiVars, daemonVars, poolVars, makeVars, monitorVars,
           waitVars, ipsecVars
    <2>4. CASE UNCHANGED <<apiVars, daemonVars, poolVars, monitorVars, waitVars, ipsecVars,
                           phase, pc>>
      BY <2>1, <2>4 DEF TypeOK, apiVars, daemonVars, poolVars, makeVars, monitorVars, waitVars,
         ipsecVars
    <2>5. QED
      BY <1>3, <2>2, <2>3, <2>4 DEF Delete
  <1>4. CASE Probe(p)
    <2>1. left' \in [Events -> Nat \cup {-1}] /\ deleted' \in [Pods -> BOOLEAN]
      BY <1>4, <1>e, SpendType DEF Probe, TypeOK
    <2>2. QED
      BY <1>4, <2>1, SignalledType DEF Probe
  <1>5. CASE Kill(p)
    BY <1>5, <1>e, SpendType, EndType DEF Kill
  <1>6. CASE GraceOver(p)
    BY <1>6, <1>l, EndType DEF GraceOver
  <1>7. QED
    BY <1>1, <1>2, <1>3, <1>4, <1>5, <1>6, <1>8 DEF KubeStep

LEMMA AsksType ==
  ASSUME TypeOK, NEW p \in Pods, NEW s, Asks(p, s)
  PROVE  /\ s \in Subnets
         /\ making' \in [Pods -> SUBSET Subnets] /\ toMake' \in [Pods -> SUBSET Subnets]
  <1>1. s \in Subnets
    BY DEF Asks, TypeOK
  <1>2. QED
    BY <1>1 DEF Asks, TypeOK

\* What calico.CreateIPPool does, and the failures of calicoctl, keep the types.
LEMMA IPPoolType ==
  ASSUME ClusterAssumption, TypeOK, NEW p \in Pods,
         ListIPPools(p) \/ RemoveIPPool(p) \/ ApplyIPPool(p) \/ Append1(p) \/ CalicoctlFails(p)
  PROVE  TypeOK'
  <1>p. {"list", "remove", "apply", "append"} \subseteq Places
    BY DEF Places
  <1>e. "fail" \in Events
    BY DEF Events
  <1>z. 0 \in 0 .. N /\ p \in 0 .. N
    BY DEF Pods, ClusterAssumption
  <1>1. CASE ListIPPools(p)
    <2>1. PICK s \in toMake[p] :
            /\ Asks(p, s) /\ Main(p, "list", IF pools[s] = 0 THEN "apply" ELSE "remove")
            /\ listed' = [listed EXCEPT ![p] = pools[s]]
      BY <1>1 DEF ListIPPools
    <2>2. pc' \in [Pods -> [main : Places, sig : SigPlaces]]
      BY <1>p, <2>1, MainPlace
    <2>3. listed' \in [Pods -> 0 .. N]
      BY <2>1, AsksType DEF TypeOK
    <2>4. QED
      BY <1>1, <2>1, <2>2, <2>3, AsksType DEF ListIPPools, TypeOK, apiVars, daemonVars,
         monitorVars, waitVars, ipsecVars, podVars, SigPlaces
  <1>2. CASE RemoveIPPool(p) \/ RemoveFails(p)
    <2>1. pc' \in [Pods -> [main : Places, sig : SigPlaces]]
      BY <1>2, <1>p, MainPlace DEF RemoveIPPool, RemoveFails
    <2>2. pools' \in [Subnets -> 0 .. N]
      BY <1>2, <1>z DEF RemoveIPPool, RemoveFails, TypeOK
    <2>3. listed' \in [Pods -> 0 .. N]
      BY <1>2, <1>z DEF RemoveIPPool, RemoveFails, TypeOK
    <2>4. left' \in [Events -> Nat \cup {-1}]
      BY <1>2, <1>e, SpendType DEF RemoveIPPool, RemoveFails, TypeOK
    <2>5. QED
      BY <1>2, <2>1, <2>2, <2>3, <2>4 DEF RemoveIPPool, RemoveFails, TypeOK, apiVars, daemonVars,
         monitorVars, waitVars, ipsecVars, podVars, SigPlaces
  <1>3. CASE ApplyIPPool(p) \/ ApplyFails(p)
    <2>1. CASE deleted' = deleted /\ End(p) /\ UNCHANGED <<apiVars, daemonVars, pools>>
      <3>1. left' \in [Events -> Nat \cup {-1}]
        BY <1>3, <1>e, SpendType DEF ApplyIPPool, ApplyFails, TypeOK
      <3>2. QED
        BY <2>1, <3>1, EndType
    <2>2. CASE /\ Main(p, "apply", "append")
               /\ pools' = [s \in Subnets |-> IF s \in making[p] THEN p ELSE pools[s]]
               /\ UNCHANGED <<left, apiVars, daemonVars, makeVars, cleanup, toDelete, excused,
                              monitorVars, waitVars, ipsecVars, podVars>>
      <3>1. pc' \in [Pods -> [main : Places, sig : SigPlaces]]
        BY <1>p, <2>2, MainPlace
      <3>2. pools' \in [Subnets -> 0 .. N]
        BY <1>z, <2>2 DEF TypeOK
      <3>3. QED
        BY <2>2, <3>1, <3>2 DEF TypeOK, apiVars, daemonVars, makeVars, monitorVars, waitVars,
           ipsecVars, podVars, SigPlaces
    <2>3. QED
      BY <1>3, <2>1, <2>2 DEF ApplyIPPool, ApplyFails
  <1>4. CASE Append1(p)
    <2>1. pc' \in [Pods -> [main : Places, sig : SigPlaces]]
      BY <1>4, <1>p, MainPlace DEF Append1
    <2>2. making' \in [Pods -> SUBSET Subnets] /\ cleanup' \in [Pods -> SUBSET Subnets]
      BY <1>4 DEF Append1, TypeOK
    <2>3. QED
      BY <1>4, <2>1, <2>2 DEF Append1, TypeOK, apiVars, daemonVars, monitorVars, waitVars,
         ipsecVars, podVars, SigPlaces
  <1>5. CASE ListFails(p)
    <2>1. PICK s : Asks(p, s)
      BY <1>5 DEF ListFails
    <2>2. pc' \in [Pods -> [main : Places, sig : SigPlaces]]
      BY <1>5, <1>p, MainPlace DEF ListFails
    <2>3. left' \in [Events -> Nat \cup {-1}]
      BY <1>5, <1>e, SpendType DEF ListFails
    <2>4. QED
      BY <1>5, <2>1, <2>2, <2>3, AsksType DEF ListFails, TypeOK, apiVars, daemonVars,
         monitorVars, waitVars, ipsecVars, podVars, SigPlaces
  <1>6. ASSUME NEW t \in Threads, DeleteFails(p, t)
        PROVE  TypeOK'
    <2>1. toDelete' \in [Pods -> [Threads -> SUBSET Subnets]]
      BY <1>6 DEF DeleteFails, TypeOK
    <2>2. excused' \in [Pods -> BOOLEAN]
      BY <1>6 DEF DeleteFails, TypeOK
    <2>3. left' \in [Events -> Nat \cup {-1}]
      BY <1>6, <1>e, SpendType DEF DeleteFails
    <2>4. QED
      BY <1>6, <2>1, <2>2, <2>3 DEF DeleteFails, TypeOK, apiVars, daemonVars, makeVars,
         monitorVars, waitVars, ipsecVars, podVars
  <1>7. QED
    BY <1>1, <1>2, <1>3, <1>4, <1>5, <1>6 DEF CalicoctlFails

\* What main does from there to its wait keeps the types.
LEMMA ConfigType ==
  ASSUME ClusterAssumption, TypeOK, NEW p \in Pods,
         Listen(p) \/ GetConfigMap(p) \/ PutConfigMap(p)
  PROVE  TypeOK'
  <1>p. {"get", "put", "wait"} \subseteq Places
    BY DEF Places
  <1>3. CASE Listen(p)
    <2>1. pc' \in [Pods -> [main : Places, sig : SigPlaces]]
      BY <1>3, <1>p, MainPlace DEF Listen
    <2>2. listener' \in [Pods -> BOOLEAN]
      BY <1>3 DEF Listen, TypeOK, ClusterAssumption
    <2>3. QED
      BY <1>3, <2>1, <2>2 DEF Listen, TypeOK, apiVars, daemonVars, poolVars, makeVars, monitorVars,
         ipsecVars, podVars, SigPlaces
  <1>4. CASE GetConfigMap(p)
    <2>1. pc' \in [Pods -> [main : Places, sig : SigPlaces]]
      BY <1>4, <1>p, MainPlace DEF GetConfigMap
    <2>2. got' \in [Pods -> Nat]
      BY <1>4 DEF GetConfigMap, TypeOK
    <2>3. QED
      BY <1>4, <2>1, <2>2 DEF GetConfigMap, TypeOK, apiVars, daemonVars, poolVars, makeVars,
         monitorVars, ipsecVars, podVars, SigPlaces
  <1>5. CASE PutConfigMap(p)
    <2>1. CASE deleted' = deleted /\ End(p) /\ UNCHANGED <<left, apiVars, daemonVars, pools>>
      <3>1. left' \in [Events -> Nat \cup {-1}]
        BY <2>1 DEF TypeOK
      <3>2. QED
        BY <2>1, <3>1, EndType
    <2>2. CASE /\ Main(p, "put", "wait")
               /\ IF cm = p THEN UNCHANGED apiVars
                  ELSE /\ cm' = p /\ version' = version + 1
                       /\ feed' = [n \in Nodes |-> Append(feed[n], p)]
               /\ UNCHANGED <<left, daemonVars, poolVars, monitorVars, waitVars, ipsecVars, podVars>>
      <3>1. pc' \in [Pods -> [main : Places, sig : SigPlaces]]
        BY <2>2, <1>p, MainPlace
      <3>2. cm' \in 0 .. N /\ version' \in Nat \ {0} /\ feed' \in [Nodes -> Seq(Pods)]
        <4>1. CASE UNCHANGED apiVars
          BY <4>1 DEF TypeOK, apiVars
        <4>2. CASE /\ cm' = p /\ version' = version + 1
                   /\ feed' = [n \in Nodes |-> Append(feed[n], p)]
          <5>1. \A n \in Nodes : Append(feed[n], p) \in Seq(Pods)
            BY DEF TypeOK
          <5>2. cm' \in 0 .. N
            BY <4>2 DEF Pods, ClusterAssumption
          <5>3. version' \in Nat \ {0}
            BY <4>2 DEF TypeOK
          <5>4. QED
            BY <4>2, <5>1, <5>2, <5>3
        <4>3. CASE cm = p
          BY <2>2, <4>1, <4>3
        <4>4. CASE cm # p
          BY <2>2, <4>2, <4>4
        <4>5. QED
          BY <4>3, <4>4
      <3>3. QED
        BY <2>2, <3>1, <3>2 DEF TypeOK, daemonVars, poolVars, makeVars, monitorVars, waitVars,
           ipsecVars, podVars, SigPlaces
    <2>3. QED
      BY <1>5, <2>1, <2>2 DEF PutConfigMap
  <1>6. QED
    BY <1>3, <1>4, <1>5

\* Running ipsec, and the end of the process, keep the types.
LEMMA RunType ==
  ASSUME ClusterAssumption, TypeOK, NEW p \in Pods,
         \/ WaitRouteDaemon(p) \/ StartCmd(p) \/ StartRunning(p) \/ Wait(p) \/ Exit(p)
         \/ Stop(p) \/ IpsecStops(p) \/ IpsecFails(p) \/ MonitorThreadStops(p)
  PROVE  TypeOK'
  <1>p. {"wait", "start", "started", "run"} \subseteq Places
    BY DEF Places
  <1>1. CASE WaitRouteDaemon(p)
    <2>1. pc' \in [Pods -> [main : Places, sig : SigPlaces]]
      BY <1>1, <1>p, MainPlace DEF WaitRouteDaemon
    <2>2. listener' \in [Pods -> BOOLEAN] /\ woken' \in [Pods -> BOOLEAN]
      BY <1>1 DEF WaitRouteDaemon, TypeOK
    <2>3. QED
      BY <1>1, <2>1, <2>2 DEF WaitRouteDaemon, TypeOK, apiVars, daemonVars, poolVars, makeVars,
         monitorVars, ipsecVars, podVars, SigPlaces
  <1>2. CASE StartCmd(p)
    <2>1. pc' \in [Pods -> [main : Places, sig : SigPlaces]]
      BY <1>2, <1>p, MainPlace DEF StartCmd
    <2>2. ipsec' \in [Pods -> {"no", "up", "term", "gone"}]
      BY <1>2 DEF StartCmd, TypeOK
    <2>3. QED
      BY <1>2, <2>1, <2>2 DEF StartCmd, TypeOK, apiVars, daemonVars, poolVars, makeVars,
         monitorVars, waitVars, podVars, SigPlaces
  <1>3. CASE StartRunning(p)
    <2>1. pc' \in [Pods -> [main : Places, sig : SigPlaces]]
      BY <1>3, <1>p, MainPlace DEF StartRunning
    <2>2. running' \in [Pods -> BOOLEAN]
      BY <1>3 DEF StartRunning, TypeOK
    <2>3. QED
      BY <1>3, <2>1, <2>2 DEF StartRunning, TypeOK, apiVars, daemonVars, poolVars, makeVars,
         monitorVars, waitVars, podVars, SigPlaces
  <1>4. CASE Wait(p)
    <2>1. StartCleanup(p, "main") /\ "main" \in Threads
      BY <1>4 DEF Wait, Threads
    <2>2. QED
      BY <1>4, <2>1, StartCleanupType DEF Wait, TypeOK, apiVars, makeVars, daemonVars, monitorVars,
         waitVars, ipsecVars, podVars, SigPlaces
  <1>5. CASE Exit(p)
    <2>1. left' \in [Events -> Nat \cup {-1}]
      BY <1>5 DEF Exit, TypeOK
    <2>2. QED
      BY <1>5, <2>1, EndType DEF Exit
  <1>6. CASE Stop(p)
    <2>0. left' \in [Events -> Nat \cup {-1}] /\ UNCHANGED <<apiVars, daemonVars, pools, deleted>>
      BY <1>6 DEF Stop, TypeOK
    <2>1. CASE /\ pc' = [pc EXCEPT ![p].sig = "done"]
               /\ ipsec' = [ipsec EXCEPT ![p] = IF running[p] /\ @ = "up" THEN "term" ELSE @]
               /\ running' = [running EXCEPT ![p] = FALSE]
               /\ UNCHANGED <<poolVars, monitorVars, waitVars, phase>>
      <3>1. pc' \in [Pods -> [main : Places, sig : SigPlaces]]
        <4>1. pc \in [Pods -> [main : Places, sig : SigPlaces]] /\ "done" \in SigPlaces
          BY DEF TypeOK, SigPlaces
        <4>2. QED
          BY <2>1, <4>1
      <3>2. ipsec' \in [Pods -> {"no", "up", "term", "gone"}]
        <4>1. PICK v \in {"term", ipsec[p]} : ipsec' = [ipsec EXCEPT ![p] = v]
          BY <2>1
        <4>2. v \in {"no", "up", "term", "gone"}
          BY DEF TypeOK
        <4>3. QED
          BY <4>1, <4>2 DEF TypeOK
      <3>3. running' \in [Pods -> BOOLEAN]
        BY <2>1 DEF TypeOK
      <3>4. QED
        BY <2>0, <2>1, <3>1, <3>2, <3>3 DEF TypeOK, apiVars, daemonVars, poolVars, makeVars,
           monitorVars, waitVars, SigPlaces
    <2>2. CASE End(p)
      BY <2>0, <2>2, EndType
    <2>3. QED
      BY <1>6, <2>1, <2>2 DEF Stop
  <1>7. CASE IpsecStops(p) \/ IpsecFails(p)
    <2>1. left' \in [Events -> Nat \cup {-1}]
      <3>1. "crash" \in Events
        BY DEF Events
      <3>2. QED
        BY <1>7, <3>1, SpendType DEF IpsecStops, IpsecFails, TypeOK
    <2>2. ipsec' \in [Pods -> {"no", "up", "term", "gone"}]
      <3>1. ipsec' = [ipsec EXCEPT ![p] = "gone"]
        BY <1>7 DEF IpsecStops, IpsecFails
      <3>2. QED
        BY <3>1 DEF TypeOK
    <2>3. QED
      BY <1>7, <2>1, <2>2 DEF IpsecStops, IpsecFails, TypeOK, apiVars, daemonVars, poolVars,
         makeVars, monitorVars, waitVars, podVars
  <1>8. CASE MonitorThreadStops(p)
    <2>1. monitor' \in [Pods -> BOOLEAN]
      BY <1>8 DEF MonitorThreadStops, TypeOK
    <2>2. stopChan' \in [Pods -> 0 .. 1]
      BY <1>8 DEF MonitorThreadStops, TypeOK
    <2>3. QED
      BY <1>8, <2>1, <2>2 DEF MonitorThreadStops, TypeOK, apiVars, daemonVars, poolVars, makeVars,
         waitVars, ipsecVars, podVars
  <1>9. QED
    BY <1>1, <1>2, <1>3, <1>4, <1>5, <1>6, <1>7, <1>8

LEMMA CleanupType ==
  ASSUME ClusterAssumption, TypeOK, NEW p \in Pods, NEW t \in Threads, CleanupStep(p, t)
  PROVE  TypeOK'
  <1>1. CASE DeleteIPPool(p, t)
    <2>1. PICK s \in toDelete[p][t] :
            /\ pools' = [pools EXCEPT ![s] = IF @ = p THEN 0 ELSE @]
            /\ toDelete' = [toDelete EXCEPT ![p][t] = @ \ {s}]
      BY <1>1 DEF DeleteIPPool
    <2>2. pools' \in [Subnets -> 0 .. N]
      BY <2>1 DEF TypeOK, ClusterAssumption
    <2>3. toDelete' \in [Pods -> [Threads -> SUBSET Subnets]]
      BY <2>1 DEF TypeOK
    <2>4. QED
      BY <1>1, <2>2, <2>3 DEF DeleteIPPool, TypeOK, apiVars, daemonVars, makeVars, monitorVars,
         waitVars, ipsecVars, podVars
  <1>2. CASE CleanupDone(p, t)
    <2>1. cleanup' \in [Pods -> SUBSET Subnets]
      BY <1>2 DEF CleanupDone, TypeOK
    <2>2. pc' \in [Pods -> [main : Places, sig : SigPlaces]]
      BY <1>2, CleanupPlace DEF CleanupDone
    <2>3. QED
      BY <1>2, <2>1, <2>2 DEF CleanupDone, TypeOK, apiVars, daemonVars, makeVars, monitorVars,
         waitVars, ipsecVars, podVars, SigPlaces
  <1>3. CASE CheckMonitoring(p, t)
    <2>1. pc' \in [Pods -> [main : Places, sig : SigPlaces]]
      BY <1>3, CleanupPlace DEF CheckMonitoring
    <2>2. QED
      BY <1>3, <2>1 DEF CheckMonitoring, TypeOK, apiVars, daemonVars, poolVars, makeVars,
         monitorVars, waitVars, ipsecVars, podVars, SigPlaces
  <1>4. CASE Cancel(p, t)
    <2>1. pc' \in [Pods -> [main : Places, sig : SigPlaces]]
      BY <1>4, CleanupPlace DEF Cancel
    <2>2. stopChan' \in [Pods -> 0 .. 1]
      <3>1. stopChan[p] \in 0 .. 1 /\ stopChan[p] < 1
        BY <1>4 DEF Cancel, TypeOK
      <3>2. stopChan[p] + 1 \in 0 .. 1
        BY <3>1
      <3>3. QED
        BY <1>4, <3>2 DEF Cancel, TypeOK
    <2>3. QED
      BY <1>4, <2>1, <2>2 DEF Cancel, TypeOK, apiVars, daemonVars, poolVars, makeVars, waitVars,
         ipsecVars, podVars, SigPlaces
  <1>5. CASE MonitoringOff(p, t)
    <2>1. pc' \in [Pods -> [main : Places, sig : SigPlaces]]
      BY <1>5, CleanupPlace DEF MonitoringOff
    <2>2. enabled' \in [Pods -> BOOLEAN]
      BY <1>5 DEF MonitoringOff, TypeOK
    <2>3. QED
      BY <1>5, <2>1, <2>2 DEF MonitoringOff, TypeOK, apiVars, daemonVars, poolVars, makeVars,
         waitVars, ipsecVars, podVars, SigPlaces
  <1>6. QED
    BY <1>1, <1>2, <1>3, <1>4, <1>5 DEF CleanupStep

\* The callbacks of a route daemon, and a new list, keep the types; what is in
\* a feed is in the config map by then.
LEMMA DaemonType ==
  ASSUME ClusterAssumption, TypeOK, NEW n \in Nodes,
         DaemonStep(n) \/ Relist(n), feed[n] # <<>> => cm \in Pods
  PROVE  TypeOK'
  <1>1. CASE Deliver(n)
    <2>1. Head(feed[n]) \in Pods /\ Tail(feed[n]) \in Seq(Pods)
      BY <1>1 DEF Deliver, TypeOK
    <2>2. feed' \in [Nodes -> Seq(Pods)]
      BY <1>1, <2>1 DEF Deliver, TypeOK
    <2>3. /\ saved' \in [Nodes -> 0 .. N] /\ target' \in [Nodes -> 0 .. N]
          /\ at' \in [Nodes -> {"idle", "add", "dial"}]
      <3>1. CASE UNCHANGED daemonVars
        BY <3>1 DEF daemonVars, TypeOK
      <3>2. CASE /\ saved' = [saved EXCEPT ![n] = 0]
                 /\ target' = [target EXCEPT ![n] = Head(feed[n])]
                 /\ at' = [at EXCEPT ![n] = "add"]
        <4>1. Head(feed[n]) \in 0 .. N /\ 0 \in 0 .. N
          BY <2>1 DEF Pods, ClusterAssumption
        <4>2. QED
          BY <3>2, <4>1 DEF TypeOK
      <3>3. QED
        BY <1>1, <3>1, <3>2 DEF Deliver
    <2>5. UNCHANGED installed
      BY <1>1 DEF Deliver, daemonVars
    <2>4. QED
      BY <1>1, <2>2, <2>3, <2>5 DEF Deliver, TypeOK, poolVars, makeVars, monitorVars, waitVars,
         ipsecVars, podVars
  <1>2. CASE Install(n)
    <2>1. saved' \in [Nodes -> 0 .. N]
      BY <1>2 DEF Install, TypeOK
    <2>5. installed' \in [Nodes -> SUBSET (0 .. N)]
      BY <1>2 DEF Install, TypeOK
    <2>2. at' = [at EXCEPT ![n] = "dial"] \/ at' = [at EXCEPT ![n] = "idle"]
      BY <1>2 DEF Install
    <2>3. at' \in [Nodes -> {"idle", "add", "dial"}]
      BY <2>2 DEF TypeOK
    <2>4. QED
      BY <1>2, <2>1, <2>3, <2>5 DEF Install, TypeOK, apiVars, poolVars, makeVars, monitorVars,
         waitVars, ipsecVars, podVars
  <1>3. CASE Dial(n)
    <2>1. at' \in [Nodes -> {"idle", "add", "dial"}]
      BY <1>3 DEF Dial, TypeOK
    <2>2. woken' \in [Pods -> BOOLEAN]
      BY <1>3 DEF Dial, TypeOK
    <2>3. QED
      BY <1>3, <2>1, <2>2 DEF Dial, TypeOK, apiVars, poolVars, makeVars, monitorVars, ipsecVars,
         podVars
  <1>4. CASE Relist(n)
    <2>1. left' \in [Events -> Nat \cup {-1}]
      <3>1. "relist" \in Events
        BY DEF Events
      <3>2. QED
        BY <1>4, <3>1, SpendType DEF Relist
    <2>2. feed' \in [Nodes -> Seq(Pods)]
      <3>1. feed[n] # <<>> /\ cm \in Pods
        BY <1>4 DEF Relist, TypeOK
      <3>2. QED
        BY <1>4, <3>1 DEF Relist, TypeOK
    <2>3. QED
      BY <1>4, <2>1, <2>2 DEF Relist, TypeOK, daemonVars, poolVars, makeVars, monitorVars, waitVars,
         ipsecVars, podVars
  <1>5. QED
    BY <1>1, <1>2, <1>3, <1>4 DEF DaemonStep

\* No event comes before the first data.
FeedAfterData == \A n \in Nodes : feed[n] # <<>> => cm \in Pods

ClusterInv == TypeOK /\ FeedAfterData

LEMMA InitCluster ==
  ASSUME ClusterAssumption, Init
  PROVE  ClusterInv
  <1>1. FeedAfterData
    BY DEF Init, FeedAfterData
  <1>2. /\ enabled \in [Pods -> BOOLEAN] /\ monitor \in [Pods -> BOOLEAN]
        /\ listener \in [Pods -> BOOLEAN] /\ woken \in [Pods -> BOOLEAN]
        /\ running \in [Pods -> BOOLEAN] /\ deleted \in [Pods -> BOOLEAN]
    BY DEF Init
  <1>3. left \in [Events -> Nat \cup {-1}]
    BY DEF Init, ClusterAssumption
  <1>4. pc \in [Pods -> [main : Places, sig : SigPlaces]]
    BY DEF Init, Places, SigPlaces
  <1>5. /\ toMake \in [Pods -> SUBSET Subnets] /\ making \in [Pods -> SUBSET Subnets]
        /\ listed \in [Pods -> 0 .. N] /\ excused \in [Pods -> BOOLEAN]
        /\ installed \in [Nodes -> SUBSET (0 .. N)]
        /\ cleanup \in [Pods -> SUBSET Subnets]
        /\ toDelete \in [Pods -> [Threads -> SUBSET Subnets]]
    BY DEF Init, ClusterAssumption
  <1>6. /\ cm \in 0 .. N /\ version \in Nat \ {0} /\ pools \in [Subnets -> 0 .. N]
        /\ saved \in [Nodes -> 0 .. N] /\ target \in [Nodes -> 0 .. N]
        /\ stopChan \in [Pods -> 0 .. 1] /\ got \in [Pods -> Nat]
    BY DEF Init, ClusterAssumption
  <1>7. /\ feed \in [Nodes -> Seq(Pods)] /\ at \in [Nodes -> {"idle", "add", "dial"}]
        /\ phase \in [Pods -> {"new", "up", "down", "over"}]
        /\ ipsec \in [Pods -> {"no", "up", "term", "gone"}]
    BY DEF Init
  <1>8. QED
    BY <1>1, <1>2, <1>3, <1>4, <1>5, <1>6, <1>7 DEF ClusterInv, TypeOK, SigPlaces

LEMMA FeedStep ==
  ASSUME ClusterAssumption, ClusterInv, Next
  PROVE  FeedAfterData'
  <1>1. CASE UNCHANGED <<cm, feed>>
    BY <1>1 DEF ClusterInv, FeedAfterData
  <1>2. ASSUME NEW p \in Pods, cm' = p
        PROVE  FeedAfterData'
    BY <1>2 DEF FeedAfterData
  <1>3. ASSUME NEW n \in Nodes, Deliver(n) \/ Relist(n)
        PROVE  FeedAfterData'
    <2>1. feed[n] # <<>> /\ UNCHANGED cm
      BY <1>3 DEF Deliver, Relist, ClusterInv, TypeOK
    <2>2. \A m \in Nodes \ {n} : feed'[m] = feed[m]
      BY <1>3 DEF Deliver, Relist, ClusterInv, TypeOK
    <2>3. QED
      BY <2>1, <2>2 DEF ClusterInv, FeedAfterData
  <1>4. ASSUME NEW p \in Pods, PutConfigMap(p)
        PROVE  FeedAfterData'
    BY <1>1, <1>2, <1>4 DEF PutConfigMap, apiVars
  <1>5. QED
    BY <1>1, <1>3, <1>4 DEF Next, MainStep, CleanupStep, DaemonStep, KubeStep, ListIPPools,
       RemoveIPPool, ApplyIPPool, ListFails, RemoveFails, ApplyFails, DeleteFails, CalicoctlFails,
       DeployEarly, Append1, Listen, GetConfigMap, WaitRouteDaemon, StartCmd, StartRunning, Wait,
       Exit, Stop, IpsecStops, IpsecFails, MonitorThreadStops, Deploy, RestartContainer, Delete,
       Signalled, Boot, Probe, Kill, GraceOver, DeleteIPPool, CleanupDone, CheckMonitoring, Cancel,
       MonitoringOff, Install, Dial, apiVars

LEMMA ClusterStep ==
  ASSUME ClusterAssumption, ClusterInv, [Next]_vars
  PROVE  ClusterInv'
  <1>1. CASE UNCHANGED vars
    BY <1>1 DEF vars, apiVars, daemonVars, poolVars, makeVars, monitorVars, waitVars, ipsecVars,
       podVars, ClusterInv, TypeOK, FeedAfterData
  <1>2. CASE Next
    <2>1. TypeOK'
      BY <1>2, KubeType, IPPoolType, ConfigType, RunType, CleanupType, DaemonType
         DEF Next, MainStep, ClusterInv, FeedAfterData
    <2>2. QED
      BY <1>2, <2>1, FeedStep DEF ClusterInv
  <1>3. QED
    BY <1>1, <1>2

\* Every variable keeps its type, for any number of revisions and nodes and
\* any budget of failures (strongswan.go, shell.go, the route daemons).
THEOREM ClusterTypeCorrect ==
  ASSUME ClusterAssumption
  PROVE  Spec => []TypeOK
  <1>1. Init => ClusterInv
    BY InitCluster
  <1>2. ClusterInv /\ [Next]_vars => ClusterInv'
    BY ClusterStep
  <1>3. ClusterInv => TypeOK
    BY DEF ClusterInv
  <1>4. QED
    BY <1>1, <1>2, <1>3, PTL DEF Spec

-----------------------------------------------------------------------------
(* PoolsCleanedUp.  Unless the pod is excused, vpnPodCleanup knows each of its *)
(* IPPools, or main has still to make it, and then no cleanup has begun; and  *)
(* while main and handleSignal both clean up, neither forgets what the other  *)
(* has not yet deleted.                                                       *)

Needed == poolSubnets \cup {g \in {gateway} : connectUsingVip}
Mine(p) == {s \in Subnets : pools[s] = p}

Stopped(p) == phase[p] # "up" => pc[p] = [main |-> "exited", sig |-> "none"]
SignalLate(p) ==
  ~excused[p] /\ pc[p].sig # "none" => toMake[p] = {} /\ making[p] = {}
OnlyNeeded(p) == Mine(p) \cup toMake[p] \cup making[p] \subseteq Needed
MadeByMain(p) ==
  /\ pc[p].main \notin {"remove", "apply", "append"} => making[p] = {}
  /\ pc[p].main \notin {"list", "remove", "apply", "append"} => toMake[p] = {}
Known(p) ==
  phase[p] = "up" /\ ~excused[p] => Mine(p) \subseteq cleanup[p] \cup making[p] \cup toMake[p]
StillToDelete(p) ==
  ~excused[p] =>
    /\ pc[p].main = "clean" => Mine(p) \subseteq toDelete[p]["main"]
    /\ pc[p].sig = "clean" => Mine(p) \subseteq toDelete[p]["sig"]
Deleted(p) ==
  /\ ~excused[p]
  /\ \/ pc[p].main \in {"check", "cancel", "off"}
     \/ phase[p] = "up" /\ pc[p].main = "exited"
     \/ pc[p].sig \in {"check", "cancel", "off", "stop", "done"}
  => Mine(p) = {}

PodPools(p) ==
  /\ Stopped(p) /\ SignalLate(p) /\ OnlyNeeded(p) /\ MadeByMain(p)
  /\ Known(p) /\ StillToDelete(p) /\ Deleted(p)

\* A step that leaves a pod alone may only take IPPools away from it.
LEMMA LeftAlone ==
  ASSUME NEW p, PodPools(p), Mine(p)' \subseteq Mine(p),
         UNCHANGED <<pc[p], phase[p], toMake[p], making[p], cleanup[p], toDelete[p], excused[p]>>
  PROVE  PodPools(p)'
  BY DEF PodPools, Stopped, SignalLate, OnlyNeeded, MadeByMain, Known, StillToDelete, Deleted

\* What a pod, the kubelet and the deployment do to one pod leaves the others
\* alone, except that it may replace their IPPools.
PodStep(p) ==
  \/ MainStep(p) \/ Stop(p) \/ IpsecStops(p) \/ MonitorThreadStops(p) \/ KubeStep(p)
  \/ IpsecFails(p) \/ Probe(p) \/ Kill(p) \/ GraceOver(p)
  \/ DeployEarly(p) \/ CalicoctlFails(p)
  \/ \E t \in Threads : CleanupStep(p, t)

LEMMA OtherVariables ==
  ASSUME TypeOK, NEW p \in Pods, NEW q \in Pods \ {p}, PodStep(q)
  PROVE  UNCHANGED <<pc[p], phase[p], toMake[p], making[p], cleanup[p], toDelete[p], excused[p]>>
  <1>1. CASE MainStep(q)
    BY <1>1 DEF MainStep, TypeOK, ListIPPools, RemoveIPPool, ApplyIPPool, Asks, Append1, Listen,
       GetConfigMap, PutConfigMap, WaitRouteDaemon, StartCmd, StartRunning, Wait, StartCleanup,
       Exit, End, Main, poolVars, makeVars, podVars
  <1>2. CASE KubeStep(q) \/ DeployEarly(q)
    BY <1>2 DEF KubeStep, Deploy, DeployEarly, RestartContainer, Delete, Boot, vpnPodConfig,
       Signalled, StartCleanup, TypeOK, poolVars, makeVars, podVars
  <1>3. CASE Probe(q) \/ Kill(q) \/ GraceOver(q)
    BY <1>3 DEF Probe, Kill, GraceOver, Signalled, StartCleanup, End, TypeOK, poolVars, makeVars,
       podVars
  <1>4. CASE Stop(q) \/ IpsecStops(q) \/ IpsecFails(q) \/ MonitorThreadStops(q)
    BY <1>4 DEF Stop, End, IpsecStops, IpsecFails, MonitorThreadStops, TypeOK, poolVars, makeVars,
       podVars
  <1>5. CASE CalicoctlFails(q)
    BY <1>5 DEF CalicoctlFails, ListFails, RemoveFails, ApplyFails, DeleteFails, Asks, Main, End,
       TypeOK, poolVars, makeVars, podVars
  <1>6. ASSUME NEW t \in Threads, CleanupStep(q, t)
        PROVE  UNCHANGED <<pc[p], phase[p], toMake[p], making[p], cleanup[p], toDelete[p],
                           excused[p]>>
    BY <1>6 DEF CleanupStep, DeleteIPPool, CleanupDone, CheckMonitoring, Cancel, MonitoringOff,
       TypeOK, poolVars, makeVars, podVars
  <1>7. QED
    BY <1>1, <1>2, <1>3, <1>4, <1>5, <1>6 DEF PodStep

\* The IPPools only change when one is removed, applied or deleted.
LEMMA PoolsKept ==
  ASSUME NEW q \in Pods, PodStep(q)
  PROVE  \/ RemoveIPPool(q) \/ ApplyIPPool(q) \/ (\E t \in Threads : DeleteIPPool(q, t))
         \/ UNCHANGED pools
  BY DEF PodStep, MainStep, KubeStep, CleanupStep, CalicoctlFails, ListIPPools, ListFails,
     RemoveFails, ApplyFails, DeleteFails, Append1, Listen, GetConfigMap, PutConfigMap,
     WaitRouteDaemon, StartCmd, StartRunning, Wait, Exit, Stop, IpsecStops, IpsecFails,
     MonitorThreadStops, Deploy, DeployEarly, RestartContainer, Delete, Boot, Signalled, Probe,
     Kill, GraceOver, CleanupDone, CheckMonitoring, Cancel, MonitoringOff, poolVars

LEMMA OtherPools ==
  ASSUME TypeOK, NEW p \in Pods, NEW q \in Pods \ {p}, PodStep(q)
  PROVE  Mine(p)' \subseteq Mine(p)
  <1>0. p # 0
    BY DEF Pods
  <1>1. CASE RemoveIPPool(q) \/ ApplyIPPool(q)
    <2>1. \A r \in Subnets : pools'[r] \in {pools[r], 0, q}
      BY <1>1 DEF RemoveIPPool, ApplyIPPool, TypeOK
    <2>2. QED
      BY <1>0, <2>1 DEF Mine
  <1>2. ASSUME NEW t \in Threads, DeleteIPPool(q, t)
        PROVE  Mine(p)' \subseteq Mine(p)
    <2>1. PICK s : pools' = [pools EXCEPT ![s] = IF @ = q THEN 0 ELSE @]
      BY <1>2 DEF DeleteIPPool
    <2>2. \A r \in Subnets : pools'[r] \in {pools[r], 0}
      BY <2>1 DEF TypeOK
    <2>3. QED
      BY <1>0, <2>2 DEF Mine
  <1>3. CASE UNCHANGED pools
    BY <1>3 DEF Mine
  <1>4. QED
    BY <1>1, <1>2, <1>3, PoolsKept

\* The end of a process: its IPPools stay, and they are ones it needs.
LEMMA EndPools ==
  ASSUME TypeOK, NEW p \in Pods, PodPools(p), End(p), UNCHANGED pools
  PROVE  PodPools(p)'
  <1>1. /\ pc[p]' = [main |-> "exited", sig |-> "none"] /\ phase[p]' # "up"
        /\ toMake[p]' = {} /\ making[p]' = {}
    BY DEF End, TypeOK
  <1>2. Mine(p)' = Mine(p)
    BY DEF Mine
  <1>3. QED
    BY <1>1, <1>2 DEF PodPools, Stopped, SignalLate, OnlyNeeded, MadeByMain, Known,
       StillToDelete, Deleted

\* A container starts over: it will create again what an earlier one has left.
LEMMA BootPools ==
  ASSUME TypeOK, NEW p \in Pods, PodPools(p), Boot(p), phase[p] # "up"
  PROVE  PodPools(p)'
  <1>1. /\ pc[p]' = [main |-> "list", sig |-> "none"] /\ toMake[p]' = Needed
        /\ making[p]' = making[p] /\ phase[p]' = "up"
    BY DEF Boot, vpnPodConfig, TypeOK, Needed
  <1>2. making[p] = {}
    BY DEF PodPools, Stopped, MadeByMain
  <1>3. Mine(p)' = Mine(p)
    BY DEF Mine, Boot
  <1>4. QED
    BY <1>1, <1>2, <1>3 DEF PodPools, Stopped, SignalLate, OnlyNeeded, MadeByMain, Known,
       StillToDelete, Deleted

\* When vpnPodCleanup starts, cleanupCalico is all, or the pod is excused.
LEMMA StartCleanupPools ==
  ASSUME TypeOK, NEW p \in Pods, NEW t \in Threads, PodPools(p), StartCleanup(p, t),
         phase[p] = "up", t = "main" => pc[p].main = "run",
         excused'[p] \/ (~excused[p] /\ toMake[p] \cup making[p] = {}),
         UNCHANGED <<toMake, making, pools, phase>>
  PROVE  PodPools(p)'
  <1>1. Mine(p)' = Mine(p) /\ (excused'[p] \/ Mine(p) \subseteq cleanup[p])
    BY DEF PodPools, Known, Mine
  <1>2. cleanup[p]' = cleanup[p] /\ toDelete[p]'[t] = cleanup[p]
    BY DEF StartCleanup, TypeOK
  <1>3. PICK to \in {"check", "clean"} :
          pc' = [pc EXCEPT ![p][t] = to] /\ (to = "check" => cleanup[p] = {})
    <2>1. CASE cleanup[p] = {}
      BY <2>1 DEF StartCleanup
    <2>2. CASE cleanup[p] # {}
      BY <2>2 DEF StartCleanup
    <2>3. QED
      BY <2>1, <2>2
  <1>4. CASE t = "main"
    <2>1. pc[p]'.main = to /\ pc[p]'.sig = pc[p].sig /\ toDelete[p]'["sig"] = toDelete[p]["sig"]
      BY <1>3, <1>4 DEF TypeOK, StartCleanup, Threads
    <2>2. QED
      BY <1>1, <1>2, <1>3, <1>4, <2>1 DEF PodPools, Stopped, SignalLate, OnlyNeeded, MadeByMain,
         Known, StillToDelete, Deleted
  <1>5. CASE t = "sig"
    <2>1. pc[p]'.sig = to /\ pc[p]'.main = pc[p].main /\ toDelete[p]'["main"] = toDelete[p]["main"]
      BY <1>3, <1>5 DEF TypeOK, StartCleanup, Threads
    <2>2. QED
      BY <1>1, <1>2, <1>3, <1>5, <2>1 DEF PodPools, Stopped, SignalLate, OnlyNeeded, MadeByMain,
         Known, StillToDelete, Deleted
  <1>6. QED
    BY <1>4, <1>5 DEF Threads

LEMMA SignalledPools ==
  ASSUME TypeOK, NEW p \in Pods, PodPools(p), Signalled(p)
  PROVE  PodPools(p)'
  <1>1. phase[p] = "up" /\ StartCleanup(p, "sig") /\ "sig" \in Threads
    BY DEF Signalled, Threads
  <1>2. excused'[p] \/ (~excused[p] /\ toMake[p] \cup making[p] = {})
    <2>1. excused'[p] <=> excused[p] \/ toMake[p] \cup making[p] # {}
      BY DEF Signalled, TypeOK
    <2>2. QED
      BY <2>1
  <1>3. QED
    BY <1>1, <1>2, StartCleanupPools DEF Signalled, makeVars

\* The deployment and the kubelet.
LEMMA KubePools ==
  ASSUME TypeOK, NEW p \in Pods, PodPools(p),
         KubeStep(p) \/ DeployEarly(p) \/ Probe(p) \/ Kill(p) \/ GraceOver(p)
  PROVE  PodPools(p)'
  <1>1. CASE Deploy(p) \/ DeployEarly(p) \/ RestartContainer(p)
    BY <1>1, BootPools DEF Deploy, DeployEarly, RestartContainer
  <1>2. CASE Delete(p)
    <2>1. CASE Signalled(p)
      BY <2>1, SignalledPools
    <2>2. CASE /\ phase[p] = "down" /\ phase' = [phase EXCEPT ![p] = "over"]
               /\ UNCHANGED <<poolVars, pc>>
      <3>1. /\ phase[p]' = "over"
            /\ UNCHANGED <<pc[p], toMake[p], making[p], cleanup[p], toDelete[p], excused[p]>>
        BY <2>2 DEF TypeOK, poolVars, makeVars
      <3>2. Mine(p)' = Mine(p)
        BY <2>2 DEF Mine, poolVars, makeVars
      <3>3. QED
        BY <2>2, <3>1, <3>2 DEF PodPools, Stopped, SignalLate, OnlyNeeded, MadeByMain, Known,
           StillToDelete, Deleted
    <2>3. CASE UNCHANGED <<poolVars, phase, pc>>
      BY <2>3, LeftAlone DEF poolVars, makeVars, Mine
    <2>4. QED
      BY <1>2, <2>1, <2>2, <2>3 DEF Delete
  <1>3. CASE Probe(p)
    BY <1>3, SignalledPools DEF Probe
  <1>4. CASE Kill(p) \/ GraceOver(p)
    BY <1>4, EndPools DEF Kill, GraceOver
  <1>5. QED
    BY <1>1, <1>2, <1>3, <1>4 DEF KubeStep

\* main knows of an IPPool before it is created, until it is in cleanupCalico.
LEMMA CreatePools ==
  ASSUME TypeOK, NEW p \in Pods, PodPools(p),
         \/ ListIPPools(p) \/ RemoveIPPool(p) \/ ApplyIPPool(p) \/ Append1(p)
         \/ ListFails(p) \/ RemoveFails(p) \/ ApplyFails(p)
  PROVE  PodPools(p)'
  <1>0. p # 0
    BY DEF Pods
  <1>1. CASE ListIPPools(p) \/ ListFails(p)
    <2>1. PICK s \in toMake[p] : Asks(p, s)
      BY <1>1 DEF ListIPPools, ListFails
    <2>2. PICK to \in {"apply", "remove"} : Main(p, "list", to)
      BY <1>1 DEF ListIPPools, ListFails
    <2>3. /\ pc[p].main = "list" /\ pc[p]'.main = to /\ pc[p]'.sig = pc[p].sig
          /\ phase[p] = "up"
      BY <2>2 DEF Main, TypeOK
    <2>4. /\ making[p]' = {s} /\ toMake[p]' = toMake[p] \ {s}
          /\ UNCHANGED <<cleanup, toDelete, phase, excused>> /\ Mine(p)' = Mine(p)
      BY <1>1, <2>1 DEF Asks, ListIPPools, ListFails, TypeOK, podVars, Mine
    <2>5. excused[p] \/ pc[p].sig = "none"
      BY <2>1 DEF PodPools, SignalLate
    <2>6. QED
      BY <2>1, <2>3, <2>4, <2>5 DEF PodPools, Stopped, SignalLate, OnlyNeeded, MadeByMain,
         Known, StillToDelete, Deleted
  <1>2. CASE RemoveIPPool(p) \/ RemoveFails(p)
    <2>1. /\ pc[p].main = "remove" /\ pc[p]'.main = "apply" /\ pc[p]'.sig = pc[p].sig
          /\ phase[p] = "up"
      BY <1>2 DEF RemoveIPPool, RemoveFails, Main, TypeOK
    <2>2. UNCHANGED <<toMake, making, cleanup, toDelete, phase, excused>>
      BY <1>2 DEF RemoveIPPool, RemoveFails, podVars
    <2>3. Mine(p)' \subseteq Mine(p)
      <3>1. \A r \in Subnets : pools'[r] \in {pools[r], 0}
        BY <1>2 DEF RemoveIPPool, RemoveFails, TypeOK
      <3>2. QED
        BY <1>0, <3>1 DEF Mine
    <2>4. QED
      BY <2>1, <2>2, <2>3 DEF PodPools, Stopped, SignalLate, OnlyNeeded, MadeByMain, Known,
         StillToDelete, Deleted
  <1>3. CASE ApplyIPPool(p) \/ ApplyFails(p)
    <2>1. CASE End(p) /\ UNCHANGED pools
      BY <2>1, EndPools
    <2>2. CASE /\ Main(p, "apply", "append")
               /\ pools' = [s \in Subnets |-> IF s \in making[p] THEN p ELSE pools[s]]
               /\ UNCHANGED <<makeVars, cleanup, toDelete, excused, podVars>>
      <3>1. /\ pc[p].main = "apply" /\ pc[p]'.main = "append" /\ pc[p]'.sig = pc[p].sig
            /\ phase[p] = "up"
        BY <2>2 DEF Main, TypeOK
      <3>2. UNCHANGED <<toMake, making, cleanup, toDelete, phase, excused>>
        BY <2>2 DEF makeVars, podVars
      <3>3. Mine(p)' \subseteq Mine(p) \cup making[p]
        BY <2>2 DEF Mine
      <3>4. QED
        BY <3>1, <3>2, <3>3 DEF PodPools, Stopped, SignalLate, OnlyNeeded, MadeByMain, Known,
           StillToDelete, Deleted
    <2>3. QED
      BY <1>3, <2>1, <2>2 DEF ApplyIPPool, ApplyFails
  <1>4. CASE Append1(p)
    <2>1. /\ pc[p].main = "append" /\ pc[p]'.main = "list" /\ pc[p]'.sig = pc[p].sig
          /\ phase[p] = "up"
      BY <1>4 DEF Append1, Main, TypeOK
    <2>2. /\ making[p]' = {} /\ cleanup[p]' = cleanup[p] \cup making[p]
          /\ UNCHANGED <<toMake, toDelete, phase, excused>> /\ Mine(p)' = Mine(p)
      BY <1>4 DEF Append1, TypeOK, podVars, Mine
    <2>3. QED
      BY <2>1, <2>2 DEF PodPools, Stopped, SignalLate, OnlyNeeded, MadeByMain, Known,
         StillToDelete, Deleted
  <1>5. QED
    BY <1>1, <1>2, <1>3, <1>4

\* Up to ipsec, main only moves on.
LEMMA MainMoves ==
  ASSUME TypeOK, NEW p \in Pods, PodPools(p), NEW from, NEW to, Main(p, from, to),
         to \in {"get", "put", "wait", "start", "started", "run"},
         from \in {"list", "get", "put", "wait", "start", "started"},
         UNCHANGED <<poolVars, phase>>, from = "list" => toMake[p] = {}
  PROVE  PodPools(p)'
  <1>1. /\ pc[p].main = from /\ pc[p]'.main = to /\ pc[p]'.sig = pc[p].sig /\ phase[p] = "up"
    BY DEF Main, TypeOK
  <1>2. /\ UNCHANGED <<making[p], toMake[p], cleanup[p], toDelete[p], phase[p], excused[p]>>
        /\ Mine(p)' = Mine(p)
    BY DEF poolVars, makeVars, Mine
  <1>4. QED
    BY <1>1, <1>2 DEF PodPools, Stopped, SignalLate, OnlyNeeded, MadeByMain, Known,
       StillToDelete, Deleted

LEMMA MainPools ==
  ASSUME TypeOK, NEW p \in Pods, PodPools(p), MainStep(p)
  PROVE  PodPools(p)'
  <1>1. CASE ListIPPools(p) \/ RemoveIPPool(p) \/ ApplyIPPool(p) \/ Append1(p)
    BY <1>1, CreatePools
  <1>2. CASE Listen(p)
    BY <1>2, MainMoves DEF Listen, podVars
  <1>3. CASE GetConfigMap(p)
    BY <1>3, MainMoves DEF GetConfigMap, podVars
  <1>4. CASE PutConfigMap(p)
    BY <1>4, MainMoves, EndPools DEF PutConfigMap, podVars
  <1>5. CASE WaitRouteDaemon(p)
    BY <1>5, MainMoves DEF WaitRouteDaemon, podVars
  <1>6. CASE StartCmd(p)
    BY <1>6, MainMoves DEF StartCmd, podVars
  <1>7. CASE StartRunning(p)
    BY <1>7, MainMoves DEF StartRunning, podVars
  <1>8. CASE Wait(p)
    <2>1. phase[p] = "up" /\ pc[p].main = "run" /\ StartCleanup(p, "main") /\ "main" \in Threads
      BY <1>8 DEF Wait, Threads
    <2>2. toMake[p] \cup making[p] = {} /\ UNCHANGED excused
      BY <1>8, <2>1 DEF Wait, PodPools, MadeByMain
    <2>3. CASE excused[p]
      BY <1>8, <2>1, <2>2, <2>3, StartCleanupPools DEF Wait, podVars, makeVars
    <2>4. CASE ~excused[p]
      BY <1>8, <2>1, <2>2, <2>4, StartCleanupPools DEF Wait, podVars, makeVars
    <2>5. QED
      BY <2>3, <2>4
  <1>9. CASE Exit(p)
    BY <1>9, EndPools DEF Exit
  <1>10. QED
    BY <1>1, <1>2, <1>3, <1>4, <1>5, <1>6, <1>7, <1>8, <1>9 DEF MainStep

\* In the loop of vpnPodCleanup an IPPool leaves both the list and the cluster.
LEMMA DeletePools ==
  ASSUME TypeOK, NEW p \in Pods, NEW t \in Threads, PodPools(p), DeleteIPPool(p, t)
  PROVE  PodPools(p)'
  <1>1. PICK s \in toDelete[p][t] :
          /\ pools' = [pools EXCEPT ![s] = IF @ = p THEN 0 ELSE @]
          /\ toDelete' = [toDelete EXCEPT ![p][t] = @ \ {s}]
    BY DEF DeleteIPPool
  <1>2. s \in Subnets
    BY <1>1 DEF TypeOK
  <1>3. pools'[s] # p /\ \A r \in Subnets \ {s} : pools'[r] = pools[r]
    <2>1. p # 0
      BY DEF Pods
    <2>2. QED
      BY <1>1, <1>2, <2>1 DEF TypeOK
  <1>4. Mine(p)' \subseteq Mine(p) \ {s}
    BY <1>3 DEF Mine
  <1>5. \A u \in Threads : toDelete[p][u] \ {s} \subseteq toDelete[p]'[u]
    BY <1>1 DEF TypeOK
  <1>6. UNCHANGED <<pc, phase, toMake, making, cleanup, excused>>
    BY DEF DeleteIPPool, podVars, makeVars
  <1>7. QED
    BY <1>4, <1>5, <1>6 DEF PodPools, Stopped, SignalLate, OnlyNeeded, MadeByMain, Known,
       StillToDelete, Deleted, Threads

\* A goroutine goes on after the loop only when none of the pod's is left.
LEMMA AfterLoop ==
  ASSUME TypeOK, NEW p \in Pods, NEW t \in Threads, PodPools(p), phase[p] = "up",
         Mine(p) = {} \/ excused[p], pc[p][t] \in {"clean", "check", "cancel", "off"},
         NEW to \in {"check", "cancel", "off", AfterCleanup(t)}, pc' = [pc EXCEPT ![p][t] = to],
         UNCHANGED <<pools, toMake, making, toDelete, phase, excused>>
  PROVE  PodPools(p)'
  <1>1. Mine(p)' = Mine(p)
    BY DEF Mine
  <1>2. CASE t = "main"
    <2>1. pc[p]'.main = to /\ pc[p]'.sig = pc[p].sig /\ to \in {"check", "cancel", "off", "exited"}
      BY <1>2 DEF TypeOK, AfterCleanup
    <2>2. QED
      BY <1>1, <1>2, <2>1 DEF PodPools, Stopped, SignalLate, OnlyNeeded, MadeByMain, Known,
         StillToDelete, Deleted
  <1>3. CASE t = "sig"
    <2>1. pc[p]'.sig = to /\ pc[p]'.main = pc[p].main /\ to \in {"check", "cancel", "off", "stop"}
      BY <1>3 DEF TypeOK, AfterCleanup
    <2>2. QED
      BY <1>1, <1>3, <2>1 DEF PodPools, Stopped, SignalLate, OnlyNeeded, MadeByMain, Known,
         StillToDelete, Deleted
  <1>4. QED
    BY <1>2, <1>3 DEF Threads

LEMMA CleanupPools ==
  ASSUME TypeOK, NEW p \in Pods, NEW t \in Threads, PodPools(p), CleanupStep(p, t)
  PROVE  PodPools(p)'
  <1>1. CASE DeleteIPPool(p, t)
    BY <1>1, DeletePools
  <1>2. CASE CleanupDone(p, t)
    <2>1. Mine(p) = {} \/ excused[p]
      BY <1>2 DEF CleanupDone, Cleaning, PodPools, StillToDelete, Threads
    <2>2. QED
      BY <1>2, <2>1, AfterLoop DEF CleanupDone, Cleaning, podVars, makeVars
  <1>3. pc[p][t] \in {"check", "cancel", "off"} => Mine(p) = {} \/ excused[p]
    BY DEF PodPools, Deleted, Threads
  <1>4. CASE CheckMonitoring(p, t)
    BY <1>3, <1>4, AfterLoop DEF CheckMonitoring, Cleaning, podVars, poolVars, makeVars
  <1>5. CASE Cancel(p, t)
    BY <1>3, <1>5, AfterLoop DEF Cancel, Cleaning, podVars, poolVars, makeVars
  <1>6. CASE MonitoringOff(p, t)
    BY <1>3, <1>6, AfterLoop DEF MonitoringOff, Cleaning, podVars, poolVars, makeVars
  <1>7. QED
    BY <1>1, <1>2, <1>4, <1>5, <1>6 DEF CleanupStep

\* A deletion that fails excuses the pod.
LEMMA DeleteFailsPools ==
  ASSUME TypeOK, NEW p \in Pods, NEW t \in Threads, PodPools(p), DeleteFails(p, t)
  PROVE  PodPools(p)'
  <1>1. UNCHANGED <<pc, phase, toMake, making, pools>> /\ excused'[p]
    BY DEF DeleteFails, podVars, makeVars, TypeOK
  <1>2. Mine(p)' = Mine(p)
    BY <1>1 DEF Mine
  <1>3. QED
    BY <1>1, <1>2 DEF PodPools, Stopped, SignalLate, OnlyNeeded, MadeByMain, Known,
       StillToDelete, Deleted

\* ipsec, monitorThread and Stop have nothing to do with the IPPools.
LEMMA RunPools ==
  ASSUME TypeOK, NEW p \in Pods, PodPools(p),
         Stop(p) \/ IpsecStops(p) \/ IpsecFails(p) \/ MonitorThreadStops(p)
  PROVE  PodPools(p)'
  <1>1. CASE Stop(p)
    <2>1. CASE End(p)
      BY <1>1, <2>1, EndPools DEF Stop
    <2>2. CASE pc' = [pc EXCEPT ![p].sig = "done"] /\ UNCHANGED <<poolVars, phase>>
      <3>1. pc[p]'.sig = "done" /\ pc[p]'.main = pc[p].main /\ pc[p].sig = "stop" /\ phase[p] = "up"
        BY <1>1, <2>2 DEF Stop, TypeOK
      <3>2. UNCHANGED <<toMake, making, cleanup, toDelete, excused, phase>> /\ Mine(p)' = Mine(p)
        BY <2>2 DEF poolVars, makeVars, Mine
      <3>3. QED
        BY <3>1, <3>2 DEF PodPools, Stopped, SignalLate, OnlyNeeded, MadeByMain, Known,
           StillToDelete, Deleted
    <2>3. QED
      BY <1>1, <2>1, <2>2 DEF Stop
  <1>2. CASE IpsecStops(p) \/ IpsecFails(p) \/ MonitorThreadStops(p)
    BY <1>2, LeftAlone DEF IpsecStops, IpsecFails, MonitorThreadStops, poolVars, makeVars, podVars,
       Mine
  <1>3. QED
    BY <1>1, <1>2

\* vpnPodCleanup removes every IPPool of the pod before the process exits or ipsec
\* is stopped, also when main and handleSignal clean up at the same time, whatever
\* containers crash and revisions overlap (vpnPodCleanup and calico.DeleteIPPool),
\* unless SIGTERM came while main was making them or calicoctl could not delete one.
THEOREM CleanupComplete ==
  ASSUME ClusterAssumption
  PROVE  Spec => []PoolsCleanedUp
  <1> DEFINE Inv == ClusterInv /\ \A p \in Pods : PodPools(p)
  <1>1. Init => Inv
    <2>1. SUFFICES ASSUME Init, NEW p \in Pods PROVE PodPools(p)
      BY InitCluster
    <2>2. Mine(p) = {}
      BY <2>1 DEF Init, Mine, Pods
    <2>3. QED
      BY <2>1, <2>2 DEF Init, PodPools, Stopped, SignalLate, OnlyNeeded, MadeByMain,
         Known, StillToDelete, Deleted
  <1>2. Inv /\ [Next]_vars => Inv'
    <2>1. SUFFICES ASSUME Inv, [Next]_vars, NEW p \in Pods PROVE PodPools(p)'
      BY ClusterStep
    <2>2. TypeOK /\ PodPools(p)
      BY <2>1 DEF ClusterInv
    <2>3. CASE PodStep(p)
      BY <2>2, <2>3, MainPools, KubePools, CleanupPools, RunPools, CreatePools,
         DeleteFailsPools DEF PodStep, CalicoctlFails
    <2>4. ASSUME NEW q \in Pods \ {p}, PodStep(q) PROVE PodPools(p)'
      BY <2>2, <2>4, OtherVariables, OtherPools, LeftAlone
    <2>5. CASE UNCHANGED <<poolVars, pc, phase>>
      <3>1. Mine(p)' = Mine(p)
        BY <2>5 DEF poolVars, makeVars, Mine
      <3>2. QED
        BY <2>2, <2>5, <3>1, LeftAlone DEF poolVars, makeVars
    <2>6. QED
      BY <2>1, <2>2, <2>3, <2>4, <2>5 DEF Next, PodStep, DaemonStep, Deliver, Install, Dial,
         Relist, vars, podVars
  <1>3. Inv => PoolsCleanedUp
    BY DEF PodPools, Deleted, Mine, PoolsCleanedUp
  <1>4. QED
    BY <1>1, <1>2, <1>3, PTL DEF Spec

-----------------------------------------------------------------------------
(* The wake-up of a VPN pod by the route daemon of its node, when no         *)
(* container that has published its data is started again. That is the case  *)
(* without SIGKILL, failures of ipsec and failed probes.                     *)

NoFailures == \A e \in {"crash", "probe"} : left[e] = 0

\* The pod has not written the config map yet
Unpublished(p) ==
  \/ phase[p] \in {"new", "down"}
  \/ phase[p] = "up" /\ pc[p].main \in {"list", "remove", "apply", "append", "get", "put"}

\* Only a pod that is deleted comes to an end after that
EndsDeleted(p) ==
  /\ phase[p] # "up" => ipsec[p] = "no"
  /\ phase[p] = "up"
       /\ (\/ pc[p].sig # "none" \/ ipsec[p] \in {"term", "gone"}
           \/ pc[p].main \in {"clean", "check", "cancel", "off", "exited"})
     => deleted[p]

\* The listener is open from before the config map is written
Listens(p) ==
  listener[p] <=> phase[p] = "up" /\ pc[p].main \in {"get", "put", "wait"} /\ connectUsingVip
WokenWaits(p) == woken[p] => phase[p] = "up" /\ pc[p].main = "wait"

PodLocal(p) == EndsDeleted(p) /\ Listens(p) /\ WokenWaits(p)

\* ipsec is to start, without a further wait
Cleared(p) ==
  /\ phase[p] = "up" /\ connectUsingVip /\ ipsec[p] = "no"
  /\ woken[p] \/ pc[p].main \in {"start", "started", "run"}

Waits(p) == phase[p] = "up" /\ pc[p].main = "wait"

\* What a step of pod p means to the daemons
PodMoves(p) ==
  /\ PodLocal(p)'
  /\ Unpublished(p)' => Unpublished(p)
  /\ Cleared(p)' => Cleared(p)
  /\ Waits(p)' => Unpublished(p) \/ (Waits(p) /\ woken[p]' = woken[p])

-----------------------------------------------------------------------------
(* Steps of one pod.                                                        *)

LEMMA MainRow ==
  ASSUME TypeOK, NEW p \in Pods, NEW from, NEW to, Main(p, from, to)
  PROVE  /\ phase[p] = "up" /\ pc[p].main = from
         /\ pc[p]'.main = to /\ pc[p]'.sig = pc[p].sig
  BY DEF Main, TypeOK

\* A process ends: its pod is deleted, or has not published anything.
LEMMA EndMoves ==
  ASSUME TypeOK, NEW p \in Pods, End(p), UNCHANGED deleted, deleted[p] \/ Unpublished(p)
  PROVE  PodMoves(p)
  <1>1. /\ phase[p]' = (IF deleted[p] THEN "over" ELSE "down")
        /\ ipsec[p]' = "no" /\ listener[p]' = FALSE /\ woken[p]' = FALSE
    BY DEF End, TypeOK
  <1>2. QED
    BY <1>1 DEF PodMoves, PodLocal, EndsDeleted, Listens, WokenWaits, Unpublished, Cleared, Waits

LEMMA BootMoves ==
  ASSUME TypeOK, NEW p \in Pods, Boot(p), PodLocal(p), phase[p] \in {"new", "down"}
  PROVE  PodMoves(p)
  <1>1. /\ phase[p]' = "up" /\ pc[p]' = [main |-> "list", sig |-> "none"]
        /\ UNCHANGED <<listener, woken, ipsec>>
    BY DEF Boot, TypeOK, waitVars, ipsecVars
  <1>2. QED
    BY <1>1 DEF PodMoves, PodLocal, EndsDeleted, Listens, WokenWaits, Unpublished, Cleared, Waits

LEMMA KubeMoves ==
  ASSUME TypeOK, NoFailures, NEW p \in Pods, PodLocal(p),
         KubeStep(p) \/ DeployEarly(p) \/ Probe(p) \/ Kill(p) \/ GraceOver(p)
  PROVE  PodMoves(p)
  <1>1. CASE Deploy(p) \/ DeployEarly(p) \/ RestartContainer(p)
    BY <1>1, BootMoves DEF Deploy, DeployEarly, RestartContainer
  <1>2. CASE Delete(p)
    <2>1. deleted[p]' = TRUE
      BY <1>2 DEF Delete, TypeOK
    <2>2. CASE Signalled(p)
      <3>1. PICK to : pc' = [pc EXCEPT ![p]["sig"] = to]
        BY <2>2 DEF Signalled, StartCleanup
      <3>2. pc[p]'.main = pc[p].main
        BY <3>1 DEF TypeOK
      <3>3. UNCHANGED <<phase, listener, woken, ipsec>>
        BY <2>2 DEF Signalled, waitVars, ipsecVars
      <3>4. QED
        BY <2>1, <3>2, <3>3 DEF PodMoves, PodLocal, EndsDeleted, Listens, WokenWaits,
               Unpublished, Cleared, Waits
    <2>3. CASE /\ phase[p] = "down" /\ phase' = [phase EXCEPT ![p] = "over"]
               /\ UNCHANGED <<waitVars, ipsecVars, pc>>
      <3>1. phase[p]' = "over" /\ UNCHANGED <<listener, woken, ipsec>>
        BY <2>3 DEF TypeOK, waitVars, ipsecVars
      <3>2. QED
        BY <2>3, <3>1 DEF PodMoves, PodLocal, EndsDeleted, Listens, WokenWaits, Unpublished,
               Cleared, Waits
    <2>4. CASE UNCHANGED <<waitVars, ipsecVars, phase, pc>>
      BY <2>1, <2>4 DEF PodMoves, PodLocal, EndsDeleted, Listens, WokenWaits, Unpublished,
             Cleared, Waits, waitVars, ipsecVars
    <2>5. QED
      BY <1>2, <2>2, <2>3, <2>4 DEF Delete
  <1>3. CASE Probe(p) \/ Kill(p)
    BY <1>3 DEF Probe, Kill, Spend, NoFailures
  <1>4. CASE GraceOver(p)
    BY <1>4, EndMoves DEF GraceOver, PodLocal, EndsDeleted
  <1>5. QED
    BY <1>1, <1>2, <1>3, <1>4 DEF KubeStep

\* Until the config map is written, a pod has nothing that the daemons know of.
LEMMA IPPoolMoves ==
  ASSUME TypeOK, NEW p \in Pods, PodLocal(p), Unpublished(p) => ~woken[p],
         \/ ListIPPools(p) \/ RemoveIPPool(p) \/ ApplyIPPool(p) \/ Append1(p)
         \/ CalicoctlFails(p)
  PROVE  PodMoves(p)
  <1>1. CASE ApplyIPPool(p) \/ ApplyFails(p)
    <2>1. CASE phase[p] = "up" /\ pc[p].main = "apply" /\ End(p) /\ UNCHANGED deleted
      BY <2>1, EndMoves DEF Unpublished
    <2>2. CASE Main(p, "apply", "append") /\ UNCHANGED <<waitVars, ipsecVars, podVars>>
      BY <2>2, MainRow DEF PodMoves, PodLocal, EndsDeleted, Listens, WokenWaits,
             Unpublished, Cleared, Waits, waitVars, ipsecVars, podVars
    <2>3. QED
      BY <1>1, <2>1, <2>2 DEF ApplyIPPool, ApplyFails
  <1>2. CASE ListIPPools(p) \/ ListFails(p) \/ RemoveIPPool(p) \/ RemoveFails(p) \/ Append1(p)
    <2>1. UNCHANGED <<phase, deleted, listener, woken, ipsec>>
      BY <1>2 DEF ListIPPools, ListFails, RemoveIPPool, RemoveFails, Append1, waitVars, ipsecVars,
             podVars
    <2>2. PICK from \in {"list", "remove", "append"}, to \in {"list", "remove", "apply"} :
            Main(p, from, to)
      BY <1>2 DEF ListIPPools, ListFails, RemoveIPPool, RemoveFails, Append1
    <2>3. QED
      BY <2>1, <2>2, MainRow DEF PodMoves, PodLocal, EndsDeleted, Listens, WokenWaits,
             Unpublished, Cleared, Waits
  <1>3. ASSUME NEW t \in Threads, DeleteFails(p, t)
        PROVE  PodMoves(p)
    <2>1. UNCHANGED <<phase, deleted, listener, woken, ipsec, pc>>
      BY <1>3 DEF DeleteFails, waitVars, ipsecVars, podVars
    <2>2. QED
      BY <2>1 DEF PodMoves, PodLocal, EndsDeleted, Listens, WokenWaits, Unpublished, Cleared,
             Waits
  <1>4. QED
    BY <1>1, <1>2, <1>3 DEF CalicoctlFails

LEMMA MainMovesOn ==
  ASSUME TypeOK, NEW p \in Pods, PodLocal(p), Unpublished(p) => ~woken[p], MainStep(p)
  PROVE  PodMoves(p)
  <1>0. CASE ListIPPools(p) \/ RemoveIPPool(p) \/ ApplyIPPool(p) \/ Append1(p)
    BY <1>0, IPPoolMoves
  <1>1. CASE GetConfigMap(p)
    <2>1. UNCHANGED <<phase, deleted, listener, woken, ipsec>> /\ Main(p, "get", "put")
      BY <1>1 DEF GetConfigMap, waitVars, ipsecVars, podVars
    <2>2. QED
      BY <2>1, MainRow DEF PodMoves, PodLocal, EndsDeleted, Listens, WokenWaits,
             Unpublished, Cleared, Waits
  <1>2. CASE Listen(p)
    <2>1. UNCHANGED <<phase, deleted, woken, ipsec>> /\ listener[p]' = connectUsingVip
      BY <1>2 DEF Listen, ipsecVars, podVars, TypeOK
    <2>2. Main(p, "list", "get")
      BY <1>2 DEF Listen
    <2>3. QED
      BY <2>1, <2>2, MainRow DEF PodMoves, PodLocal, EndsDeleted, Listens, WokenWaits,
             Unpublished, Cleared, Waits
  <1>3. CASE PutConfigMap(p)
    <2>1. CASE Main(p, "put", "wait") /\ UNCHANGED <<waitVars, ipsecVars, podVars>>
      BY <2>1, MainRow DEF PodMoves, PodLocal, EndsDeleted, Listens, WokenWaits,
             Unpublished, Cleared, Waits, waitVars, ipsecVars, podVars
    <2>2. CASE phase[p] = "up" /\ pc[p].main = "put" /\ End(p) /\ UNCHANGED deleted
      BY <2>2, EndMoves DEF Unpublished
    <2>3. QED
      BY <1>3, <2>1, <2>2 DEF PutConfigMap
  <1>4. CASE WaitRouteDaemon(p)
    <2>1. /\ UNCHANGED <<phase, deleted, ipsec>> /\ listener[p]' = FALSE /\ woken[p]' = FALSE
          /\ connectUsingVip => woken[p]
      BY <1>4 DEF WaitRouteDaemon, ipsecVars, podVars, TypeOK
    <2>2. Main(p, "wait", "start")
      BY <1>4 DEF WaitRouteDaemon
    <2>3. QED
      BY <2>1, <2>2, MainRow DEF PodMoves, PodLocal, EndsDeleted, Listens, WokenWaits,
             Unpublished, Cleared, Waits
  <1>5. CASE StartCmd(p)
    <2>1. UNCHANGED <<phase, deleted, listener, woken>> /\ ipsec[p]' = "up"
      BY <1>5 DEF StartCmd, waitVars, podVars, TypeOK
    <2>2. Main(p, "start", "started")
      BY <1>5 DEF StartCmd
    <2>3. QED
      BY <2>1, <2>2, MainRow DEF PodMoves, PodLocal, EndsDeleted, Listens, WokenWaits,
             Unpublished, Cleared, Waits
  <1>6. CASE StartRunning(p)
    <2>1. UNCHANGED <<phase, deleted, listener, woken, ipsec>>
      BY <1>6 DEF StartRunning, waitVars, podVars
    <2>2. Main(p, "started", "run")
      BY <1>6 DEF StartRunning
    <2>3. QED
      BY <2>1, <2>2, MainRow DEF PodMoves, PodLocal, EndsDeleted, Listens, WokenWaits,
             Unpublished, Cleared, Waits
  <1>7. CASE Wait(p)
    <2>1. PICK to \in {"check", "clean"} : pc' = [pc EXCEPT ![p]["main"] = to]
      <3>1. CASE cleanup[p] = {}
        BY <1>7, <3>1 DEF Wait, StartCleanup
      <3>2. CASE cleanup[p] # {}
        BY <1>7, <3>2 DEF Wait, StartCleanup
      <3>3. QED
        BY <3>1, <3>2
    <2>2. pc[p]'.main = to /\ pc[p]'.sig = pc[p].sig
      BY <2>1 DEF TypeOK
    <2>3. /\ UNCHANGED <<phase, deleted, listener, woken, ipsec>>
          /\ ipsec[p] = "gone" /\ phase[p] = "up" /\ pc[p].main = "run"
      BY <1>7 DEF Wait, waitVars, ipsecVars, podVars
    <2>4. QED
      BY <2>2, <2>3 DEF PodMoves, PodLocal, EndsDeleted, Listens, WokenWaits, Unpublished,
             Cleared, Waits
  <1>8. CASE Exit(p)
    BY <1>8, EndMoves DEF Exit, PodLocal, EndsDeleted
  <1>9. QED
    BY <1>0, <1>1, <1>2, <1>3, <1>4, <1>5, <1>6, <1>7, <1>8 DEF MainStep

LEMMA CleanupMoves ==
  ASSUME TypeOK, NEW p \in Pods, NEW t \in Threads, PodLocal(p), CleanupStep(p, t)
  PROVE  PodMoves(p)
  <1>1. UNCHANGED <<phase, deleted, listener, woken, ipsec>>
    BY DEF CleanupStep, DeleteIPPool, CleanupDone, CheckMonitoring, Cancel, MonitoringOff,
           waitVars, ipsecVars, podVars
  <1>2. phase[p] = "up" /\ pc[p][t] \in {"clean", "check", "cancel", "off"}
    BY DEF CleanupStep, DeleteIPPool, CleanupDone, CheckMonitoring, Cancel, MonitoringOff,
           Cleaning
  <1>3. PICK to \in {"clean", "check", "cancel", "off", AfterCleanup(t)} :
          pc' = [pc EXCEPT ![p][t] = to] \/ UNCHANGED pc
    BY DEF CleanupStep, DeleteIPPool, CleanupDone, CheckMonitoring, Cancel, MonitoringOff
  <1>4. CASE t = "main"
    <2>1. /\ pc[p]'.main \in {"clean", "check", "cancel", "off", "exited"}
          /\ pc[p]'.sig = pc[p].sig
      BY <1>2, <1>3, <1>4 DEF TypeOK, AfterCleanup
    <2>2. QED
      BY <1>1, <1>2, <1>4, <2>1 DEF PodMoves, PodLocal, EndsDeleted, Listens, WokenWaits,
             Unpublished, Cleared, Waits
  <1>5. CASE t = "sig"
    <2>1. pc[p]'.main = pc[p].main /\ pc[p].sig # "none"
      BY <1>2, <1>3, <1>5 DEF TypeOK
    <2>2. QED
      BY <1>1, <1>2, <2>1 DEF PodMoves, PodLocal, EndsDeleted, Listens, WokenWaits,
             Unpublished, Cleared, Waits
  <1>6. QED
    BY <1>4, <1>5 DEF Threads

LEMMA RunMoves ==
  ASSUME TypeOK, NoFailures, NEW p \in Pods, PodLocal(p),
         Stop(p) \/ IpsecStops(p) \/ IpsecFails(p) \/ MonitorThreadStops(p)
  PROVE  PodMoves(p)
  <1>1. IpsecStops(p) \/ IpsecFails(p) \/ MonitorThreadStops(p)
        => UNCHANGED <<phase, deleted, listener, woken>>
    BY DEF IpsecStops, IpsecFails, MonitorThreadStops, waitVars, podVars
  <1>2. CASE Stop(p)
    <2>1. pc[p].sig = "stop" /\ phase[p] = "up" /\ UNCHANGED deleted
      BY <1>2 DEF Stop
    <2>2. CASE End(p)
      BY <2>1, <2>2, EndMoves DEF PodLocal, EndsDeleted
    <2>3. CASE /\ pc' = [pc EXCEPT ![p].sig = "done"]
               /\ ipsec' = [ipsec EXCEPT ![p] = IF running[p] /\ @ = "up" THEN "term" ELSE @]
               /\ UNCHANGED <<waitVars, phase>>
      <3>1. /\ pc[p]'.main = pc[p].main /\ UNCHANGED <<phase, deleted, listener, woken>>
            /\ ipsec[p]' = "no" => ipsec[p] = "no"
        BY <2>1, <2>3 DEF TypeOK, waitVars
      <3>2. QED
        BY <2>1, <3>1 DEF PodMoves, PodLocal, EndsDeleted, Listens, WokenWaits, Unpublished,
               Cleared, Waits
    <2>4. QED
      BY <1>2, <2>2, <2>3 DEF Stop
  <1>3. CASE IpsecStops(p)
    <2>1. UNCHANGED pc /\ ipsec[p]' = "gone" /\ ipsec[p] = "term"
      BY <1>3 DEF IpsecStops, TypeOK
    <2>2. QED
      BY <1>1, <1>3, <2>1 DEF PodMoves, PodLocal, EndsDeleted, Listens, WokenWaits, Unpublished,
             Cleared, Waits
  <1>4. CASE IpsecFails(p)
    BY <1>4 DEF IpsecFails, Spend, NoFailures
  <1>5. CASE MonitorThreadStops(p)
    <2>1. UNCHANGED <<pc, ipsec>>
      BY <1>5 DEF MonitorThreadStops, ipsecVars
    <2>2. QED
      BY <1>1, <1>5, <2>1 DEF PodMoves, PodLocal, EndsDeleted, Listens, WokenWaits, Unpublished,
             Cleared, Waits
  <1>6. QED
    BY <1>2, <1>3, <1>4, <1>5

\* No step fails, and so none will.
LEMMA NoFailuresStep ==
  ASSUME TypeOK, NoFailures, [Next]_vars
  PROVE  NoFailures'
  <1>1. UNCHANGED left \/ \E e \in Events : Spend(e)
    BY DEF Next, vars, MainStep, CleanupStep, DaemonStep, KubeStep, ListIPPools, RemoveIPPool,
       ApplyIPPool, ListFails, RemoveFails, ApplyFails, DeleteFails, CalicoctlFails, DeployEarly,
       Append1, Listen, GetConfigMap, PutConfigMap, WaitRouteDaemon, StartCmd, StartRunning, Wait,
       Exit, Stop, IpsecStops, IpsecFails, MonitorThreadStops, Deploy, RestartContainer, Delete,
       Probe, Kill, GraceOver, DeleteIPPool, CleanupDone, CheckMonitoring, Cancel, MonitoringOff,
       Deliver, Install, Dial, Relist, Events
  <1>2. ASSUME NEW e \in Events, Spend(e)
        PROVE  NoFailures'
    <2>1. e \notin {"crash", "probe"}
      BY <1>2 DEF Spend, NoFailures
    <2>2. left' = left \/ left' = [left EXCEPT ![e] = @ - 1]
      BY <1>2 DEF Spend
    <2>3. QED
      BY <2>1, <2>2 DEF NoFailures, TypeOK, Events
  <1>3. QED
    BY <1>1, <1>2 DEF NoFailures

\* A step of one pod leaves the variables of another alone.
LEMMA OtherLocal ==
  ASSUME TypeOK, NEW p \in Pods, NEW q \in Pods \ {p}, PodStep(q)
  PROVE  UNCHANGED <<phase[p], pc[p], deleted[p], listener[p], woken[p], ipsec[p]>>
  <1>1. UNCHANGED <<phase[p], pc[p]>>
    BY OtherVariables
  <1>2. UNCHANGED deleted[p]
    BY DEF PodStep, MainStep, CleanupStep, KubeStep, ListIPPools, RemoveIPPool, ApplyIPPool,
       ListFails, RemoveFails, ApplyFails, DeleteFails, CalicoctlFails, DeployEarly, Append1,
       Listen, GetConfigMap, PutConfigMap, WaitRouteDaemon, StartCmd, StartRunning, Wait, Exit,
       Stop, IpsecStops, IpsecFails, MonitorThreadStops, Deploy, RestartContainer, Delete, Boot,
       Probe, Kill, GraceOver, DeleteIPPool, CleanupDone, CheckMonitoring, Cancel, MonitoringOff,
       podVars, TypeOK
  <1>3. UNCHANGED <<listener[p], woken[p], ipsec[p]>>
    <2>1. CASE End(q)
      BY <2>1 DEF End, TypeOK
    <2>2. CASE Listen(q) \/ WaitRouteDaemon(q) \/ StartCmd(q) \/ Stop(q) \/ IpsecStops(q)
                 \/ IpsecFails(q)
      BY <2>1, <2>2 DEF Listen, WaitRouteDaemon, StartCmd, Stop, IpsecStops, IpsecFails, waitVars,
             ipsecVars, TypeOK
    <2>3. CASE UNCHANGED <<waitVars, ipsec>>
      BY <2>3 DEF waitVars
    <2>4. QED
      BY <2>1, <2>2, <2>3 DEF PodStep, MainStep, CleanupStep, KubeStep, ListIPPools, RemoveIPPool,
         ApplyIPPool, ListFails, RemoveFails, ApplyFails, DeleteFails, CalicoctlFails, DeployEarly,
         Append1, GetConfigMap, PutConfigMap, StartRunning, Wait, Exit, MonitorThreadStops, Deploy,
         RestartContainer, Delete, Signalled, Boot, Probe, Kill, GraceOver, DeleteIPPool,
         CleanupDone, CheckMonitoring, Cancel, MonitoringOff, waitVars, ipsecVars
  <1>4. QED
    BY <1>1, <1>2, <1>3

-----------------------------------------------------------------------------
(* The daemons.  A pod publishes once, so that its data is in the feed of a  *)
(* daemon, being added, or saved: never two of them.                        *)

Undelivered(n) == {feed[n][i] : i \in DOMAIN feed[n]}

\* No daemon has heard of a pod that has not published
Unknown(p) ==
  Unpublished(p) =>
    cm # p /\ \A n \in Nodes : saved[n] # p /\ target[n] # p /\ p \notin Undelivered(n)

NoTwice(n) == \A i, j \in DOMAIN feed[n] : feed[n][i] = feed[n][j] => i = j
LastIsCurrent(n) == feed[n] # <<>> => feed[n][Len(feed[n])] = cm
New(n) ==
  /\ saved[n] \notin Undelivered(n)
  /\ at[n] # "idle" => target[n] \in Pods /\ target[n] \notin Undelivered(n)
DialsOwn(n) ==
  at[n] = "dial" => saved[n] = target[n] /\ nodeOf[target[n]] = n /\ connectUsingVip

Recorded(n) ==
  saved[n] \in installed[n] \cup {0} /\ (at[n] = "add" => saved[n] = 0)

Orderly(n) == NoTwice(n) /\ LastIsCurrent(n) /\ New(n) /\ DialsOwn(n) /\ Recorded(n)

\* The node's kernel has the rules of a pod that is cleared, or had them until
\* the data of another pod came
Served(p) ==
  Cleared(p) =>
    /\ p \notin Ahead(nodeOf[p])
    /\ \/ saved[nodeOf[p]] = p
       \/ p \in installed[nodeOf[p]] /\ cm # p

Comes(p) ==
  Waits(p) /\ connectUsingVip /\ cm = p =>
    \/ woken[p] \/ p \in Ahead(nodeOf[p])
    \/ at[nodeOf[p]] = "dial" /\ target[nodeOf[p]] = p

PodServed(p) == PodLocal(p) /\ Unknown(p) /\ Served(p) /\ Comes(p)

WakeInv ==
  /\ ClusterInv /\ NoFailures
  /\ \A p \in Pods : PodServed(p)
  /\ \A n \in Nodes : Orderly(n)

\* The write of UpdateConfigMap that makes an event
Publishes(p) ==
  /\ Main(p, "put", "wait")
  /\ cm' = p /\ feed' = [n \in Nodes |-> Append(feed[n], p)]
  /\ UNCHANGED <<woken, phase>>

LEMMA PodGlobal ==
  ASSUME NEW p \in Pods, PodStep(p)
  PROVE  UNCHANGED daemonVars /\ (Publishes(p) \/ UNCHANGED <<cm, feed>>)
  <1>1. CASE PutConfigMap(p)
    BY <1>1 DEF PutConfigMap, Publishes, apiVars, waitVars, podVars
  <1>2. CASE ~PutConfigMap(p)
    BY <1>2 DEF PodStep, MainStep, CleanupStep, KubeStep, ListIPPools, RemoveIPPool, ApplyIPPool,
       ListFails, RemoveFails, ApplyFails, DeleteFails, CalicoctlFails, DeployEarly, Append1,
       Listen, GetConfigMap, WaitRouteDaemon, StartCmd, StartRunning, Wait, Exit, Stop, IpsecStops,
       IpsecFails, MonitorThreadStops, Deploy, RestartContainer, Delete, Signalled, Boot, Probe,
       Kill, GraceOver, DeleteIPPool, CleanupDone, CheckMonitoring, Cancel, MonitoringOff, apiVars
  <1>3. QED
    BY <1>1, <1>2

\* A pod's step moves it as the lemmas above say.
LEMMA StepMoves ==
  ASSUME TypeOK, NoFailures, NEW p \in Pods, PodLocal(p), PodStep(p)
  PROVE  PodMoves(p)
  <1>1. Unpublished(p) => ~woken[p]
    BY DEF PodLocal, WokenWaits, Unpublished
  <1>2. QED
    BY <1>1, MainMovesOn, IPPoolMoves, KubeMoves, CleanupMoves, RunMoves DEF PodStep

\* The event of a pod that publishes comes after all others.
LEMMA PublishOrderly ==
  ASSUME TypeOK, NEW p \in Pods, NEW n \in Nodes, Orderly(n), Publishes(p), UNCHANGED daemonVars,
         saved[n] # p, target[n] # p, p \notin Undelivered(n)
  PROVE  /\ Orderly(n)'
         /\ Undelivered(n)' = Undelivered(n) \cup {p}
  <1>1. feed[n]' = Append(feed[n], p) /\ feed[n] \in Seq(Pods)
    BY DEF Publishes, TypeOK
  <1>2. /\ Len(feed[n]') = Len(feed[n]) + 1 /\ DOMAIN feed[n]' = 1 .. Len(feed[n]) + 1
        /\ feed[n]'[Len(feed[n]) + 1] = p
        /\ \A i \in DOMAIN feed[n] : feed[n]'[i] = feed[n][i]
        /\ DOMAIN feed[n] = 1 .. Len(feed[n]) /\ Len(feed[n]) \in Nat
    BY <1>1
  <1>3. Undelivered(n)' = Undelivered(n) \cup {p}
    BY <1>2 DEF Undelivered
  <1>4. NoTwice(n)'
    <2>1. SUFFICES ASSUME NEW i \in DOMAIN feed[n]', NEW j \in DOMAIN feed[n]',
                          feed[n]'[i] = feed[n]'[j]
                   PROVE  i = j
      BY DEF NoTwice
    <2>2. \A k \in DOMAIN feed[n] : feed[n]'[k] # p
      BY <1>2 DEF Undelivered
    <2>3. i \in DOMAIN feed[n] <=> j \in DOMAIN feed[n]
      BY <1>2, <2>1, <2>2
    <2>4. CASE i \in DOMAIN feed[n]
      BY <1>2, <2>1, <2>3, <2>4 DEF NoTwice, Orderly
    <2>5. CASE i \notin DOMAIN feed[n]
      BY <1>2, <2>1, <2>3, <2>5
    <2>6. QED
      BY <2>4, <2>5
  <1>5. LastIsCurrent(n)'
    BY <1>2 DEF LastIsCurrent, Publishes
  <1>6. New(n)' /\ DialsOwn(n)' /\ Recorded(n)'
    BY <1>3 DEF New, DialsOwn, Recorded, Orderly, daemonVars
  <1>7. QED
    BY <1>3, <1>4, <1>5, <1>6 DEF Orderly

LEMMA PodWake ==
  ASSUME ClusterAssumption, WakeInv, NEW q \in Pods, PodStep(q)
  PROVE  /\ \A p \in Pods : PodServed(p)'
         /\ \A n \in Nodes : Orderly(n)'
  <1>t. TypeOK /\ NoFailures /\ (\A p \in Pods : PodServed(p)) /\ (\A n \in Nodes : Orderly(n))
    BY DEF WakeInv, ClusterInv
  <1>m. PodMoves(q)
    BY <1>t, StepMoves DEF PodServed
  <1>d. UNCHANGED <<saved, target, at, installed>>
    BY PodGlobal DEF daemonVars
  <1>n. \A p \in Pods : nodeOf[p] \in Nodes
    BY DEF ClusterAssumption
  <1>o. ASSUME NEW p \in Pods \ {q}
        PROVE  UNCHANGED <<phase[p], pc[p], deleted[p], listener[p], woken[p], ipsec[p]>>
    BY <1>t, OtherLocal
  <1>l. ASSUME NEW p \in Pods
        PROVE  /\ PodLocal(p)' /\ (Unpublished(p)' => Unpublished(p))
               /\ Cleared(p)' => Cleared(p)
               /\ Waits(p)' => Unpublished(p) \/ (Waits(p) /\ woken[p]' = woken[p])
    <2>1. CASE p = q
      BY <1>m, <2>1 DEF PodMoves
    <2>2. CASE p # q
      <3>1. PodLocal(p)'
        BY <1>t, <1>o, <2>2 DEF PodServed, PodLocal, EndsDeleted, Listens, WokenWaits
      <3>2. QED
        BY <1>o, <2>2, <3>1 DEF Unpublished, Cleared, Waits
    <2>3. QED
      BY <2>1, <2>2
  <1>1. CASE UNCHANGED <<cm, feed>>
    <2>1. \A n \in Nodes : Orderly(n)' /\ Undelivered(n)' = Undelivered(n) /\ Ahead(n)' = Ahead(n)
      BY <1>1, <1>d, <1>t DEF Orderly, NoTwice, LastIsCurrent, New, DialsOwn, Recorded,
         Undelivered, Ahead
    <2>2. ASSUME NEW p \in Pods
          PROVE  PodServed(p)'
      <3>1. Unknown(p)'
        BY <1>1, <1>d, <1>l, <1>t, <2>1 DEF Unknown, PodServed
      <3>2. Served(p)'
        BY <1>1, <1>d, <1>l, <1>n, <1>t, <2>1 DEF Served, PodServed
      <3>3. Comes(p)'
        BY <1>1, <1>d, <1>l, <1>n, <1>t, <2>1 DEF Comes, PodServed, Unknown
      <3>4. QED
        BY <1>l, <3>1, <3>2, <3>3 DEF PodServed
    <2>3. QED
      BY <2>1, <2>2
  <1>2. CASE Publishes(q)
    <2>1. phase[q] = "up" /\ pc[q].main = "put" /\ pc[q]'.main = "wait" /\ UNCHANGED phase
      BY <1>2, <1>t, MainRow DEF Publishes
    <2>2. Unpublished(q) /\ ~Unpublished(q)' /\ ~woken[q]'
      BY <1>2, <1>t, <2>1 DEF Unpublished, PodServed, PodLocal, WokenWaits, Publishes
    <2>3. ASSUME NEW n \in Nodes
          PROVE  Orderly(n)' /\ Undelivered(n)' = Undelivered(n) \cup {q}
      BY <1>2, <1>d, <1>t, <2>2, PublishOrderly DEF PodServed, Unknown, daemonVars
    <2>4. \A n \in Nodes : Ahead(n)' = Ahead(n) \cup {q}
      BY <1>d, <2>3 DEF Ahead, Undelivered
    <2>5. ASSUME NEW p \in Pods
          PROVE  PodServed(p)'
      <3>1. Unknown(p)'
        BY <1>2, <1>d, <1>l, <1>t, <2>2, <2>3 DEF Unknown, PodServed, Publishes
      <3>2. Served(p)'
        <4>1. CASE p = q
          BY <2>1, <2>2, <4>1 DEF Served, Cleared
        <4>2. CASE p # q
          BY <1>2, <1>d, <1>l, <1>n, <1>t, <2>4, <4>2 DEF Served, PodServed, Publishes
        <4>3. QED
          BY <4>1, <4>2
      <3>3. Comes(p)'
        BY <1>2, <1>n, <2>4 DEF Comes, Publishes
      <3>4. QED
        BY <1>l, <3>1, <3>2, <3>3 DEF PodServed
    <2>6. QED
      BY <2>3, <2>5
  <1>3. QED
    BY <1>1, <1>2, PodGlobal

\* A callback takes the head of the feed.
LEMMA DeliverOrderly ==
  ASSUME TypeOK, NEW n \in Nodes, Orderly(n), Deliver(n)
  PROVE  /\ Orderly(n)'
         /\ Head(feed[n]) \in Pods /\ Head(feed[n]) \in Undelivered(n)
         /\ Undelivered(n)' = Undelivered(n) \ {Head(feed[n])}
         /\ saved[n]' = 0 /\ target[n]' = Head(feed[n]) /\ at[n]' = "add"
         /\ cm \in Undelivered(n) /\ UNCHANGED installed
  <1>1. /\ feed[n]' = Tail(feed[n]) /\ feed[n] \in Seq(Pods) /\ feed[n] # <<>>
        /\ at[n] = "idle" /\ UNCHANGED cm
    BY DEF Deliver, TypeOK
  <1>2. /\ Len(feed[n]) \in Nat \ {0} /\ DOMAIN feed[n] = 1 .. Len(feed[n])
        /\ Len(feed[n]') = Len(feed[n]) - 1 /\ DOMAIN feed[n]' = 1 .. Len(feed[n]) - 1
        /\ \A i \in 1 .. Len(feed[n]) - 1 : feed[n]'[i] = feed[n][i + 1]
        /\ Head(feed[n]) = feed[n][1] /\ feed[n][1] \in Pods
    BY <1>1
  <1>3. Head(feed[n]) \in Undelivered(n)
    BY <1>2 DEF Undelivered
  <1>4. Undelivered(n)' = Undelivered(n) \ {Head(feed[n])}
    <2>1. ASSUME NEW x \in Undelivered(n)'
          PROVE  x \in Undelivered(n) \ {Head(feed[n])}
      <3>1. PICK i \in 1 .. Len(feed[n]) - 1 : x = feed[n][i + 1]
        BY <1>2, <2>1 DEF Undelivered
      <3>2. i + 1 \in DOMAIN feed[n] /\ i + 1 # 1
        BY <1>2
      <3>3. x # feed[n][1]
        BY <1>2, <3>1, <3>2 DEF Orderly, NoTwice
      <3>4. QED
        BY <1>2, <3>1, <3>2, <3>3 DEF Undelivered
    <2>2. ASSUME NEW x \in Undelivered(n) \ {Head(feed[n])}
          PROVE  x \in Undelivered(n)'
      <3>1. PICK i \in DOMAIN feed[n] : x = feed[n][i]
        BY <2>2 DEF Undelivered
      <3>2. i - 1 \in 1 .. Len(feed[n]) - 1 /\ (i - 1) + 1 = i
        <4>1. i # 1
          BY <1>2, <2>2, <3>1
        <4>2. i \in 1 .. Len(feed[n])
          BY <1>2
        <4>3. QED
          BY <1>2, <4>1, <4>2
      <3>3. feed[n]'[i - 1] = x /\ i - 1 \in DOMAIN feed[n]'
        BY <1>2, <3>1, <3>2
      <3>4. QED
        BY <3>3 DEF Undelivered
    <2>3. QED
      BY <2>1, <2>2
  <1>5. NoTwice(n)'
    <2>1. SUFFICES ASSUME NEW i \in DOMAIN feed[n]', NEW j \in DOMAIN feed[n]',
                          feed[n]'[i] = feed[n]'[j]
                   PROVE  i = j
      BY DEF NoTwice
    <2>2. i + 1 \in DOMAIN feed[n] /\ j + 1 \in DOMAIN feed[n] /\ i \in Nat /\ j \in Nat
      BY <1>2, <2>1
    <2>3. feed[n][i + 1] = feed[n][j + 1]
      BY <1>2, <2>1
    <2>4. i + 1 = j + 1
      BY <2>2, <2>3 DEF Orderly, NoTwice
    <2>5. QED
      BY <2>2, <2>4
  <1>6. LastIsCurrent(n)'
    <2>1. SUFFICES ASSUME feed[n]' # <<>>
                   PROVE  feed[n]'[Len(feed[n]')] = cm
      BY <1>1 DEF LastIsCurrent
    <2>2. Len(feed[n]) - 1 \in 1 .. Len(feed[n]) - 1
      BY <1>1, <1>2, <2>1
    <2>3. (Len(feed[n]) - 1) + 1 = Len(feed[n])
      BY <1>2
    <2>4. feed[n]'[Len(feed[n]')] = feed[n][Len(feed[n])]
      BY <1>2, <2>2, <2>3
    <2>5. QED
      BY <1>1, <2>4 DEF Orderly, LastIsCurrent
  <1>7. saved[n]' = 0 /\ target[n]' = Head(feed[n]) /\ at[n]' = "add"
    <2>1. Head(feed[n]) # saved[n]
      BY <1>3 DEF Orderly, New
    <2>2. QED
      BY <2>1 DEF Deliver, TypeOK
  <1>8. New(n)' /\ DialsOwn(n)'
    <2>1. 0 \notin Undelivered(n)'
      <3>1. Undelivered(n) \subseteq Pods
        BY <1>1 DEF Undelivered
      <3>2. QED
        BY <1>4, <3>1 DEF Pods
    <2>2. QED
      BY <1>2, <1>4, <1>7, <2>1 DEF New, DialsOwn
  <1>9. Recorded(n)' /\ UNCHANGED installed
    BY <1>7 DEF Recorded, Deliver, daemonVars
  <1>10. cm \in Undelivered(n)
    BY <1>1, <1>2 DEF Orderly, LastIsCurrent, Undelivered
  <1>11. QED
    BY <1>2, <1>3, <1>4, <1>5, <1>6, <1>7, <1>8, <1>9, <1>10 DEF Orderly

\* A new list keeps the last event only.
LEMMA RelistOrderly ==
  ASSUME TypeOK, NEW n \in Nodes, Orderly(n), Relist(n)
  PROVE  /\ Orderly(n)'
         /\ cm \in Undelivered(n) /\ cm \in Pods /\ Undelivered(n)' = {cm}
  <1>1. /\ feed[n]' = <<cm>> /\ feed[n] \in Seq(Pods) /\ Len(feed[n]) > 1
        /\ UNCHANGED <<cm, saved, target, at, installed>>
    BY DEF Relist, TypeOK, daemonVars
  <1>2. feed[n] # <<>> /\ Len(feed[n]) \in DOMAIN feed[n] /\ feed[n][Len(feed[n])] \in Pods
    BY <1>1
  <1>3. cm \in Undelivered(n) /\ cm \in Pods
    BY <1>2 DEF Orderly, LastIsCurrent, Undelivered
  <1>4. DOMAIN feed[n]' = {1} /\ feed[n]'[1] = cm /\ Len(feed[n]') = 1
    BY <1>1
  <1>5. Undelivered(n)' = {cm}
    BY <1>4 DEF Undelivered
  <1>6. NoTwice(n)' /\ LastIsCurrent(n)'
    BY <1>1, <1>4 DEF NoTwice, LastIsCurrent
  <1>7. New(n)' /\ DialsOwn(n)' /\ Recorded(n)'
    BY <1>1, <1>3, <1>5 DEF New, DialsOwn, Recorded, Orderly
  <1>8. QED
    BY <1>3, <1>5, <1>6, <1>7 DEF Orderly

LEMMA DaemonWake ==
  ASSUME ClusterAssumption, WakeInv, NEW n \in Nodes, DaemonStep(n) \/ Relist(n)
  PROVE  /\ \A p \in Pods : PodServed(p)'
         /\ \A m \in Nodes : Orderly(m)'
  <1>t. TypeOK /\ (\A p \in Pods : PodServed(p)) /\ (\A m \in Nodes : Orderly(m))
    BY DEF WakeInv, ClusterInv
  <1>n. \A p \in Pods : nodeOf[p] \in Nodes
    BY DEF ClusterAssumption
  <1>u. UNCHANGED <<cm, phase, pc, deleted, listener, ipsec>>
    BY DEF DaemonStep, Deliver, Install, Dial, Relist, waitVars, ipsecVars, podVars, apiVars
  <1>o. \A m \in Nodes \ {n} : UNCHANGED <<feed[m], saved[m], target[m], at[m], installed[m]>>
    <2>1. /\ DOMAIN feed = Nodes /\ DOMAIN saved = Nodes
          /\ DOMAIN target = Nodes /\ DOMAIN at = Nodes /\ DOMAIN installed = Nodes
      BY <1>t DEF TypeOK
    <2>2. CASE Deliver(n)
      BY <2>1, <2>2 DEF Deliver, daemonVars
    <2>3. CASE Install(n)
      BY <2>1, <2>3 DEF Install, apiVars
    <2>4. CASE Dial(n)
      BY <2>1, <2>4 DEF Dial, apiVars
    <2>5. CASE Relist(n)
      BY <2>1, <2>5 DEF Relist, daemonVars
    <2>6. QED
      BY <2>2, <2>3, <2>4, <2>5 DEF DaemonStep
  <1>m. \A m \in Nodes \ {n} : /\ Orderly(m)' /\ Undelivered(m)' = Undelivered(m)
                               /\ Ahead(m)' = Ahead(m)
    BY <1>o, <1>t, <1>u DEF Orderly, NoTwice, LastIsCurrent, New, DialsOwn, Recorded, Undelivered,
       Ahead
  <1>a. /\ at[n] = "add" => Ahead(n) = Undelivered(n) \cup {target[n]}
        /\ at[n] # "add" => Ahead(n) = Undelivered(n)
        /\ at[n]' = "add" => Ahead(n)' = Undelivered(n)' \cup {target[n]'}
        /\ at[n]' # "add" => Ahead(n)' = Undelivered(n)'
    BY DEF Ahead, Undelivered
  <1>1. CASE Deliver(n) \/ Install(n) \/ Relist(n)
    <2>w. UNCHANGED woken
      BY <1>1 DEF Deliver, Install, Relist, waitVars
    <2>l. ASSUME NEW p \in Pods
          PROVE  /\ PodLocal(p)' /\ (Unpublished(p)' => Unpublished(p))
                 /\ Cleared(p)' = Cleared(p) /\ Waits(p)' = Waits(p)
      <3>1. PodLocal(p)'
        BY <1>t, <2>w, <1>u DEF PodServed, PodLocal, EndsDeleted, Listens, WokenWaits
      <3>2. QED
        BY <1>u, <2>w, <3>1 DEF Unpublished, Cleared, Waits
    <2>e. ASSUME NEW p \in Pods, nodeOf[p] # n
          PROVE  Served(p)' /\ Comes(p)'
      BY <1>m, <2>w, <1>n, <1>o, <1>t, <1>u, <2>e, <2>l DEF PodServed, Served, Comes
    <2>1. CASE Deliver(n)
      <3>1. /\ Orderly(n)' /\ Head(feed[n]) \in Pods /\ Head(feed[n]) \in Undelivered(n)
            /\ Undelivered(n)' = Undelivered(n) \ {Head(feed[n])}
            /\ saved[n]' = 0 /\ target[n]' = Head(feed[n]) /\ at[n]' = "add"
            /\ cm \in Undelivered(n) /\ UNCHANGED installed
        BY <1>t, <2>1, DeliverOrderly
      <3>2. at[n] = "idle"
        BY <2>1 DEF Deliver
      <3>3. Ahead(n)' = Ahead(n) /\ Ahead(n) = Undelivered(n)
        BY <1>a, <3>1, <3>2
      <3>4. ASSUME NEW p \in Pods
            PROVE  PodServed(p)'
        <4>1. Unknown(p)'
          BY <1>m, <1>o, <1>t, <1>u, <2>l, <3>1 DEF Unknown, PodServed, Pods
        <4>2. CASE nodeOf[p] = n
          <5>1. Served(p)'
            <6>1. saved[n] = p => p \in installed[n]
              BY <1>t DEF Orderly, Recorded, Pods
            <6>2. cm' = cm
              BY <1>u
            <6>3. QED
              BY <1>t, <2>l, <3>1, <3>3, <4>2, <6>1, <6>2 DEF PodServed, Served
          <5>2. Comes(p)'
            BY <1>t, <2>w, <1>u, <2>l, <3>2, <3>3, <4>2 DEF PodServed, Comes
          <5>3. QED
            BY <2>l, <4>1, <5>1, <5>2 DEF PodServed
        <4>3. QED
          BY <2>e, <2>l, <4>1, <4>2 DEF PodServed
      <3>5. QED
        BY <1>m, <3>1, <3>4
    <2>2. CASE Install(n)
      <3>1. /\ at[n] = "add" /\ saved[n]' = target[n] /\ target[n]' = target[n]
            /\ at[n]' = IF connectUsingVip /\ nodeOf[target[n]] = n THEN "dial" ELSE "idle"
            /\ feed[n]' = feed[n] /\ Undelivered(n)' = Undelivered(n)
            /\ installed[n]' = installed[n] \cup {target[n]}
        BY <1>t, <2>2 DEF Install, TypeOK, apiVars, Undelivered
      <3>2. Orderly(n)'
        BY <1>t, <1>u, <3>1 DEF Orderly, NoTwice, LastIsCurrent, New, DialsOwn, Recorded
      <3>3. target[n] \in Pods
        BY <1>t, <3>1 DEF Orderly, New
      <3>4. Ahead(n) = Undelivered(n) \cup {target[n]} /\ Ahead(n)' = Undelivered(n)
        BY <1>a, <3>1
      <3>5. ASSUME NEW p \in Pods
            PROVE  PodServed(p)'
        <4>1. Unknown(p)'
          BY <1>m, <1>o, <1>t, <1>u, <2>l, <3>1 DEF Unknown, PodServed
        <4>2. CASE nodeOf[p] = n
          <5>1. Served(p)'
            <6>1. saved[n] # p
              BY <1>t, <3>1 DEF Orderly, Recorded, Pods
            <6>2. cm' = cm
              BY <1>u
            <6>3. QED
              BY <1>t, <2>l, <3>1, <3>3, <3>4, <4>2, <6>1, <6>2 DEF PodServed, Served
          <5>2. Comes(p)'
            BY <1>t, <2>w, <1>u, <2>l, <3>1, <3>4, <4>2 DEF PodServed, Comes
          <5>3. QED
            BY <2>l, <4>1, <5>1, <5>2 DEF PodServed
        <4>3. QED
          BY <2>e, <2>l, <4>1, <4>2 DEF PodServed
      <3>6. QED
        BY <1>m, <3>2, <3>5
    <2>3. CASE Relist(n)
      <3>1. /\ Orderly(n)'
            /\ cm \in Undelivered(n) /\ cm \in Pods /\ Undelivered(n)' = {cm}
        BY <1>t, <2>3, RelistOrderly
      <3>2. UNCHANGED <<cm, saved, target, at, installed>>
        BY <2>3 DEF Relist, daemonVars
      <3>3. Ahead(n)' \subseteq Ahead(n) /\ cm \in Ahead(n)'
        BY <1>a, <3>1, <3>2
      <3>4. ASSUME NEW p \in Pods
            PROVE  PodServed(p)'
        <4>1. Unknown(p)'
          BY <1>m, <1>t, <1>u, <2>l, <3>1, <3>2 DEF Unknown, PodServed
        <4>2. CASE nodeOf[p] = n
          <5>1. Served(p)'
            BY <1>t, <2>l, <3>1, <3>2, <3>3, <4>2 DEF PodServed, Served
          <5>2. Comes(p)'
            BY <1>u, <3>3, <4>2 DEF Comes
          <5>3. QED
            BY <2>l, <4>1, <5>1, <5>2 DEF PodServed
        <4>3. QED
          BY <2>e, <2>l, <4>1, <4>2 DEF PodServed
      <3>5. QED
        BY <1>m, <3>1, <3>4
    <2>4. QED
      BY <1>1, <2>1, <2>2, <2>3
  <1>2. CASE Dial(n)
    <2>1. /\ at[n] = "dial" /\ at[n]' = "idle" /\ UNCHANGED <<feed, saved, target, installed>>
          /\ woken' = [woken EXCEPT ![target[n]] = @ \/ listener[target[n]]]
      BY <1>2, <1>t DEF Dial, TypeOK, apiVars
    <2>2. /\ target[n] \in Pods /\ saved[n] = target[n] /\ nodeOf[target[n]] = n
          /\ connectUsingVip /\ target[n] \notin Undelivered(n)
      BY <1>t, <2>1 DEF Orderly, New, DialsOwn
    <2>3. Undelivered(n)' = Undelivered(n) /\ Ahead(n)' = Ahead(n) /\ Ahead(n) = Undelivered(n)
      <3>1. Undelivered(n)' = Undelivered(n)
        BY <2>1 DEF Undelivered
      <3>2. QED
        BY <1>a, <2>1, <3>1
    <2>4. Orderly(n)'
      BY <1>t, <1>u, <2>1, <2>3 DEF Orderly, NoTwice, LastIsCurrent, New, DialsOwn, Recorded
    <2>5. \A p \in Pods : Unknown(p)'
      BY <1>m, <1>t, <1>u, <2>1, <2>3 DEF Unknown, Unpublished, PodServed
    <2>6. ASSUME NEW p \in Pods, p # target[n]
          PROVE  PodServed(p)'
      <3>1. woken[p]' = woken[p]
        BY <1>t, <2>1, <2>6 DEF TypeOK
      <3>2. PodLocal(p)' /\ Cleared(p)' = Cleared(p) /\ Waits(p)' = Waits(p)
        BY <1>t, <1>u, <3>1 DEF PodServed, PodLocal, EndsDeleted, Listens, WokenWaits, Cleared,
               Waits
      <3>3. Ahead(nodeOf[p])' = Ahead(nodeOf[p]) /\ saved[nodeOf[p]]' = saved[nodeOf[p]]
        BY <1>m, <1>n, <2>1, <2>3
      <3>4. Served(p)'
        BY <1>t, <1>u, <2>1, <3>2, <3>3 DEF PodServed, Served
      <3>5. Comes(p)'
        BY <1>n, <1>o, <1>t, <1>u, <2>1, <2>6, <3>1, <3>2, <3>3 DEF PodServed, Comes
      <3>6. QED
        BY <2>5, <3>2, <3>4, <3>5 DEF PodServed
    <2>7. ASSUME NEW p \in Pods, p = target[n]
          PROVE  PodServed(p)'
      <3>1. woken[p]' = (woken[p] \/ listener[p])
        BY <1>t, <2>1, <2>7 DEF TypeOK
      <3>2. ~Unpublished(p)
        BY <1>t, <2>7 DEF PodServed, Unknown
      <3>3. PodLocal(p)'
        BY <1>t, <1>u, <3>1, <3>2 DEF PodServed, PodLocal, EndsDeleted, Listens, WokenWaits,
               Unpublished
      <3>4. Served(p)'
        BY <2>1, <2>2, <2>3, <2>7 DEF Served
      <3>5. Comes(p)'
        BY <1>t, <1>u, <3>1 DEF PodServed, PodLocal, Listens, Waits, Comes
      <3>6. QED
        BY <2>5, <2>7, <3>3, <3>4, <3>5 DEF PodServed
    <2>8. QED
      BY <1>m, <2>4, <2>6, <2>7
  <1>3. QED
    BY <1>1, <1>2 DEF DaemonStep

-----------------------------------------------------------------------------
(* The invariant, and what follows from it.                                 *)

NoFailuresAssumption ==
  Budget["crash"] = 0 /\ Budget["probe"] = 0

LEMMA InitWake ==
  ASSUME ClusterAssumption, NoFailuresAssumption, Init
  PROVE  WakeInv
  <1>1. ClusterInv /\ NoFailures
    BY InitCluster DEF Init, NoFailures, NoFailuresAssumption
  <1>2. ASSUME NEW p \in Pods
        PROVE  PodServed(p)
    <2>1. /\ phase[p] = "new" /\ ipsec[p] = "no" /\ ~listener[p] /\ ~woken[p]
      BY DEF Init
    <2>2. PodLocal(p) /\ Served(p) /\ Comes(p)
      BY <2>1 DEF PodLocal, EndsDeleted, Listens, WokenWaits, Served, Cleared, Comes, Waits
    <2>3. p # 0 /\ cm = 0 /\ \A n \in Nodes : saved[n] = 0 /\ target[n] = 0 /\ feed[n] = <<>>
      BY DEF Init, Pods
    <2>4. QED
      BY <2>2, <2>3 DEF PodServed, Unknown, Undelivered
  <1>3. ASSUME NEW n \in Nodes
        PROVE  Orderly(n)
    BY DEF Init, Orderly, NoTwice, LastIsCurrent, New, DialsOwn, Recorded, Undelivered
  <1>4. QED
    BY <1>1, <1>2, <1>3 DEF WakeInv

LEMMA WakeStep ==
  ASSUME ClusterAssumption, WakeInv, [Next]_vars
  PROVE  WakeInv'
  <1>1. ClusterInv' /\ NoFailures'
    BY ClusterStep, NoFailuresStep DEF WakeInv, ClusterInv
  <1>2. /\ \A p \in Pods : PodServed(p)'
        /\ \A n \in Nodes : Orderly(n)'
    <2>1. CASE UNCHANGED vars
      BY <2>1 DEF vars, apiVars, daemonVars, waitVars, ipsecVars, podVars, WakeInv, PodServed,
             PodLocal, EndsDeleted, Listens, WokenWaits, Unknown, Unpublished, Served, Cleared,
             Comes, Waits, Ahead, Undelivered, Orderly, NoTwice, LastIsCurrent, New, DialsOwn,
             Recorded
    <2>2. QED
      BY <2>1, PodWake, DaemonWake DEF Next, PodStep
  <1>3. QED
    BY <1>1, <1>2 DEF WakeInv

\* No wake-up is lost: the listener is open before the config map is written,
\* and the daemon of the pod's node still has the data to add, is about to dial,
\* or has dialled (vpnPodConfig, UpdateConfigMap and wakeupVpnPod); for any number
\* of revisions and nodes, upgrades that do not wait, conflicts and relists,
\* as long as nothing starts a container again that has published.
THEOREM NoWakeUpLost ==
  ASSUME ClusterAssumption, NoFailuresAssumption
  PROVE  Spec => []WakeUpComes
  <1>1. Init => WakeInv
    BY InitWake
  <1>2. WakeInv /\ [Next]_vars => WakeInv'
    BY WakeStep
  <1>3. WakeInv => WakeUpComes
    BY DEF WakeInv, PodServed, Comes, Waits, WakeUpComes
  <1>4. QED
    BY <1>1, <1>2, <1>3, PTL DEF Spec

LEMMA OnlyStartCmd ==
  ASSUME TypeOK, [Next]_vars, NEW p \in Pods, ipsec[p] = "no", ipsec'[p] = "up"
  PROVE  StartCmd(p)
  <1>1. ASSUME NEW q \in Pods \ {p}, PodStep(q)
        PROVE  FALSE
    BY <1>1, OtherLocal
  <1>2. CASE PodStep(p)
    <2>1. ~End(p)
      BY DEF End, TypeOK
    <2>2. ~Stop(p) /\ ~IpsecStops(p) /\ ~IpsecFails(p)
      BY <2>1 DEF Stop, IpsecStops, IpsecFails, TypeOK
    <2>3. ipsec' # ipsec
      OBVIOUS
    <2>4. QED
      BY <1>2, <2>1, <2>2, <2>3 DEF PodStep, MainStep, CleanupStep, KubeStep, ListIPPools,
         RemoveIPPool, ApplyIPPool, ListFails, RemoveFails, ApplyFails, DeleteFails,
         CalicoctlFails, DeployEarly, Append1, Listen, GetConfigMap, PutConfigMap, WaitRouteDaemon,
         StartRunning, Wait, Exit, MonitorThreadStops, Deploy, RestartContainer, Delete, Signalled,
         Boot, Probe, Kill, GraceOver, DeleteIPPool, CleanupDone, CheckMonitoring, Cancel,
         MonitoringOff, ipsecVars
  <1>3. CASE UNCHANGED ipsec
    BY <1>3
  <1>4. QED
    BY <1>1, <1>2, <1>3 DEF Next, PodStep, DaemonStep, Deliver, Install, Dial, Relist, vars,
       ipsecVars

\* ipsec never starts before the daemon of its node has installed the pod's own
\* SNAT rules, and they are there still unless the data of another pod is in the
\* config map by then (vpnPodWaitRouteDaemon and main of strongswan/main.go); under
\* the same assumptions.
THEOREM SNATBeforeIpsec ==
  ASSUME ClusterAssumption, NoFailuresAssumption
  PROVE  Spec => IpsecAfterSNAT
  <1>1. Init => WakeInv
    BY InitWake
  <1>2. WakeInv /\ [Next]_vars => WakeInv'
    BY WakeStep
  <1>3. WakeInv /\ [Next]_vars
          => [\A p \in Pods : connectUsingVip /\ ipsec[p] = "no" /\ ipsec'[p] = "up" =>
                \/ saved[nodeOf[p]] = p
                \/ p \in installed[nodeOf[p]] /\ cm # p]_vars
    <2>1. SUFFICES ASSUME WakeInv, [Next]_vars, NEW p \in Pods, connectUsingVip,
                          ipsec[p] = "no", ipsec'[p] = "up"
                   PROVE  Cleared(p)
      BY DEF WakeInv, PodServed, Served
    <2>2. StartCmd(p)
      BY <2>1, OnlyStartCmd DEF WakeInv, ClusterInv
    <2>3. QED
      BY <2>1, <2>2 DEF StartCmd, Main, Cleared
  <1>4. QED
    BY <1>1, <1>2, <1>3, PTL DEF Spec, IpsecAfterSNAT
=============================================================================
