--------------------- MODULE RouteDaemonLeftoverProofs ----------------------
(* Proofs about RouteDaemon with a kernel in which crashes, signals, relists *)
(* and moved routes have left entries: how many copies of an iptables rule   *)
(* they may leave behind, and that the VPN pod is woken all the same only    *)
(* when all that it waits for is in the kernel.                              *)
EXTENDS RouteDaemonProofs, Integers

\* The iptables rules for the data d, whichever the device
NatOf(d) ==
  IF Complete(d) THEN {o \in Ops(d, NoDevice) : o.on = "nat"} ELSE {}

\* The daemon stops when it is to delete the routes for d
Lost(d) == Refuses(d, "del")

\* Events so far that may leave a copy of an iptables rule behind
Faults(l) ==
  Budget["kill"] - l["kill"] + Budget["signal"] - l["signal"]
    + Budget["relist"] - l["relist"] + Budget["calico"] - l["calico"]
    + Budget["fail"] - l["fail"]

Due(f) == \E i \in DOMAIN f : f[i] = Tombstone

\* Those that have left theirs, if any: not a signal that is being handled,
\* nor a tombstone that is on its way
Past(l, sig, f) ==
  Faults(l) - (IF sig = "idle" THEN 0 ELSE 1) - (IF Due(f) THEN 1 ELSE 0)

Base == Past(left, pc["sig"], feed)

\* How many copies of o there may be when d is installed
Within(o, d, b) ==
  nat[o] <= b + 1 /\ (o \notin NatOf(d) \/ Lost(d) => nat[o] <= b)

Copies(o, b) ==
  /\ pc["inf"] = "idle" => Within(o, saved, b)
  /\ pc["inf"] = "add" =>
       IF o \in todo["inf"] THEN nat[o] <= b /\ (Lost(target) => nat[o] + 1 <= b)
       ELSE Within(o, target, b)
  /\ pc["inf"] \in {"del", "drop"} =>
       IF o \in todo["inf"] THEN nat[o] <= b + 1 ELSE nat[o] <= b

AddsOwn ==
  pc["inf"] = "add" => todo["inf"] \cap NatOps \subseteq NatOf(target)

\* UpdateRouteRule looks for rules
LooksForRules == \A t \in Threads : look[t].st # "none" => look[t].op.on = "rule"

CopiesInv ==
  /\ pc["sig"] # "add" /\ AddsOwn /\ LooksForRules
  /\ Base >= 0
  /\ \A o \in NatOps : Copies(o, Base)

-----------------------------------------------------------------------------
(* The commands of a call, and the bounds.                                  *)

\* The device of a route makes no difference to the iptables rules.
LEMMA NatAnyDevice ==
  ASSUME NEW d \in Configs, NEW dev, NEW o, o.on = "nat"
  PROVE  o \in Ops(d, dev) <=> o \in Ops(d, NoDevice)
<1>1. \A v : o \notin RouteRemoteSubnet(d, v)
  BY DEF RouteRemoteSubnet, Op
<1> DEFINE A == IF VpnNode(d) THEN handleRoutesVpnNode(d) ELSE {}
           B == IF VpnNode(d) /\ ~HostNetwork(d) THEN handleRoutesNonCluster(d) ELSE {}
           C(v) == IF HostNetwork(d) THEN {}
                   ELSE RouteRemoteSubnet(d, v)
                          \cup {Op(5, "rule", d.table, "all", None)}
                          \cup (IF d.usingLB THEN handleRoutesSNAT(d) ELSE {})
<1>2. Ops(d, dev) = UNION {A, B, C(dev)} /\ Ops(d, NoDevice) = UNION {A, B, C(NoDevice)}
  BY DEF Ops
<1>3. o \in C(dev) <=> o \in C(NoDevice)
  BY <1>1
<1> HIDE DEF A, B, C
<1> QED BY <1>2, <1>3

LEMMA NatOfCall ==
  ASSUME NEW d \in Maps, NEW action, NEW o \in NatOps
  PROVE  o \in handleRoutes(d, action) <=> o \in NatOf(d)
<1>1. o.on = "nat"
  BY DEF NatOps
<1>2. CASE Complete(d)
  <2>1. d \in Configs
    BY <1>2 DEF Complete, Maps
  <2> QED BY <1>1, <1>2, <2>1, NatAnyDevice DEF handleRoutes, NatOf
<1>3. CASE ~Complete(d)
  BY <1>3 DEF handleRoutes, NatOf
<1> QED BY <1>2, <1>3

\* Nil data has no rules, and its removal cannot fail.
LEMMA NilHasNone ==
  NatOf(NilMap) = {} /\ ~Lost(NilMap)
BY DEF NatOf, Lost, Refuses, Complete

\* What has to be shown of a step.
LEMMA CopiesGathered ==
  ASSUME NEW c \in Int, c = Past(left', pc'["sig"], feed'), c >= 0,
         \A o \in NatOps : Copies(o, c)', pc'["sig"] # "add", AddsOwn', LooksForRules'
  PROVE  CopiesInv'
<1>1. Base' = c
  BY DEF Base
<1>2. \A o \in NatOps : Copies(o, Base)'
  BY <1>1 DEF Copies, Within
<1> QED BY <1>1, <1>2 DEF CopiesInv

LEMMA PastInt ==
  ASSUME NEW l \in [DOMAIN Budget -> Nat], NEW s, NEW f
  PROVE  /\ Faults(l) \in Int /\ Past(l, s, f) \in Int
         /\ Past(l, s, f) <= Faults(l) /\ Faults(l) <= Past(l, s, f) + 2
         /\ s = "idle" => Faults(l) <= Past(l, s, f) + 1
         /\ s # "idle" \/ Due(f) => Past(l, s, f) + 1 <= Faults(l)
         /\ s = "idle" /\ ~Due(f) => Past(l, s, f) = Faults(l)
<1>1. \A e \in {"kill", "signal", "relist", "calico", "fail"} : Budget[e] \in Int /\ l[e] \in Int
  BY BudgetAssumption
<1>2. Faults(l) \in Int
  BY <1>1 DEF Faults
<1> QED BY <1>2 DEF Past

LEMMA FaultSpent ==
  ASSUME TypeOK,
         NEW e \in {"publish", "helm", "kill", "signal", "relist", "calico", "fail"}, Spend(e)
  PROVE  Faults(left') = IF e \in {"publish", "helm"} THEN Faults(left) ELSE Faults(left) + 1
<1>1. /\ DOMAIN Budget = {"publish", "helm", "kill", "signal", "relist", "calico", "fail"}
      /\ \A f \in DOMAIN Budget : Budget[f] \in Nat /\ left[f] \in Nat
  BY BudgetAssumption DEF TypeOK
<1>2. /\ left'[e] = left[e] - 1
      /\ \A f \in DOMAIN Budget \ {e} : left'[f] = left[f]
  BY <1>1 DEF Spend, TypeOK
<1>3. CASE e \in {"publish", "helm"}
  BY <1>1, <1>2, <1>3 DEF Faults
<1>4. CASE e = "kill"
  <2>1. /\ left'["kill"] = left["kill"] - 1 /\ left["kill"] \in Nat
        /\ \A f \in {"signal", "relist", "calico", "fail"} :
             left'[f] = left[f] /\ left[f] \in Nat /\ Budget[f] \in Nat
        /\ Budget["kill"] \in Nat
    BY <1>1, <1>2, <1>4
  <2> QED BY <1>4, <2>1 DEF Faults
<1>5. CASE e = "signal"
  BY <1>1, <1>2, <1>5 DEF Faults
<1>6. CASE e = "relist"
  BY <1>1, <1>2, <1>6 DEF Faults
<1>7. CASE e = "calico"
  BY <1>1, <1>2, <1>7 DEF Faults
<1>8. CASE e = "fail"
  BY <1>1, <1>2, <1>8 DEF Faults
<1> QED BY <1>3, <1>4, <1>5, <1>6, <1>7, <1>8

\* With no less that is past, and no copy more, nothing changes.
LEMMA CopiesKept ==
  ASSUME TypeOK, TypeOK', CopiesInv, Base <= Past(left', pc'["sig"], feed'),
         pc'["inf"] = pc["inf"], todo'["inf"] = todo["inf"], pc'["sig"] # "add",
         UNCHANGED <<saved, target, devTo>>, LooksForRules',
         \A o \in NatOps : nat'[o] <= nat[o]
  PROVE  CopiesInv'
<1>1. PICK c : c = Past(left', pc'["sig"], feed')
  OBVIOUS
<1>2. c \in Int /\ Base \in Int
  BY <1>1, PastInt DEF TypeOK, Base
<1>3. \A d : Lost(d)' = Lost(d)
  BY DEF Lost, Refuses, GetDeviceToWorkerNode
<1>4. AddsOwn'
  BY DEF CopiesInv, AddsOwn
<1>5. ASSUME NEW o \in NatOps PROVE Copies(o, c)'
  <2>1. nat[o] \in Nat /\ nat'[o] \in Nat /\ nat'[o] <= nat[o] /\ Base <= c
    BY <1>1 DEF TypeOK
  <2>2. PICK b \in Int : b = Base
    BY <1>2
  <2>3. Copies(o, b) /\ b <= c
    BY <2>1, <2>2 DEF CopiesInv
  <2> QED BY <1>2, <1>3, <2>1, <2>3 DEF Copies, Within
<1>6. c >= 0
  <2>1. Base >= 0
    BY DEF CopiesInv
  <2> QED BY <1>1, <1>2, <2>1
<1>7. pc'["sig"] # "add" /\ LooksForRules'
  OBVIOUS
<1> HIDE DEF Base
<1> QED BY <1>1, <1>2, <1>4, <1>5, <1>6, <1>7, CopiesGathered

\* The process has ended, and every copy is accounted for.
LEMMA DieCopies ==
  ASSUME TypeOK, TypeOK', CopiesInv, Die, Faults(left) <= Faults(left'),
         \A o \in NatOps : nat[o] <= Faults(left')
  PROVE  CopiesInv'
<1>1. /\ pc'["inf"] = "idle" /\ pc'["sig"] = "idle" /\ saved' = NilMap
      /\ feed' = <<>> /\ nat' = nat /\ look' = NotLooking
  BY DEF Die, Idle, Threads, kernelVars
<1>2. ~Due(feed')
  BY <1>1 DEF Due
<1>3. PICK c : c = Past(left', pc'["sig"], feed')
  OBVIOUS
<1>4. /\ c = Faults(left') /\ c \in Int
      /\ Faults(left) \in Int /\ Base \in Int /\ Base <= Faults(left) /\ Base >= 0
  BY <1>1, <1>2, <1>3, PastInt DEF TypeOK, Base, CopiesInv
<1>5. c >= 0
  BY <1>4
<1>6. AddsOwn' /\ LooksForRules'
  BY <1>1 DEF AddsOwn, LooksForRules, NotLooking, NoLook
<1>7. ASSUME NEW o \in NatOps PROVE Copies(o, c)'
  <2>1. nat'[o] \in Nat /\ nat'[o] <= c
    BY <1>1, <1>4 DEF TypeOK
  <2>2. NatOf(NilMap) = {} /\ ~Lost(NilMap)'
    BY NilHasNone DEF Lost, Refuses, Complete
  <2> QED BY <1>1, <1>4, <2>1, <2>2 DEF Copies, Within
<1>8. pc'["sig"] # "add"
  BY <1>1
<1> QED BY <1>3, <1>4, <1>5, <1>6, <1>7, <1>8, CopiesGathered

\* There are never more copies than one for the data and one for each event.
LEMMA AtMost ==
  ASSUME TypeOK, CopiesInv, NEW o \in NatOps
  PROVE  nat[o] \in Nat /\ nat[o] <= Base + 1
<1>1. nat[o] \in Nat /\ pc["inf"] \in {"idle", "add", "del", "drop"}
  BY DEF TypeOK, Threads
<1>2. PICK b \in Int : b = Base
  BY PastInt DEF TypeOK, Base
<1>3. Copies(o, b)
  BY <1>2 DEF CopiesInv
<1>4. nat[o] <= b + 1
  BY <1>1, <1>3 DEF Copies, Within
<1> QED BY <1>1, <1>2, <1>4

\* The events that are left after one has been delivered.
LEMMA TailDue ==
  ASSUME TypeOK, feed # <<>>, Due(Tail(feed))
  PROVE  Due(feed)
<1>1. PICK i \in DOMAIN Tail(feed) : Tail(feed)[i] = Tombstone
  BY DEF Due
<1>2. i + 1 \in DOMAIN feed /\ feed[i + 1] = Tombstone
  BY <1>1 DEF TypeOK
<1> QED BY <1>2 DEF Due

\* No tombstone more on its way, and no signal less: nothing less is past.
LEMMA PastKept ==
  ASSUME NEW l \in [DOMAIN Budget -> Nat], NEW s, NEW f, NEW g, Due(g) => Due(f)
  PROVE  Past(l, s, f) <= Past(l, s, g)
<1>1. Faults(l) \in Int
  BY PastInt
<1> QED BY <1>1 DEF Past

-----------------------------------------------------------------------------
(* Calls and commands.                                                      *)

\* A call of handleRoutes by the informer, and what it may find.
LEMMA CallCopies ==
  ASSUME TypeOK, TypeOK', CopiesInv, NEW d \in Maps, NEW action,
         NEW where \in {"add", "del", "drop"}, where = "add" => target' = d,
         where = "add" <=> action = "add", Call("inf", d, action, where),
         pc["inf"] # "add",
         where = "add" => \A o \in NatOps : nat[o] <= Base,
         where # "add" => pc["inf"] = "idle" /\ saved = d,
         UNCHANGED <<left, look, nat, devTo>>, Due(feed') => Due(feed)
  PROVE  CopiesInv'
<1>1. /\ pc'["inf"] = where /\ pc'["sig"] = pc["sig"]
      /\ todo'["inf"] = handleRoutes(d, action)
  BY DEF Call, TypeOK, Threads
<1>2. PICK c : c = Past(left', pc'["sig"], feed')
  OBVIOUS
<1>3. PICK b \in Int : b = Base
  BY PastInt DEF TypeOK, Base
<1>4. c \in Int /\ b <= c /\ c >= 0
  <2>1. c \in Int /\ Base <= c
    BY <1>1, <1>2, PastInt, PastKept DEF TypeOK, Base
  <2>2. Base >= 0
    BY DEF CopiesInv
  <2> QED BY <1>3, <2>1, <2>2
<1>5. pc'["sig"] # "add" /\ LooksForRules'
  BY <1>1 DEF CopiesInv, LooksForRules
<1>6. \A o \in NatOps : o \in todo'["inf"] <=> o \in NatOf(d)
  BY <1>1, NatOfCall
<1>7. AddsOwn'
  BY <1>1, <1>6 DEF AddsOwn
<1>8. ASSUME NEW o \in NatOps PROVE Copies(o, c)'
  <2>1. nat[o] \in Nat /\ nat' = nat /\ Copies(o, b)
    BY <1>3 DEF TypeOK, CopiesInv
  <2>2. CASE where = "add"
    <3>1. nat[o] <= b /\ target' = d
      BY <1>3, <2>2
    <3>2. ~Refuses(d, action) /\ action = "add"
      BY <2>2 DEF Call
    <3>3. ~Lost(target)'
      BY <3>1, <3>2 DEF Lost, Refuses, GetDeviceToWorkerNode
    <3> QED BY <1>1, <1>4, <2>1, <2>2, <3>1, <3>3 DEF Copies, Within
  <2>3. CASE where # "add"
    <3>1. pc["inf"] = "idle" /\ saved = d
      BY <2>3
    <3>2. Within(o, d, b)
      BY <2>1, <3>1 DEF Copies
    <3> QED BY <1>1, <1>4, <1>6, <2>1, <2>3, <3>2 DEF Copies, Within
  <2> QED BY <2>2, <2>3
<1> HIDE DEF Base
<1> QED BY <1>2, <1>4, <1>5, <1>7, <1>8, CopiesGathered

\* The commands but `iptables' leave the copies alone.
LEMMA OtherCommand ==
  ASSUME TypeOK, CopiesInv, NEW t \in Threads,
         UpdateRoute(t) \/ ListRules(t) \/ ListTable(t) \/ RunRule(t) \/ Dial(t)
  PROVE  /\ nat' = nat /\ LooksForRules'
         /\ \A u \in Threads, o \in NatOps : o \in todo'[u] <=> o \in todo[u]
<1> USE DEF Done
<1>1. /\ DOMAIN look = Threads /\ DOMAIN todo = Threads
      /\ \A o \in NatOps : o.on = "nat"
  BY DEF TypeOK, LookOK, NatOps
<1>2. LooksForRules
  BY DEF CopiesInv
<1>3. CASE UpdateRoute(t)
  BY <1>1, <1>2, <1>3 DEF UpdateRoute, LooksForRules
<1>4. CASE Dial(t)
  BY <1>1, <1>2, <1>4 DEF Dial, LooksForRules, kernelVars
<1>5. CASE ListRules(t)
  <2>1. PICK o \in todo[t] :
          /\ o.on = "rule" /\ nat' = nat
          /\ \/ Done(t, o) /\ look' = look
             \/ /\ todo' = todo
                /\ \E st : look' = [look EXCEPT ![t] = [st |-> st, op |-> o]]
    BY <1>5 DEF ListRules, kernelVars
  <2>2. LooksForRules'
    BY <1>1, <1>2, <2>1 DEF LooksForRules
  <2> QED BY <1>1, <2>1, <2>2
<1>6. CASE ListTable(t)
  <2>1. PICK o \in todo[t] :
          /\ look[t].op = o /\ look[t].st # "none" /\ nat' = nat
          /\ todo' = todo \/ Done(t, o)
          /\ look' = [look EXCEPT ![t] = NoLook]
               \/ look' = [look EXCEPT ![t] = [st |-> "run", op |-> o]]
    BY <1>6 DEF ListTable, kernelVars
  <2>2. o.on = "rule"
    BY <1>2, <2>1 DEF LooksForRules
  <2>3. /\ look'[t].st = "none" \/ look'[t].op = o
        /\ \A u \in Threads \ {t} : look'[u] = look[u]
    <3>1. CASE look' = [look EXCEPT ![t] = NoLook]
      BY <1>1, <3>1 DEF NoLook
    <3>2. CASE look' = [look EXCEPT ![t] = [st |-> "run", op |-> o]]
      BY <1>1, <3>2
    <3> QED BY <2>1, <3>1, <3>2
  <2>4. LooksForRules'
    BY <1>2, <2>2, <2>3 DEF LooksForRules
  <2> QED BY <1>1, <2>1, <2>2, <2>4
<1>7. CASE RunRule(t)
  <2>1. PICK o \in todo[t] :
          /\ look[t].op = o /\ look[t].st = "run" /\ nat' = nat /\ Done(t, o)
          /\ look' = [look EXCEPT ![t] = NoLook]
    BY <1>7 DEF RunRule
  <2>2. o.on = "rule"
    BY <1>2, <2>1 DEF LooksForRules
  <2>3. LooksForRules'
    BY <1>1, <1>2, <2>1 DEF LooksForRules, NoLook
  <2> QED BY <1>1, <2>1, <2>2, <2>3
<1> QED BY <1>3, <1>4, <1>5, <1>6, <1>7

\* `iptables' for the informer: one copy more of what is to be added, or one
\* less of what is to be deleted.
LEMMA SNATCopies ==
  ASSUME TypeOK, TypeOK', CopiesInv, ConfigureSNAT("inf")
  PROVE  CopiesInv'
<1>1. /\ UNCHANGED <<left, feed, saved, target, pc, devTo, look>>
      /\ pc["inf"] \in {"idle", "add", "del", "drop"}
  BY DEF ConfigureSNAT, apiVars, callVars, TypeOK, Threads
<1>2. PICK p \in todo["inf"] :
        /\ p.on = "nat" /\ todo' = [todo EXCEPT !["inf"] = @ \ {p}]
        /\ nat' = IF Adding("inf") THEN [nat EXCEPT ![p] = @ + 1]
                  ELSE IF nat[p] > 0 THEN [nat EXCEPT ![p] = @ - 1] ELSE nat
  BY DEF ConfigureSNAT, Done
<1>3. PICK b \in Int : b = Base
  BY PastInt DEF TypeOK, Base
<1>4. b = Past(left', pc'["sig"], feed')
  BY <1>1, <1>3 DEF Base
<1>5. b >= 0
  BY <1>3 DEF CopiesInv
<1>6. todo'["inf"] = todo["inf"] \ {p}
  BY <1>2 DEF TypeOK, Threads
<1>7. AddsOwn' /\ pc'["sig"] # "add" /\ LooksForRules'
  BY <1>1, <1>6 DEF CopiesInv, AddsOwn, LooksForRules
<1>8. ASSUME NEW o \in NatOps PROVE Copies(o, b)'
  <2>1. nat[o] \in Nat /\ Copies(o, b) /\ DOMAIN nat = NatOps
    BY <1>3 DEF TypeOK, CopiesInv
  <2>2. \A d : Lost(d)' = Lost(d)
    BY <1>1 DEF Lost, Refuses, GetDeviceToWorkerNode
  <2>3. CASE o # p
    <3>1. nat'[o] = nat[o] /\ (o \in todo'["inf"] <=> o \in todo["inf"])
      BY <1>2, <1>6, <2>1, <2>3
    <3> QED BY <1>1, <2>1, <2>2, <3>1 DEF Copies, Within
  <2>4. CASE o = p /\ Adding("inf")
    <3>1. nat'[o] = nat[o] + 1 /\ o \notin todo'["inf"] /\ pc["inf"] = "add"
      BY <1>2, <1>6, <2>1, <2>4 DEF Adding
    <3>2. o \in NatOf(target)
      BY <1>2, <2>4, <3>1 DEF CopiesInv, AddsOwn
    <3> QED BY <1>1, <1>2, <2>1, <2>2, <2>4, <3>1, <3>2 DEF Copies, Within
  <2>5. CASE o = p /\ ~Adding("inf")
    <3>1. /\ nat'[o] = (IF nat[o] > 0 THEN nat[o] - 1 ELSE nat[o])
          /\ o \notin todo'["inf"] /\ pc["inf"] # "add"
      BY <1>2, <1>6, <2>1, <2>5 DEF Adding
    <3>2. pc["inf"] # "idle" => nat[o] <= b + 1
      BY <1>1, <1>2, <2>1, <2>5, <3>1 DEF Copies
    <3>3. pc["inf"] # "idle" => nat'[o] <= b
      BY <1>5, <2>1, <3>1, <3>2
    <3>4. pc["inf"] = "idle" => Within(o, saved, b)
      BY <2>1 DEF Copies
    <3>5. nat'[o] \in Nat /\ nat'[o] <= nat[o]
      BY <2>1, <3>1
    <3> QED BY <1>1, <2>1, <2>2, <3>1, <3>3, <3>4, <3>5 DEF Copies, Within
  <2> QED BY <2>3, <2>4, <2>5
<1> QED BY <1>4, <1>5, <1>7, <1>8, CopiesGathered

LEMMA CommandCopies ==
  ASSUME TypeOK, TypeOK', CopiesInv, NEW t \in Threads, Command(t)
  PROVE  CopiesInv'
<1>1. UNCHANGED <<left, feed, saved, target, pc, devTo>>
  BY DEF Command, UpdateRoute, ConfigureSNAT, ListRules, ListTable, RunRule, Dial,
         apiVars, callVars
<1>2. /\ Base <= Past(left', pc'["sig"], feed')
      /\ pc'["sig"] # "add" /\ pc'["inf"] = pc["inf"]
  <2>1. Base = Past(left', pc'["sig"], feed') /\ Base \in Int
    BY <1>1, PastInt DEF Base, TypeOK
  <2> QED BY <1>1, <2>1 DEF CopiesInv
<1>3. CASE ConfigureSNAT(t) /\ t = "inf"
  BY <1>3, SNATCopies
<1>4. CASE ConfigureSNAT(t) /\ t = "sig"
  <2>1. pc["sig"] # "add" /\ LooksForRules
    BY DEF CopiesInv
  <2>2. /\ todo'["inf"] = todo["inf"] /\ look' = look
        /\ \E p \in todo["sig"] :
             nat' = IF nat[p] > 0 THEN [nat EXCEPT ![p] = @ - 1] ELSE nat
    BY <1>4, <2>1 DEF ConfigureSNAT, Done, Adding, TypeOK, Threads
  <2>3. \A o \in NatOps : nat'[o] <= nat[o]
    <3>1. \A o \in NatOps : nat[o] \in Nat
      BY DEF TypeOK
    <3>2. DOMAIN nat = NatOps
      BY DEF TypeOK
    <3> QED BY <2>2, <3>1, <3>2
  <2>4. LooksForRules'
    BY <2>1, <2>2 DEF LooksForRules
  <2> QED BY <1>1, <1>2, <2>2, <2>3, <2>4, CopiesKept
<1>5. CASE ~ConfigureSNAT(t)
  <2>1. /\ nat' = nat /\ LooksForRules'
        /\ \A o \in NatOps : o \in todo'["inf"] <=> o \in todo["inf"]
    BY <1>5, OtherCommand DEF Command, Threads
  <2>2. PICK b \in Int : b = Base
    BY PastInt DEF TypeOK, Base
  <2>3. b = Past(left', pc'["sig"], feed') /\ b >= 0
    BY <1>1, <2>2 DEF Base, CopiesInv
  <2>4. AddsOwn' /\ pc'["sig"] # "add"
    <3>1. todo'["inf"] \cap NatOps = todo["inf"] \cap NatOps
      BY <2>1
    <3> QED BY <1>1, <3>1 DEF CopiesInv, AddsOwn
  <2>5. ASSUME NEW o \in NatOps PROVE Copies(o, b)'
    <3>1. Copies(o, b) /\ (o \in todo'["inf"] <=> o \in todo["inf"])
      BY <2>1, <2>2 DEF CopiesInv
    <3>2. \A d : Lost(d)' = Lost(d)
      BY <1>1 DEF Lost, Refuses, GetDeviceToWorkerNode
    <3> QED BY <1>1, <2>1, <3>1, <3>2 DEF Copies, Within
  <2> QED BY <2>1, <2>3, <2>4, <2>5, CopiesGathered
<1> QED BY <1>3, <1>4, <1>5 DEF Threads

-----------------------------------------------------------------------------
(* The callbacks, the signal handler and the environment.                   *)

\* A process that ends in a callback, with nothing that is not past.
LEMMA FatalCopies ==
  ASSUME TypeOK, TypeOK', CopiesInv, Die, left' = left,
         (\A o \in NatOps : nat[o] <= Base) \/ pc["sig"] # "idle" \/ Due(feed)
  PROVE  CopiesInv'
<1>1. /\ Faults(left) \in Int /\ Base \in Int /\ Base <= Faults(left)
      /\ pc["sig"] # "idle" \/ Due(feed) => Base + 1 <= Faults(left)
  BY PastInt DEF TypeOK, Base
<1>2. \A o \in NatOps : nat[o] \in Nat /\ nat[o] <= Base + 1
  BY AtMost
<1>3. \A o \in NatOps : nat[o] <= Faults(left)
  <2> HIDE DEF Base
  <2> QED BY <1>1, <1>2
<1> QED BY <1>1, <1>3, DieCopies

\* Between two callbacks, when the data has no rules or cannot be deleted.
LEMMA NoneSaved ==
  ASSUME TypeOK, CopiesInv, pc["inf"] = "idle", saved = NilMap \/ Lost(saved)
  PROVE  \A o \in NatOps : nat[o] <= Base
<1> TAKE o \in NatOps
<1>1. NatOf(NilMap) = {}
  BY NilHasNone
<1>2. Copies(o, Base)
  BY DEF CopiesInv
<1> QED BY <1>1, <1>2 DEF Copies, Within

\* A process that ends with an event that counts.
LEMMA SpentCopies ==
  ASSUME TypeOK, TypeOK', CopiesInv, Die, Faults(left') = Faults(left) + 1
  PROVE  CopiesInv'
<1>1. Faults(left) \in Int /\ Base \in Int /\ Base <= Faults(left)
  BY PastInt DEF TypeOK, Base
<1>2. \A o \in NatOps : nat[o] \in Nat /\ nat[o] <= Base + 1
  BY AtMost
<1>3. \A o \in NatOps : nat[o] <= Faults(left')
  <2> HIDE DEF Base
  <2> QED BY <1>1, <1>2
<1>4. Faults(left) <= Faults(left')
  BY <1>1
<1> QED BY <1>3, <1>4, DieCopies

\* A step that the daemon has no part in.
LEMMA UnmovedCopies ==
  ASSUME TypeOK, TypeOK', CopiesInv, Base <= Past(left', pc'["sig"], feed'),
         UNCHANGED <<saved, target, pc, todo, look, nat, devTo>>
  PROVE  CopiesInv'
<1>1. pc'["sig"] # "add" /\ LooksForRules'
  BY DEF CopiesInv, LooksForRules
<1>2. \A o \in NatOps : nat'[o] <= nat[o]
  BY DEF TypeOK
<1> QED BY <1>1, <1>2, CopiesKept

LEMMA InformerCopies ==
  ASSUME TypeOK, TypeOK', SavedInv, CopiesInv, Informer
  PROVE  CopiesInv'
<1>1. pc["inf"] = "idle" => saved = Data(seen)
  BY DEF SavedInv
<1>2. \A e : Event(e) => pc["inf"] = "idle" /\ feed # <<>> /\ e = Head(feed)
  BY DEF Event
<1>3. feed # <<>> /\ feed' = Tail(feed) => (Due(feed') => Due(feed))
  BY TailDue
<1>4. CASE configMapCreated
  <2>1. PICK new \in Maps :
          /\ Event(new) /\ seen = Absent
          /\ \/ /\ Call("inf", new, "add", "add") /\ feed' = Tail(feed) /\ target' = new
                /\ UNCHANGED <<look, nat>>
             \/ Die
          /\ UNCHANGED <<left, devTo>>
    BY <1>4 DEF configMapCreated, kernelVars
  <2>2. \A o \in NatOps : nat[o] <= Base
    BY <1>1, <1>2, <2>1, NoneSaved DEF Data
  <2>3. CASE Die
    BY <2>1, <2>2, <2>3, FatalCopies
  <2>4. CASE ~Die
    BY <1>2, <1>3, <2>1, <2>2, <2>4, CallCopies
  <2> QED BY <2>3, <2>4
<1>5. CASE configMapDeleted
  <2>1. seen # Absent /\ seen \in Maps /\ UNCHANGED <<left, devTo>>
    BY <1>5 DEF configMapDeleted, TypeOK
  <2>2. CASE /\ Event(Absent) /\ Call("inf", seen, "del", "drop") /\ feed' = Tail(feed)
             /\ UNCHANGED <<look, nat>>
    BY <1>1, <1>2, <1>3, <2>1, <2>2, CallCopies DEF Data
  <2>3. CASE Event(Absent) /\ Refuses(seen, "del") /\ Die
    BY <1>1, <1>2, <2>1, <2>3, NoneSaved, FatalCopies DEF Data, Lost
  <2>4. CASE Event(Tombstone) /\ Die
    <3>1. Due(feed)
      <4>1. 1 \in DOMAIN feed /\ feed[1] = Tombstone
        BY <1>2, <2>4 DEF TypeOK
      <4> QED BY <4>1 DEF Due
    <3> QED BY <2>1, <2>4, <3>1, FatalCopies
  <2> QED BY <1>5, <2>2, <2>3, <2>4 DEF configMapDeleted, kernelVars
<1>6. CASE configMapUpdated
  <2>1. PICK new \in Maps :
          /\ Event(new) /\ seen # Absent /\ UNCHANGED <<left, devTo>>
          /\ \/ /\ OldData = new /\ saved' = OldData /\ feed' = Tail(feed)
                /\ UNCHANGED <<target, pc, todo, look, kernelVars>>
             \/ /\ Call("inf", OldData, "del", "del") /\ feed' = Tail(feed)
                /\ UNCHANGED <<look, kernelVars>>
             \/ Refuses(OldData, "del") /\ Die
    BY <1>6 DEF configMapUpdated
  <2>2. OldData = saved /\ saved \in Maps /\ pc["inf"] = "idle"
    BY <1>1, <1>2, <2>1 DEF OldData, Data, TypeOK
  <2>3. CASE /\ saved' = saved /\ feed' = Tail(feed)
             /\ UNCHANGED <<target, pc, todo, look, kernelVars>>
    <3>1. Base <= Past(left', pc'["sig"], feed')
      BY <1>2, <1>3, <2>1, <2>3, PastKept DEF Base, TypeOK
    <3>2. pc'["sig"] # "add" /\ LooksForRules'
      BY <2>3 DEF CopiesInv, LooksForRules
    <3>3. \A o \in NatOps : nat'[o] <= nat[o]
      BY <2>3 DEF TypeOK, kernelVars
    <3> QED BY <2>1, <2>3, <3>1, <3>2, <3>3, CopiesKept
  <2>4. CASE Call("inf", saved, "del", "del") /\ feed' = Tail(feed) /\ UNCHANGED <<look, nat>>
    BY <1>2, <1>3, <2>1, <2>2, <2>4, CallCopies
  <2>5. CASE Refuses(saved, "del") /\ Die
    BY <2>1, <2>2, <2>5, NoneSaved, FatalCopies DEF Lost
  <2> QED BY <2>1, <2>2, <2>3, <2>4, <2>5 DEF kernelVars
<1>7. CASE UpdatedDeleted
  <2>1. /\ pc["inf"] = "del" /\ todo["inf"] = {} /\ UNCHANGED <<left, devTo>>
        /\ target \in Maps
    BY <1>7 DEF UpdatedDeleted, Returned, TypeOK
  <2>2. \A o \in NatOps : nat[o] <= Base
    BY <2>1 DEF CopiesInv, Copies
  <2>3. CASE Die
    BY <2>1, <2>2, <2>3, FatalCopies
  <2>4. CASE /\ Call("inf", target, "add", "add")
             /\ UNCHANGED <<feed, target, look, nat>>
    BY <2>1, <2>2, <2>4, CallCopies
  <2> QED BY <1>7, <2>3, <2>4 DEF UpdatedDeleted, kernelVars
<1>8. CASE Added \/ Dropped
  <2>1. /\ UNCHANGED <<left, feed, target, look, nat, devTo>> /\ pc'["inf"] = "idle"
        /\ pc'["sig"] = pc["sig"] /\ todo["inf"] = {}
        /\ \/ pc["inf"] = "add" /\ saved' = target
           \/ pc["inf"] = "drop" /\ saved' = NilMap
    BY <1>8 DEF Added, Dropped, Returned, SavedInv, TypeOK, Threads, apiVars, kernelVars
  <2>2. PICK b \in Int : b = Base
    BY PastInt DEF TypeOK, Base
  <2>3. b = Past(left', pc'["sig"], feed') /\ b >= 0
    BY <2>1, <2>2 DEF Base, CopiesInv
  <2>4. AddsOwn' /\ pc'["sig"] # "add" /\ LooksForRules'
    BY <2>1 DEF CopiesInv, AddsOwn, LooksForRules
  <2>5. ASSUME NEW o \in NatOps PROVE Copies(o, b)'
    <3>1. Copies(o, b) /\ nat[o] \in Nat
      BY <2>2 DEF CopiesInv, TypeOK
    <3>2. \A d : Lost(d)' = Lost(d)
      BY <2>1 DEF Lost, Refuses, GetDeviceToWorkerNode
    <3>3. CASE pc["inf"] = "add"
      BY <2>1, <3>1, <3>2, <3>3 DEF Copies, Within
    <3>4. CASE pc["inf"] = "drop"
      BY <2>1, <3>1, <3>4, NilHasNone DEF Copies, Within
    <3> QED BY <2>1, <3>3, <3>4
  <2> QED BY <2>3, <2>4, <2>5, CopiesGathered
<1> QED BY <1>4, <1>5, <1>6, <1>7, <1>8 DEF Informer

\* handleSignal is a signal that is not past before its call has ended.
LEMMA SignalCopies ==
  ASSUME TypeOK, TypeOK', CopiesInv, handleSignal
  PROVE  CopiesInv'
<1>1. pc["sig"] = "idle" /\ Faults(left') = Faults(left) + 1 /\ UNCHANGED devTo
  BY FaultSpent DEF handleSignal
<1>2. CASE Die
  BY <1>1, <1>2, SpentCopies
<1>3. CASE ~Die
  <2>1. /\ pc'["inf"] = pc["inf"] /\ todo'["inf"] = todo["inf"] /\ pc'["sig"] = "del"
        /\ UNCHANGED <<feed, saved, target, look, nat>>
    BY <1>3 DEF handleSignal, Call, TypeOK, Threads, kernelVars
  <2>2. Base <= Past(left', pc'["sig"], feed')
    <3>1. Faults(left) \in Int
      BY PastInt DEF TypeOK
    <3> QED BY <1>1, <2>1, <3>1 DEF Base, Past
  <2>3. pc'["sig"] # "add" /\ LooksForRules'
    BY <2>1 DEF CopiesInv, LooksForRules
  <2>4. \A o \in NatOps : nat'[o] <= nat[o]
    BY <2>1 DEF TypeOK
  <2> QED BY <1>1, <2>1, <2>2, <2>3, <2>4, CopiesKept
<1> QED BY <1>2, <1>3

\* Calico moves a route: what could be deleted may be lost now.
LEMMA CalicoCopies ==
  ASSUME TypeOK, TypeOK', CopiesInv, CalicoChange
  PROVE  CopiesInv'
<1>1. /\ Faults(left') = Faults(left) + 1
      /\ UNCHANGED <<feed, saved, target, pc, todo, look, nat>>
  BY FaultSpent DEF CalicoChange, callVars, kernelVars
<1>2. PICK b \in Int : b = Base
  BY PastInt DEF TypeOK, Base
<1>3. b + 1 = Past(left', pc'["sig"], feed') /\ b + 1 \in Int /\ b + 1 >= 0
  <2>1. Faults(left) \in Int
    BY PastInt DEF TypeOK
  <2>2. b >= 0
    BY <1>2 DEF CopiesInv
  <2> QED BY <1>1, <1>2, <2>1, <2>2 DEF Base, Past
<1>4. AddsOwn' /\ pc'["sig"] # "add" /\ LooksForRules'
  BY <1>1 DEF CopiesInv, AddsOwn, LooksForRules
<1>5. ASSUME NEW o \in NatOps PROVE Copies(o, b + 1)'
  <2>1. Copies(o, b) /\ nat[o] \in Nat
    BY <1>2 DEF CopiesInv, TypeOK
  <2> QED BY <1>1, <2>1 DEF Copies, Within
<1> QED BY <1>3, <1>4, <1>5, CopiesGathered

\* A command fails: what it was to add is not there, what it was to delete is.
LEMMA FailedCopies ==
  ASSUME TypeOK, TypeOK', CopiesInv, NEW t \in Threads, CommandFails(t)
  PROVE  CopiesInv'
<1>1. /\ Faults(left') = Faults(left) + 1
      /\ UNCHANGED <<feed, saved, target, pc, nat, devTo>>
  BY FaultSpent DEF CommandFails, callVars, kernelVars
<1>2. PICK b \in Int : b = Base
  BY PastInt DEF TypeOK, Base
<1>3. b + 1 = Past(left', pc'["sig"], feed') /\ b + 1 \in Int /\ b + 1 >= 0
  <2>1. Faults(left) \in Int
    BY PastInt DEF TypeOK
  <2>2. b >= 0
    BY <1>2 DEF CopiesInv
  <2> QED BY <1>1, <1>2, <2>1, <2>2 DEF Base, Past
<1>4. todo'["inf"] \subseteq todo["inf"]
  BY DEF CommandFails, Done, TypeOK, Threads
<1>5. LooksForRules'
  <2>1. look' = [look EXCEPT ![t] = NoLook] /\ DOMAIN look = Threads
    BY DEF CommandFails, TypeOK, LookOK
  <2> QED BY <2>1 DEF CopiesInv, LooksForRules, NoLook
<1>6. AddsOwn' /\ pc'["sig"] # "add"
  BY <1>1, <1>4 DEF CopiesInv, AddsOwn
<1>7. ASSUME NEW o \in NatOps PROVE Copies(o, b + 1)'
  <2>1. Copies(o, b) /\ nat[o] \in Nat
    BY <1>2 DEF CopiesInv, TypeOK
  <2>2. \A d : Lost(d)' = Lost(d)
    BY <1>1 DEF Lost, Refuses, GetDeviceToWorkerNode
  <2> QED BY <1>1, <1>4, <2>1, <2>2 DEF Copies, Within
<1> QED BY <1>3, <1>5, <1>6, <1>7, CopiesGathered

\* The API server, the watch and the DaemonSet do not touch the kernel.
LEMMA FeedCopies ==
  ASSUME TypeOK, TypeOK', CopiesInv,
         UpdateConfigMap \/ HelmInstall \/ HelmDelete \/ Relist \/ Restart
  PROVE  CopiesInv'
<1>1. UNCHANGED <<saved, target, pc, todo, look, nat, devTo>>
  BY DEF UpdateConfigMap, HelmInstall, HelmDelete, Relist, Restart, Write, callVars, kernelVars
<1>2. Faults(left) \in Int
  BY PastInt DEF TypeOK
<1>3. cm # Tombstone /\ NilMap # Tombstone /\ Absent # Tombstone
      /\ \A d \in Configs : d # Tombstone
  BY DataAssumption DEF TypeOK, Maps
<1>4. CASE UpdateConfigMap \/ HelmInstall \/ HelmDelete
  <2>1. PICK new : new # Tombstone /\ Write(new)
    BY <1>3, <1>4 DEF UpdateConfigMap, HelmInstall, HelmDelete
  <2>2. Due(feed') => Due(feed)
    BY <2>1 DEF Due, Write, TypeOK
  <2>3. Faults(left') = Faults(left)
    BY <1>4, FaultSpent DEF UpdateConfigMap, HelmInstall, HelmDelete
  <2>4. Base <= Past(left', pc'["sig"], feed')
    BY <1>1, <1>2, <2>2, <2>3 DEF Base, Past
  <2> QED BY <1>1, <2>4, UnmovedCopies
<1>5. CASE Relist
  <2>1. Faults(left') = Faults(left) + 1
    BY <1>5, FaultSpent DEF Relist
  <2>2. Base <= Past(left', pc'["sig"], feed')
    BY <1>1, <1>2, <2>1 DEF Base, Past
  <2> QED BY <1>1, <2>2, UnmovedCopies
<1>6. CASE Restart
  <2>1. left' = left /\ ~Due(feed')
    BY <1>3, <1>6 DEF Restart, Due
  <2>2. Base <= Past(left', pc'["sig"], feed')
    BY <1>1, <1>2, <2>1 DEF Base, Past
  <2> QED BY <1>1, <2>2, UnmovedCopies
<1> QED BY <1>4, <1>5, <1>6

LEMMA CopiesStep ==
  ASSUME TypeOK, TypeOK', SavedInv, CopiesInv, [Next]_vars
  PROVE  CopiesInv'
<1>1. CASE Kill
  <2>1. Die /\ Faults(left') = Faults(left) + 1
    BY <1>1, FaultSpent DEF Kill
  <2> QED BY <2>1, SpentCopies
<1>2. CASE Exit
  <2>1. Die /\ left' = left /\ pc["sig"] # "idle"
    BY <1>2 DEF Exit, Returned
  <2> QED BY <2>1, FatalCopies
<1>3. CASE UNCHANGED vars
  <2>1. Base <= Past(left', pc'["sig"], feed')
    BY <1>3, PastInt DEF Base, vars, TypeOK
  <2> QED BY <1>3, <2>1, UnmovedCopies DEF vars
<1> QED BY <1>1, <1>2, <1>3, InformerCopies, SignalCopies, CalicoCopies, FeedCopies, CommandCopies,
           FailedCopies DEF Next, Environment

LEMMA CopiesBegin == Init => CopiesInv
<1> SUFFICES ASSUME Init PROVE CopiesInv
  OBVIOUS
<1>1. pc["inf"] = "idle" /\ pc["sig"] = "idle" /\ saved = NilMap
  BY DEF Init, Idle, Threads
<1>2. ~Due(feed)
  BY DataAssumption DEF Init, Due
<1>3. Base = 0
  <2>1. \A e \in {"kill", "signal", "relist", "calico", "fail"} : Budget[e] \in Int /\ left[e] = Budget[e]
    BY BudgetAssumption DEF Init
  <2>2. Faults(left) = 0
    BY <2>1 DEF Faults
  <2>3. left \in [DOMAIN Budget -> Nat]
    BY BudgetAssumption DEF Init
  <2> QED BY <1>1, <1>2, <2>2, <2>3, PastInt DEF Base
<1>4. AddsOwn /\ LooksForRules
  BY <1>1 DEF Init, AddsOwn, LooksForRules, NotLooking, NoLook
<1>5. \A o \in NatOps : nat[o] = 0
  BY DEF Init
<1> HIDE DEF Base
<1> QED BY <1>1, <1>3, <1>4, <1>5, NilHasNone DEF CopiesInv, Copies, Within

\* The copies of an iptables rule are one for the data, and one at most for
\* each crash, signal, relist, moved route and failed command (ConfigureSNAT of
\* net.go, called by the callbacks of routedaemon.go), for all data and any such
\* events.
THEOREM CopiesBounded == Spec => []DuplicatesPerCrash
<1>1. TypeOK /\ CopiesInv => DuplicatesPerCrash
  <2> SUFFICES ASSUME TypeOK, CopiesInv, NEW o \in NatOps
               PROVE  nat[o] <= 1 + Spent("kill") + Spent("signal")
                                  + Spent("relist") + Spent("calico") + Spent("fail")
    BY DEF DuplicatesPerCrash
  <2>1. nat[o] \in Nat /\ nat[o] <= Base + 1
    BY AtMost
  <2>2. Base \in Int /\ Faults(left) \in Int /\ Base <= Faults(left)
    BY PastInt DEF TypeOK, Base
  <2>3. \A e \in {"kill", "signal", "relist", "calico", "fail"} : Budget[e] \in Int /\ left[e] \in Int
    BY BudgetAssumption DEF TypeOK
  <2>4. nat[o] <= 1 + Faults(left)
    <3> HIDE DEF Base
    <3> QED BY <2>1, <2>2
  <2> QED BY <2>1, <2>3, <2>4 DEF Faults, Spent
<1>2. TypeOK /\ TypeOK' /\ SavedInv /\ CopiesInv /\ [Next]_vars => CopiesInv'
  BY CopiesStep
<1> QED BY <1>1, <1>2, CopiesBegin, TypeCorrect, SavedAlways, PTL DEF Spec

-----------------------------------------------------------------------------
(* The wake-up of the VPN pod.                                               *)

\* What the pod waits for: the rule, or a route for the same destination
There(p) ==
  CASE p.on = "nat" -> nat[p] > 0
    [] p.on = "rule" -> Found(p)
    [] OTHER -> \E r \in routes : r.table = p.table /\ r.dest = p.dest

\* It is the same but for the hop of a route
SameEntry(p, q) ==
  IF p.on = "route" THEN q.on = "route" /\ q.table = p.table /\ q.dest = p.dest
  ELSE p = q

ToCome(p) == \E q \in todo["inf"] : SameEntry(p, q)

\* A rule that is being looked for is one to come, and is added if missing
LooksAhead ==
  look["inf"].st # "none" =>
    /\ look["inf"].op \in todo["inf"] /\ look["inf"].op.on = "rule"
    /\ pc["inf"] = "add" => look["inf"].st = "run"

ThereOrToCome ==
  pc["inf"] = "add" /\ pc["sig"] = "idle" =>
    \A p \in Installed(target) : There(p) \/ ToCome(p)

DialsWhenAdding == pc["inf"] # "add" => \A o \in todo["inf"] : o.on # "dial"
IdleDone == \A t \in Threads : pc[t] = "idle" => todo[t] = {}

AheadInv == IdleDone /\ DialsWhenAdding /\ LooksAhead /\ ThereOrToCome

\* lookalike is defined for the sources of rules
SourcesAssumption ==
  /\ "all" \in DOMAIN lookalike
  /\ \A d \in Configs : \A s \in d.remote : remap[s] \in DOMAIN lookalike

-----------------------------------------------------------------------------
(* The commands of a call.                                                  *)

\* The pod is woken by the last command.
LEMMA DialLast ==
  ASSUME NEW o \in AllOps
  PROVE  o.on \in {"route", "rule", "nat", "dial"} /\ o.stage \in Nat
         /\ IF o.on = "dial" THEN o.stage = 8 ELSE o.stage < 8
<1>1. PICK d \in Configs, dev \in Devices \cup {NoDevice} : o \in Ops(d, dev)
  BY DEF AllOps
<1>2. CASE o \in TunnelRoutes(d)
  BY <1>2 DEF TunnelRoutes, Op
<1>3. CASE o \in TunnelRules(d)
  BY <1>3 DEF TunnelRules, Op
<1>4. CASE o \in handleRoutesNonCluster(d)
  BY <1>4 DEF handleRoutesNonCluster, Op
<1>5. CASE o \in RouteRemoteSubnet(d, dev)
  BY <1>5 DEF RouteRemoteSubnet, Op
<1>6. CASE o = Op(5, "rule", d.table, "all", None)
  BY <1>6 DEF Op
<1>7. CASE o \in handleRoutesSNAT(d)
  BY <1>7 DEF handleRoutesSNAT, Op
<1> QED BY <1>1, <1>2, <1>3, <1>4, <1>5, <1>6, <1>7, OpsParts

\* Another device makes another hop of some routes, and nothing else.
LEMMA OtherDevice ==
  ASSUME NEW d \in Configs, NEW dev, NEW new, NEW p \in Ops(d, new)
  PROVE  \E q \in Ops(d, dev) : SameEntry(p, q)
<1> DEFINE A == IF VpnNode(d) THEN handleRoutesVpnNode(d) ELSE {}
           B == IF VpnNode(d) /\ ~HostNetwork(d) THEN handleRoutesNonCluster(d) ELSE {}
           C(v) == IF HostNetwork(d) THEN {}
                   ELSE RouteRemoteSubnet(d, v)
                          \cup {Op(5, "rule", d.table, "all", None)}
                          \cup (IF d.usingLB THEN handleRoutesSNAT(d) ELSE {})
<1>1. Ops(d, dev) = UNION {A, B, C(dev)} /\ Ops(d, new) = UNION {A, B, C(new)}
  BY DEF Ops
<1>2. p \in Ops(d, dev) => SameEntry(p, p)
  BY DEF SameEntry
<1>3. CASE p \in A \/ p \in B
  <2>1. p \in Ops(d, dev)
    <3> HIDE DEF A, B, C
    <3> QED BY <1>1, <1>3
  <2> QED BY <1>2, <2>1
<1>4. CASE p \in C(new)
  <2>1. CASE p \in C(dev)
    <3>1. p \in Ops(d, dev)
      <4> HIDE DEF A, B, C
      <4> QED BY <1>1, <2>1
    <3> QED BY <1>2, <3>1
  <2>2. CASE p \notin C(dev)
    <3>1. p \in RouteRemoteSubnet(d, new) /\ ~HostNetwork(d)
      BY <1>4, <2>2
    <3>2. PICK s \in d.remote : p = Op(4, "route", d.table, Network[remap[s]], RouteInfo(d, new))
      BY <3>1 DEF RouteRemoteSubnet
    <3>3. PICK q : q = Op(4, "route", d.table, Network[remap[s]], RouteInfo(d, dev))
      OBVIOUS
    <3>4. q \in RouteRemoteSubnet(d, dev)
      BY <3>3 DEF RouteRemoteSubnet
    <3>5. q \in C(dev)
      BY <3>1, <3>4
    <3>6. q \in Ops(d, dev)
      <4> HIDE DEF A, B, C
      <4> QED BY <1>1, <3>5
    <3>7. SameEntry(p, q)
      BY <3>2, <3>3 DEF SameEntry, Op
    <3> QED BY <3>6, <3>7
  <2> QED BY <2>1, <2>2
<1>5. p \in A \/ p \in B \/ p \in C(new)
  <2> HIDE DEF A, B, C
  <2> QED BY <1>1
<1> QED BY <1>3, <1>4, <1>5

\* What is installed for some data, with another device.
LEMMA OtherInstalled ==
  ASSUME NEW d \in Maps, NEW p \in Installed(d)'
  PROVE  \E q \in Installed(d) : SameEntry(p, q)
<1>1. Complete(d) /\ d \in Configs /\ p.on # "dial"
      /\ p \in Ops(d, GetDeviceToWorkerNode(d)')
  BY DEF Installed, handleRoutes, Complete, Maps
<1>2. PICK q \in Ops(d, GetDeviceToWorkerNode(d)) : SameEntry(p, q)
  BY <1>1, OtherDevice
<1>3. q.on # "dial"
  BY <1>1, <1>2 DEF SameEntry
<1> QED BY <1>1, <1>2, <1>3 DEF Installed, handleRoutes

\* The source of a rule is part of its own text.
LEMMA FoundItself ==
  ASSUME SourcesAssumption, NEW o \in AllOps, o.on = "rule"
  PROVE  o.dest \in lookalike[o.dest]
<1>1. PICK d \in Configs, dev \in Devices \cup {NoDevice} : o \in Ops(d, dev)
  BY DEF AllOps
<1>2. o.dest \in DOMAIN lookalike
  BY <1>1, RuleShape DEF SourcesAssumption, Op
<1> QED BY <1>2, SubnetAssumption

-----------------------------------------------------------------------------
(* The steps.                                                               *)

\* The process has ended.
LEMMA DieAhead ==
  ASSUME Die
  PROVE  AheadInv'
BY DEF Die, AheadInv, IdleDone, DialsWhenAdding, LooksAhead, ThereOrToCome, Idle, Nothing,
       NotLooking, NoLook, Threads

\* A step that leaves the commands and the kernel alone, and may move a route.
LEMMA UnmovedAhead ==
  ASSUME TypeOK, AheadInv, UNCHANGED <<target, pc, todo, look, kernelVars>>
  PROVE  AheadInv'
<1>1. IdleDone' /\ DialsWhenAdding' /\ LooksAhead'
  BY DEF AheadInv, IdleDone, DialsWhenAdding, LooksAhead
<1>2. ASSUME pc["inf"] = "add", pc["sig"] = "idle", NEW p \in Installed(target)'
      PROVE  There(p)' \/ ToCome(p)'
  <2>1. PICK q \in Installed(target) : SameEntry(p, q)
    <3>1. PICK d \in Maps : d = target /\ d = target'
      BY DEF TypeOK
    <3>2. p \in Installed(d)'
      BY <3>1 DEF Installed, handleRoutes, GetDeviceToWorkerNode
    <3> QED BY <3>1, <3>2, OtherInstalled
  <2>2. There(q) \/ ToCome(q)
    BY <1>2 DEF AheadInv, ThereOrToCome
  <2>3. CASE ToCome(q)
    BY <2>1, <2>3 DEF ToCome, SameEntry
  <2>4. CASE There(q)
    BY <2>1, <2>4 DEF There, Found, SameEntry, kernelVars
  <2> QED BY <2>2, <2>3, <2>4
<1>3. ThereOrToCome'
  BY <1>2 DEF ThereOrToCome
<1> QED BY <1>1, <1>3 DEF AheadInv

\* The informer calls handleRoutes.
LEMMA CallAhead ==
  ASSUME TypeOK, TypeOK', AheadInv, NEW d \in Maps, NEW action, NEW where,
         Call("inf", d, action, where), todo["inf"] = {}, look' = look,
         where # "idle", where = "add" => action = "add" /\ target' = d,
         action = "add" => where = "add", devTo' = devTo
  PROVE  AheadInv'
<1>1. /\ pc'["inf"] = where /\ pc'["sig"] = pc["sig"]
      /\ todo'["inf"] = handleRoutes(d, action) /\ todo'["sig"] = todo["sig"]
  BY DEF Call, TypeOK, Threads
<1>2. IdleDone'
  BY <1>1 DEF AheadInv, IdleDone, Threads
<1>3. DialsWhenAdding'
  BY <1>1 DEF DialsWhenAdding, handleRoutes
<1>4. look["inf"].st = "none"
  BY DEF AheadInv, LooksAhead
<1>5. LooksAhead'
  BY <1>4 DEF LooksAhead
<1>6. ASSUME pc'["inf"] = "add", NEW p \in Installed(target)' PROVE ToCome(p)'
  <2>1. target' = d /\ action = "add"
    BY <1>1, <1>6
  <2>2. p \in handleRoutes(d, "add")
    BY <1>6, <2>1 DEF Installed, handleRoutes, GetDeviceToWorkerNode
  <2> QED BY <1>1, <2>1, <2>2 DEF ToCome, SameEntry
<1>7. ThereOrToCome'
  BY <1>6 DEF ThereOrToCome
<1> QED BY <1>2, <1>3, <1>5, <1>7 DEF AheadInv

\* A command o of the informer is done, and what it adds is there.
LEMMA DoneAhead ==
  ASSUME TypeOK, TypeOK', AheadInv, UNCHANGED <<target, pc, devTo>>,
         NEW o \in todo["inf"], Done("inf", o),
         (look' = look /\ look["inf"].st = "none") \/ look' = [look EXCEPT !["inf"] = NoLook],
         pc["inf"] = "add" => /\ \A p \in AllOps : There(p) => There(p)'
                              /\ \A p \in AllOps :
                                   p.on # "dial" /\ SameEntry(p, o) => There(p)'
  PROVE  AheadInv'
<1>1. todo'["inf"] = todo["inf"] \ {o} /\ todo'["sig"] = todo["sig"]
  BY DEF Done, TypeOK, Threads
<1>2. look'["inf"].st = "none"
  <2>1. DOMAIN look = Threads /\ NoLook.st = "none"
    BY DEF TypeOK, LookOK, NoLook
  <2> QED BY <2>1 DEF Threads
<1>3. IdleDone' /\ DialsWhenAdding' /\ LooksAhead'
  BY <1>1, <1>2 DEF AheadInv, IdleDone, DialsWhenAdding, LooksAhead, Threads
<1>4. ASSUME pc["inf"] = "add", pc["sig"] = "idle", NEW p \in Installed(target)'
      PROVE  There(p)' \/ ToCome(p)'
  <2>1. p \in Installed(target)
    BY <1>4, SavedKept DEF Installed, handleRoutes, GetDeviceToWorkerNode
  <2>2. p \in AllOps /\ p.on # "dial"
    BY <2>1, CallsRunOps DEF Installed, handleRoutes, TypeOK
  <2>3. CASE There(p)
    BY <1>4, <2>2, <2>3
  <2>4. CASE ToCome(p)
    BY <1>1, <1>4, <2>2, <2>4 DEF ToCome
  <2> QED BY <1>4, <2>1, <2>3, <2>4 DEF AheadInv, ThereOrToCome
<1>5. ThereOrToCome'
  BY <1>4 DEF ThereOrToCome
<1> QED BY <1>3, <1>5 DEF AheadInv

\* UpdateRouteRule goes on to its next command.
LEMMA LookAhead ==
  ASSUME TypeOK, AheadInv, UNCHANGED <<target, pc, todo, kernelVars, devTo>>,
         NEW o \in todo["inf"], o.on = "rule", NEW st, pc["inf"] = "add" => st = "run",
         look' = [look EXCEPT !["inf"] = [st |-> st, op |-> o]]
  PROVE  AheadInv'
<1>1. DOMAIN look = Threads
  BY DEF TypeOK, LookOK
<1>2. look'["inf"].st = st /\ look'["inf"].op = o
  BY <1>1 DEF Threads
<1>3. IdleDone' /\ DialsWhenAdding' /\ LooksAhead'
  BY <1>2 DEF AheadInv, IdleDone, DialsWhenAdding, LooksAhead
<1>4. ASSUME pc["inf"] = "add", pc["sig"] = "idle", NEW p \in Installed(target)'
      PROVE  There(p)' \/ ToCome(p)'
  <2>1. p \in Installed(target)
    BY <1>4 DEF Installed, handleRoutes, GetDeviceToWorkerNode
  <2>2. (There(p) <=> There(p)') /\ (ToCome(p) <=> ToCome(p)')
    BY DEF There, ToCome, Found, kernelVars
  <2> QED BY <1>4, <2>1, <2>2 DEF AheadInv, ThereOrToCome
<1>5. ThereOrToCome'
  BY <1>4 DEF ThereOrToCome
<1> QED BY <1>3, <1>5 DEF AheadInv

LEMMA CommandAhead ==
  ASSUME SourcesAssumption, TypeOK, TypeOK', AheadInv, Command("inf")
  PROVE  AheadInv'
<1>1. UNCHANGED <<target, pc, devTo>>
  BY DEF Command, UpdateRoute, ConfigureSNAT, ListRules, ListTable, RunRule, Dial, callVars
<1>2. todo["inf"] \subseteq AllOps
  BY DEF TypeOK, Threads
<1>3. CASE UpdateRoute("inf")
  <2>1. PICK o \in todo["inf"] :
          /\ o.on = "route" /\ look["inf"].st = "none" /\ Done("inf", o) /\ look' = look
          /\ routes' = IF ~Adding("inf") THEN routes \ {o}
                       ELSE IF \E r \in routes : r.table = o.table /\ r.dest = o.dest
                       THEN routes ELSE routes \cup {o}
          /\ UNCHANGED <<rules, nat>>
    BY <1>3 DEF UpdateRoute, Next1
  <2>2. ASSUME pc["inf"] = "add"
        PROVE  /\ routes \subseteq routes'
               /\ \E r \in routes' : r.table = o.table /\ r.dest = o.dest
    BY <2>1, <2>2 DEF Adding
  <2>3. ASSUME pc["inf"] = "add", NEW p \in AllOps
        PROVE  /\ There(p) => There(p)'
               /\ SameEntry(p, o) => There(p)'
    BY <2>1, <2>2, <2>3 DEF There, Found, SameEntry
  <2> QED BY <1>1, <2>1, <2>3, DoneAhead
<1>4. CASE ConfigureSNAT("inf")
  <2>1. PICK o \in todo["inf"] :
          /\ o.on = "nat" /\ look["inf"].st = "none" /\ Done("inf", o) /\ look' = look
          /\ Adding("inf") => nat' = [nat EXCEPT ![o] = @ + 1]
          /\ UNCHANGED <<routes, rules>>
    BY <1>4 DEF ConfigureSNAT, Next1
  <2>2. o \in NatOps /\ DOMAIN nat = NatOps
    BY <1>2, <2>1 DEF NatOps, TypeOK
  <2>3. ASSUME pc["inf"] = "add"
        PROVE  nat'[o] > 0 /\ \A p \in NatOps \ {o} : nat'[p] = nat[p]
    <3>1. nat[o] \in Nat
      BY <2>2 DEF TypeOK
    <3> QED BY <2>1, <2>2, <2>3, <3>1 DEF Adding
  <2>4. ASSUME pc["inf"] = "add", NEW p \in AllOps
        PROVE  /\ There(p) => There(p)'
               /\ SameEntry(p, o) => There(p)'
    <3>1. p.on = "nat" => p \in NatOps
      BY DEF NatOps
    <3>2. SameEntry(p, o) => p = o
      BY <2>1 DEF SameEntry
    <3> QED BY <2>1, <2>3, <2>4, <3>1, <3>2 DEF There, Found
  <2> QED BY <1>1, <2>1, <2>4, DoneAhead
<1>5. CASE ListRules("inf")
  <2>1. PICK o \in todo["inf"] :
          /\ o.on = "rule" /\ look["inf"].st = "none" /\ UNCHANGED kernelVars
          /\ \/ Adding("inf") /\ Found(o) /\ Done("inf", o) /\ look' = look
             \/ /\ ~(Adding("inf") /\ Found(o)) /\ todo' = todo
                /\ look' = [look EXCEPT !["inf"] =
                     [st |-> IF Adding("inf") THEN "run"
                             ELSE IF Found(o) THEN "found" ELSE "missing",
                      op |-> o]]
    BY <1>5 DEF ListRules, Next1
  <2>2. CASE Adding("inf") /\ Found(o) /\ Done("inf", o) /\ look' = look
    <3>1. ASSUME NEW p \in AllOps
          PROVE  /\ There(p) => There(p)'
                 /\ SameEntry(p, o) => There(p)'
      BY <2>1, <2>2 DEF There, Found, SameEntry, kernelVars
    <3> QED BY <1>1, <2>1, <2>2, <3>1, DoneAhead
  <2>3. CASE /\ ~(Adding("inf") /\ Found(o)) /\ todo' = todo
             /\ look' = [look EXCEPT !["inf"] =
                  [st |-> IF Adding("inf") THEN "run"
                          ELSE IF Found(o) THEN "found" ELSE "missing",
                   op |-> o]]
    <3>1. PICK st : st = IF Adding("inf") THEN "run" ELSE IF Found(o) THEN "found" ELSE "missing"
      OBVIOUS
    <3>2. pc["inf"] = "add" => st = "run"
      BY <3>1 DEF Adding
    <3>3. look' = [look EXCEPT !["inf"] = [st |-> st, op |-> o]]
      BY <2>3, <3>1
    <3> QED BY <1>1, <2>1, <2>3, <3>2, <3>3, LookAhead
  <2> QED BY <2>1, <2>2, <2>3
<1>6. CASE ListTable("inf")
  <2>1. PICK o \in todo["inf"] :
          /\ look["inf"].op = o /\ look["inf"].st \in {"found", "missing"}
          /\ UNCHANGED kernelVars
          /\ \/ look' = [look EXCEPT !["inf"] = NoLook] /\ Done("inf", o)
             \/ look' = [look EXCEPT !["inf"] = [st |-> "run", op |-> o]] /\ todo' = todo
    BY <1>6 DEF ListTable
  <2>2. o.on = "rule" /\ pc["inf"] # "add"
    BY <2>1 DEF AheadInv, LooksAhead
  <2>3. CASE look' = [look EXCEPT !["inf"] = NoLook] /\ Done("inf", o)
    BY <1>1, <2>2, <2>3, DoneAhead
  <2>4. CASE look' = [look EXCEPT !["inf"] = [st |-> "run", op |-> o]] /\ todo' = todo
    BY <1>1, <2>1, <2>2, <2>4, LookAhead
  <2> QED BY <2>1, <2>3, <2>4
<1>7. CASE RunRule("inf")
  <2>1. PICK o \in todo["inf"] :
          /\ look["inf"].op = o /\ look["inf"].st = "run"
          /\ rules' = IF Adding("inf") THEN rules \cup {o} ELSE rules \ {o}
          /\ Done("inf", o) /\ look' = [look EXCEPT !["inf"] = NoLook]
          /\ UNCHANGED <<routes, nat>>
    BY <1>7 DEF RunRule
  <2>2. o.on = "rule" /\ o.dest \in lookalike[o.dest]
    BY <1>2, <2>1, FoundItself DEF AheadInv, LooksAhead
  <2>3. ASSUME pc["inf"] = "add" PROVE rules' = rules \cup {o}
    BY <2>1, <2>3 DEF Adding
  <2>4. ASSUME pc["inf"] = "add", NEW p \in AllOps
        PROVE  /\ There(p) => There(p)'
               /\ SameEntry(p, o) => There(p)'
    <3>1. SameEntry(p, o) => p = o
      BY <2>2 DEF SameEntry
    <3> QED BY <2>1, <2>2, <2>3, <2>4, <3>1 DEF There, Found
  <2> QED BY <1>1, <2>1, <2>4, DoneAhead
<1>8. CASE Dial("inf")
  <2>1. PICK o \in todo["inf"] :
          /\ o.on = "dial" /\ look["inf"].st = "none" /\ Done("inf", o) /\ look' = look
          /\ UNCHANGED kernelVars
    BY <1>8 DEF Dial, Next1
  <2>2. ASSUME NEW p \in AllOps
        PROVE  /\ There(p) => There(p)'
               /\ p.on # "dial" => ~SameEntry(p, o)
    BY <2>1 DEF There, Found, SameEntry, kernelVars
  <2> QED BY <1>1, <2>1, <2>2, DoneAhead
<1> QED BY <1>3, <1>4, <1>5, <1>6, <1>7, <1>8 DEF Command

\* The signal handler: nothing is promised any more.
LEMMA SignalAhead ==
  ASSUME TypeOK, AheadInv, Command("sig") \/ (handleSignal /\ ~Die)
  PROVE  AheadInv'
<1>1. /\ pc'["inf"] = pc["inf"] /\ todo'["inf"] = todo["inf"] /\ look'["inf"] = look["inf"]
      /\ pc'["sig"] # "idle"
  <2>1. CASE Command("sig")
    <3>1. pc' = pc /\ todo["sig"] # {}
      BY <2>1 DEF Command, UpdateRoute, ConfigureSNAT, ListRules, ListTable, RunRule, Dial,
                  callVars
    <3>2. pc["sig"] # "idle"
      BY <3>1 DEF AheadInv, IdleDone, Threads
    <3>3. \/ todo' = todo \/ \E o : todo' = [todo EXCEPT !["sig"] = @ \ {o}]
      BY <2>1 DEF Command, UpdateRoute, ConfigureSNAT, ListRules, ListTable, RunRule, Dial, Done
    <3>4. \/ look' = look \/ \E v : look' = [look EXCEPT !["sig"] = v]
      BY <2>1 DEF Command, UpdateRoute, ConfigureSNAT, ListRules, ListTable, RunRule, Dial
    <3>5. DOMAIN todo = Threads /\ DOMAIN look = Threads
      BY DEF TypeOK, LookOK
    <3> QED BY <3>1, <3>2, <3>3, <3>4, <3>5 DEF Threads
  <2>2. CASE handleSignal /\ ~Die
    BY <2>2 DEF handleSignal, Call, TypeOK, Threads
  <2> QED BY <2>1, <2>2
<1> QED BY <1>1 DEF AheadInv, IdleDone, DialsWhenAdding, LooksAhead, ThereOrToCome, Threads

LEMMA InformerAhead ==
  ASSUME TypeOK, TypeOK', SavedInv, AheadInv, Informer, ~Die
  PROVE  AheadInv'
<1>1. \A e : Event(e) => todo["inf"] = {}
  BY DEF AheadInv, IdleDone, Event, Threads
<1>2. CASE configMapCreated
  <2>1. PICK new \in Maps :
          /\ Event(new) /\ Call("inf", new, "add", "add") /\ target' = new
          /\ UNCHANGED <<look, devTo>>
    BY <1>2 DEF configMapCreated
  <2> QED BY <1>1, <2>1, CallAhead
<1>3. CASE configMapDeleted
  <2>1. /\ Event(Absent) /\ seen \in Maps /\ Call("inf", seen, "del", "drop")
        /\ UNCHANGED <<look, devTo>>
    BY <1>3 DEF configMapDeleted, TypeOK
  <2> QED BY <1>1, <2>1, CallAhead
<1>4. CASE configMapUpdated
  <2>1. PICK new \in Maps :
          /\ Event(new) /\ seen # Absent /\ UNCHANGED <<look, devTo>>
          /\ \/ UNCHANGED <<target, pc, todo, look, kernelVars>>
             \/ Call("inf", OldData, "del", "del")
    BY <1>4 DEF configMapUpdated
  <2>2. OldData \in Maps
    BY <2>1 DEF OldData, TypeOK
  <2>3. CASE UNCHANGED <<target, pc, todo, look, kernelVars>>
    BY <2>3, UnmovedAhead
  <2>4. CASE Call("inf", OldData, "del", "del")
    BY <1>1, <2>1, <2>2, <2>4, CallAhead
  <2> QED BY <2>1, <2>3, <2>4
<1>5. CASE UpdatedDeleted
  <2>1. /\ todo["inf"] = {} /\ Call("inf", target, "add", "add") /\ target \in Maps
        /\ UNCHANGED <<target, look, devTo>>
    BY <1>5 DEF UpdatedDeleted, Returned, TypeOK
  <2> QED BY <2>1, CallAhead
<1>6. CASE Added \/ Dropped
  <2>1. /\ pc'["inf"] = "idle" /\ pc'["sig"] = pc["sig"] /\ todo["inf"] = {}
        /\ UNCHANGED <<todo, look>>
    BY <1>6 DEF Added, Dropped, Returned, TypeOK, Threads
  <2> QED BY <2>1 DEF AheadInv, IdleDone, DialsWhenAdding, LooksAhead, ThereOrToCome, Threads
<1> QED BY <1>2, <1>3, <1>4, <1>5, <1>6 DEF Informer

LEMMA AheadStep ==
  ASSUME SourcesAssumption, TypeOK, TypeOK', SavedInv, AheadInv, [Next]_vars,
         "failed" \notin taint'
  PROVE  AheadInv'
<1>1. CASE Environment \/ Restart \/ UNCHANGED vars
  <2>1. CASE Kill
    BY <2>1, DieAhead DEF Kill
  <2>2. CASE ~Kill
    <3>1. UNCHANGED <<target, pc, todo, look, kernelVars>>
      BY <1>1, <2>2 DEF Environment, UpdateConfigMap, HelmInstall, HelmDelete, Write, Relist,
             CalicoChange, Restart, callVars, vars, kernelVars
    <3> QED BY <3>1, UnmovedAhead
  <2> QED BY <2>1, <2>2
<1>2. CASE Die
  BY <1>2, DieAhead
<1>3. CASE Exit
  BY <1>3, DieAhead DEF Exit
<1>4. ASSUME NEW t \in Threads PROVE ~CommandFails(t)
  BY DEF CommandFails
<1> QED BY <1>1, <1>2, <1>3, <1>4, InformerAhead, SignalAhead, CommandAhead DEF Next, Threads

LEMMA AheadBegin == Init => AheadInv
<1>1. Init => /\ \A t \in Threads : pc[t] = "idle" /\ todo[t] = {}
              /\ look["inf"].st = "none"
  <2>1. NoLook.st = "none" /\ "inf" \in Threads
    BY DEF NoLook, Threads
  <2>2. Init => look["inf"] = NoLook
    BY <2>1 DEF Init, NotLooking
  <2>3. Init => \A t \in Threads : pc[t] = "idle" /\ todo[t] = {}
    BY DEF Init, Idle, Nothing
  <2> QED BY <2>1, <2>2, <2>3
<1> QED BY <1>1 DEF AheadInv, IdleDone, DialsWhenAdding, LooksAhead, ThereOrToCome, Threads

\* A dial command is only done by Dial, as a next command of the informer.
LEMMA DialStep ==
  ASSUME TypeOK, AheadInv, [Next]_vars, NEW o \in todo["inf"] \ todo'["inf"],
         o.on = "dial", proc' = "up"
  PROVE  pc["inf"] = "add" /\ \A p \in todo["inf"] : o.stage <= p.stage
<1>1. pc["inf"] = "add"
  BY DEF AheadInv, DialsWhenAdding
<1>2. ~Die
  BY DEF Die
<1>3. ~Informer
  BY <1>1, <1>2 DEF Informer, configMapCreated, configMapDeleted, configMapUpdated, Event,
         UpdatedDeleted, Added, Dropped, Returned
<1>4. todo'["inf"] # todo["inf"]
  OBVIOUS
<1>5. ~(Environment \/ Restart \/ Exit \/ UNCHANGED vars)
  BY <1>2, <1>4 DEF Environment, UpdateConfigMap, HelmInstall, HelmDelete, Write, Relist,
         CalicoChange, Kill, Restart, Exit, vars
<1>6. ~(handleSignal \/ Command("sig"))
  <2>1. handleSignal => todo'["inf"] = todo["inf"]
    BY <1>2 DEF handleSignal, Call, TypeOK, Threads
  <2>2. Command("sig") => \/ todo' = todo
                          \/ \E q : todo' = [todo EXCEPT !["sig"] = @ \ {q}]
    BY DEF Command, UpdateRoute, ConfigureSNAT, ListRules, ListTable, RunRule, Dial, Done
  <2>3. DOMAIN todo = Threads
    BY DEF TypeOK
  <2> QED BY <1>4, <2>1, <2>2, <2>3 DEF Threads
<1>7. Command("inf")
  <2>1. ASSUME NEW t \in Threads, CommandFails(t) PROVE FALSE
    <3>1. PICK p \in todo[t] : p.on # "dial" /\ todo' = [todo EXCEPT ![t] = @ \ {p}]
      BY <2>1 DEF CommandFails, Done
    <3>2. DOMAIN todo = Threads
      BY DEF TypeOK
    <3> QED BY <3>1, <3>2 DEF Threads
  <2> QED BY <1>3, <1>5, <1>6, <2>1 DEF Next, Threads
<1>8. look["inf"].st = "none"
  <2>1. CASE ListTable("inf") \/ RunRule("inf")
    <3>1. /\ look["inf"].st # "none"
          /\ todo' = todo \/ todo' = [todo EXCEPT !["inf"] = @ \ {look["inf"].op}]
      BY <2>1 DEF ListTable, RunRule, Done
    <3>2. look["inf"].op.on = "rule"
      BY <3>1 DEF AheadInv, LooksAhead
    <3>3. o = look["inf"].op
      BY <3>1 DEF TypeOK, Threads
    <3> QED BY <3>2, <3>3
  <2>2. CASE ~(ListTable("inf") \/ RunRule("inf"))
    BY <1>7, <2>2 DEF Command, UpdateRoute, ConfigureSNAT, ListRules, Dial, Next1
  <2> QED BY <2>1, <2>2
<1>9. ~(ListTable("inf") \/ RunRule("inf"))
  BY <1>8 DEF ListTable, RunRule
<1>10. PICK q \in todo["inf"] :
         /\ \A p \in todo["inf"] : q.stage <= p.stage
         /\ todo' = todo \/ todo' = [todo EXCEPT !["inf"] = @ \ {q}]
  BY <1>7, <1>9 DEF Command, UpdateRoute, ConfigureSNAT, ListRules, Dial, Next1, Done
<1>11. q = o
  BY <1>10 DEF TypeOK, Threads
<1> QED BY <1>1, <1>10, <1>11

\* The daemon connects to the VPN pod when the iptables rules of the data are
\* there, its remote subnets have a route and the table a rule (handleRoutes
\* and handleRoutesSNAT of routedaemon.go), for all data and all that the
\* kernel held before, unless a command has failed or the signal
\* handler is deleting routes.
THEOREM WokenWhenReady == ASSUME SourcesAssumption PROVE Spec => WakeAfterSNAT
<1>1. ASSUME TypeOK, AheadInv, [Next]_vars,
             NEW o \in todo["inf"] \ todo'["inf"],
             o.on = "dial", proc' = "up", pc["sig"] = "idle", NEW p \in Installed(target)
      PROVE  There(p)
  <2>1. pc["inf"] = "add" /\ \A q \in todo["inf"] : o.stage <= q.stage
    BY <1>1, DialStep
  <2>2. todo["inf"] \subseteq AllOps /\ p \in AllOps /\ p.on # "dial"
    BY <1>1, CallsRunOps DEF Installed, handleRoutes, TypeOK, Threads
  <2>3. \A q \in todo["inf"] : q.on = "dial"
    <3> TAKE q \in todo["inf"]
    <3>1. o.stage = 8 /\ o.stage <= q.stage
      BY <1>1, <2>1, <2>2, DialLast
    <3> QED BY <2>2, <3>1, DialLast
  <2>4. ~ToCome(p)
    BY <2>2, <2>3 DEF ToCome, SameEntry
  <2> QED BY <1>1, <2>1, <2>4 DEF AheadInv, ThereOrToCome
<1>2. TypeOK /\ ("failed" \notin taint => AheadInv) /\ [Next]_vars =>
        [\A o \in todo["inf"] \ todo'["inf"] :
           o.on = "dial" /\ proc' = "up" /\ pc["sig"] = "idle" /\ "failed" \notin taint =>
             \A p \in Installed(target) :
               CASE p.on = "nat" -> nat[p] > 0
                 [] p.on = "rule" -> Found(p)
                 [] OTHER -> \E r \in routes : r.table = p.table /\ r.dest = p.dest]_vars
  BY <1>1 DEF There
<1>3. TypeOK /\ TypeOK' /\ SavedInv /\ ("failed" \notin taint => AheadInv) /\ [Next]_vars
        => ("failed" \notin taint => AheadInv)'
  BY AheadStep, TaintGrows
<1> QED BY <1>2, <1>3, AheadBegin, TypeCorrect, SavedAlways, PTL DEF Spec, WakeAfterSNAT
=============================================================================
