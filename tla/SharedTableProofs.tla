------------------------- MODULE SharedTableProofs -------------------------
(* Theorems about SharedTable, for every pair of releases.  The lemmas of  *)
(* RouteDaemonSharedProofs are about one daemon and the share b of another; *)
(* here each daemon is the other of the other.                             *)
EXTENDS SharedTable, TLAPS

PA == INSTANCE RouteDaemonSharedProofs WITH
  Configs <- ConfigsA, Budget <- BudgetA, cm <- cmA, left <- leftA, feed <- feedA,
  seen <- seenA, proc <- procA, saved <- savedA, target <- targetA, pc <- pcA,
  todo <- todoA, look <- lookA, taint <- taintA

PB == INSTANCE RouteDaemonSharedProofs WITH
  Configs <- ConfigsB, Budget <- BudgetB, cm <- cmB, left <- leftB, feed <- feedB,
  seen <- seenB, proc <- procB, saved <- savedB, target <- targetB, pc <- pcB,
  todo <- todoB, look <- lookB, taint <- taintB

-----------------------------------------------------------------------------
(* The daemon of release A, as SharedTable has it and as the lemmas do.    *)

\* The commands of a call are the same.
LEMMA SameCallsA ==
  /\ \A d, action : A!handleRoutes(d, action) = PA!handleRoutes(d, action)
  /\ \A d, action : A!Refuses(d, action) = PA!Refuses(d, action)
  /\ A!NatOps = PA!NatOps /\ A!AllOps = PA!AllOps /\ A!KernelEmpty = PA!KernelEmpty
  /\ \A d : A!VpnNode(d) = PA!VpnNode(d) /\ A!TunnelRoutes(d) = PA!TunnelRoutes(d)
<1>1. \A d : /\ A!Complete(d) = PA!Complete(d) /\ A!VpnNode(d) = PA!VpnNode(d)
             /\ A!GetDeviceToWorkerNode(d) = PA!GetDeviceToWorkerNode(d)
  BY DEF A!Complete, PA!Complete, A!VpnNode, PA!VpnNode,
         A!GetDeviceToWorkerNode, PA!GetDeviceToWorkerNode
<1>2. \A d, dev : A!Ops(d, dev) = PA!Ops(d, dev)
  BY DEF A!None, PA!None, A!Tunnel, PA!Tunnel, A!Op, PA!Op, A!VpnNode, PA!VpnNode,
         A!HostNetwork, PA!HostNetwork, A!TunnelRoutes, PA!TunnelRoutes,
         A!TunnelRules, PA!TunnelRules, A!handleRoutesVpnNode, PA!handleRoutesVpnNode,
         A!handleRoutesNonCluster, PA!handleRoutesNonCluster, A!RouteInfo, PA!RouteInfo,
         A!RouteRemoteSubnet, PA!RouteRemoteSubnet, A!handleRoutesSNAT, PA!handleRoutesSNAT,
         A!Ops, PA!Ops
<1>3. \A d, action : A!handleRoutes(d, action) = PA!handleRoutes(d, action)
  BY <1>1, <1>2 DEF A!handleRoutes, PA!handleRoutes
<1>4. \A d, action : A!Refuses(d, action) = PA!Refuses(d, action)
  BY <1>1 DEF A!Refuses, PA!Refuses
<1>5. A!NatOps = PA!NatOps /\ A!AllOps = PA!AllOps
  BY <1>2 DEF A!NatOps, PA!NatOps, A!AllOps, PA!AllOps
<1>6. A!KernelEmpty = PA!KernelEmpty
  BY <1>5 DEF A!KernelEmpty, PA!KernelEmpty, A!KernelIs, PA!KernelIs, A!Exactly, PA!Exactly
<1>7. \A d : A!TunnelRoutes(d) = PA!TunnelRoutes(d)
  BY DEF A!TunnelRoutes, PA!TunnelRoutes, A!Op, PA!Op, A!Tunnel, PA!Tunnel
<1> QED BY <1>1, <1>3, <1>4, <1>5, <1>6, <1>7

\* So are the steps.
LEMMA SameStepsA == A!Next => PA!Next
<1> USE SameCallsA
    DEF A!None, PA!None, A!Op, PA!Op, A!Idle, PA!Idle, A!Nothing, PA!Nothing, A!NoLook, PA!NoLook,
        A!NotLooking, PA!NotLooking, A!Threads, PA!Threads, A!Maps, PA!Maps, A!Workers, PA!Workers,
        A!apiVars, PA!apiVars, A!kernelVars, PA!kernelVars, A!callVars, PA!callVars
<1>1. A!Die => PA!Die
  BY DEF A!Die, PA!Die
<1>2. \A t, d, action, where : A!Call(t, d, action, where) => PA!Call(t, d, action, where)
  BY DEF A!Call, PA!Call
<1>3. \A e : A!Event(e) = PA!Event(e) /\ A!Spend(e) = PA!Spend(e)
  BY DEF A!Event, PA!Event, A!Spend, PA!Spend
<1>4. \A t, where : A!Returned(t, where) = PA!Returned(t, where)
  BY DEF A!Returned, PA!Returned
<1>5. A!configMapCreated => PA!configMapCreated
  BY <1>1, <1>2, <1>3 DEF A!configMapCreated, PA!configMapCreated, A!Overlap, PA!Overlap
<1>6. A!configMapDeleted => PA!configMapDeleted
  BY <1>1, <1>2, <1>3 DEF A!configMapDeleted, PA!configMapDeleted, A!Overlap, PA!Overlap
<1>7. A!configMapUpdated => PA!configMapUpdated
  BY <1>1, <1>2, <1>3 DEF A!configMapUpdated, PA!configMapUpdated, A!Overlap, PA!Overlap,
                          A!OldData, PA!OldData
<1>8. A!Informer => PA!Informer
  BY <1>1, <1>2, <1>4, <1>5, <1>6, <1>7
     DEF A!Informer, PA!Informer, A!UpdatedDeleted, PA!UpdatedDeleted, A!Added, PA!Added,
         A!Dropped, PA!Dropped
<1>9. A!handleSignal \/ A!Exit \/ A!Restart => PA!handleSignal \/ PA!Exit \/ PA!Restart
  BY <1>1, <1>2, <1>3, <1>4 DEF A!handleSignal, PA!handleSignal, A!Exit, PA!Exit,
                                A!Restart, PA!Restart
<1>10. A!Environment => PA!Environment
  BY <1>1, <1>3
     DEF A!Environment, PA!Environment, A!UpdateConfigMap, PA!UpdateConfigMap,
         A!HelmInstall, PA!HelmInstall, A!HelmDelete, PA!HelmDelete, A!Write, PA!Write,
         A!Relist, PA!Relist, A!Kill, PA!Kill, A!CalicoChange, PA!CalicoChange
<1>11. \A t, o : /\ A!Next1(t, o) = PA!Next1(t, o) /\ A!Done(t, o) = PA!Done(t, o)
                 /\ A!Adding(t) = PA!Adding(t)
  BY DEF A!Next1, PA!Next1, A!Done, PA!Done, A!Adding, PA!Adding
<1>12. \A t : A!UpdateRoute(t) \/ A!ConfigureSNAT(t) \/ A!Dial(t)
                => PA!UpdateRoute(t) \/ PA!ConfigureSNAT(t) \/ PA!Dial(t)
  BY <1>11 DEF A!UpdateRoute, PA!UpdateRoute, A!ConfigureSNAT, PA!ConfigureSNAT, A!Dial, PA!Dial
<1>13. \A t : A!ListRules(t) => PA!ListRules(t)
  BY <1>11 DEF A!ListRules, PA!ListRules, A!Found, PA!Found
<1>14. \A t : A!ListTable(t) \/ A!RunRule(t) => PA!ListTable(t) \/ PA!RunRule(t)
  BY <1>11 DEF A!ListTable, PA!ListTable, A!RoutesExist, PA!RoutesExist, A!RunRule, PA!RunRule
<1>15. \A t : A!Command(t) => PA!Command(t)
  BY <1>12, <1>13, <1>14 DEF A!Command, PA!Command
<1>16. \A t : A!CommandFails(t) => PA!CommandFails(t)
  BY <1>3, <1>11 DEF A!CommandFails, PA!CommandFails
<1> QED BY <1>8, <1>9, <1>10, <1>15, <1>16 DEF A!Next, PA!Next

-----------------------------------------------------------------------------
(* The daemon of release B, as SharedTable has it and as the lemmas do.    *)

\* The commands of a call are the same.
LEMMA SameCallsB ==
  /\ \A d, action : B!handleRoutes(d, action) = PB!handleRoutes(d, action)
  /\ \A d, action : B!Refuses(d, action) = PB!Refuses(d, action)
  /\ B!NatOps = PB!NatOps /\ B!AllOps = PB!AllOps /\ B!KernelEmpty = PB!KernelEmpty
  /\ \A d : B!VpnNode(d) = PB!VpnNode(d) /\ B!TunnelRoutes(d) = PB!TunnelRoutes(d)
<1>1. \A d : /\ B!Complete(d) = PB!Complete(d) /\ B!VpnNode(d) = PB!VpnNode(d)
             /\ B!GetDeviceToWorkerNode(d) = PB!GetDeviceToWorkerNode(d)
  BY DEF B!Complete, PB!Complete, B!VpnNode, PB!VpnNode,
         B!GetDeviceToWorkerNode, PB!GetDeviceToWorkerNode
<1>2. \A d, dev : B!Ops(d, dev) = PB!Ops(d, dev)
  BY DEF B!None, PB!None, B!Tunnel, PB!Tunnel, B!Op, PB!Op, B!VpnNode, PB!VpnNode,
         B!HostNetwork, PB!HostNetwork, B!TunnelRoutes, PB!TunnelRoutes,
         B!TunnelRules, PB!TunnelRules, B!handleRoutesVpnNode, PB!handleRoutesVpnNode,
         B!handleRoutesNonCluster, PB!handleRoutesNonCluster, B!RouteInfo, PB!RouteInfo,
         B!RouteRemoteSubnet, PB!RouteRemoteSubnet, B!handleRoutesSNAT, PB!handleRoutesSNAT,
         B!Ops, PB!Ops
<1>3. \A d, action : B!handleRoutes(d, action) = PB!handleRoutes(d, action)
  BY <1>1, <1>2 DEF B!handleRoutes, PB!handleRoutes
<1>4. \A d, action : B!Refuses(d, action) = PB!Refuses(d, action)
  BY <1>1 DEF B!Refuses, PB!Refuses
<1>5. B!NatOps = PB!NatOps /\ B!AllOps = PB!AllOps
  BY <1>2 DEF B!NatOps, PB!NatOps, B!AllOps, PB!AllOps
<1>6. B!KernelEmpty = PB!KernelEmpty
  BY <1>5 DEF B!KernelEmpty, PB!KernelEmpty, B!KernelIs, PB!KernelIs, B!Exactly, PB!Exactly
<1>7. \A d : B!TunnelRoutes(d) = PB!TunnelRoutes(d)
  BY DEF B!TunnelRoutes, PB!TunnelRoutes, B!Op, PB!Op, B!Tunnel, PB!Tunnel
<1> QED BY <1>1, <1>3, <1>4, <1>5, <1>6, <1>7

\* So are the steps.
LEMMA SameStepsB == B!Next => PB!Next
<1> USE SameCallsB
    DEF B!None, PB!None, B!Op, PB!Op, B!Idle, PB!Idle, B!Nothing, PB!Nothing, B!NoLook, PB!NoLook,
        B!NotLooking, PB!NotLooking, B!Threads, PB!Threads, B!Maps, PB!Maps, B!Workers, PB!Workers,
        B!apiVars, PB!apiVars, B!kernelVars, PB!kernelVars, B!callVars, PB!callVars
<1>1. B!Die => PB!Die
  BY DEF B!Die, PB!Die
<1>2. \A t, d, action, where : B!Call(t, d, action, where) => PB!Call(t, d, action, where)
  BY DEF B!Call, PB!Call
<1>3. \A e : B!Event(e) = PB!Event(e) /\ B!Spend(e) = PB!Spend(e)
  BY DEF B!Event, PB!Event, B!Spend, PB!Spend
<1>4. \A t, where : B!Returned(t, where) = PB!Returned(t, where)
  BY DEF B!Returned, PB!Returned
<1>5. B!configMapCreated => PB!configMapCreated
  BY <1>1, <1>2, <1>3 DEF B!configMapCreated, PB!configMapCreated, B!Overlap, PB!Overlap
<1>6. B!configMapDeleted => PB!configMapDeleted
  BY <1>1, <1>2, <1>3 DEF B!configMapDeleted, PB!configMapDeleted, B!Overlap, PB!Overlap
<1>7. B!configMapUpdated => PB!configMapUpdated
  BY <1>1, <1>2, <1>3 DEF B!configMapUpdated, PB!configMapUpdated, B!Overlap, PB!Overlap,
                          B!OldData, PB!OldData
<1>8. B!Informer => PB!Informer
  BY <1>1, <1>2, <1>4, <1>5, <1>6, <1>7
     DEF B!Informer, PB!Informer, B!UpdatedDeleted, PB!UpdatedDeleted, B!Added, PB!Added,
         B!Dropped, PB!Dropped
<1>9. B!handleSignal \/ B!Exit \/ B!Restart => PB!handleSignal \/ PB!Exit \/ PB!Restart
  BY <1>1, <1>2, <1>3, <1>4 DEF B!handleSignal, PB!handleSignal, B!Exit, PB!Exit,
                                B!Restart, PB!Restart
<1>10. B!Environment => PB!Environment
  BY <1>1, <1>3
     DEF B!Environment, PB!Environment, B!UpdateConfigMap, PB!UpdateConfigMap,
         B!HelmInstall, PB!HelmInstall, B!HelmDelete, PB!HelmDelete, B!Write, PB!Write,
         B!Relist, PB!Relist, B!Kill, PB!Kill, B!CalicoChange, PB!CalicoChange
<1>11. \A t, o : /\ B!Next1(t, o) = PB!Next1(t, o) /\ B!Done(t, o) = PB!Done(t, o)
                 /\ B!Adding(t) = PB!Adding(t)
  BY DEF B!Next1, PB!Next1, B!Done, PB!Done, B!Adding, PB!Adding
<1>12. \A t : B!UpdateRoute(t) \/ B!ConfigureSNAT(t) \/ B!Dial(t)
                => PB!UpdateRoute(t) \/ PB!ConfigureSNAT(t) \/ PB!Dial(t)
  BY <1>11 DEF B!UpdateRoute, PB!UpdateRoute, B!ConfigureSNAT, PB!ConfigureSNAT, B!Dial, PB!Dial
<1>13. \A t : B!ListRules(t) => PB!ListRules(t)
  BY <1>11 DEF B!ListRules, PB!ListRules, B!Found, PB!Found
<1>14. \A t : B!ListTable(t) \/ B!RunRule(t) => PB!ListTable(t) \/ PB!RunRule(t)
  BY <1>11 DEF B!ListTable, PB!ListTable, B!RoutesExist, PB!RoutesExist, B!RunRule, PB!RunRule
<1>15. \A t : B!Command(t) => PB!Command(t)
  BY <1>12, <1>13, <1>14 DEF B!Command, PB!Command
<1>16. \A t : B!CommandFails(t) => PB!CommandFails(t)
  BY <1>3, <1>11 DEF B!CommandFails, PB!CommandFails
<1> QED BY <1>8, <1>9, <1>10, <1>15, <1>16 DEF B!Next, PB!Next

-----------------------------------------------------------------------------
(* The two together.                                                       *)

\* The text of a rule for one source is in no other rule's.
ProperSources == PA!ProperSources /\ PB!ProperSources

\* What the two have in the kernel
Shared == PA!Split(routes, rules, nat, PA!Share, PB!Share, raced)

SharedInv ==
  /\ PA!LeftOK /\ PB!LeftOK
  /\ Opposed => raced
  /\ PA!Calm /\ PB!Calm => PA!DaemonInv /\ PB!DaemonInv /\ Shared

\* What is said of a share is the same for both.
LEMMA SameShares ==
  /\ \A a : PA!WellFormed(a) = PB!WellFormed(a)
  /\ \A rt, ru, nt, a, b, r : PA!Split(rt, ru, nt, a, b, r) = PB!Split(rt, ru, nt, a, b, r)
  /\ \A S, T : PA!Apart(S, T) = PB!Apart(S, T)
BY DEF PA!WellFormed, PB!WellFormed, PA!RuleForm, PB!RuleForm, PA!Op, PB!Op, PA!None, PB!None,
       PA!Split, PB!Split, PA!Count, PB!Count, PA!Apart, PB!Apart

\* No command of the one release is in the way of one of the other.
LEMMA ReleasesApart ==
  PA!Apart(PA!AllOps, PB!AllOps) /\ PB!Apart(PB!AllOps, PA!AllOps)
<1>1. ASSUME NEW o \in PA!AllOps, NEW x \in PB!AllOps
      PROVE  /\ o.on = "route" /\ x.on = "route" /\ o.table = x.table => o.dest # x.dest
             /\ o.on = "rule" /\ o.dest # "all" => o # x
  <2>1. PICK d \in ConfigsA, v \in Devices \cup {NoDevice} : o \in PA!Ops(d, v)
    BY DEF PA!AllOps
  <2>2. PICK e \in ConfigsB, w \in Devices \cup {NoDevice} : x \in PB!Ops(e, w)
    BY DEF PB!AllOps
  <2>3. d.table # 199 /\ e.table # 199
    BY DaemonsAssumption DEF A!DataAssumption, B!DataAssumption
  <2>4. /\ d.table = e.table =>
             \A s \in d.remote, u \in e.remote : Network[remap[s]] # Network[remap[u]]
        /\ PA!VpnNode(d) /\ PB!VpnNode(e) =>
             /\ \A s \in d.remote, u \in e.remote : remap[s] # remap[u]
             /\ PA!TunnelRoutes(d) \cap PB!TunnelRoutes(e) = {}
    BY ReleasesAssumption, SameCallsA, SameCallsB
  <2>5. /\ o.on = "route" =>
             \/ PA!VpnNode(d) /\ o \in PA!TunnelRoutes(d)
             \/ o.table = d.table /\ \E s \in d.remote : o.dest = Network[remap[s]]
        /\ o.on = "rule" /\ o.dest # "all" =>
             PA!VpnNode(d) /\ \E s \in d.remote : o.dest = remap[s]
    BY <2>1, PA!OpsNamed, DaemonsAssumption
  <2>6. /\ x.on = "route" =>
             \/ PB!VpnNode(e) /\ x \in PB!TunnelRoutes(e)
             \/ x.table = e.table /\ \E s \in e.remote : x.dest = Network[remap[s]]
        /\ x.on = "rule" /\ x.dest # "all" =>
             PB!VpnNode(e) /\ \E s \in e.remote : x.dest = remap[s]
    BY <2>2, PB!OpsNamed, DaemonsAssumption
  <2>7. /\ o \in PA!TunnelRoutes(d) => o = PA!Op(1, "route", 199, o.dest, PA!Tunnel)
        /\ x \in PB!TunnelRoutes(e) => x = PB!Op(1, "route", 199, x.dest, PB!Tunnel)
    BY PA!OpsKinds, PB!OpsKinds, DaemonsAssumption
  <2>8. ASSUME o.on = "route", x.on = "route", o.table = x.table, o.dest = x.dest PROVE FALSE
    <3>1. CASE o.table = 199
      <4>1. o \in PA!TunnelRoutes(d) /\ x \in PB!TunnelRoutes(e) /\ PA!VpnNode(d) /\ PB!VpnNode(e)
        BY <2>3, <2>5, <2>6, <2>8, <3>1
      <4>2. o = x
        BY <2>7, <2>8, <4>1 DEF PA!Op, PB!Op, PA!Tunnel, PB!Tunnel
      <4> QED BY <2>4, <4>1, <4>2
    <3>2. CASE o.table # 199
      <4>1. o \notin PA!TunnelRoutes(d) /\ x \notin PB!TunnelRoutes(e)
        BY <2>7, <2>8, <3>2 DEF PA!Op, PB!Op
      <4>2. PICK s \in d.remote, u \in e.remote :
              /\ o.table = d.table /\ o.dest = Network[remap[s]]
              /\ x.table = e.table /\ x.dest = Network[remap[u]]
        BY <2>5, <2>6, <2>8, <4>1
      <4> QED BY <2>4, <2>8, <4>2
    <3> QED BY <3>1, <3>2
  <2>9. ASSUME o.on = "rule", o.dest # "all", o = x PROVE FALSE
    BY <2>4, <2>5, <2>6, <2>9
  <2> QED BY <2>8, <2>9
<1> QED BY <1>1 DEF PA!Apart, PB!Apart

\* Either of them can be the one and the other the other.
LEMMA BothWays ==
  /\ Shared <=> PA!Split(routes, rules, nat, PA!Share, PB!Share, raced)
  /\ Shared <=> PB!Split(routes, rules, nat, PB!Share, PA!Share, raced)
  /\ Shared' <=> PA!Split(routes', rules', nat', PA!Share', PB!Share', raced')
  /\ Shared' <=> PB!Split(routes', rules', nat', PB!Share', PA!Share', raced')
<1>1. ASSUME NEW rt, NEW ru, NEW nt, NEW a, NEW b, NEW r
      PROVE  PA!Split(rt, ru, nt, a, b, r) <=> PB!Split(rt, ru, nt, b, a, r)
  BY PA!SplitTurned, SameShares, DaemonsAssumption
<1>2. Shared <=> PB!Split(routes, rules, nat, PB!Share, PA!Share, raced)
  BY <1>1 DEF Shared
<1>3. Shared' <=> PB!Split(routes', rules', nat', PB!Share', PA!Share', raced')
  BY <1>1 DEF Shared
<1> QED BY <1>2, <1>3 DEF Shared

\* Release A: while it adds routes to a table and they have not raced, the other
\* is not about to delete the rule of that table.
LEMMA UnopposedA ==
  ASSUME PB!DaemonInv, Opposed => raced, ~raced
  PROVE  PA!Unopposed(PB!Share)
<1> USE DEF A!Threads, PA!Threads, B!Threads, PB!Threads, A!Threads
<1> SUFFICES ASSUME NEW t \in PA!Threads, PA!Adding(t), NEW o \in todoA[t], o.on = "route",
                    NEW x \in PB!Deleting, x.table = o.table
             PROVE  FALSE
  BY DEF PA!Unopposed, PB!Share
<1>1. PICK u \in PB!Threads : lookB[u].st = "run" /\ lookB[u].op = x /\ ~PB!Adding(u)
  BY DEF PB!Deleting
<1>2. x \in todoB[u] /\ x.on = "rule"
  BY <1>1 DEF PB!DaemonInv, PB!LooksAtFirst
<1>3. o.table \in TablesOf(todoA[t]) /\ o.table \in TablesOf(todoB[u])
  BY <1>2 DEF TablesOf
<1>4. pcA[t] = "add" /\ pcB[u] # "add"
  BY <1>1 DEF PA!Adding, PB!Adding
<1> QED BY <1>3, <1>4 DEF Opposed

\* A step of release A, when both are calm.
LEMMA StepA ==
  ASSUME ProperSources, SharedInv, PA!Calm', PB!Calm',
         [PA!Next]_(PA!vars), UNCHANGED varsB, raced => raced'
  PROVE  PA!DaemonInv' /\ PB!DaemonInv' /\ Shared'
<1> USE DEF varsB
<1>1. PA!Calm /\ ~PA!Faulty
  BY PA!CalmStep, DaemonsAssumption DEF SharedInv
<1>2. PB!Calm
  BY DEF PB!Calm
<1>3. PA!DaemonInv /\ PB!DaemonInv /\ PA!Split(routes, rules, nat, PA!Share, PB!Share, raced)
  BY <1>1, <1>2, BothWays DEF SharedInv
<1>4. PA!DaemonInv' /\ devTo' = devTo
  BY <1>1, <1>3, PA!DaemonStep, DaemonsAssumption
<1>5. PB!DaemonInv' /\ PB!Share' = PB!Share
  BY <1>3, <1>4, PB!ShareKept, DaemonsAssumption
<1>6. PA!WellFormed(PB!Share)
  BY <1>3, PB!ShareWellFormed, SameShares, DaemonsAssumption DEF ProperSources
<1>7. PA!Apart(PA!AllOps, PB!Share.reach)
  <2>1. PB!Share.reach \subseteq PB!AllOps
    BY <1>3, PB!ReachTyped, DaemonsAssumption
  <2> QED BY <2>1, ReleasesApart DEF PA!Apart
<1>8. ~raced => PA!Unopposed(PB!Share)
  BY <1>3, UnopposedA DEF SharedInv
<1> DEFINE b == PB!Share
<1>9. PA!Split(routes', rules', nat', PA!Share', b, raced)
  <2>1. PA!WellFormed(b) /\ PA!Apart(PA!AllOps, b.reach) /\ (~raced => PA!Unopposed(b))
        /\ PA!Split(routes, rules, nat, PA!Share, b, raced) /\ PA!ProperSources
    BY <1>3, <1>6, <1>7, <1>8 DEF ProperSources
  <2> HIDE DEF b
  <2> QED BY <1>1, <1>3, <2>1, PA!SplitStep, DaemonsAssumption
<1>10. PA!Split(routes', rules', nat', PA!Share', PB!Share', raced')
  BY <1>5, <1>9, PA!SplitWeakens, DaemonsAssumption
<1> QED BY <1>4, <1>5, <1>10, BothWays

\* Release B: while it adds routes to a table and they have not raced, the other
\* is not about to delete the rule of that table.
LEMMA UnopposedB ==
  ASSUME PA!DaemonInv, Opposed => raced, ~raced
  PROVE  PB!Unopposed(PA!Share)
<1> USE DEF B!Threads, PB!Threads, A!Threads, PA!Threads, A!Threads
<1> SUFFICES ASSUME NEW t \in PB!Threads, PB!Adding(t), NEW o \in todoB[t], o.on = "route",
                    NEW x \in PA!Deleting, x.table = o.table
             PROVE  FALSE
  BY DEF PB!Unopposed, PA!Share
<1>1. PICK u \in PA!Threads : lookA[u].st = "run" /\ lookA[u].op = x /\ ~PA!Adding(u)
  BY DEF PA!Deleting
<1>2. x \in todoA[u] /\ x.on = "rule"
  BY <1>1 DEF PA!DaemonInv, PA!LooksAtFirst
<1>3. o.table \in TablesOf(todoB[t]) /\ o.table \in TablesOf(todoA[u])
  BY <1>2 DEF TablesOf
<1>4. pcB[t] = "add" /\ pcA[u] # "add"
  BY <1>1 DEF PB!Adding, PA!Adding
<1> QED BY <1>3, <1>4 DEF Opposed

\* A step of release B, when both are calm.
LEMMA StepB ==
  ASSUME ProperSources, SharedInv, PB!Calm', PA!Calm',
         [PB!Next]_(PB!vars), UNCHANGED varsA, raced => raced'
  PROVE  PB!DaemonInv' /\ PA!DaemonInv' /\ Shared'
<1> USE DEF varsA
<1>1. PB!Calm /\ ~PB!Faulty
  BY PB!CalmStep, DaemonsAssumption DEF SharedInv
<1>2. PA!Calm
  BY DEF PA!Calm
<1>3. PB!DaemonInv /\ PA!DaemonInv /\ PB!Split(routes, rules, nat, PB!Share, PA!Share, raced)
  BY <1>1, <1>2, BothWays DEF SharedInv
<1>4. PB!DaemonInv' /\ devTo' = devTo
  BY <1>1, <1>3, PB!DaemonStep, DaemonsAssumption
<1>5. PA!DaemonInv' /\ PA!Share' = PA!Share
  BY <1>3, <1>4, PA!ShareKept, DaemonsAssumption
<1>6. PB!WellFormed(PA!Share)
  BY <1>3, PA!ShareWellFormed, SameShares, DaemonsAssumption DEF ProperSources
<1>7. PB!Apart(PB!AllOps, PA!Share.reach)
  <2>1. PA!Share.reach \subseteq PA!AllOps
    BY <1>3, PA!ReachTyped, DaemonsAssumption
  <2> QED BY <2>1, ReleasesApart DEF PB!Apart
<1>8. ~raced => PB!Unopposed(PA!Share)
  BY <1>3, UnopposedB DEF SharedInv
<1> DEFINE b == PA!Share
<1>9. PB!Split(routes', rules', nat', PB!Share', b, raced)
  <2>1. PB!WellFormed(b) /\ PB!Apart(PB!AllOps, b.reach) /\ (~raced => PB!Unopposed(b))
        /\ PB!Split(routes, rules, nat, PB!Share, b, raced) /\ PB!ProperSources
    BY <1>3, <1>6, <1>7, <1>8 DEF ProperSources
  <2> HIDE DEF b
  <2> QED BY <1>1, <1>3, <2>1, PB!SplitStep, DaemonsAssumption
<1>10. PB!Split(routes', rules', nat', PB!Share', PA!Share', raced')
  BY <1>5, <1>9, PB!SplitWeakens, DaemonsAssumption
<1> QED BY <1>4, <1>5, <1>10, BothWays

-----------------------------------------------------------------------------
(* The invariant and the theorems.                                         *)

\* At first neither has anything in the kernel.
LEMMA SharedStart ==
  ASSUME Init
  PROVE  SharedInv
<1> USE DEF Init
<1>1. /\ PA!DaemonInv /\ PA!LeftOK
      /\ PA!Share.nat = PA!NatOps /\ PA!Share.hold = {} /\ PA!Share.reach = {} /\ PA!Share.firm = {}
      /\ PA!Share.missing = {} /\ PA!Share.deleting = {}
  <2>1. pcA = PA!Idle /\ todoA = PA!Nothing /\ lookA = PA!NotLooking
    BY DEF A!Idle, PA!Idle, A!Nothing, PA!Nothing, A!NotLooking, PA!NotLooking, A!NoLook, PA!NoLook,
           A!Op, PA!Op, A!None, PA!None, A!Threads, PA!Threads
  <2>2. \A w \in PA!Workers : devTo[w] \in Devices
    BY DEF A!Workers, PA!Workers
  <2> QED BY <2>1, <2>2, PA!FreshDaemon, DaemonsAssumption
<1>2. /\ PB!DaemonInv /\ PB!LeftOK
      /\ PB!Share.nat = PB!NatOps /\ PB!Share.hold = {} /\ PB!Share.reach = {} /\ PB!Share.firm = {}
      /\ PB!Share.missing = {} /\ PB!Share.deleting = {}
  <2>1. pcB = PB!Idle /\ todoB = PB!Nothing /\ lookB = PB!NotLooking
    BY DEF B!Idle, PB!Idle, B!Nothing, PB!Nothing, B!NotLooking, PB!NotLooking, B!NoLook, PB!NoLook,
           B!Op, PB!Op, B!None, PB!None, B!Threads, PB!Threads
  <2>2. \A w \in PB!Workers : devTo[w] \in Devices
    BY DEF B!Workers, PB!Workers
  <2> QED BY <2>1, <2>2, PB!FreshDaemon, DaemonsAssumption
<1>3. DOMAIN nat = PA!NatOps \cup PB!NatOps /\ \A o \in DOMAIN nat : nat[o] = 0
  BY SameCallsA, SameCallsB
<1> DEFINE a == PA!Share
           b == PB!Share
<1>4. Shared
  <2>1. /\ a.nat = PA!NatOps /\ a.hold = {} /\ a.reach = {} /\ a.firm = {}
        /\ a.missing = {} /\ a.deleting = {}
        /\ b.nat = PB!NatOps /\ b.hold = {} /\ b.reach = {} /\ b.firm = {}
        /\ b.missing = {} /\ b.deleting = {}
    BY <1>1, <1>2
  <2> HIDE DEF a, b
  <2>2. PA!Split(routes, rules, nat, a, b, raced)
    BY <1>3, <2>1 DEF PA!Split, PA!Count
  <2> QED BY <2>2 DEF a, b, Shared
<1>5. ~Opposed
  BY DEF Opposed, TablesOf, A!Nothing, B!Nothing, A!Threads, B!Threads
<1> QED BY <1>1, <1>2, <1>4, <1>5 DEF SharedInv

\* Every step is one of the one release or of the other.
LEMMA Steps ==
  ASSUME [Next]_vars
  PROVE  /\ \/ [PA!Next]_(PA!vars) /\ UNCHANGED varsB
            \/ [PB!Next]_(PB!vars) /\ UNCHANGED varsA
         /\ raced => raced'
<1>1. CASE A!Next /\ UNCHANGED varsB /\ raced' = (raced \/ Opposed')
  BY <1>1, SameStepsA
<1>2. CASE B!Next /\ UNCHANGED varsA /\ raced' = (raced \/ Opposed')
  BY <1>2, SameStepsB
<1>3. CASE UNCHANGED vars
  BY <1>3 DEF vars, varsA, varsB, nodeVars, PA!vars
<1> QED BY <1>1, <1>2, <1>3 DEF Next

\* The step of SharedInv.
LEMMA SharedStep ==
  ASSUME ProperSources, SharedInv, [Next]_vars
  PROVE  SharedInv'
<1>1. PA!LeftOK' /\ PB!LeftOK'
  <2>1. CASE [PA!Next]_(PA!vars) /\ UNCHANGED varsB
    <3>1. PA!LeftOK'
      BY <2>1, PA!LeftStep, DaemonsAssumption DEF SharedInv
    <3>2. PB!LeftOK'
      BY <2>1 DEF SharedInv, PB!LeftOK, varsB
    <3> QED BY <3>1, <3>2
  <2>2. CASE [PB!Next]_(PB!vars) /\ UNCHANGED varsA
    <3>1. PB!LeftOK'
      BY <2>2, PB!LeftStep, DaemonsAssumption DEF SharedInv
    <3>2. PA!LeftOK'
      BY <2>2 DEF SharedInv, PA!LeftOK, varsA
    <3> QED BY <3>1, <3>2
  <2> QED BY <2>1, <2>2, Steps
<1>2. (Opposed => raced)'
  <2>1. CASE raced' = (raced \/ Opposed')
    BY <2>1
  <2>2. CASE UNCHANGED vars
    BY <2>2 DEF vars, varsA, varsB, SharedInv, Opposed, TablesOf
  <2> QED BY <2>1, <2>2 DEF Next
<1>3. ASSUME PA!Calm', PB!Calm' PROVE PA!DaemonInv' /\ PB!DaemonInv' /\ Shared'
  BY <1>3, Steps, StepA, StepB
<1> QED BY <1>1, <1>2, <1>3 DEF SharedInv

\* Nothing has happened that would make SharedInv say nothing.
LEMMA UndisturbedIsCalm ==
  /\ Undisturbed => PA!Calm /\ PB!Calm
  /\ Undisturbed' => PA!Calm' /\ PB!Calm'
BY DEF Undisturbed, PA!Calm, PB!Calm

\* Neither release takes away what the other needs, and nothing stays behind
\* when both are gone.
THEOREM SharedExactAlways == ASSUME ProperSources PROVE Spec => []SharedExact
<1>1. SharedInv => SharedExact
  <2> SUFFICES ASSUME SharedInv, Quiet, Undisturbed
               PROVE  /\ routes = {o \in Both : o.on = "route"}
                      /\ rules \subseteq Both
                      /\ \A o \in Both \ rules : o.on = "rule" => raced /\ o.dest = "all"
                      /\ \A o \in DOMAIN nat : nat[o] = Count(A!Installed(savedA), o)
                                                          + Count(B!Installed(savedB), o)
    BY DEF SharedExact
  <2> DEFINE a == PA!Share
             b == PB!Share
  <2>1. PA!Split(routes, rules, nat, a, b, raced) /\ PA!DaemonInv /\ PB!DaemonInv
    BY UndisturbedIsCalm DEF SharedInv, Shared
  <2>2. PA!WellFormed(a) /\ PA!WellFormed(b)
    BY <2>1, PA!ShareWellFormed, PB!ShareWellFormed, SameShares, DaemonsAssumption DEF ProperSources
  <2>3. pcA = PA!Idle /\ pcB = PB!Idle
    BY DEF Quiet, A!Idle, PA!Idle, B!Idle, PB!Idle, A!Threads, PA!Threads, B!Threads, PB!Threads
  <2>4. /\ a.hold = A!Installed(savedA) /\ a.reach = A!Installed(savedA)
        /\ a.firm = A!Installed(savedA)
        /\ b.hold = B!Installed(savedB) /\ b.reach = B!Installed(savedB)
        /\ b.firm = B!Installed(savedB)
    BY <2>3, PA!IdleShare, PB!IdleShare, SameCallsA, SameCallsB, DaemonsAssumption
       DEF A!Installed, PA!Installed, B!Installed, PB!Installed
  <2> HIDE DEF a, b
  <2>5. routes = {o \in Both : o.on = "route"}
    BY <2>1, <2>4 DEF PA!Split, Both
  <2>6. rules \subseteq Both
    BY <2>1, <2>4 DEF PA!Split, Both
  <2>7. \A o \in Both \ rules : o.on = "rule" => raced /\ o.dest = "all"
    BY <2>1, <2>4 DEF PA!Split, Both
  <2>8. \A o \in DOMAIN nat :
          nat[o] = Count(A!Installed(savedA), o) + Count(B!Installed(savedB), o)
    BY <2>1, <2>4 DEF PA!Split, PA!Count, Count
  <2> QED BY <2>5, <2>6, <2>7, <2>8
<1> QED BY <1>1, SharedStart, SharedStep, PTL DEF Spec
=============================================================================
