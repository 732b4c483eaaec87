---------------------------- MODULE SharedTable ----------------------------
(***************************************************************************)
(* Two releases of the chart on one worker node.  Each has a route daemon, *)
(* a config map and VPN pods of its own, but the kernel is one, and their  *)
(* routing table may be one too: kube.CalculateRouterTable takes it from   *)
(* the last byte of the load balancer's address, and it is 200 for every   *)
(* release that has none.  UpdateRouteRule (src/network/net.go) therefore  *)
(* lists the table and leaves the rule alone while there are routes in it. *)
(*                                                                         *)
(* The releases serve different remote subnets and expose different local  *)
(* ones; with the same ones `ip route add' of the second would fail.       *)
(***************************************************************************)
EXTENDS Naturals, Sequences

CONSTANTS
  ConfigsA, ConfigsB,    \* the route data of the one release, of the other
  BudgetA, BudgetB,      \* how often each event of their environment happens
  NilMap, Absent, Tombstone, NoDevice,
  localIP, localSubnet, nonClusterSubnet, insideNAT, remap, Network,
  tunnelled, conflict, lookalike, Devices

VARIABLES
  cmA, leftA, feedA, seenA, procA, savedA, targetA, pcA, todoA, lookA, taintA,
  cmB, leftB, feedB, seenB, procB, savedB, targetB, pcB, todoB, lookB, taintB,
  routes, rules, nat, devTo,    \* of the node, as in RouteDaemon
  raced    \* history: the daemons have changed one table in opposite ways

varsA == <<cmA, leftA, feedA, seenA, procA, savedA, targetA, pcA, todoA, lookA, taintA>>
varsB == <<cmB, leftB, feedB, seenB, procB, savedB, targetB, pcB, todoB, lookB, taintB>>
nodeVars == <<routes, rules, nat, devTo>>
vars == <<varsA, varsB, nodeVars, raced>>

A == INSTANCE RouteDaemon WITH
  Configs <- ConfigsA, Budget <- BudgetA, cm <- cmA, left <- leftA, feed <- feedA,
  seen <- seenA, proc <- procA, saved <- savedA, target <- targetA, pc <- pcA,
  todo <- todoA, look <- lookA, taint <- taintA

B == INSTANCE RouteDaemon WITH
  Configs <- ConfigsB, Budget <- BudgetB, cm <- cmB, left <- leftB, feed <- feedB,
  seen <- seenB, proc <- procB, saved <- savedB, target <- targetB, pc <- pcB,
  todo <- todoB, look <- lookB, taint <- taintB

ASSUME DaemonsAssumption ==
  /\ A!DataAssumption /\ A!SubnetAssumption /\ A!BudgetAssumption
  /\ B!DataAssumption /\ B!SubnetAssumption /\ B!BudgetAssumption

ASSUME ReleasesAssumption ==
  \A d \in ConfigsA, e \in ConfigsB :
    /\ d.table = e.table =>
         \A s \in d.remote, u \in e.remote : Network[remap[s]] # Network[remap[u]]
    /\ A!VpnNode(d) /\ B!VpnNode(e) =>
         /\ \A s \in d.remote, u \in e.remote : remap[s] # remap[u]
         /\ A!TunnelRoutes(d) \cap B!TunnelRoutes(e) = {}

\* The tables for which a daemon has still to change the rule or its routes
TablesOf(todo) == {o.table : o \in {p \in todo : p.on \in {"route", "rule"}}}

\* One daemon deletes and the other adds, in one table
Opposed ==
  \E t, u \in A!Threads :
    /\ TablesOf(todoA[t]) \cap TablesOf(todoB[u]) # {}
    /\ (pcA[t] = "add") # (pcB[u] = "add")

Init ==
  /\ cmA = NilMap /\ leftA = BudgetA /\ feedA = <<NilMap>>
  /\ seenA = Absent /\ procA = "up" /\ savedA = NilMap /\ targetA = NilMap
  /\ pcA = A!Idle /\ todoA = A!Nothing /\ lookA = A!NotLooking /\ taintA = {}
  /\ cmB = NilMap /\ leftB = BudgetB /\ feedB = <<NilMap>>
  /\ seenB = Absent /\ procB = "up" /\ savedB = NilMap /\ targetB = NilMap
  /\ pcB = B!Idle /\ todoB = B!Nothing /\ lookB = B!NotLooking /\ taintB = {}
  /\ routes = {} /\ rules = {} /\ nat = [o \in A!NatOps \cup B!NatOps |-> 0]
  /\ devTo \in [A!Workers \cup B!Workers -> Devices]
  /\ raced = FALSE

Next ==
  /\ \/ A!Next /\ UNCHANGED varsB
     \/ B!Next /\ UNCHANGED varsA
  /\ raced' = (raced \/ Opposed')

Spec == Init /\ [][Next]_vars

-----------------------------------------------------------------------------
(* Properties.                                                             *)

\* No signal has come during a callback, no daemon was killed or has missed an
\* event, no command has failed, and Calico has moved no route.
Undisturbed ==
  /\ "overlap" \notin taintA \cup taintB
  /\ \A e \in {"kill", "relist", "calico", "fail"} :
       leftA[e] = BudgetA[e] /\ leftB[e] = BudgetB[e]

\* No daemon is in a call
Quiet == procA = "up" /\ pcA = A!Idle /\ procB = "up" /\ pcB = B!Idle

Both == A!Installed(savedA) \cup B!Installed(savedB)

Count(S, o) == IF o \in S THEN 1 ELSE 0

\* Neither release takes away what the other needs, and nothing stays behind
\* when both are gone: with both daemons quiet the kernel holds the entries of
\* the one and of the other, and the rule for a table as long as either has
\* routes in it.  If one has ever deleted in a table while the other added to
\* it, the rule for that table may be missing, but nothing else.
SharedExact ==
  Quiet /\ Undisturbed =>
    /\ routes = {o \in Both : o.on = "route"}
    /\ rules \subseteq Both
    /\ \A o \in Both \ rules : o.on = "rule" => raced /\ o.dest = "all"
    /\ \A o \in DOMAIN nat :
         nat[o] = Count(A!Installed(savedA), o) + Count(B!Installed(savedB), o)

\* "Don't delete rule if routes still in table" (helm/strongswan/README.md:276):
\* the rule for a whole table is never deleted while there is a route in it, its
\* own or the other daemon's, whenever that one has added it.
KeepsRuleInUse ==
  [][\A o \in rules \ rules' : o.dest = "all" => \A r \in routes : r.table # o.table]_vars
=============================================================================
