---------------------------- MODULE RouteDaemon ----------------------------
(***************************************************************************)
(* The route daemon of one worker node: src/strongswan/routedaemon.go, the *)
(* kernel commands it runs (src/network/net.go) and the informer that      *)
(* drives it (src/kube/configmap.go).                                      *)
(*                                                                         *)
(* Two goroutines run handleRoutes: "inf", the informer's callbacks, which *)
(* client-go calls one at a time, and "sig", handleSignal.  One call of    *)
(* handleRoutes is a set of commands; a goroutine runs them one by one in  *)
(* the order of their stages, and each `ip' or `iptables' process is one   *)
(* atomic step.  The order inside a stage is the order of a comma list of  *)
(* subnets, which is left open.  The process may die between any two steps *)
(* (SIGKILL, panic, log.Fatalf) and is then restarted; what it put in the  *)
(* kernel stays.                                                           *)
(***************************************************************************)
EXTENDS Naturals, Sequences, FiniteSets

CONSTANTS
  Configs,          \* the route data VPN pods publish (kube.RouteData)
  NilMap,           \* a nil Go map: Helm's empty config map, savedRouteMap = nil
  Absent,           \* there is no config map
  Tombstone,        \* cache.DeletedFinalStateUnknown
  localIP,          \* the IP address of this node
  localSubnet,      \* the subnet of this node
  nonClusterSubnet, \* NON_CLUSTER_SUBNET, as a set
  insideNAT,        \* the inside networks of localSubnetNAT
  remap,            \* subnet -> what remoteSubnetNAT makes of it
  Network,          \* subnet -> its network address (net.ParseCIDR)
  tunnelled,        \* subnets with a tunl0 gateway in routingTable
  conflict,         \* subnets with localIP, or a local route, in them
  lookalike,        \* source -> the sources whose rule line contains it
  Devices,          \* names of network devices
  NoDevice,         \* no route to a worker node
  Budget            \* how often each event of the environment happens

ASSUME DataAssumption ==
  /\ \A d \in Configs :
       /\ d.table \in Nat /\ d.table # 199
       /\ d.gw \notin nonClusterSubnet
  /\ NilMap \notin Configs /\ Absent \notin Configs /\ Tombstone \notin Configs
  /\ NilMap # Absent /\ Tombstone \notin {NilMap, Absent}
  /\ NoDevice \notin Devices

ASSUME SubnetAssumption ==
  /\ \A s \in tunnelled : Network[s] = s
  /\ \A s \in DOMAIN lookalike : s \in lookalike[s]

ASSUME BudgetAssumption ==
  Budget \in [{"publish", "helm", "kill", "signal", "relist", "calico", "fail"} -> Nat]

VARIABLES
  cm,       \* the config map in the API server
  left,     \* what is left of Budget
  feed,     \* events the informer has not delivered yet, oldest first
  seen,     \* the object in the informer's store
  proc,     \* "up" or "down": the daemon's process
  saved,    \* savedRouteMap
  target,   \* the data configMapCreated or configMapUpdated is adding
  pc,       \* per goroutine: "idle", or the handleRoutes call it is in
  todo,     \* per goroutine: commands of that call not yet run
  look,     \* per goroutine: how far UpdateRouteRule has got, for which rule
  routes,   \* kernel: routes of the daemon's tables
  rules,    \* kernel: ip rules
  nat,      \* kernel: how often each iptables rule is in POSTROUTING
  devTo,    \* kernel: worker node -> the device of the route Calico made
  taint     \* history: what has happened that handleRoutes does not undo

apiVars == <<cm, left, feed>>
kernelVars == <<routes, rules, nat>>
callVars == <<seen, saved, target, pc>>
vars == <<cm, left, feed, seen, proc, saved, target, pc, todo, look,
          routes, rules, nat, devTo, taint>>

Threads == {"inf", "sig"}
Maps == Configs \cup {NilMap}
Workers == {d.worker : d \in Configs} \ {localIP}

-----------------------------------------------------------------------------
(* The commands of one handleRoutes call.                                  *)

None == <<"", "">>
Tunnel == <<"", "tunl0">>

Op(stage, on, table, dest, hop) ==
  [stage |-> stage, on |-> on, table |-> table, dest |-> dest, hop |-> hop]

\* Is this the worker node of the VPN pod?
VpnNode(d) == localIP = d.worker

\* Does the VPN pod run on this node, in the node's own network?
HostNetwork(d) == VpnNode(d) /\ d.worker = d.pod

\* handleRoutesVpnNode: routes to local subnets behind the tunnel, in table 199
TunnelRoutes(d) ==
  {Op(1, "route", 199, s, Tunnel) :
     s \in ((d.local \cup insideNAT) \ {localSubnet}) \cap tunnelled}

\* handleRoutesVpnNode: one rule per remote subnet, when there is such a route
TunnelRules(d) ==
  {Op(2, "rule", 199, remap[s], None) : s \in {r \in d.remote : TunnelRoutes(d) # {}}}

handleRoutesVpnNode(d) == TunnelRoutes(d) \cup TunnelRules(d)

handleRoutesNonCluster(d) ==
  {Op(3, "nat", 0, s, None) : s \in nonClusterSubnet \ {d.workerSubnet}}

\* routeInfo: via the VPN pod on its node, via its node elsewhere
RouteInfo(d, dev) == IF VpnNode(d) THEN <<d.pod, "cali">> ELSE <<d.worker, dev>>

RouteRemoteSubnet(d, dev) ==
  {Op(4, "route", d.table, Network[remap[s]], RouteInfo(d, dev)) : s \in d.remote}

\* Faulty variant: the VPN pod is woken while the SNAT rule is being made
WakesEarly(d) ==
  {Op(7, "nat", 0, d.gw, None)} \cup
  {o \in {Op(6, "nat", 0, d.gw, <<d.pod, d.lbip>>),
          Op(6, "dial", 0, d.pod, None)} : VpnNode(d)}

\* SNAT on the VPN pod's node, MASQUERADE everywhere, then wake the VPN pod
handleRoutesSNAT(d) ==
  {Op(7, "nat", 0, d.gw, None)} \cup
  {o \in {Op(6, "nat", 0, d.gw, <<d.pod, d.lbip>>),
          Op(8, "dial", 0, d.pod, None)} : VpnNode(d)}

Ops(d, dev) ==
  UNION {IF VpnNode(d) THEN handleRoutesVpnNode(d) ELSE {},
         IF VpnNode(d) /\ ~HostNetwork(d) THEN handleRoutesNonCluster(d) ELSE {},
         IF HostNetwork(d) THEN {}
         ELSE RouteRemoteSubnet(d, dev)
                \cup {Op(5, "rule", d.table, "all", None)}
                \cup (IF d.usingLB THEN handleRoutesSNAT(d) ELSE {})}

AllOps == UNION {Ops(d, dev) : d \in Configs, dev \in Devices \cup {NoDevice}}
NatOps == {o \in AllOps : o.on = "nat"}

\* The early return of handleRoutes for data that is not complete
Complete(d) ==
  d # NilMap /\ d.remote # {} /\ d.table # 0 /\ d.worker # "" /\ d.workerSubnet # ""

\* Faulty variant: the word after "via" is taken
TakesGateway(d) ==
  IF VpnNode(d) \/ devTo[d.worker] = NoDevice THEN NoDevice ELSE d.worker

\* GetDeviceToWorkerNode, which is called on the other nodes only
GetDeviceToWorkerNode(d) == IF VpnNode(d) THEN NoDevice ELSE devTo[d.worker]

\* log.Fatalf: a subnet clashes with this node, or there is no device
Refuses(d, action) ==
  /\ Complete(d)
  /\ \/ action = "add" /\ {remap[s] : s \in d.remote} \cap conflict # {}
     \/ ~VpnNode(d) /\ GetDeviceToWorkerNode(d) = NoDevice

\* Faulty variant: the iptables rules are added but never deleted
KeepsNAT(d, action) ==
  IF ~Complete(d) THEN {}
  ELSE {o \in Ops(d, GetDeviceToWorkerNode(d)) : o.on \in {"dial", "nat"} => action = "add"}

\* What handleRoutes(d, action) runs
handleRoutes(d, action) ==
  IF ~Complete(d) THEN {}
  ELSE {o \in Ops(d, GetDeviceToWorkerNode(d)) : o.on = "dial" => action = "add"}

\* What is in the kernel for the data d
Installed(d) == handleRoutes(d, "del")

\* The routes rt, rules ru and iptables rules nt are those of S, each once
Exactly(S, rt, ru, nt) ==
  /\ rt = {o \in S : o.on = "route"}
  /\ ru = {o \in S : o.on = "rule"}
  /\ nt = [o \in NatOps |-> IF o \in S THEN 1 ELSE 0]

KernelIs(S) == Exactly(S, routes, rules, nat)

KernelEmpty == KernelIs({})

-----------------------------------------------------------------------------
(* The process: how it ends and starts again.                              *)

Idle == [t \in Threads |-> "idle"]
Nothing == [t \in Threads |-> {}]
NoLook == [st |-> "none", op |-> Op(0, "none", 0, "", None)]
NotLooking == [t \in Threads |-> NoLook]

\* The process ends here and now; the kernel keeps what is in it
Die ==
  /\ proc' = "down"
  /\ feed' = <<>> /\ seen' = Absent /\ saved' = NilMap /\ target' = NilMap
  /\ pc' = Idle /\ todo' = Nothing /\ look' = NotLooking
  /\ taint' = IF KernelEmpty THEN taint ELSE taint \cup {"leftover"}
  /\ UNCHANGED kernelVars

Spend(event) == left[event] > 0 /\ left' = [left EXCEPT ![event] = @ - 1]

\* SIGKILL, the node's OOM killer, a panic elsewhere in the process
Kill ==
  /\ proc = "up" /\ Spend("kill") /\ Die
  /\ UNCHANGED <<cm, devTo>>

\* Faulty variant: the watch starts with the next change
WatchesFromNow ==
  /\ proc = "down" /\ proc' = "up"
  /\ feed' = <<>>
  /\ UNCHANGED <<cm, left, callVars, todo, look, kernelVars, devTo, taint>>

\* The DaemonSet starts the daemon again: routeDaemonInit, WatchConfigMap
Restart ==
  /\ proc = "down" /\ proc' = "up"
  /\ feed' = IF cm = Absent THEN <<>> ELSE <<cm>>
  /\ UNCHANGED <<cm, left, callVars, todo, look, kernelVars, devTo, taint>>

\* Calico adds, moves or removes the route to a worker node
CalicoChange ==
  /\ Spend("calico")
  /\ \E w \in Workers, dev \in Devices \cup {NoDevice} :
       devTo' = [devTo EXCEPT ![w] = dev]
  /\ taint' = IF KernelEmpty /\ pc = Idle THEN taint ELSE taint \cup {"moved"}
  /\ UNCHANGED <<cm, feed, proc, callVars, todo, look, kernelVars>>

-----------------------------------------------------------------------------
(* The config map and the informer.                                        *)

Write(new) ==
  /\ cm' = new
  /\ feed' = IF proc = "up" THEN Append(feed, new) ELSE feed
  /\ UNCHANGED <<proc, callVars, todo, look, kernelVars, devTo, taint>>

\* UpdateConfigMap in a VPN pod; writing what is there makes no event
UpdateConfigMap ==
  /\ cm # Absent /\ Spend("publish")
  /\ \E d \in Configs \ {cm} : Write(d)

\* helm install and helm delete
HelmInstall == cm = Absent /\ Spend("helm") /\ Write(NilMap)
HelmDelete == cm # Absent /\ Spend("helm") /\ Write(Absent)

\* The watch breaks: what it had not delivered is lost, a list replaces it
Relist ==
  /\ proc = "up" /\ feed # <<>> /\ Spend("relist")
  /\ feed' = IF cm # Absent THEN <<cm>>
             ELSE IF seen = Absent THEN <<>> ELSE <<Tombstone>>
  /\ UNCHANGED <<cm, proc, callVars, todo, look, kernelVars, devTo, taint>>

\* The goroutine t calls handleRoutes(d, action): it stops the process, or
\* the goroutine has the commands of the call to run
Call(t, d, action, where) ==
  /\ ~Refuses(d, action)
  /\ pc' = [pc EXCEPT ![t] = where]
  /\ todo' = [todo EXCEPT ![t] = handleRoutes(d, action)]

\* The next event is for the informer's idle goroutine
Event(e) ==
  /\ proc = "up" /\ pc["inf"] = "idle"
  /\ feed # <<>> /\ e = Head(feed)

\* A callback starts while the signal handler deletes routes
Overlap == taint' = IF pc["sig"] = "idle" THEN taint ELSE taint \cup {"overlap"}

\* configMapCreated: savedRouteMap is set when the routes are there
configMapCreated ==
  \E new \in Maps :
    /\ Event(new) /\ seen = Absent
    /\ \/ /\ Call("inf", new, "add", "add")
          /\ feed' = Tail(feed) /\ seen' = new /\ target' = new
          /\ Overlap
          /\ UNCHANGED <<proc, saved, look, kernelVars>>
       \/ Refuses(new, "add") /\ Die
    /\ UNCHANGED <<cm, left, devTo>>

\* configMapDeleted: savedRouteMap is cleared before the routes are deleted;
\* its type assertion panics on a tombstone
configMapDeleted ==
  /\ seen # Absent
  /\ \/ /\ Event(Absent)
        /\ Call("inf", seen, "del", "drop")
        /\ feed' = Tail(feed) /\ seen' = Absent /\ saved' = NilMap
        /\ Overlap
        /\ UNCHANGED <<proc, target, look, kernelVars>>
     \/ Event(Absent) /\ Refuses(seen, "del") /\ Die
     \/ Event(Tombstone) /\ Die
  /\ UNCHANGED <<cm, left, devTo>>

\* What configMapUpdated takes for the old data
OldData == IF saved = NilMap THEN seen ELSE saved

\* configMapUpdated, up to its first handleRoutes call
configMapUpdated ==
  \E new \in Maps :
    /\ Event(new) /\ seen # Absent
    /\ \/ /\ OldData = new
          /\ saved' = OldData /\ feed' = Tail(feed) /\ seen' = new
          /\ UNCHANGED <<proc, target, pc, todo, look, kernelVars, taint>>
       \/ /\ OldData # new
          /\ Call("inf", OldData, "del", "del")
          /\ saved' = OldData /\ feed' = Tail(feed) /\ seen' = new /\ target' = new
          /\ Overlap
          /\ UNCHANGED <<proc, look, kernelVars>>
       \/ OldData # new /\ Refuses(OldData, "del") /\ Die
    /\ UNCHANGED <<cm, left, devTo>>

\* Faulty variant: the callback does not wait for the commands
ReturnsAtOnce(t, where) == proc = "up" /\ pc[t] = where

\* The goroutine t has run every command of its call
Returned(t, where) == proc = "up" /\ pc[t] = where /\ todo[t] = {}

\* configMapUpdated, from the first handleRoutes call to the second
UpdatedDeleted ==
  /\ Returned("inf", "del")
  /\ \/ /\ Call("inf", target, "add", "add")
        /\ saved' = NilMap
        /\ UNCHANGED <<feed, seen, proc, target, look, kernelVars, taint>>
     \/ Refuses(target, "add") /\ Die
  /\ UNCHANGED <<cm, left, devTo>>

\* Faulty variant: savedRouteMap is not set again
ForgetsSaved ==
  /\ Returned("inf", "add")
  /\ pc' = [pc EXCEPT !["inf"] = "idle"]
  /\ UNCHANGED <<apiVars, seen, proc, saved, target, todo, look, kernelVars, devTo, taint>>

\* configMapCreated and configMapUpdated, after the routes are added
Added ==
  /\ Returned("inf", "add")
  /\ saved' = target /\ pc' = [pc EXCEPT !["inf"] = "idle"]
  /\ UNCHANGED <<apiVars, seen, proc, target, todo, look, kernelVars, devTo, taint>>

\* configMapDeleted returns
Dropped ==
  /\ Returned("inf", "drop")
  /\ pc' = [pc EXCEPT !["inf"] = "idle"]
  /\ UNCHANGED <<apiVars, seen, proc, saved, target, todo, look, kernelVars, devTo, taint>>

\* handleSignal: the daemon has no VPN to clean up, so it deletes its routes
handleSignal ==
  /\ proc = "up" /\ pc["sig"] = "idle" /\ Spend("signal")
  /\ \/ /\ Call("sig", saved, "del", "del")
        /\ taint' = IF pc["inf"] = "idle" THEN taint ELSE taint \cup {"overlap"}
        /\ UNCHANGED <<feed, seen, proc, saved, target, look, kernelVars>>
     \/ Refuses(saved, "del") /\ Die
  /\ UNCHANGED <<cm, devTo>>

\* handleSignal wakes main, which returns and ends every goroutine
Exit ==
  /\ Returned("sig", "del") /\ Die
  /\ UNCHANGED <<cm, left, devTo>>

-----------------------------------------------------------------------------
(* The commands.                                                           *)

\* Faulty variant: configMapUpdated passes "add" twice
AddsTwice(t) == pc[t] = "add" \/ (t = "inf" /\ pc[t] = "del")

Adding(t) == pc[t] = "add"

\* o is a next command of the call that goroutine t is in
Next1(t, o) ==
  /\ proc = "up" /\ look[t].st = "none"
  /\ \A p \in todo[t] : o.stage <= p.stage

Done(t, o) == todo' = [todo EXCEPT ![t] = @ \ {o}]

\* Faulty variant: for a delete the whole table is flushed
FlushesTable(t) ==
  \E o \in todo[t] :
    /\ o.on = "route" /\ Next1(t, o) /\ Done(t, o)
    /\ routes' = IF ~Adding(t) THEN {r \in routes : r.table # o.table}
                 ELSE IF \E r \in routes : r.table = o.table /\ r.dest = o.dest
                 THEN routes ELSE routes \cup {o}
    /\ UNCHANGED <<apiVars, callVars, proc, look, rules, nat, devTo, taint>>

\* `ip route add' fails when the table has a route to the destination, and
\* `ip route del' when it has not this one; failures are only logged
UpdateRoute(t) ==
  \E o \in todo[t] :
    /\ o.on = "route" /\ Next1(t, o) /\ Done(t, o)
    /\ routes' = IF ~Adding(t) THEN routes \ {o}
                 ELSE IF \E r \in routes : r.table = o.table /\ r.dest = o.dest
                 THEN routes ELSE routes \cup {o}
    /\ UNCHANGED <<apiVars, callVars, proc, look, rules, nat, devTo, taint>>

\* `iptables -A' appends whatever is there, `-D' removes one occurrence
ConfigureSNAT(t) ==
  \E o \in todo[t] :
    /\ o.on = "nat" /\ Next1(t, o) /\ Done(t, o)
    /\ nat' = IF Adding(t) THEN [nat EXCEPT ![o] = @ + 1]
              ELSE IF nat[o] > 0 THEN [nat EXCEPT ![o] = @ - 1]
              ELSE nat
    /\ UNCHANGED <<apiVars, callVars, proc, look, routes, rules, devTo, taint>>

\* Faulty variant: any rule of the table will do
FoundAny(o) == \E r \in rules : r.table = o.table

\* UpdateRouteRule, first command: is there a rule for this source and table?
Found(o) == \E r \in rules : r.table = o.table /\ r.dest \in lookalike[o.dest]

ListRules(t) ==
  \E o \in todo[t] :
    /\ o.on = "rule" /\ Next1(t, o)
    /\ IF Adding(t) /\ Found(o)
       THEN Done(t, o) /\ look' = look
       ELSE /\ todo' = todo
            /\ look' = [look EXCEPT ![t] =
                 [st |-> IF Adding(t) THEN "run"
                         ELSE IF Found(o) THEN "found" ELSE "missing",
                  op |-> o]]
    /\ UNCHANGED <<apiVars, callVars, proc, kernelVars, devTo, taint>>

\* Faulty variant: an empty line counts as a route
EmptyLineCounts(o) == o \in AllOps

\* UpdateRouteRule for "del", second command: has the table any routes?
RoutesExist(o) == \E r \in routes : r.table = o.table

ListTable(t) ==
  \E o \in todo[t] :
    LET keep == look[t].st = "missing" \/ (o.dest = "all" /\ RoutesExist(o)) IN
    /\ proc = "up" /\ look[t].op = o /\ look[t].st \in {"found", "missing"}
    /\ look' = [look EXCEPT ![t] = IF keep THEN NoLook ELSE [st |-> "run", op |-> o]]
    /\ IF keep THEN Done(t, o) ELSE todo' = todo
    /\ UNCHANGED <<apiVars, callVars, proc, kernelVars, devTo, taint>>

\* UpdateRouteRule, last command: `ip rule add' or `ip rule del'
RunRule(t) ==
  \E o \in todo[t] :
    /\ proc = "up" /\ look[t].op = o /\ look[t].st = "run"
    /\ rules' = IF Adding(t) THEN rules \cup {o} ELSE rules \ {o}
    /\ Done(t, o) /\ look' = [look EXCEPT ![t] = NoLook]
    /\ UNCHANGED <<apiVars, callVars, proc, routes, nat, devTo, taint>>

\* handleRoutesSNAT: connect to the VPN pod, whatever the outcome
Dial(t) ==
  \E o \in todo[t] :
    /\ o.on = "dial" /\ Next1(t, o) /\ Done(t, o)
    /\ UNCHANGED <<apiVars, callVars, proc, look, kernelVars, devTo, taint>>

\* Faulty variant: the call gives up at the first command that fails
GivesUp(t) ==
  \E o \in todo[t] :
    /\ o.on # "dial" /\ proc = "up" /\ (Next1(t, o) \/ look[t].op = o)
    /\ Spend("fail") /\ todo' = [todo EXCEPT ![t] = {}]
    /\ look' = [look EXCEPT ![t] = NoLook] /\ taint' = taint \cup {"failed"}
    /\ UNCHANGED <<cm, feed, callVars, proc, kernelVars, devTo>>

\* An `ip' or `iptables' command fails, which is only logged: UpdateRouteRule
\* returns, and what the command was to do is not done
CommandFails(t) ==
  \E o \in todo[t] :
    /\ o.on # "dial" /\ proc = "up" /\ (Next1(t, o) \/ look[t].op = o)
    /\ Spend("fail") /\ Done(t, o)
    /\ look' = [look EXCEPT ![t] = NoLook] /\ taint' = taint \cup {"failed"}
    /\ UNCHANGED <<cm, feed, callVars, proc, kernelVars, devTo>>

Command(t) ==
  UpdateRoute(t) \/ ConfigureSNAT(t) \/ ListRules(t) \/ ListTable(t) \/ RunRule(t) \/ Dial(t)

-----------------------------------------------------------------------------
Init ==
  /\ cm = NilMap /\ left = Budget /\ feed = <<NilMap>>
  /\ seen = Absent /\ proc = "up" /\ saved = NilMap /\ target = NilMap
  /\ pc = Idle /\ todo = Nothing /\ look = NotLooking
  /\ routes = {} /\ rules = {} /\ nat = [o \in NatOps |-> 0]
  /\ devTo \in [Workers -> Devices \cup {NoDevice}]
  /\ taint = {}

Informer ==
  configMapCreated \/ configMapDeleted \/ configMapUpdated
    \/ UpdatedDeleted \/ Added \/ Dropped

Environment ==
  UpdateConfigMap \/ HelmInstall \/ HelmDelete \/ Relist \/ Kill \/ CalicoChange

Next ==
  \/ Informer \/ handleSignal \/ Exit \/ Restart \/ Environment
  \/ \E t \in Threads : Command(t) \/ CommandFails(t)

Spec == Init /\ [][Next]_vars

(***************************************************************************)
(* The scheduler runs every goroutine that can run, and the DaemonSet      *)
(* controller restarts the daemon.  Nothing is assumed of the environment. *)
(***************************************************************************)
Fairness ==
  /\ WF_vars(Informer) /\ WF_vars(Exit) /\ WF_vars(Restart)
  /\ \A t \in Threads : WF_vars(Command(t))

FairSpec == Spec /\ Fairness

-----------------------------------------------------------------------------
(* Properties.                                                             *)

LookOK ==
  look \in [Threads -> [st : {"none", "found", "missing", "run"},
                        op : AllOps \cup {NoLook.op}]]

\* Type invariant: every variable holds a value of the kind the code gives it.
TypeOK ==
  /\ cm \in Maps \cup {Absent}
  /\ left \in [DOMAIN Budget -> Nat]
  /\ feed \in Seq(Maps \cup {Absent, Tombstone})
  /\ seen \in Maps \cup {Absent}
  /\ proc \in {"up", "down"}
  /\ saved \in Maps /\ target \in Maps
  /\ pc \in [Threads -> {"idle", "add", "del", "drop"}]
  /\ todo \in [Threads -> SUBSET AllOps]
  /\ LookOK
  /\ routes \in SUBSET AllOps /\ rules \in SUBSET AllOps
  /\ nat \in [NatOps -> Nat]
  /\ devTo \in [Workers -> Devices \cup {NoDevice}]
  /\ taint \in SUBSET {"leftover", "moved", "overlap", "failed"}

\* What configMapUpdated relies on (routedaemon.go:72, "should never occur"):
\* between two callbacks savedRouteMap is the data of the object that the
\* informer will pass as the old one, through crashes, relists and signals.
SavedMatchesOld ==
  proc = "up" /\ pc["inf"] = "idle" => saved = IF seen = Absent THEN NilMap ELSE seen

\* Between two callbacks the routes, the rules and the iptables rules in the
\* kernel are exactly those of savedRouteMap, none missing, left over or
\* doubled: each configMapUpdated undoes what the one before it did, rules
\* that UpdateRouteRule finds or keeps included.
ExactWhenIdle ==
  proc = "up" /\ pc = Idle /\ taint = {} => KernelIs(Installed(saved))

\* While a callback runs, the kernel never holds entries of two versions of
\* the config map: configMapUpdated removes all of the old ones first, so
\* that `ip route add' cannot fail on an old route.
OneConfiguration ==
  taint = {} =>
    \E d \in Maps : /\ routes \cup rules \subseteq Installed(d)
                    /\ \A o \in NatOps : nat[o] <= IF o \in Installed(d) THEN 1 ELSE 0

\* handleSignal takes everything out of the kernel when no callback ran
\* during it and nothing had gone wrong before.
ShutdownClean ==
  [][Exit /\ pc["inf"] = "idle" /\ taint = {} => KernelEmpty]_vars

\* handleRoutesSNAT wakes the VPN pod only when each iptables rule it waits
\* for is there, and its remote subnets have a route and the table a rule.
\* Holds when no command has failed, and except while handleSignal deletes the
\* same entries: its connection may then come after a rule has gone.
WakeAfterSNAT ==
  [][\A o \in todo["inf"] \ todo'["inf"] :
       o.on = "dial" /\ proc' = "up" /\ pc["sig"] = "idle" /\ "failed" \notin taint =>
         \A p \in Installed(target) :
           CASE p.on = "nat" -> nat[p] > 0
             [] p.on = "rule" -> Found(p)
             [] OTHER -> \E r \in routes : r.table = p.table /\ r.dest = p.dest]_vars

\* The state of RouteSync, unless something has tainted the kernel
SyncPhase ==
  IF taint # {} THEN "spoilt"
  ELSE IF pc["inf"] = "add" THEN "adding"
  ELSE IF pc = Idle THEN "settled" ELSE "removing"

SyncWant ==
  IF taint # {} THEN {}
  ELSE IF pc["inf"] = "add" THEN Installed(target)
  ELSE IF pc = Idle THEN Installed(saved) ELSE {}

SyncKernel ==
  IF taint # {} THEN {} ELSE routes \cup rules \cup {o \in NatOps : nat[o] > 0}

Sync == INSTANCE RouteSync WITH
  Configurations <- {{o \in Ops(d, dev) : o.on # "dial"} :
                       d \in Configs, dev \in Devices \cup {NoDevice}},
  phase <- SyncPhase, want <- SyncWant, kernel <- SyncKernel

\* The daemon implements RouteSync: commands, goroutines, relists, restarts
\* and repeated objects come to removing one configuration entry by entry and
\* then adding the next, with nothing removed while adding or left in between.
ImplementsRouteSync == Sync!Spec

\* A crash, or a command that fails, leaves at most one more copy of an iptables
\* rule behind, however often the config map changes and the daemon restarts:
\* `iptables -A' adds duplicates, and every callback deletes as many as it added.
Spent(event) == Budget[event] - left[event]

DuplicatesPerCrash ==
  \A o \in NatOps :
    nat[o] <= 1 + Spent("kill") + Spent("signal") + Spent("relist") + Spent("calico")
                + Spent("fail")

\* What is not between two callbacks as savedRouteMap says: destinations of
\* routes, and iptables rules
Astray ==
  LET needed == {o \in Installed(saved) : o.on = "route"} IN
  {<<o.table, o.dest>> : o \in (routes \ needed) \cup (needed \ routes)}

AstrayNat == {o \in NatOps : nat[o] # (IF o \in Installed(saved) THEN 1 ELSE 0)}

\* A command that fails does damage in one place, a destination or an iptables
\* rule, however often the config map changes after it: the commands that follow
\* it are run all the same, and no later callback carries the damage elsewhere.
\* (The rule of a table is not counted: it stays while a route stays in it.)
FailureStaysLocal ==
  proc = "up" /\ pc = Idle /\ taint \subseteq {"failed"} =>
    Cardinality(Astray) + Cardinality(AstrayNat) <= Spent("fail")

\* The data the daemon is to serve: what the API server holds
Wanted == IF cm = Absent THEN NilMap ELSE cm

\* The daemon cannot serve the config map: it restarts until it can
Unservable == Refuses(Wanted, "add")

Synced == proc = "up" /\ KernelIs(Installed(Wanted))

\* When the config map no longer changes, the kernel comes to hold exactly
\* its routes and stays so, whatever was missed, merged or stopped before,
\* unless an earlier process left entries behind or Calico moved a route.
Converges == <>[](Synced \/ Unservable \/ taint # {})

\* The entries of the config map are in the kernel, and no other routes
RoutesSynced ==
  /\ proc = "up"
  /\ routes = {o \in Installed(Wanted) : o.on = "route"}
  /\ rules = {o \in Installed(Wanted) : o.on = "rule"}
  /\ \A o \in Installed(Wanted) : o.on = "nat" => nat[o] > 0

\* After crashes and signals at any point the daemon, restarted, brings the
\* routes and the rules to those of the config map, when that has had one
\* version and no command has failed: see RemoteSubnetsRouted for what a second
\* version does.
RestartHeals ==
  <>[](\/ RoutesSynced \/ Unservable
       \/ Spent("publish") > 1 \/ Spent("helm") > 0 \/ Spent("fail") > 0)

\* "Configmap was updated.  Delete the old routes / Add the new ones."
\* (routedaemon.go:55): in the end the remote subnets of the config map are
\* routed to the worker node, or the pod, that it names.
RemoteSubnetsRouted ==
  <>[](Unservable \/ (proc = "up" /\ \A o \in Installed(Wanted) : o.on = "route" => o \in routes))

\* "Used by signal handler to clean up added routes" (routedaemon.go:37):
\* when handleSignal ends the process, no route or rule is left.
SignalHandlerCleansUp ==
  [][Exit => routes = {} /\ rules = {}]_vars
=============================================================================
