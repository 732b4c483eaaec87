---------------------- MODULE RouteDaemonSharedProofs ----------------------
(* Proofs about RouteDaemon on a node where another daemon changes the same *)
(* kernel.  What a daemon has there is a share, a record that says nothing  *)
(* of how the daemon comes to it; the lemmas speak of this daemon's share   *)
(* and of any other that is well formed and apart from it.                  *)
EXTENDS RouteDaemonProofs

\* Nothing has happened that handleRoutes does not undo
Calm ==
  /\ "overlap" \notin taint
  /\ \A e \in {"kill", "relist", "calico", "fail"} : left[e] = Budget[e]

\* The steps that a calm daemon does not take
Faulty == Kill \/ Relist \/ CalicoChange \/ \E t \in Threads : CommandFails(t)

-----------------------------------------------------------------------------
(* The daemon by itself: what holds of its variables when it is calm.      *)

DaemonTypeOK ==
  /\ cm \in Maps \cup {Absent}
  /\ feed \in Seq(Maps \cup {Absent})
  /\ seen \in Maps \cup {Absent}
  /\ proc \in {"up", "down"}
  /\ saved \in Maps /\ target \in Maps
  /\ pc \in [Threads -> {"idle", "add", "del", "drop"}]
  /\ todo \in [Threads -> SUBSET AllOps]
  /\ LookOK
  /\ \A w \in Workers : devTo[w] \in Devices

\* T is what is left to do of the call with the commands C
Rest(T, C) == T \subseteq C /\ \A p \in T, o \in C : ~ o.stage <= p.stage => o \in T

CallInOrder ==
  /\ pc["inf"] = "idle" \/ pc["sig"] = "idle"
  /\ pc["sig"] # "add"
  /\ \A t \in Threads : pc[t] = "idle" => todo[t] = {}
  /\ pc["inf"] = "add" => Rest(todo["inf"], handleRoutes(target, "add"))
  /\ pc["inf"] \in {"del", "drop"} => \E d \in Maps : Rest(todo["inf"], Installed(d))
  /\ pc["sig"] # "idle" => Rest(todo["sig"], Installed(saved))

LooksAtFirst(t) ==
  look[t].st # "none" =>
    /\ look[t].op \in todo[t] /\ look[t].op.on = "rule"
    /\ \A p \in todo[t] : look[t].op.stage <= p.stage
    /\ Adding(t) => look[t].st = "run"

DaemonInv ==
  DaemonTypeOK /\ SavedInv /\ CallInOrder /\ \A t \in Threads : LooksAtFirst(t)

-----------------------------------------------------------------------------
(* Calm steps.                                                             *)

LeftOK ==
  /\ left \in [DOMAIN Budget -> Nat]
  /\ \A e \in DOMAIN Budget : left[e] <= Budget[e]

\* A step spends from the budget of one event, or from none.
LEMMA LeftMoves ==
  ASSUME [Next]_vars
  PROVE  \/ left' = left
         \/ \E e \in {"publish", "helm", "kill", "signal", "relist", "calico", "fail"} : Spend(e)
<1>1. CASE Informer
  BY <1>1 DEF Informer, configMapCreated, configMapDeleted, configMapUpdated, UpdatedDeleted,
              Added, Dropped, apiVars
<1>2. CASE handleSignal
  BY <1>2 DEF handleSignal
<1>3. CASE Exit \/ Restart
  BY <1>3 DEF Exit, Restart
<1>4. CASE Environment
  BY <1>4 DEF Environment, UpdateConfigMap, HelmInstall, HelmDelete, Relist, Kill, CalicoChange
<1>5. ASSUME NEW t \in Threads, Command(t) PROVE left' = left
  BY <1>5 DEF Command, UpdateRoute, ConfigureSNAT, ListRules, ListTable, RunRule, Dial, apiVars
<1>6. CASE UNCHANGED vars
  BY <1>6 DEF vars
<1>7. ASSUME NEW t \in Threads, CommandFails(t) PROVE Spend("fail")
  BY <1>7 DEF CommandFails
<1> QED BY <1>1, <1>2, <1>3, <1>4, <1>5, <1>6, <1>7 DEF Next

\* What is left of the budget only becomes less.
LEMMA LeftStep ==
  ASSUME LeftOK, [Next]_vars
  PROVE  LeftOK' /\ \A e \in DOMAIN Budget : left'[e] <= left[e]
<1>1. CASE left' = left
  BY <1>1 DEF LeftOK
<1>2. ASSUME NEW e \in {"publish", "helm", "kill", "signal", "relist", "calico", "fail"}, Spend(e)
      PROVE  LeftOK' /\ \A f \in DOMAIN Budget : left'[f] <= left[f]
  <2>1. e \in DOMAIN Budget /\ \A f \in DOMAIN Budget : Budget[f] \in Nat
    BY BudgetAssumption
  <2>2. left[e] - 1 \in Nat
    BY <1>2, <2>1 DEF Spend, LeftOK
  <2>3. left' = [left EXCEPT ![e] = @ - 1]
    BY <1>2 DEF Spend
  <2>4. \A f \in DOMAIN Budget : left'[f] <= left[f]
    BY <2>1, <2>2, <2>3 DEF LeftOK
  <2> QED BY <2>1, <2>2, <2>3, <2>4 DEF LeftOK
<1> QED BY <1>1, <1>2, LeftMoves

\* A calm daemon was calm before, and the step is none of the faults.
LEMMA CalmStep ==
  ASSUME LeftOK, [Next]_vars, Calm'
  PROVE  Calm /\ ~Faulty
<1>1. \A e \in {"kill", "relist", "calico", "fail"} : e \in DOMAIN Budget /\ Budget[e] \in Nat
  BY BudgetAssumption
<1>2. \A e \in {"kill", "relist", "calico", "fail"} :
        left[e] \in Nat /\ left[e] <= Budget[e] /\ left'[e] <= left[e]
  BY <1>1, LeftStep DEF LeftOK
<1>3. \A e \in {"kill", "relist", "calico", "fail"} : left[e] = Budget[e] /\ left'[e] = left[e]
  BY <1>1, <1>2 DEF Calm
<1>4. ASSUME NEW e \in {"kill", "relist", "calico", "fail"} PROVE ~Spend(e)
  BY <1>1, <1>2, <1>3 DEF Spend, LeftOK
<1>5. ~Faulty
  BY <1>4 DEF Faulty, Kill, Relist, CalicoChange, CommandFails
<1> QED BY <1>3, <1>5, TaintGrows DEF Calm

-----------------------------------------------------------------------------
(* The steps of a calm daemon that are no commands.                        *)

\* The commands of a call are of AllOps, and there is a device for each call.
LEMMA CallTypes ==
  ASSUME DaemonTypeOK, NEW d \in Maps, NEW action
  PROVE  /\ handleRoutes(d, action) \in SUBSET AllOps
         /\ \A o \in handleRoutes(d, action) :
              /\ d \in Configs /\ GetDeviceToWorkerNode(d) \in Devices \cup {NoDevice}
              /\ handleRoutes(d, action) \subseteq Ops(d, GetDeviceToWorkerNode(d))
<1>1. CASE ~Complete(d)
  BY <1>1 DEF handleRoutes
<1>2. CASE Complete(d)
  <2>1. d \in Configs
    BY <1>2 DEF Complete, Maps
  <2>2. GetDeviceToWorkerNode(d) \in Devices \cup {NoDevice}
    BY <2>1 DEF DaemonTypeOK, GetDeviceToWorkerNode, VpnNode, Workers
  <2>3. Ops(d, GetDeviceToWorkerNode(d)) \subseteq AllOps
    BY <2>1, <2>2 DEF AllOps
  <2> QED BY <1>2, <2>1, <2>2, <2>3 DEF handleRoutes
<1> QED BY <1>1, <1>2

\* Calico has made a route to every worker node: no delete is refused.
LEMMA DeletesNotRefused ==
  ASSUME DaemonTypeOK, NEW d \in Maps
  PROVE  ~Refuses(d, "del")
<1> SUFFICES ASSUME Complete(d), ~VpnNode(d), GetDeviceToWorkerNode(d) = NoDevice PROVE FALSE
  BY DEF Refuses
<1>1. d.worker \in Workers
  BY DEF Complete, Maps, VpnNode, Workers
<1> QED BY <1>1, DataAssumption DEF GetDeviceToWorkerNode, DaemonTypeOK

\* A goroutine that is in no call is not in UpdateRouteRule either.
LEMMA IdleLooks ==
  ASSUME DaemonInv, NEW t \in Threads, todo[t] = {}
  PROVE  look[t].st = "none"
BY DEF DaemonInv, LooksAtFirst

Stays == UNCHANGED <<pc, todo, look, saved, target>>

StartsDeleting ==
  /\ pc = Idle /\ look' = look
  /\ \E t \in Threads, where \in {"del", "drop"} :
       /\ t = "sig" => where = "del" /\ saved' = saved
       /\ pc' = [pc EXCEPT ![t] = where] /\ todo' = [todo EXCEPT ![t] = Installed(saved)]

StartsAdding ==
  /\ Doing = {} /\ pc["sig"] = "idle" /\ todo["inf"] = {} /\ look' = look
  /\ pc' = [pc EXCEPT !["inf"] = "add"]
  /\ todo' = [todo EXCEPT !["inf"] = handleRoutes(target', "add")]

FinishesAdding ==
  /\ pc["inf"] = "add" /\ todo["inf"] = {} /\ saved' = target /\ todo' = todo /\ look' = look
  /\ pc' = [pc EXCEPT !["inf"] = "idle"]

Ends ==
  /\ Doing = {} /\ pc["inf"] # "add" /\ pc' = Idle /\ todo' = Nothing /\ saved' = NilMap
  /\ look' \in {look, NotLooking} /\ \A t \in Threads : look'[t].st = "none"

Moves == Stays \/ StartsDeleting \/ StartsAdding \/ FinishesAdding \/ Ends

\* The end of the process, when nothing is left in the kernel.
LEMMA DieEnds ==
  ASSUME Die, Doing = {}, pc["inf"] # "add"
  PROVE  Ends
BY DEF Die, Ends, Nothing, NotLooking, NoLook

\* The callbacks of the informer.
LEMMA InformerMoves ==
  ASSUME DaemonInv, Calm, Calm', Informer
  PROVE  Moves
<1> USE DEF Threads
<1>1. /\ DaemonTypeOK /\ SavedInv /\ CallInOrder
      /\ pc \in [Threads -> {"idle", "add", "del", "drop"}] /\ todo \in [Threads -> SUBSET AllOps]
  BY DEF DaemonInv, DaemonTypeOK
<1>2. Overlap /\ pc["inf"] = "idle" => pc = Idle
  BY <1>1 DEF Overlap, Idle, Calm
<1>3. seen = Absent => Installed(saved) = {} \/ pc["inf"] # "idle"
  BY <1>1, NothingForNil DEF SavedInv, Data
<1>4. pc["inf"] = "idle" /\ Installed(saved) = {} => Doing = {}
  BY <1>1 DEF Doing, CallInOrder, Rest
<1>5. CASE configMapCreated
  <2>1. PICK new \in Maps :
          /\ Event(new) /\ seen = Absent
          /\ \/ Call("inf", new, "add", "add") /\ target' = new /\ Overlap /\ look' = look
             \/ Die
    BY <1>5 DEF configMapCreated
  <2>2. pc["inf"] = "idle" /\ Doing = {}
    BY <1>3, <1>4, <2>1 DEF Event
  <2>3. CASE Die
    BY <2>2, <2>3, DieEnds DEF Moves
  <2>4. CASE Call("inf", new, "add", "add") /\ target' = new /\ Overlap /\ look' = look
    <3>1. pc["sig"] = "idle" /\ todo["inf"] = {}
      BY <1>1, <1>2, <2>2, <2>4 DEF Idle, CallInOrder
    <3> QED BY <2>2, <2>4, <3>1 DEF Call, StartsAdding, Moves
  <2> QED BY <2>1, <2>3, <2>4
<1>6. CASE configMapDeleted
  <2>1. ~Event(Tombstone)
    <3>1. Tombstone \notin Maps \cup {Absent}
      BY DataAssumption DEF Maps
    <3>2. feed # <<>> => Head(feed) \in Maps \cup {Absent}
      BY <1>1 DEF DaemonTypeOK
    <3> QED BY <3>1, <3>2 DEF Event
  <2>2. seen \in Maps /\ seen # Absent
    BY <1>1, <1>6 DEF configMapDeleted, DaemonTypeOK
  <2>3. ~Refuses(seen, "del")
    BY <1>1, <2>2, DeletesNotRefused
  <2>4. Event(Absent) /\ Call("inf", seen, "del", "drop") /\ Overlap /\ look' = look
    BY <1>6, <2>1, <2>3 DEF configMapDeleted
  <2>5. pc = Idle /\ saved = seen
    BY <1>1, <1>2, <2>2, <2>4 DEF Event, SavedInv, Data
  <2> QED BY <2>4, <2>5 DEF Call, Installed, StartsDeleting, Moves
<1>7. CASE configMapUpdated
  <2>1. PICK new \in Maps :
          /\ Event(new) /\ seen # Absent
          /\ \/ /\ OldData = new /\ UNCHANGED <<target, pc, todo>>
                /\ saved' = OldData /\ look' = look
             \/ /\ Call("inf", OldData, "del", "del") /\ Overlap
                /\ saved' = OldData /\ look' = look
             \/ Refuses(OldData, "del")
    BY <1>7 DEF configMapUpdated
  <2>2. pc["inf"] = "idle" /\ saved = seen /\ OldData = saved /\ saved \in Maps
    BY <1>1, <2>1 DEF Event, SavedInv, Data, OldData, DaemonTypeOK
  <2>3. ~Refuses(OldData, "del")
    BY <1>1, <2>2, DeletesNotRefused
  <2>4. saved' = saved /\ look' = look
    BY <2>1, <2>2, <2>3
  <2>5. CASE UNCHANGED <<target, pc, todo>>
    BY <2>4, <2>5 DEF Stays, Moves
  <2>6. CASE Call("inf", OldData, "del", "del") /\ Overlap
    BY <1>2, <2>2, <2>4, <2>6 DEF Call, Installed, StartsDeleting, Moves
  <2> QED BY <2>1, <2>3, <2>5, <2>6
<1>8. CASE UpdatedDeleted
  <2>1. /\ pc["inf"] = "del" /\ todo["inf"] = {} /\ pc["sig"] = "idle"
        /\ \/ Call("inf", target, "add", "add") /\ target' = target /\ look' = look
           \/ Die
    BY <1>1, <1>8 DEF UpdatedDeleted, Returned, CallInOrder
  <2>2. Doing = {}
    BY <2>1 DEF Doing
  <2> QED BY <2>1, <2>2, DieEnds DEF Call, StartsAdding, Moves
<1>9. CASE Added
  BY <1>9 DEF Added, Returned, FinishesAdding, Moves
<1>10. CASE Dropped
  <2>1. /\ pc["inf"] = "drop" /\ todo["inf"] = {} /\ pc["sig"] = "idle" /\ todo["sig"] = {}
        /\ saved' = NilMap /\ todo' = todo /\ look' = look /\ pc' = [pc EXCEPT !["inf"] = "idle"]
    BY <1>1, <1>10 DEF Dropped, Returned, CallInOrder, SavedInv
  <2>2. Doing = {}
    BY <2>1 DEF Doing
  <2>3. \A t \in Threads : look'[t].st = "none"
    BY <2>1, IdleLooks
  <2>4. pc' = Idle /\ todo' = Nothing
    BY <1>1, <2>1 DEF Idle, Nothing
  <2> QED BY <2>1, <2>2, <2>3, <2>4 DEF Ends, Moves
<1> QED BY <1>5, <1>6, <1>7, <1>8, <1>9, <1>10 DEF Informer

\* Every other step of a calm daemon that is no command.
LEMMA OtherMoves ==
  ASSUME DaemonInv, Calm, Calm',
         \/ handleSignal \/ Exit \/ Restart \/ UpdateConfigMap \/ HelmInstall \/ HelmDelete
         \/ UNCHANGED vars
  PROVE  Moves
<1> USE DEF Threads
<1>1. /\ DaemonTypeOK /\ CallInOrder
      /\ pc \in [Threads -> {"idle", "add", "del", "drop"}] /\ saved \in Maps
  BY DEF DaemonInv, DaemonTypeOK
<1>2. CASE handleSignal
  <2>1. /\ pc["sig"] = "idle" /\ Call("sig", saved, "del", "del") /\ saved' = saved /\ look' = look
        /\ taint' = IF pc["inf"] = "idle" THEN taint ELSE taint \cup {"overlap"}
    BY <1>1, <1>2, DeletesNotRefused DEF handleSignal
  <2>2. pc = Idle
    BY <1>1, <2>1 DEF Calm, Idle
  <2> QED BY <2>1, <2>2 DEF Call, Installed, StartsDeleting, Moves
<1>3. CASE Exit
  <2>1. Doing = {} /\ pc["inf"] # "add"
    BY <1>1, <1>3 DEF Exit, Returned, Doing, CallInOrder
  <2> QED BY <1>3, <2>1, DieEnds DEF Exit, Moves
<1>4. CASE Restart \/ UpdateConfigMap \/ HelmInstall \/ HelmDelete
  BY <1>4 DEF Restart, UpdateConfigMap, HelmInstall, HelmDelete, Write, callVars, Stays, Moves
<1>5. CASE UNCHANGED vars
  BY <1>5 DEF vars, Stays, Moves
<1> QED BY <1>2, <1>3, <1>4, <1>5

\* An event is taken from the feed.
LEMMA TailTyped ==
  ASSUME NEW S, NEW f \in Seq(S), f # <<>>
  PROVE  Tail(f) \in Seq(S)
OBVIOUS

\* What the API server and the informer hold is of the right kind.
LEMMA ObjectsTyped ==
  ASSUME DaemonTypeOK, [Next]_vars, ~Faulty
  PROVE  /\ cm' \in Maps \cup {Absent}
         /\ feed' \in Seq(Maps \cup {Absent})
         /\ seen' \in Maps \cup {Absent}
         /\ proc' \in {"up", "down"}
         /\ saved' \in Maps /\ target' \in Maps
         /\ \A w \in Workers : devTo'[w] \in Devices
<1> USE DEF DaemonTypeOK
<1>0. NilMap \in Maps /\ Configs \subseteq Maps
  BY DEF Maps
<1>1. CASE Die /\ cm' = cm /\ devTo' = devTo
  BY <1>0, <1>1 DEF Die
<1>2. CASE Informer /\ ~Die
  <2>1. cm' = cm /\ devTo' = devTo /\ proc' = proc
    BY <1>2 DEF Informer, configMapCreated, configMapDeleted, configMapUpdated, UpdatedDeleted,
                Added, Dropped, apiVars
  <2>2. feed' = feed \/ (feed # <<>> /\ feed' = Tail(feed))
    <3>1. CASE configMapCreated \/ configMapDeleted
      BY <1>2, <3>1 DEF configMapCreated, configMapDeleted, Event
    <3>2. CASE configMapUpdated
      BY <1>2, <3>2 DEF configMapUpdated, Event
    <3>3. CASE UpdatedDeleted \/ Added \/ Dropped
      BY <1>2, <3>3 DEF UpdatedDeleted, Added, Dropped, apiVars
    <3> QED BY <1>2, <3>1, <3>2, <3>3 DEF Informer
  <2>3. seen' \in Maps \cup {Absent} /\ saved' \in Maps /\ target' \in Maps
    BY <1>0, <1>2 DEF Informer, configMapCreated, configMapDeleted, configMapUpdated,
                UpdatedDeleted, Added, Dropped, OldData
  <2>4. feed' \in Seq(Maps \cup {Absent})
    BY <2>2, TailTyped
  <2> QED BY <2>1, <2>3, <2>4
<1>3. CASE handleSignal /\ ~Die
  BY <1>3 DEF handleSignal
<1>4. CASE Restart
  <2>1. feed' = <<>> \/ feed' = <<cm>>
    BY <1>4 DEF Restart
  <2>2. feed' \in Seq(Maps \cup {Absent})
    BY <2>1, ShortFeedTyped, Zenon
  <2> QED BY <1>4, <2>2 DEF Restart, callVars
<1>5. CASE UpdateConfigMap \/ HelmInstall \/ HelmDelete
  <2>1. PICK new \in Maps \cup {Absent} : Write(new)
    BY <1>0, <1>5 DEF UpdateConfigMap, HelmInstall, HelmDelete
  <2> QED BY <2>1 DEF Write, callVars
<1>6. ASSUME NEW t \in Threads, Command(t)
      PROVE  UNCHANGED <<cm, feed, seen, proc, saved, target, devTo>>
  BY <1>6 DEF Command, UpdateRoute, ConfigureSNAT, ListRules, ListTable, RunRule, Dial, apiVars,
              callVars
<1>7. CASE UNCHANGED vars
  BY <1>7 DEF vars
<1>8. CASE Exit \/ Kill
  BY <1>1, <1>8 DEF Exit, Kill
<1>9. (Informer \/ handleSignal) => cm' = cm /\ devTo' = devTo
  BY DEF Informer, configMapCreated, configMapDeleted, configMapUpdated, UpdatedDeleted,
         Added, Dropped, apiVars, handleSignal
<1> QED BY <1>1, <1>2, <1>3, <1>4, <1>5, <1>6, <1>7, <1>8, <1>9 DEF Next, Environment, Faulty

\* The data a call is about is the same after a step, and so are its commands.
LEMMA CallSame ==
  ASSUME devTo' = devTo
  PROVE  /\ \A d, action : handleRoutes(d, action)' = handleRoutes(d, action)
         /\ \A d : Installed(d)' = Installed(d)
         /\ handleRoutes(target, "add")' = handleRoutes(target', "add")
         /\ Installed(saved)' = Installed(saved')
<1>1. \A d, action : handleRoutes(d, action)' = handleRoutes(d, action)
  BY CallKept
<1>2. \A d : Installed(d)' = Installed(d)
  BY <1>1 DEF Installed
<1>3. handleRoutes(target, "add")' = handleRoutes(target', "add")
  BY DEF handleRoutes, GetDeviceToWorkerNode
<1>4. Installed(saved)' = Installed(saved')
  BY DEF Installed, handleRoutes, GetDeviceToWorkerNode
<1> QED BY <1>1, <1>2, <1>3, <1>4

\* All of a call's commands are left to do when it begins.
LEMMA RestBegins ==
  ASSUME NEW C
  PROVE  Rest(C, C) /\ Rest({}, C)
BY DEF Rest

\* Such a step leaves the goroutines in order, each with the types it has.
LEMMA MovesInOrder ==
  ASSUME DaemonInv, Moves, devTo' = devTo, saved' \in Maps, target' \in Maps
  PROVE  /\ pc' \in [Threads -> {"idle", "add", "del", "drop"}]
         /\ todo' \in [Threads -> SUBSET AllOps]
         /\ LookOK'
         /\ CallInOrder' /\ \A t \in Threads : LooksAtFirst(t)'
<1> USE DEF Threads
<1>1. /\ pc \in [Threads -> {"idle", "add", "del", "drop"}]
      /\ todo \in [Threads -> SUBSET AllOps]
      /\ DaemonTypeOK /\ LookOK /\ CallInOrder /\ \A t \in Threads : LooksAtFirst(t)
      /\ saved \in Maps /\ target \in Maps
  BY DEF DaemonInv, DaemonTypeOK
<1>2. CASE Stays
  <2>1. pc' = pc /\ todo' = todo /\ look' = look /\ saved' = saved /\ target' = target
    BY <1>2 DEF Stays
  <2>2. CallInOrder'
    BY <1>1, <2>1, CallSame DEF CallInOrder
  <2>3. \A t \in Threads : LooksAtFirst(t)'
    BY <1>1, <2>1 DEF LooksAtFirst, Adding
  <2> QED BY <1>1, <2>1, <2>2, <2>3, LookKept
<1>3. CASE StartsDeleting
  <2>1. PICK t \in Threads, where \in {"del", "drop"} :
          /\ t = "sig" => where = "del" /\ saved' = saved
          /\ pc' = [pc EXCEPT ![t] = where] /\ todo' = [todo EXCEPT ![t] = Installed(saved)]
    BY <1>3 DEF StartsDeleting
  <2>2. Installed(saved) \in SUBSET AllOps
    BY <1>1, CallTypes DEF Installed
  <2>3. /\ \A u \in Threads : pc[u] = "idle" /\ todo[u] = {} /\ look'[u].st = "none"
        /\ pc'[t] = where /\ todo'[t] = Installed(saved)
        /\ \A u \in Threads \ {t} : pc'[u] = "idle" /\ todo'[u] = {}
    BY <1>1, <1>3, <2>1, IdleLooks DEF StartsDeleting, Idle, CallInOrder
  <2>4. Rest(Installed(saved), Installed(saved)) /\ Installed(saved)' = Installed(saved')
        /\ \A d : Installed(d)' = Installed(d)
    BY RestBegins, CallSame
  <2>5. CallInOrder'
    BY <1>1, <2>1, <2>3, <2>4 DEF CallInOrder
  <2>6. LookOK'
    BY <1>1, <1>3, LookKept DEF StartsDeleting
  <2> QED BY <1>1, <2>1, <2>2, <2>3, <2>5, <2>6 DEF LooksAtFirst
<1>4. CASE StartsAdding
  <2>1. PICK d \in Maps : d = target'
    OBVIOUS
  <2>2. handleRoutes(d, "add") \in SUBSET AllOps
    BY <1>1, CallTypes
  <2>3. /\ \A u \in Threads : todo[u] = {} /\ look'[u].st = "none"
        /\ pc'["inf"] = "add" /\ todo'["inf"] = handleRoutes(target', "add")
        /\ pc'["sig"] = "idle" /\ todo'["sig"] = {}
    BY <1>1, <1>4, IdleLooks DEF StartsAdding, CallInOrder
  <2>4. Rest(handleRoutes(target', "add"), handleRoutes(target', "add"))
        /\ handleRoutes(target, "add")' = handleRoutes(target', "add")
    BY RestBegins, CallSame
  <2>5. CallInOrder'
    BY <2>3, <2>4 DEF CallInOrder
  <2>6. LookOK' /\ pc' = [pc EXCEPT !["inf"] = "add"]
        /\ todo' = [todo EXCEPT !["inf"] = handleRoutes(d, "add")]
    BY <1>1, <1>4, <2>1, LookKept DEF StartsAdding
  <2>7. pc' \in [Threads -> {"idle", "add", "del", "drop"}] /\ todo' \in [Threads -> SUBSET AllOps]
    BY <1>1, <2>2, <2>6
  <2> QED BY <2>3, <2>5, <2>6, <2>7 DEF LooksAtFirst
<1>5. CASE FinishesAdding
  <2>1. \A u \in Threads : pc'[u] = "idle" /\ todo'[u] = {} /\ look'[u].st = "none"
    BY <1>1, <1>5, IdleLooks DEF FinishesAdding, CallInOrder
  <2>2. CallInOrder'
    BY <2>1 DEF CallInOrder
  <2>3. LookOK' /\ pc' = [pc EXCEPT !["inf"] = "idle"] /\ todo' = todo
    BY <1>1, <1>5, LookKept DEF FinishesAdding
  <2> QED BY <1>1, <2>1, <2>2, <2>3 DEF LooksAtFirst
<1>6. CASE Ends
  <2>1. \A u \in Threads : pc'[u] = "idle" /\ todo'[u] = {} /\ look'[u].st = "none"
    BY <1>6 DEF Ends, Idle, Nothing
  <2>2. CallInOrder'
    BY <2>1 DEF CallInOrder
  <2>3. LookOK'
    <3>1. CASE look' = look
      BY <1>1, <3>1, LookKept
    <3>2. CASE look' = NotLooking
      BY <3>2, NoLookTyped DEF NotLooking, LookOK
    <3> QED BY <1>6, <3>1, <3>2 DEF Ends
  <2> QED BY <1>6, <2>1, <2>2, <2>3 DEF Ends, Idle, Nothing, LooksAtFirst
<1> QED BY <1>2, <1>3, <1>4, <1>5, <1>6 DEF Moves

-----------------------------------------------------------------------------
(* Commands: one of the call is done, or UpdateRouteRule goes on with it.  *)

DoneStep(t, o) ==
  /\ o \in todo[t] /\ Done(t, o) /\ \A p \in todo[t] : o.stage <= p.stage
  /\ \/ look[t].st = "none" /\ look' = look
     \/ look' = [look EXCEPT ![t] = NoLook]
  /\ UNCHANGED <<callVars, devTo>>

LookStep(t, o, st) ==
  /\ o \in todo[t] /\ todo' = todo /\ \A p \in todo[t] : o.stage <= p.stage
  /\ o.on = "rule" /\ (Adding(t) => st = "run")
  /\ look' = [look EXCEPT ![t] = [st |-> st, op |-> o]]
  /\ UNCHANGED <<callVars, devTo>>

\* Every command does one or the other.
LEMMA CommandSteps ==
  ASSUME DaemonInv, NEW t \in Threads, Command(t)
  PROVE  \/ \E o \in todo[t] : DoneStep(t, o)
         \/ \E o \in todo[t], st \in {"found", "missing", "run"} : LookStep(t, o, st)
<1>0. LooksAtFirst(t)
  BY DEF DaemonInv
<1>1. CASE UpdateRoute(t)
  BY <1>1 DEF UpdateRoute, Next1, DoneStep
<1>2. CASE ConfigureSNAT(t)
  BY <1>2 DEF ConfigureSNAT, Next1, DoneStep
<1>3. CASE Dial(t)
  BY <1>3 DEF Dial, Next1, DoneStep
<1>4. CASE ListRules(t)
  <2>1. PICK o \in todo[t] :
          /\ o.on = "rule" /\ Next1(t, o)
          /\ \/ Done(t, o) /\ look' = look
             \/ /\ todo' = todo
                /\ \E st \in {"found", "missing", "run"} :
                     /\ look' = [look EXCEPT ![t] = [st |-> st, op |-> o]]
                     /\ Adding(t) => st = "run"
          /\ UNCHANGED <<callVars, devTo>>
    BY <1>4 DEF ListRules
  <2> QED BY <2>1 DEF Next1, DoneStep, LookStep
<1>5. CASE ListTable(t)
  <2>1. PICK o \in todo[t] :
          /\ look[t].op = o /\ look[t].st \in {"found", "missing"}
          /\ \/ Done(t, o) /\ look' = [look EXCEPT ![t] = NoLook]
             \/ todo' = todo /\ look' = [look EXCEPT ![t] = [st |-> "run", op |-> o]]
          /\ UNCHANGED <<callVars, devTo>>
    BY <1>5 DEF ListTable
  <2> QED BY <1>0, <2>1 DEF LooksAtFirst, DoneStep, LookStep
<1>6. CASE RunRule(t)
  <2>1. PICK o \in todo[t] :
          /\ look[t].op = o /\ look[t].st = "run"
          /\ Done(t, o) /\ look' = [look EXCEPT ![t] = NoLook]
          /\ UNCHANGED <<callVars, devTo>>
    BY <1>6 DEF RunRule
  <2> QED BY <1>0, <2>1 DEF LooksAtFirst, DoneStep
<1> QED BY <1>1, <1>2, <1>3, <1>4, <1>5, <1>6 DEF Command

\* What is left of a call when its first command is done.
LEMMA RestGoesOn ==
  ASSUME NEW T, NEW C, Rest(T, C), NEW o \in T, \A p \in T : o.stage <= p.stage
  PROVE  Rest(T \ {o}, C)
BY DEF Rest

\* While a goroutine has commands to run, the other has none.
LEMMA OneRuns ==
  ASSUME DaemonInv, NEW t \in Threads, todo[t] # {}
  PROVE  /\ pc[t] \in {"add", "del", "drop"} /\ (Adding(t) => t = "inf")
         /\ \A u \in Threads \ {t} : pc[u] = "idle" /\ todo[u] = {} /\ look[u].st = "none"
<1> USE DEF Threads
<1>1. CallInOrder /\ pc \in [Threads -> {"idle", "add", "del", "drop"}]
  BY DEF DaemonInv, DaemonTypeOK
<1>2. pc[t] \in {"add", "del", "drop"} /\ (Adding(t) => t = "inf")
  BY <1>1 DEF CallInOrder, Adding
<1>3. \A u \in Threads \ {t} : pc[u] = "idle" /\ todo[u] = {}
  BY <1>1, <1>2 DEF CallInOrder
<1> QED BY <1>2, <1>3, IdleLooks

\* The goroutines stay in order when a command is done.
LEMMA DoneInOrder ==
  ASSUME DaemonInv, NEW t \in Threads, NEW o, DoneStep(t, o)
  PROVE  /\ todo' \in [Threads -> SUBSET AllOps] /\ LookOK'
         /\ CallInOrder' /\ \A u \in Threads : LooksAtFirst(u)'
<1> USE DEF Threads
<1>1. /\ pc \in [Threads -> {"idle", "add", "del", "drop"}]
      /\ todo \in [Threads -> SUBSET AllOps]
      /\ LookOK /\ CallInOrder /\ \A u \in Threads : LooksAtFirst(u)
  BY DEF DaemonInv, DaemonTypeOK
<1>2. /\ pc' = pc /\ target' = target /\ saved' = saved /\ devTo' = devTo
      /\ o \in todo[t] /\ \A p \in todo[t] : o.stage <= p.stage
  BY DEF DoneStep, callVars
<1>3. /\ todo'[t] = todo[t] \ {o} /\ \A u \in Threads \ {t} : todo'[u] = todo[u]
      /\ todo' \in [Threads -> SUBSET AllOps]
  BY <1>1 DEF DoneStep, Done
<1>4. LookOK' /\ look'[t].st = "none" /\ \A u \in Threads \ {t} : look'[u] = look[u]
  <2>1. CASE look[t].st = "none" /\ look' = look
    BY <1>1, <2>1, LookKept
  <2>2. CASE look' = [look EXCEPT ![t] = NoLook]
    <3>1. NoLook.st = "none" /\ DOMAIN look = Threads
      BY <1>1 DEF NoLook, LookOK
    <3>2. LookOK'
      BY <1>1, <2>2, NoLookTyped DEF LookOK
    <3> QED BY <2>2, <3>1, <3>2
  <2> QED BY <2>1, <2>2 DEF DoneStep
<1>5. /\ \A d \in Maps : Installed(d)' = Installed(d)
      /\ handleRoutes(target, "add")' = handleRoutes(target, "add")
      /\ Installed(saved)' = Installed(saved)
  BY <1>2, CallSame, TargetKept, SavedKept
<1>6. \A C : Rest(todo[t], C) => Rest(todo'[t], C)
  BY <1>2, <1>3, RestGoesOn
<1>7. CallInOrder'
  BY <1>1, <1>2, <1>3, <1>5, <1>6, OneRuns DEF CallInOrder
<1>8. \A u \in Threads : LooksAtFirst(u)'
  BY <1>1, <1>2, <1>3, <1>4, OneRuns DEF LooksAtFirst
<1> QED BY <1>3, <1>4, <1>7, <1>8

\* They do when UpdateRouteRule goes on.
LEMMA LookInOrder ==
  ASSUME DaemonInv, NEW t \in Threads, NEW o, NEW st \in {"found", "missing", "run"},
         LookStep(t, o, st)
  PROVE  /\ todo' \in [Threads -> SUBSET AllOps] /\ LookOK'
         /\ CallInOrder' /\ \A u \in Threads : LooksAtFirst(u)'
<1> USE DEF Threads
<1>1. /\ pc \in [Threads -> {"idle", "add", "del", "drop"}]
      /\ todo \in [Threads -> SUBSET AllOps]
      /\ LookOK /\ CallInOrder /\ \A u \in Threads : LooksAtFirst(u)
  BY DEF DaemonInv, DaemonTypeOK
<1>2. /\ pc' = pc /\ target' = target /\ saved' = saved /\ devTo' = devTo /\ todo' = todo
      /\ o \in todo[t] /\ \A p \in todo[t] : o.stage <= p.stage
  BY DEF LookStep, callVars
<1>3. /\ look'[t] = [st |-> st, op |-> o] /\ \A u \in Threads \ {t} : look'[u] = look[u]
      /\ LookOK'
  <2>1. [st |-> st, op |-> o] \in [st : {"none", "found", "missing", "run"},
                                    op : AllOps \cup {NoLook.op}]
    BY <1>1, <1>2
  <2> QED BY <1>1, <2>1 DEF LookStep, LookOK
<1>4. CallInOrder'
  BY <1>1, <1>2, CallSame, TargetKept, SavedKept DEF CallInOrder
<1>5. \A u \in Threads : LooksAtFirst(u)'
  BY <1>1, <1>2, <1>3 DEF LooksAtFirst, LookStep, Adding
<1> QED BY <1>1, <1>2, <1>3, <1>4, <1>5

\* A calm daemon keeps its invariant, whatever is in the kernel.
LEMMA DaemonStep ==
  ASSUME DaemonInv, Calm, Calm', [Next]_vars, ~Faulty
  PROVE  DaemonInv' /\ devTo' = devTo
<1>1. SavedInv'
  BY SavedStep DEF DaemonInv, DaemonTypeOK
<1>2. /\ cm' \in Maps \cup {Absent} /\ feed' \in Seq(Maps \cup {Absent})
      /\ seen' \in Maps \cup {Absent} /\ proc' \in {"up", "down"}
      /\ saved' \in Maps /\ target' \in Maps
      /\ \A w \in Workers : devTo'[w] \in Devices
  BY ObjectsTyped DEF DaemonInv
<1>3. ASSUME NEW t \in Threads, Command(t)
      PROVE  /\ pc' = pc /\ devTo' = devTo
             /\ todo' \in [Threads -> SUBSET AllOps] /\ LookOK'
             /\ CallInOrder' /\ \A u \in Threads : LooksAtFirst(u)'
  BY <1>3, CommandSteps, DoneInOrder, LookInOrder DEF DoneStep, LookStep, callVars
<1>4. CASE \/ Informer \/ handleSignal \/ Exit \/ Restart
           \/ UpdateConfigMap \/ HelmInstall \/ HelmDelete \/ UNCHANGED vars
  <2>1. Moves
    BY <1>4, InformerMoves, OtherMoves
  <2>2. devTo' = devTo
    BY <1>4 DEF Informer, configMapCreated, configMapDeleted, configMapUpdated, UpdatedDeleted,
                Added, Dropped, handleSignal, Exit, Restart, UpdateConfigMap, HelmInstall,
                HelmDelete, Write, vars
  <2> QED BY <1>1, <1>2, <2>1, <2>2, MovesInOrder DEF DaemonInv, DaemonTypeOK
<1>5. ASSUME NEW t \in Threads, Command(t) PROVE DaemonInv' /\ devTo' = devTo
  BY <1>1, <1>2, <1>3, <1>5 DEF DaemonInv, DaemonTypeOK
<1> QED BY <1>4, <1>5 DEF Next, Environment, Faulty

-----------------------------------------------------------------------------
(* Shares of the kernel.                                                   *)

\* What is in the kernel, or on the way there
Reach == IF pc["inf"] = "add" THEN handleRoutes(target, "add") ELSE Doing

\* What is in the kernel and stays there
Firm ==
  IF pc["inf"] = "add" THEN Doing
  ELSE IF pc["inf"] = "idle" /\ pc["sig"] = "idle" THEN Doing ELSE {}

LookingAt(st) == {o \in AllOps : \E t \in Threads : look[t].st = st /\ look[t].op = o}

\* The rules for a table that UpdateRouteRule is about to delete
Deleting ==
  {o \in AllOps : \E t \in Threads :
     look[t].st = "run" /\ look[t].op = o /\ ~Adding(t) /\ o.dest = "all"}

Share ==
  [nat |-> NatOps, hold |-> Doing, reach |-> Reach, firm |-> Firm,
   missing |-> LookingAt("missing"), deleting |-> Deleting]

\* The two forms of a rule
RuleForm(o) ==
  \/ o = Op(2, "rule", 199, o.dest, None) /\ o.dest # "all"
  \/ o = Op(5, "rule", o.table, "all", None) /\ o.table # 199

\* A share that a daemon can have.  The route of a table is there before the
\* rule of the table is and after it has gone.
WellFormed(a) ==
  /\ a.firm \subseteq a.hold /\ a.hold \subseteq a.reach
  /\ a.missing \subseteq a.reach /\ a.deleting \subseteq a.reach
  /\ \A o \in a.reach : o.on = "rule" => RuleForm(o)
  /\ \A o \in a.nat : o.on = "nat"
  /\ \A o \in a.hold : o.on = "route" /\ o.table # 199 =>
       Op(5, "rule", o.table, "all", None) \in a.reach
  /\ \A o \in a.firm : o.on = "rule" /\ o.dest = "all" =>
       \E x \in a.hold : x.on = "route" /\ x.table = o.table
  /\ \A o \in a.missing \cup a.deleting :
       o.on = "rule" /\ \A x \in a.hold : x.on = "route" => x.table # o.table
  /\ \A o \in a.deleting : o.dest = "all"

\* Routes of the two differ in table or destination, tunnel rules in source
Apart(S, T) ==
  \A o \in S, x \in T :
    /\ o.on = "route" /\ x.on = "route" /\ o.table = x.table => o.dest # x.dest
    /\ o.on = "rule" /\ o.dest # "all" => o # x

Count(S, o) == IF o \in S THEN 1 ELSE 0

\* The routes rt, rules ru and iptables rules nt are those of the shares a
\* and b.  Only the rule for a whole table may be more, when one is about to
\* have it again, or less, when the two have raced for it.
Split(rt, ru, nt, a, b, raced) ==
  /\ rt = {o \in a.hold \cup b.hold : o.on = "route"}
  /\ DOMAIN nt = a.nat \cup b.nat
  /\ \A o \in DOMAIN nt : nt[o] = Count(a.hold, o) + Count(b.hold, o)
  /\ {o \in ru : o.dest # "all"} = {o \in a.hold \cup b.hold : o.on = "rule" /\ o.dest # "all"}
  /\ \A o \in ru : o.dest = "all" => o.on = "rule" /\ o \in a.reach \cup b.reach
  /\ ~raced => \A o \in a.firm \cup b.firm : o.on = "rule" /\ o.dest = "all" => o \in ru
  /\ ~raced => \A o \in a.deleting \cup b.deleting : \A x \in rt : x.table # o.table
  /\ \A o \in a.missing \cup b.missing : o.dest = "all"
  /\ \A o \in a.missing : o \in ru => o \in b.reach \ b.missing
  /\ \A o \in b.missing : o \in ru => o \in a.reach \ a.missing

-----------------------------------------------------------------------------
(* Lemmas about shares: what each command does to the kernel keeps it split *)
(* between the two.                                                         *)

\* The daemon has added the entry o, or removed it; a is its share before,
\* c its share after.
Adds(a, c, o) ==
  /\ c.nat = a.nat /\ c.missing = {} /\ c.deleting = {} /\ a.missing = {} /\ a.deleting = {}
  /\ c.hold = a.hold \cup {o} /\ c.reach = a.reach /\ c.firm = a.firm \cup {o}
  /\ o \in a.reach \ a.hold

Removes(a, c, o) ==
  /\ c.nat = a.nat /\ c.missing = {} /\ c.deleting = {}
  /\ c.hold = a.hold \ {o} /\ c.reach = a.reach \ {o} /\ c.firm = {}
  /\ o \in a.hold

\* An entry that is no rule, the route of a table or an iptables rule.
LEMMA SplitAddsRoute ==
  ASSUME NEW rt, NEW ru, NEW nt, NEW a, NEW b, NEW c, NEW r, NEW o,
         Split(rt, ru, nt, a, b, r), WellFormed(a), WellFormed(b), Adds(a, c, o),
         o.on = "route", ~r => \A x \in b.deleting : x.table # o.table
  PROVE  Split(rt \cup {o}, ru, nt, c, b, r)
<1>1. o \notin DOMAIN nt
  BY DEF Split, WellFormed
<1> QED BY <1>1 DEF Split, WellFormed, Adds, Count

LEMMA SplitRemovesRoute ==
  ASSUME NEW rt, NEW ru, NEW nt, NEW a, NEW b, NEW c, NEW r, NEW o,
         Split(rt, ru, nt, a, b, r), WellFormed(a), WellFormed(b), Removes(a, c, o),
         o.on = "route", o \notin b.hold
  PROVE  Split(rt \ {o}, ru, nt, c, b, r)
<1>1. o \notin DOMAIN nt
  BY DEF Split, WellFormed
<1> QED BY <1>1 DEF Split, WellFormed, Removes, Count

LEMMA SplitAddsNat ==
  ASSUME NEW rt, NEW ru, NEW nt, NEW a, NEW b, NEW c, NEW r, NEW o,
         Split(rt, ru, nt, a, b, r), WellFormed(a), WellFormed(b), Adds(a, c, o),
         o.on = "nat", o \in a.nat
  PROVE  Split(rt, ru, [nt EXCEPT ![o] = @ + 1], c, b, r)
<1> DEFINE n == [nt EXCEPT ![o] = @ + 1]
<1>1. DOMAIN n = DOMAIN nt
  OBVIOUS
<1>2. \A x \in DOMAIN nt : n[x] = Count(c.hold, x) + Count(b.hold, x)
  BY DEF Split, Adds, Count
<1> HIDE DEF n
<1>3. Split(rt, ru, n, c, b, r)
  BY <1>1, <1>2 DEF Split, WellFormed, Adds
<1> QED BY <1>3 DEF n

LEMMA SplitRemovesNat ==
  ASSUME NEW rt, NEW ru, NEW nt, NEW a, NEW b, NEW c, NEW r, NEW o,
         Split(rt, ru, nt, a, b, r), WellFormed(a), WellFormed(b), Removes(a, c, o),
         o.on = "nat", o \in a.nat
  PROVE  nt[o] > 0 /\ Split(rt, ru, [nt EXCEPT ![o] = @ - 1], c, b, r)
<1> DEFINE n == [nt EXCEPT ![o] = @ - 1]
<1>1. DOMAIN n = DOMAIN nt
  OBVIOUS
<1>2. nt[o] > 0 /\ \A x \in DOMAIN nt : n[x] = Count(c.hold, x) + Count(b.hold, x)
  BY DEF Split, Removes, Count
<1> HIDE DEF n
<1>3. \A x : x.on \in {"route", "rule"} => (x \in c.hold <=> x \in a.hold)
  BY DEF Removes
<1>4. \A x \in a.reach : x.on = "rule" => x \in c.reach
  BY DEF Removes
<1>5. Split(rt, ru, n, c, b, r)
  BY <1>1, <1>2, <1>3, <1>4 DEF Split, WellFormed, Removes
<1> QED BY <1>2, <1>5 DEF n

\* A rule is added, or is there already.
LEMMA SplitAddsRule ==
  ASSUME NEW rt, NEW ru, NEW nt, NEW a, NEW b, NEW c, NEW r, NEW o, NEW ru2,
         Split(rt, ru, nt, a, b, r), WellFormed(a), WellFormed(b), Adds(a, c, o),
         o.on = "rule", ru2 = ru \cup {o}
  PROVE  Split(rt, ru2, nt, c, b, r)
<1>1. o \notin DOMAIN nt
  BY DEF Split, WellFormed
<1> QED BY <1>1 DEF Split, WellFormed, Adds, Count

\* A rule is removed that the other does not rely on.
LEMMA SplitRemovesRule ==
  ASSUME NEW rt, NEW ru, NEW nt, NEW a, NEW b, NEW c, NEW r, NEW o,
         Split(rt, ru, nt, a, b, r), WellFormed(a), WellFormed(b), Removes(a, c, o),
         o.on = "rule",
         IF o.dest = "all" THEN ~r => o \notin b.firm ELSE o \notin b.hold
  PROVE  Split(rt, ru \ {o}, nt, c, b, r)
<1>1. o \notin DOMAIN nt
  BY DEF Split, WellFormed
<1> QED BY <1>1 DEF Split, WellFormed, Removes, Count

\* The rule for a table is left to the other, or was not there.
LEMMA SplitLeavesRule ==
  ASSUME NEW rt, NEW ru, NEW nt, NEW a, NEW b, NEW c, NEW r, NEW o,
         Split(rt, ru, nt, a, b, r), WellFormed(a), WellFormed(b), Removes(a, c, o),
         o.on = "rule", o.dest = "all", o \in ru => o \in b.reach \ b.missing
  PROVE  Split(rt, ru, nt, c, b, r)
<1>1. o \notin DOMAIN nt
  BY DEF Split, WellFormed
<1> QED BY <1>1 DEF Split, WellFormed, Removes, Count

\* Nothing changes in the kernel, and nothing but dials in what is held; the
\* daemon may want more than before and be less certain of what is there.
LEMMA SplitKept ==
  ASSUME NEW rt, NEW ru, NEW nt, NEW a, NEW b, NEW c, NEW r,
         Split(rt, ru, nt, a, b, r), WellFormed(a), WellFormed(b),
         c.nat = a.nat,
         \A o : o.on \in {"route", "rule", "nat"} => (o \in c.hold <=> o \in a.hold),
         \A o \in a.reach : o.on = "rule" => o \in c.reach,
         \A o \in c.firm : o.on = "rule" => o \in a.firm,
         c.missing \subseteq a.missing, c.deleting \subseteq a.deleting
  PROVE  Split(rt, ru, nt, c, b, r)
<1>1. \A o \in DOMAIN nt : o.on = "nat"
  BY DEF Split, WellFormed
<1> QED BY <1>1 DEF Split, WellFormed, Count

\* UpdateRouteRule has not found the rule for a table.
LEMMA SplitMisses ==
  ASSUME NEW rt, NEW ru, NEW nt, NEW a, NEW b, NEW c, NEW r, NEW o,
         Split(rt, ru, nt, a, b, r), o.dest = "all", o \notin ru,
         c.nat = a.nat, c.hold = a.hold, c.reach = a.reach, c.firm = a.firm,
         c.missing = {o}, c.deleting = {}
  PROVE  Split(rt, ru, nt, c, b, r)
BY DEF Split

\* It has found no routes in the table.
LEMMA SplitDeletes ==
  ASSUME NEW rt, NEW ru, NEW nt, NEW a, NEW b, NEW c, NEW r, NEW o,
         Split(rt, ru, nt, a, b, r), \A x \in rt : x.table # o.table,
         c.nat = a.nat, c.hold = a.hold, c.reach = a.reach, c.firm = a.firm,
         c.missing = {}, c.deleting \subseteq {o}
  PROVE  Split(rt, ru, nt, c, b, r)
BY DEF Split

-----------------------------------------------------------------------------
(* The share of a daemon.                                                  *)

\* The text of a rule for one source is in no other rule's, and no source is
\* what UpdateRouteRule takes for every source.
ProperSources ==
  /\ NoLookalikes
  /\ \A d \in Configs : \A s \in d.remote : remap[s] # "all"

\* What the daemon has in the kernel while a goroutine runs a call.
LEMMA ShareInCall ==
  ASSUME DaemonInv, NEW t \in Threads, todo[t] # {}
  PROVE  IF Adding(t)
         THEN /\ Reach = handleRoutes(target, "add") /\ Doing = Reach \ todo[t] /\ Firm = Doing
              /\ Rest(todo[t], Reach)
         ELSE Reach = todo[t] /\ Doing = todo[t] /\ Firm = {}
<1> USE DEF Threads
<1>1. /\ pc[t] \in {"add", "del", "drop"} /\ (Adding(t) => t = "inf")
      /\ \A u \in Threads \ {t} : pc[u] = "idle"
  BY OneRuns
<1>2. CASE Adding(t)
  BY <1>1, <1>2 DEF Adding, Reach, Doing, Firm, DaemonInv, CallInOrder
<1>3. CASE ~Adding(t)
  BY <1>1, <1>3 DEF Adding, Reach, Doing, Firm, DaemonInv, CallInOrder
<1> QED BY <1>2, <1>3

\* What is in the kernel, or on the way there, belongs to one call: to its end
\* when the call deletes.
LEMMA ReachOfCall ==
  ASSUME DaemonInv, Reach # {}
  PROVE  \E d \in Configs, dev \in Devices \cup {NoDevice} :
           /\ d.remote # {} /\ Reach \subseteq Ops(d, dev)
           /\ \A p \in Reach, o \in Ops(d, dev) :
                o.on # "dial" /\ ~ o.stage <= p.stage => o \in Reach
<1> USE DEF Threads
<1>1. /\ DaemonTypeOK /\ CallInOrder
      /\ pc \in [Threads -> {"idle", "add", "del", "drop"}]
      /\ saved \in Maps /\ target \in Maps
  BY DEF DaemonInv, DaemonTypeOK
<1>2. \E d \in Maps, action \in {"add", "del"} : Rest(Reach, handleRoutes(d, action))
  <2>1. CASE pc["inf"] = "add"
    BY <1>1, <2>1, RestBegins DEF Reach
  <2>2. CASE pc["inf"] \in {"del", "drop"}
    BY <1>1, <2>2 DEF Reach, Doing, CallInOrder, Installed
  <2>3. CASE pc["inf"] = "idle" /\ pc["sig"] # "idle"
    BY <1>1, <2>3 DEF Reach, Doing, CallInOrder, Installed
  <2>4. CASE pc["inf"] = "idle" /\ pc["sig"] = "idle"
    BY <1>1, <2>4, RestBegins DEF Reach, Doing, Installed
  <2> QED BY <1>1, <2>1, <2>2, <2>3, <2>4
<1>3. PICK d \in Maps, action \in {"add", "del"} : Rest(Reach, handleRoutes(d, action))
  BY <1>2
<1> DEFINE dev == GetDeviceToWorkerNode(d)
<1>4. Reach \subseteq handleRoutes(d, action) /\ Complete(d)
  BY <1>3 DEF Rest, handleRoutes
<1>5. d \in Configs /\ d.remote # {} /\ dev \in Devices \cup {NoDevice}
  BY <1>1, <1>4, CallTypes DEF Complete
<1>6. /\ handleRoutes(d, action) \subseteq Ops(d, dev)
      /\ \A o \in Ops(d, dev) : o.on # "dial" => o \in handleRoutes(d, action)
  BY <1>4 DEF handleRoutes
<1> HIDE DEF dev
<1>7. \A p \in Reach, o \in Ops(d, dev) : o.on # "dial" /\ ~ o.stage <= p.stage => o \in Reach
  BY <1>3, <1>6 DEF Rest
<1> QED BY <1>4, <1>5, <1>6, <1>7

\* A call that has routes in a table of its own has the rule for it, and the
\* other way round.
LEMMA RuleOfTable ==
  ASSUME NEW d \in Configs, NEW dev, NEW o \in Ops(d, dev), o.table # 199, d.remote # {}
  PROVE  /\ o.on = "route" =>
              /\ o.stage = 4 /\ o.table = d.table
              /\ Op(5, "rule", o.table, "all", None) \in Ops(d, dev)
         /\ o.on = "rule" =>
              /\ o = Op(5, "rule", d.table, "all", None)
              /\ \E x \in Ops(d, dev) : x.on = "route" /\ x.table = o.table /\ x.stage = 4
<1> DEFINE rule == Op(5, "rule", d.table, "all", None)
           C == RouteRemoteSubnet(d, dev) \cup {rule}
<1>1. ~HostNetwork(d) => C \subseteq Ops(d, dev)
  BY DEF Ops
<1>2. HostNetwork(d) => o \in handleRoutesVpnNode(d)
  BY DEF Ops, HostNetwork
<1>3. o \in handleRoutesVpnNode(d) => o.table = 199
  BY OpsKinds DEF handleRoutesVpnNode, Op
<1>4. C \subseteq Ops(d, dev)
  BY <1>1, <1>2, <1>3
<1>5. ASSUME o.on = "route"
      PROVE  o.stage = 4 /\ o.table = d.table /\ rule \in Ops(d, dev)
  BY <1>4, <1>5, RouteShape DEF Op
<1>6. ASSUME o.on = "rule"
      PROVE  o = rule /\ \E x \in Ops(d, dev) : x.on = "route" /\ x.table = o.table /\ x.stage = 4
  <2>1. o = rule
    BY <1>6, RuleShape DEF Op
  <2>2. PICK s \in d.remote : TRUE
    OBVIOUS
  <2>3. Op(4, "route", d.table, Network[remap[s]], RouteInfo(d, dev)) \in Ops(d, dev)
    BY <1>4 DEF RouteRemoteSubnet
  <2> QED BY <2>1, <2>3 DEF Op
<1> QED BY <1>5, <1>6

\* A daemon that comes to delete the rule of a table has no routes left in it.
LEMMA NoRoutesLeft ==
  ASSUME DaemonInv, NEW t \in Threads, NEW o \in todo[t], o.on = "rule", ~Adding(t),
         \A p \in todo[t] : o.stage <= p.stage
  PROVE  \A x \in Doing : x.on = "route" => x.table # o.table
<1>1. Reach = todo[t] /\ Doing = todo[t]
  BY ShareInCall
<1>2. PICK d \in Configs, dev \in Devices \cup {NoDevice} : Reach \subseteq Ops(d, dev)
  BY <1>1, ReachOfCall
<1> QED BY <1>1, <1>2, RulesLast

\* What has been added stays, from the beginning of the call on.
LEMMA FirmOfCall ==
  ASSUME DaemonInv, Firm # {}
  PROVE  \E d \in Configs, dev \in Devices \cup {NoDevice} :
           /\ d.remote # {} /\ Firm \subseteq Ops(d, dev)
           /\ \A o \in Firm, x \in Ops(d, dev) : x.on # "dial" /\ ~ o.stage <= x.stage => x \in Firm
<1> USE DEF Threads
<1>1. /\ DaemonTypeOK /\ CallInOrder
      /\ pc \in [Threads -> {"idle", "add", "del", "drop"}]
      /\ saved \in Maps /\ target \in Maps
  BY DEF DaemonInv, DaemonTypeOK
<1>2. \E d \in Maps, action \in {"add", "del"} :
        /\ Firm \subseteq handleRoutes(d, action)
        /\ \A o \in Firm, x \in handleRoutes(d, action) : ~ o.stage <= x.stage => x \in Firm
  <2>1. CASE pc["inf"] = "add"
    BY <1>1, <2>1 DEF Firm, Doing, CallInOrder, Rest
  <2>2. CASE pc["inf"] = "idle" /\ pc["sig"] = "idle"
    BY <1>1, <2>2 DEF Firm, Doing, Installed
  <2> QED BY <2>1, <2>2 DEF Firm
<1>3. PICK d \in Maps, action \in {"add", "del"} :
        /\ Firm \subseteq handleRoutes(d, action)
        /\ \A o \in Firm, x \in handleRoutes(d, action) : ~ o.stage <= x.stage => x \in Firm
  BY <1>2
<1> DEFINE dev == GetDeviceToWorkerNode(d)
<1>4. Complete(d)
  BY <1>3 DEF handleRoutes
<1>5. d \in Configs /\ d.remote # {} /\ dev \in Devices \cup {NoDevice}
  BY <1>1, <1>3, <1>4, CallTypes DEF Complete
<1>6. /\ handleRoutes(d, action) \subseteq Ops(d, dev)
      /\ \A o \in Ops(d, dev) : o.on # "dial" => o \in handleRoutes(d, action)
  BY <1>4 DEF handleRoutes
<1> HIDE DEF dev
<1> QED BY <1>3, <1>5, <1>6

\* The share of a daemon is one that a daemon can have.
LEMMA ShareWellFormed ==
  ASSUME DaemonInv, ProperSources
  PROVE  WellFormed(Share)
<1> USE DEF Threads
<1>1. /\ CallInOrder /\ (\A t \in Threads : LooksAtFirst(t)) /\ todo \in [Threads -> SUBSET AllOps]
      /\ pc \in [Threads -> {"idle", "add", "del", "drop"}]
  BY DEF DaemonInv, DaemonTypeOK
<1>2. Firm \subseteq Doing /\ Doing \subseteq Reach
  BY DEF Firm, Reach, Doing
<1>3. ASSUME NEW o \in LookingAt("missing") \cup Deleting
      PROVE  /\ o \in Reach /\ o.on = "rule" /\ (o \in Deleting => o.dest = "all")
             /\ \A x \in Doing : x.on = "route" => x.table # o.table
  <2>1. PICK t \in Threads :
          /\ look[t].op = o /\ look[t].st \in {"missing", "run"}
          /\ ~Adding(t) /\ (o \in Deleting => o.dest = "all")
    BY <1>1, <1>3 DEF LookingAt, Deleting, LooksAtFirst
  <2>2. o \in todo[t] /\ o.on = "rule" /\ \A p \in todo[t] : o.stage <= p.stage
    BY <1>1, <2>1 DEF LooksAtFirst
  <2>3. Reach = todo[t]
    BY <2>1, <2>2, ShareInCall
  <2> QED BY <2>1, <2>2, <2>3, NoRoutesLeft
<1>4. CASE Reach = {}
  <2>1. Firm = {} /\ Doing = {} /\ LookingAt("missing") = {} /\ Deleting = {}
    BY <1>2, <1>3, <1>4
  <2> QED BY <1>4, <2>1 DEF WellFormed, Share, NatOps
<1>5. CASE Reach # {}
  <2>1. PICK d \in Configs, dev \in Devices \cup {NoDevice} :
          /\ d.remote # {} /\ Reach \subseteq Ops(d, dev)
          /\ \A p \in Reach, o \in Ops(d, dev) :
               o.on # "dial" /\ ~ o.stage <= p.stage => o \in Reach
    BY <1>5, ReachOfCall
  <2>2. ASSUME NEW o \in Reach, o.on = "rule" PROVE RuleForm(o)
    <3>1. \/ o = Op(2, "rule", 199, o.dest, None) /\ \E s \in d.remote : o.dest = remap[s]
          \/ o = Op(5, "rule", d.table, "all", None)
      BY <2>1, <2>2, RuleShape
    <3> QED BY <3>1, DataAssumption DEF RuleForm, ProperSources, Op
  <2>3. ASSUME NEW o \in Doing, o.on = "route", o.table # 199
        PROVE  Op(5, "rule", o.table, "all", None) \in Reach
    <3>1. o \in Reach /\ o \in Ops(d, dev)
      BY <1>2, <2>1
    <3>2. o.stage = 4 /\ Op(5, "rule", o.table, "all", None) \in Ops(d, dev)
      BY <2>1, <2>3, <3>1, RuleOfTable
    <3> QED BY <2>1, <3>1, <3>2 DEF Op
  <2>4. ASSUME NEW o \in Firm, o.on = "rule", o.dest = "all"
        PROVE  \E x \in Doing : x.on = "route" /\ x.table = o.table
    <3>1. PICK e \in Configs, v \in Devices \cup {NoDevice} :
            /\ e.remote # {} /\ Firm \subseteq Ops(e, v)
            /\ \A p \in Firm, x \in Ops(e, v) : x.on # "dial" /\ ~ p.stage <= x.stage => x \in Firm
      BY <2>4, FirmOfCall
    <3>2. o.table # 199
      BY <1>2, <2>2, <2>4 DEF RuleForm, Op
    <3>3. /\ o = Op(5, "rule", e.table, "all", None)
          /\ \E x \in Ops(e, v) : x.on = "route" /\ x.table = o.table /\ x.stage = 4
      BY <2>4, <3>1, <3>2, RuleOfTable
    <3>4. PICK x \in Ops(e, v) : x.on = "route" /\ x.table = o.table /\ x.stage = 4
      BY <3>3
    <3>5. ~ o.stage <= x.stage
      BY <3>3, <3>4 DEF Op
    <3>6. x \in Doing
      BY <1>2, <2>4, <3>1, <3>4, <3>5
    <3> QED BY <3>4, <3>6
  <2> QED BY <1>2, <1>3, <2>2, <2>3, <2>4 DEF WellFormed, Share, NatOps
<1> QED BY <1>4, <1>5

\* What a command that is done changes in the share.
LEMMA DoneShare ==
  ASSUME DaemonInv, NEW t \in Threads, NEW o, DoneStep(t, o)
  PROVE  IF Adding(t) THEN Adds(Share, Share', o) ELSE Removes(Share, Share', o)
<1> USE DEF Threads
<1>1. /\ o \in todo[t] /\ pc' = pc /\ target' = target /\ saved' = saved /\ devTo' = devTo
      /\ pc \in [Threads -> {"idle", "add", "del", "drop"}]
      /\ todo \in [Threads -> SUBSET AllOps] /\ LookOK
      /\ \A u \in Threads : LooksAtFirst(u)
  BY DEF DoneStep, callVars, DaemonInv, DaemonTypeOK
<1>2. /\ pc[t] \in {"add", "del", "drop"} /\ (Adding(t) => t = "inf")
      /\ \A u \in Threads \ {t} : pc[u] = "idle" /\ todo[u] = {} /\ look[u].st = "none"
  BY <1>1, OneRuns
<1>3. todo'[t] = todo[t] \ {o}
  BY <1>1 DEF DoneStep, Done
<1>4. \A u \in Threads : look'[u].st = "none"
  <2>1. NoLook.st = "none" /\ DOMAIN look = Threads
    BY <1>1 DEF NoLook, LookOK
  <2> QED BY <1>2, <2>1 DEF DoneStep
<1>5. LookingAt("missing")' = {} /\ Deleting' = {}
  BY <1>4 DEF LookingAt, Deleting
<1>6. CASE Adding(t)
  <2>1. Reach = handleRoutes(target, "add") /\ Doing = Reach \ todo[t] /\ Firm = Doing
        /\ todo[t] \subseteq Reach
    BY <1>1, <1>6, ShareInCall DEF Rest
  <2>2. pc["inf"] = "add" /\ handleRoutes(target, "add")' = handleRoutes(target, "add")
    BY <1>1, <1>2, <1>6, TargetKept DEF Adding
  <2>3. Reach' = Reach /\ Doing' = Reach \ todo'[t] /\ Firm' = Doing'
    BY <1>1, <1>2, <1>6, <2>1, <2>2 DEF Reach, Doing, Firm
  <2>4. Doing' = Doing \cup {o} /\ o \in Reach \ Doing
    BY <1>1, <1>3, <2>1, <2>3
  <2>5. \A u \in Threads : look[u].st # "none" => u = t /\ look[u].st = "run"
    BY <1>1, <1>2, <1>6 DEF LooksAtFirst
  <2>6. LookingAt("missing") = {} /\ Deleting = {}
    BY <1>6, <2>5 DEF LookingAt, Deleting
  <2> QED BY <1>5, <1>6, <2>1, <2>3, <2>4, <2>6 DEF Adds, Share
<1>7. CASE ~Adding(t)
  <2>1. Reach = todo[t] /\ Doing = todo[t] /\ Firm = {}
    BY <1>1, <1>7, ShareInCall
  <2>2. Reach' = todo'[t] /\ Doing' = todo'[t] /\ Firm' = {}
    BY <1>1, <1>2, <1>7 DEF Reach, Doing, Firm, Adding
  <2> QED BY <1>1, <1>3, <1>5, <1>7, <2>1, <2>2 DEF Removes, Share
<1> QED BY <1>6, <1>7

\* What changes in it when UpdateRouteRule goes on.
LEMMA LookShare ==
  ASSUME DaemonInv, NEW t \in Threads, NEW o, NEW st \in {"found", "missing", "run"},
         LookStep(t, o, st)
  PROVE  /\ Share'.nat = Share.nat /\ Share'.hold = Share.hold
         /\ Share'.reach = Share.reach /\ Share'.firm = Share.firm
         /\ Share'.missing = IF st = "missing" THEN {o} ELSE {}
         /\ Share'.deleting = IF st = "run" /\ ~Adding(t) /\ o.dest = "all" THEN {o} ELSE {}
<1> USE DEF Threads
<1>1. /\ o \in todo[t] /\ pc' = pc /\ target' = target /\ saved' = saved /\ devTo' = devTo
      /\ todo' = todo /\ todo \in [Threads -> SUBSET AllOps] /\ LookOK
  BY DEF LookStep, callVars, DaemonInv, DaemonTypeOK
<1>2. \A u \in Threads \ {t} : look[u].st = "none"
  BY <1>1, OneRuns
<1>3. look'[t] = [st |-> st, op |-> o] /\ \A u \in Threads \ {t} : look'[u].st = "none"
  BY <1>1, <1>2 DEF LookStep, LookOK
<1>4. LookingAt("missing")' = IF st = "missing" THEN {o} ELSE {}
  BY <1>1, <1>3 DEF LookingAt
<1>5. Deleting' = IF st = "run" /\ ~Adding(t) /\ o.dest = "all" THEN {o} ELSE {}
  BY <1>1, <1>3 DEF Deleting, Adding
<1>6. Doing' = Doing
  BY <1>1, TargetKept, SavedKept DEF Doing
<1>7. Reach' = Reach /\ Firm' = Firm
  BY <1>1, <1>6, TargetKept DEF Reach, Firm
<1> QED BY <1>4, <1>5, <1>6, <1>7 DEF Share

-----------------------------------------------------------------------------
(* Each command on a node where b is the share of another daemon.          *)

\* No route is added to a table whose rule the other is about to delete
Unopposed(b) ==
  \A t \in Threads : Adding(t) =>
    \A o \in todo[t], x \in b.deleting : o.on = "route" => x.table # o.table

\* The other has no route to the same destination in the same table.
LEMMA RouteIsOurs ==
  ASSUME NEW b, WellFormed(b), Apart(AllOps, b.reach), NEW o \in AllOps, o.on = "route"
  PROVE  \A x \in b.hold : x.on = "route" /\ x.table = o.table => x.dest # o.dest
BY DEF WellFormed, Apart

\* The routes of the table.
LEMMA UpdateRouteSplit ==
  ASSUME DaemonInv, ProperSources, NEW b, NEW r, WellFormed(b), Apart(AllOps, b.reach),
         Split(routes, rules, nat, Share, b, r), ~r => Unopposed(b),
         NEW t \in Threads, UpdateRoute(t)
  PROVE  Split(routes', rules', nat', Share', b, r)
<1>1. PICK o \in todo[t] :
        /\ o.on = "route" /\ Next1(t, o) /\ Done(t, o)
        /\ routes' = IF ~Adding(t) THEN routes \ {o}
                     ELSE IF \E x \in routes : x.table = o.table /\ x.dest = o.dest
                     THEN routes ELSE routes \cup {o}
        /\ UNCHANGED <<apiVars, callVars, proc, look, rules, nat, devTo, taint>>
  BY DEF UpdateRoute
<1>2. DoneStep(t, o) /\ o \in AllOps /\ WellFormed(Share)
  BY <1>1, ShareWellFormed DEF DoneStep, Next1, DaemonInv, DaemonTypeOK
<1>3. \A x \in b.hold : x.on = "route" /\ x.table = o.table => x.dest # o.dest
  BY <1>1, <1>2, RouteIsOurs
<1> DEFINE a == Share
           c == Share'
<1>4. CASE Adding(t)
  <2>1. Adds(a, c, o)
    BY <1>2, <1>4, DoneShare
  <2>2. Doing = Reach \ todo[t] /\ todo[t] \subseteq Reach
    BY <1>1, <1>4, ShareInCall DEF Rest
  <2>3. PICK d \in Configs, dev \in Devices \cup {NoDevice} : Reach \subseteq Ops(d, dev)
    BY <1>1, <2>2, ReachOfCall
  <2>4. \A x \in Doing : x.on = "route" /\ x.table = o.table => x.dest # o.dest
    BY <1>1, <2>2, <2>3, RouteKey
  <2>5. routes = {x \in Doing \cup b.hold : x.on = "route"}
    BY DEF Split, Share
  <2>6. routes' = routes \cup {o} /\ rules' = rules /\ nat' = nat
    BY <1>1, <1>3, <1>4, <2>4, <2>5
  <2>7. ~r => \A x \in b.deleting : x.table # o.table
    BY <1>1, <1>4 DEF Unopposed
  <2> HIDE DEF a, c
  <2>8. Split(routes, rules, nat, a, b, r) /\ WellFormed(a)
    BY <1>2 DEF a
  <2>9. Split(routes \cup {o}, rules, nat, c, b, r)
    BY <1>1, <2>1, <2>7, <2>8, SplitAddsRoute
  <2> QED BY <2>6, <2>9 DEF c
<1>5. CASE ~Adding(t)
  <2>1. Removes(a, c, o) /\ o \notin b.hold
    BY <1>1, <1>2, <1>3, <1>5, DoneShare
  <2>2. routes' = routes \ {o} /\ rules' = rules /\ nat' = nat
    BY <1>1, <1>5
  <2> HIDE DEF a, c
  <2>3. Split(routes, rules, nat, a, b, r) /\ WellFormed(a)
    BY <1>2 DEF a
  <2>4. Split(routes \ {o}, rules, nat, c, b, r)
    BY <1>1, <2>1, <2>3, SplitRemovesRoute
  <2> QED BY <2>2, <2>4 DEF c
<1> QED BY <1>4, <1>5

\* The iptables rules, which the two may have in common.
LEMMA ConfigureSNATSplit ==
  ASSUME DaemonInv, ProperSources, NEW b, NEW r, WellFormed(b),
         Split(routes, rules, nat, Share, b, r),
         NEW t \in Threads, ConfigureSNAT(t)
  PROVE  Split(routes', rules', nat', Share', b, r)
<1>1. PICK o \in todo[t] :
        /\ o.on = "nat" /\ Next1(t, o) /\ Done(t, o)
        /\ nat' = IF Adding(t) THEN [nat EXCEPT ![o] = @ + 1]
                  ELSE IF nat[o] > 0 THEN [nat EXCEPT ![o] = @ - 1]
                  ELSE nat
        /\ UNCHANGED <<apiVars, callVars, proc, look, routes, rules, devTo, taint>>
  BY DEF ConfigureSNAT
<1>2. DoneStep(t, o) /\ o \in Share.nat /\ WellFormed(Share)
  BY <1>1, ShareWellFormed DEF DoneStep, Next1, DaemonInv, DaemonTypeOK, Share, NatOps
<1>3. routes' = routes /\ rules' = rules
  BY <1>1
<1> DEFINE a == Share
           c == Share'
<1>4. IF Adding(t) THEN Adds(a, c, o) ELSE Removes(a, c, o)
  BY <1>2, DoneShare
<1>5. Split(routes, rules, nat, a, b, r) /\ WellFormed(a) /\ o \in a.nat
  BY <1>2
<1> HIDE DEF a, c
<1>6. CASE Adding(t)
  <2>1. Split(routes, rules, [nat EXCEPT ![o] = @ + 1], c, b, r)
    BY <1>1, <1>4, <1>5, <1>6, SplitAddsNat
  <2> QED BY <1>1, <1>3, <1>6, <2>1 DEF c
<1>7. CASE ~Adding(t)
  <2>1. nat[o] > 0 /\ Split(routes, rules, [nat EXCEPT ![o] = @ - 1], c, b, r)
    BY <1>1, <1>4, <1>5, <1>7, SplitRemovesNat
  <2> QED BY <1>1, <1>3, <1>7, <2>1 DEF c
<1> QED BY <1>6, <1>7

\* Waking the VPN pod changes nothing in the kernel.
LEMMA DialSplit ==
  ASSUME DaemonInv, ProperSources, NEW b, NEW r, WellFormed(b),
         Split(routes, rules, nat, Share, b, r),
         NEW t \in Threads, Dial(t)
  PROVE  Split(routes', rules', nat', Share', b, r)
<1>1. PICK o \in todo[t] :
        /\ o.on = "dial" /\ Next1(t, o) /\ Done(t, o)
        /\ UNCHANGED <<apiVars, callVars, proc, look, kernelVars, devTo, taint>>
  BY DEF Dial
<1>2. DoneStep(t, o) /\ WellFormed(Share)
  BY <1>1, ShareWellFormed DEF DoneStep, Next1
<1>3. routes' = routes /\ rules' = rules /\ nat' = nat
  BY <1>1 DEF kernelVars
<1> DEFINE a == Share
           c == Share'
<1>4. IF Adding(t) THEN Adds(a, c, o) ELSE Removes(a, c, o)
  BY <1>2, DoneShare
<1>5. Split(routes, rules, nat, a, b, r) /\ WellFormed(a)
  BY <1>2
<1> HIDE DEF a, c
<1>6. /\ c.nat = a.nat
      /\ \A x : x.on \in {"route", "rule", "nat"} => (x \in c.hold <=> x \in a.hold)
      /\ \A x \in a.reach : x.on = "rule" => x \in c.reach
      /\ \A x \in c.firm : x.on = "rule" => x \in a.firm
      /\ c.missing \subseteq a.missing /\ c.deleting \subseteq a.deleting
  BY <1>1, <1>4 DEF Adds, Removes
<1>7. Split(routes, rules, nat, c, b, r)
  BY <1>5, <1>6, SplitKept
<1> QED BY <1>3, <1>7 DEF c

\* UpdateRouteRule finds the rule when it is there, whoever has added it, and
\* no other in its place.
LEMMA FoundIsThere ==
  ASSUME DaemonInv, ProperSources, NEW b, NEW r, WellFormed(b),
         Split(routes, rules, nat, Share, b, r),
         NEW t \in Threads, NEW o \in todo[t], o.on = "rule"
  PROVE  Found(o) <=> o \in rules
<1>1. WellFormed(Share) /\ Share.hold = Doing /\ Share.reach = Reach
  BY ShareWellFormed DEF Share
<1>2. o \in Reach
  BY ShareInCall DEF Rest
<1>3. PICK d \in Configs, dev \in Devices \cup {NoDevice} : Reach \subseteq Ops(d, dev)
  BY <1>2, ReachOfCall
<1>4. o.dest = "all" \/ \E s \in d.remote : o.dest = remap[s]
  BY <1>2, <1>3, RuleShape DEF Op
<1>5. lookalike[o.dest] = {o.dest}
  BY <1>4 DEF ProperSources, NoLookalikes
<1>6. RuleForm(o)
  BY <1>1, <1>2 DEF WellFormed
<1>7. \A x \in rules : RuleForm(x)
  BY <1>1 DEF Split, WellFormed
<1>8. ASSUME NEW x \in rules, x.table = o.table, x.dest = o.dest PROVE x = o
  <2>1. CASE o.dest = "all"
    <3>1. x = Op(5, "rule", x.table, "all", None) /\ o = Op(5, "rule", o.table, "all", None)
      BY <1>6, <1>7, <1>8, <2>1 DEF RuleForm
    <3> QED BY <1>8, <3>1
  <2>2. CASE o.dest # "all"
    <3>1. x = Op(2, "rule", 199, x.dest, None) /\ o = Op(2, "rule", 199, o.dest, None)
      BY <1>6, <1>7, <1>8, <2>2 DEF RuleForm, Op
    <3> QED BY <1>8, <3>1
  <2> QED BY <2>1, <2>2
<1> QED BY <1>5, <1>8 DEF Found

\* UpdateRouteRule, first command.
LEMMA ListRulesSplit ==
  ASSUME DaemonInv, ProperSources, NEW b, NEW r, WellFormed(b),
         Split(routes, rules, nat, Share, b, r),
         NEW t \in Threads, ListRules(t)
  PROVE  Split(routes', rules', nat', Share', b, r)
<1>1. PICK o \in todo[t] :
        /\ o.on = "rule" /\ Next1(t, o)
        /\ IF Adding(t) /\ Found(o)
           THEN Done(t, o) /\ look' = look
           ELSE /\ todo' = todo
                /\ look' = [look EXCEPT ![t] =
                     [st |-> IF Adding(t) THEN "run"
                             ELSE IF Found(o) THEN "found" ELSE "missing",
                      op |-> o]]
        /\ UNCHANGED <<apiVars, callVars, proc, kernelVars, devTo, taint>>
  BY DEF ListRules
<1>2. routes' = routes /\ rules' = rules /\ nat' = nat /\ WellFormed(Share)
  BY <1>1, ShareWellFormed DEF kernelVars
<1>3. Found(o) <=> o \in rules
  BY <1>1, FoundIsThere
<1> DEFINE a == Share
           c == Share'
           st == IF Adding(t) THEN "run" ELSE IF Found(o) THEN "found" ELSE "missing"
<1>4. Split(routes, rules, nat, a, b, r) /\ WellFormed(a)
  BY <1>2
<1>5. CASE Adding(t) /\ Found(o)
  <2>1. DoneStep(t, o)
    BY <1>1, <1>5 DEF DoneStep, Next1
  <2>2. Adds(a, c, o)
    BY <1>5, <2>1, DoneShare
  <2>3. rules = rules \cup {o}
    BY <1>3, <1>5
  <2> HIDE DEF a, c
  <2>4. Split(routes, rules, nat, c, b, r)
    BY <1>1, <1>4, <2>2, <2>3, SplitAddsRule
  <2> QED BY <1>2, <2>4 DEF c
<1>6. CASE ~(Adding(t) /\ Found(o))
  <2>1. LookStep(t, o, st) /\ st \in {"found", "missing", "run"}
    BY <1>1, <1>6 DEF LookStep, Next1
  <2>2. /\ c.nat = a.nat /\ c.hold = a.hold /\ c.reach = a.reach /\ c.firm = a.firm
        /\ c.missing = IF st = "missing" THEN {o} ELSE {}
        /\ c.deleting = {}
    <3> HIDE DEF st
    <3>1. /\ Share'.nat = Share.nat /\ Share'.hold = Share.hold
          /\ Share'.reach = Share.reach /\ Share'.firm = Share.firm
          /\ Share'.missing = IF st = "missing" THEN {o} ELSE {}
          /\ Share'.deleting = IF st = "run" /\ ~Adding(t) /\ o.dest = "all" THEN {o} ELSE {}
      BY <2>1, LookShare
    <3>2. st = "run" => Adding(t)
      BY DEF st
    <3> QED BY <3>1, <3>2
  <2>3. CASE st = "missing"
    <3>1. o \notin rules /\ ~Adding(t)
      BY <1>3, <2>3
    <3>2. o \in a.hold
      BY <1>1, <3>1, ShareInCall DEF Share
    <3> HIDE DEF a, c, st
    <3>3. o.dest = "all"
      BY <1>1, <1>4, <3>1, <3>2 DEF Split
    <3>4. Split(routes, rules, nat, c, b, r)
      BY <1>4, <2>2, <2>3, <3>1, <3>3, SplitMisses
    <3> QED BY <1>2, <3>4 DEF c
  <2>4. CASE st # "missing"
    <3> HIDE DEF a, c, st
    <3>1. Split(routes, rules, nat, c, b, r)
      BY <1>4, <2>2, <2>4, SplitKept
    <3> QED BY <1>2, <3>1 DEF c
  <2> QED BY <2>3, <2>4
<1> QED BY <1>5, <1>6

\* UpdateRouteRule, second command: it keeps the rule for a table when the
\* other has routes in it.
LEMMA ListTableSplit ==
  ASSUME DaemonInv, ProperSources, NEW b, NEW r, WellFormed(b),
         Split(routes, rules, nat, Share, b, r),
         NEW t \in Threads, ListTable(t)
  PROVE  Split(routes', rules', nat', Share', b, r)
<1> DEFINE keep(o) == look[t].st = "missing" \/ (o.dest = "all" /\ RoutesExist(o))
<1>1. PICK o \in todo[t] :
        /\ look[t].op = o /\ look[t].st \in {"found", "missing"}
        /\ look' = [look EXCEPT ![t] = IF keep(o) THEN NoLook ELSE [st |-> "run", op |-> o]]
        /\ IF keep(o) THEN Done(t, o) ELSE todo' = todo
        /\ UNCHANGED <<apiVars, callVars, proc, kernelVars, devTo, taint>>
  BY DEF ListTable
<1>2. /\ o.on = "rule" /\ ~Adding(t) /\ o \in AllOps /\ \A p \in todo[t] : o.stage <= p.stage
      /\ routes' = routes /\ rules' = rules /\ nat' = nat /\ WellFormed(Share)
  BY <1>1, ShareWellFormed DEF DaemonInv, DaemonTypeOK, LooksAtFirst, kernelVars
<1>3. \A x \in Doing : x.on = "route" => x.table # o.table
  BY <1>1, <1>2, NoRoutesLeft
<1> DEFINE a == Share
           c == Share'
<1>4. Split(routes, rules, nat, a, b, r) /\ WellFormed(a)
  BY <1>2
<1>5. o \in a.hold /\ o \in a.reach /\ (look[t].st = "missing" => o \in a.missing)
      /\ \A x \in a.hold : x.on = "route" => x.table # o.table
  BY <1>1, <1>2, <1>3, ShareInCall DEF Share, LookingAt
<1>6. CASE keep(o)
  <2>1. DoneStep(t, o)
    BY <1>1, <1>2, <1>6 DEF DoneStep
  <2>2. Removes(a, c, o)
    BY <1>2, <2>1, DoneShare
  <2>3. o.dest = "all" /\ (o \in rules => o \in b.reach \ b.missing)
    <3>1. CASE look[t].st = "missing"
      <4> HIDE DEF a
      <4> QED BY <1>4, <1>5, <3>1 DEF Split
    <3>2. CASE look[t].st # "missing"
      <4>1. PICK x \in routes : x.table = o.table /\ o.dest = "all"
        BY <1>6, <3>2 DEF RoutesExist
      <4> HIDE DEF a, c
      <4>2. x \in b.hold /\ x.on = "route"
        BY <1>4, <1>5, <4>1 DEF Split
      <4>3. o = Op(5, "rule", o.table, "all", None) /\ o.table # 199
        BY <1>2, <1>4, <1>5, <4>1 DEF WellFormed, RuleForm
      <4>4. o \in b.reach /\ o \notin b.missing
        BY <4>1, <4>2, <4>3 DEF WellFormed
      <4> QED BY <4>1, <4>4
    <3> QED BY <3>1, <3>2
  <2> HIDE DEF a, c
  <2>4. Split(routes, rules, nat, c, b, r)
    BY <1>2, <1>4, <2>2, <2>3, SplitLeavesRule
  <2> QED BY <1>2, <2>4 DEF c
<1>7. CASE ~keep(o)
  <2>1. LookStep(t, o, "run")
    BY <1>1, <1>2, <1>7 DEF LookStep
  <2>2. /\ c.nat = a.nat /\ c.hold = a.hold /\ c.reach = a.reach /\ c.firm = a.firm
        /\ c.missing = {} /\ c.deleting = IF o.dest = "all" THEN {o} ELSE {}
    BY <1>2, <2>1, LookShare
  <2>3. CASE o.dest = "all"
    <3>1. \A x \in routes : x.table # o.table
      BY <1>7, <2>3 DEF RoutesExist
    <3> HIDE DEF a, c
    <3>2. Split(routes, rules, nat, c, b, r)
      BY <1>4, <2>2, <3>1, SplitDeletes
    <3> QED BY <1>2, <3>2 DEF c
  <2>4. CASE o.dest # "all"
    <3> HIDE DEF a, c
    <3>1. Split(routes, rules, nat, c, b, r)
      BY <1>4, <2>2, <2>4, SplitKept
    <3> QED BY <1>2, <3>1 DEF c
  <2> QED BY <2>3, <2>4
<1> QED BY <1>6, <1>7

\* UpdateRouteRule, last command.
LEMMA RunRuleSplit ==
  ASSUME DaemonInv, ProperSources, NEW b, NEW r, WellFormed(b), Apart(AllOps, b.reach),
         Split(routes, rules, nat, Share, b, r),
         NEW t \in Threads, RunRule(t)
  PROVE  Split(routes', rules', nat', Share', b, r)
<1>1. PICK o \in todo[t] :
        /\ look[t].op = o /\ look[t].st = "run"
        /\ rules' = IF Adding(t) THEN rules \cup {o} ELSE rules \ {o}
        /\ Done(t, o) /\ look' = [look EXCEPT ![t] = NoLook]
        /\ UNCHANGED <<apiVars, callVars, proc, routes, nat, devTo, taint>>
  BY DEF RunRule
<1>2. /\ o.on = "rule" /\ o \in AllOps /\ DoneStep(t, o)
      /\ routes' = routes /\ nat' = nat /\ WellFormed(Share)
  BY <1>1, ShareWellFormed DEF DaemonInv, DaemonTypeOK, LooksAtFirst, DoneStep
<1> DEFINE a == Share
           c == Share'
<1>3. Split(routes, rules, nat, a, b, r) /\ WellFormed(a)
  BY <1>2
<1>4. CASE Adding(t)
  <2>1. Adds(a, c, o) /\ rules' = rules \cup {o}
    BY <1>1, <1>2, <1>4, DoneShare
  <2> HIDE DEF a, c
  <2>2. Split(routes, rules', nat, c, b, r)
    BY <1>2, <1>3, <2>1, SplitAddsRule
  <2> QED BY <1>2, <2>1, <2>2 DEF c
<1>5. CASE ~Adding(t)
  <2>1. Removes(a, c, o) /\ rules' = rules \ {o}
    BY <1>1, <1>2, <1>5, DoneShare
  <2>2. o.dest = "all" => o \in a.deleting
    BY <1>1, <1>2, <1>5 DEF Share, Deleting
  <2> HIDE DEF a, c
  <2>3. o.dest = "all" /\ ~r => \A x \in routes : x.table # o.table
    BY <1>3, <2>2 DEF Split
  <2>4. IF o.dest = "all" THEN ~r => o \notin b.firm ELSE o \notin b.hold
    <3>1. CASE o.dest = "all"
      BY <1>2, <1>3, <2>3, <3>1 DEF Split, WellFormed
    <3>2. CASE o.dest # "all"
      BY <1>2, <3>2 DEF Apart, WellFormed
    <3> QED BY <3>1, <3>2
  <2>5. Split(routes, rules \ {o}, nat, c, b, r)
    BY <1>2, <1>3, <2>1, <2>4, SplitRemovesRule
  <2> QED BY <1>2, <2>1, <2>5 DEF c
<1> QED BY <1>4, <1>5

-----------------------------------------------------------------------------
(* A step of a calm daemon next to another that has the share b.           *)

\* A step that is no command changes nothing in the kernel, and in the share
\* nothing that the other could tell.
LEMMA MovesShare ==
  ASSUME DaemonInv, Moves, devTo' = devTo
  PROVE  /\ Share'.nat = Share.nat
         /\ \A o : o.on \in {"route", "rule", "nat"} => (o \in Share'.hold <=> o \in Share.hold)
         /\ \A o \in Share.reach : o.on = "rule" => o \in Share'.reach
         /\ \A o \in Share'.firm : o.on = "rule" => o \in Share.firm
         /\ Share'.missing \subseteq Share.missing /\ Share'.deleting \subseteq Share.deleting
<1> USE DEF Threads
<1>1. /\ pc \in [Threads -> {"idle", "add", "del", "drop"}]
      /\ todo \in [Threads -> SUBSET AllOps]
      /\ DaemonTypeOK /\ CallInOrder
  BY DEF DaemonInv, DaemonTypeOK
<1>2. CASE Stays
  <2>1. pc' = pc /\ todo' = todo /\ look' = look /\ saved' = saved /\ target' = target
    BY <1>2 DEF Stays
  <2>2. Doing' = Doing
    BY <2>1, TargetKept, SavedKept DEF Doing
  <2>3. Reach' = Reach /\ Firm' = Firm
    BY <2>1, <2>2, TargetKept DEF Reach, Firm
  <2>4. LookingAt("missing")' = LookingAt("missing") /\ Deleting' = Deleting
    BY <2>1 DEF LookingAt, Deleting, Adding
  <2> QED BY <2>2, <2>3, <2>4 DEF Share
<1>3. ASSUME \A t \in Threads : look'[t].st = "none"
      PROVE  LookingAt("missing")' = {} /\ Deleting' = {}
  BY <1>3 DEF LookingAt, Deleting
<1>4. CASE StartsDeleting
  <2>1. PICK t \in Threads, where \in {"del", "drop"} :
          /\ t = "sig" => where = "del" /\ saved' = saved
          /\ pc' = [pc EXCEPT ![t] = where] /\ todo' = [todo EXCEPT ![t] = Installed(saved)]
    BY <1>4 DEF StartsDeleting
  <2>2. Doing = Installed(saved) /\ Reach = Doing /\ Firm = Doing
    BY <1>4 DEF StartsDeleting, Idle, Doing, Reach, Firm
  <2>3. Doing' = Installed(saved) /\ Reach' = Doing' /\ Firm' = {}
    BY <1>1, <1>4, <2>1 DEF StartsDeleting, Idle, Doing, Reach, Firm
  <2>4. \A u \in Threads : look'[u].st = "none"
    BY <1>1, <1>4, IdleLooks DEF StartsDeleting, Idle, CallInOrder
  <2> QED BY <1>3, <2>2, <2>3, <2>4 DEF Share
<1>5. CASE StartsAdding
  <2>1. Doing = {} /\ Reach = {}
    BY <1>5 DEF StartsAdding, Doing, Reach
  <2>2. pc'["inf"] = "add" /\ todo'["inf"] = handleRoutes(target', "add")
    BY <1>1, <1>5 DEF StartsAdding
  <2>3. Doing' = {} /\ Firm' = {}
    BY <2>2, CallSame DEF Doing, Firm
  <2>4. \A u \in Threads : look'[u].st = "none"
    BY <1>1, <1>5, IdleLooks DEF StartsAdding, CallInOrder
  <2> QED BY <1>3, <2>1, <2>3, <2>4 DEF Share
<1>6. CASE FinishesAdding
  <2>1. /\ Doing = handleRoutes(target, "add") /\ Reach = Doing /\ Firm = Doing
        /\ pc["sig"] = "idle"
    BY <1>1, <1>6 DEF FinishesAdding, CallInOrder, Doing, Reach, Firm
  <2>2. pc'["inf"] = "idle" /\ pc'["sig"] = "idle" /\ saved' = target
    BY <1>1, <1>6, <2>1 DEF FinishesAdding
  <2>3. Doing' = Installed(target) /\ Reach' = Doing' /\ Firm' = Doing'
    BY <2>2, CallSame DEF Doing, Reach, Firm
  <2>4. \A u \in Threads : look'[u].st = "none"
    BY <1>1, <1>6, <2>1, IdleLooks DEF FinishesAdding, CallInOrder
  <2>5. \A o : o.on \in {"route", "rule", "nat"} =>
          (o \in Installed(target) <=> o \in handleRoutes(target, "add"))
    BY DEF Installed, handleRoutes
  <2> QED BY <1>3, <2>1, <2>3, <2>4, <2>5 DEF Share
<1>7. CASE Ends
  <2>1. Doing = {} /\ Reach = {}
    BY <1>7 DEF Ends, Reach
  <2>2. pc'["inf"] = "idle" /\ pc'["sig"] = "idle" /\ saved' = NilMap
    BY <1>7 DEF Ends, Idle
  <2>3. Doing' = {} /\ Firm' = {}
    BY <2>2, CallSame, NothingForNil DEF Doing, Firm
  <2> QED BY <1>3, <1>7, <2>1, <2>3 DEF Ends, Share
<1> QED BY <1>2, <1>4, <1>5, <1>6, <1>7 DEF Moves

\* What the two daemons have in the kernel stays split between them.
LEMMA SplitStep ==
  ASSUME DaemonInv, Calm, Calm', [Next]_vars, ~Faulty, ProperSources,
         NEW b, NEW r, WellFormed(b), Apart(AllOps, b.reach),
         Split(routes, rules, nat, Share, b, r), ~r => Unopposed(b)
  PROVE  Split(routes', rules', nat', Share', b, r)
<1>1. ASSUME NEW t \in Threads, Command(t)
      PROVE  Split(routes', rules', nat', Share', b, r)
  BY <1>1, UpdateRouteSplit, ConfigureSNATSplit, ListRulesSplit, ListTableSplit, RunRuleSplit,
     DialSplit DEF Command
<1>2. CASE \/ Informer \/ handleSignal \/ Exit \/ Restart
           \/ UpdateConfigMap \/ HelmInstall \/ HelmDelete \/ UNCHANGED vars
  <2>1. Moves
    BY <1>2, InformerMoves, OtherMoves
  <2>2. devTo' = devTo /\ routes' = routes /\ rules' = rules /\ nat' = nat
    <3>1. CASE Die /\ devTo' = devTo
      BY <3>1 DEF Die, kernelVars
    <3>2. CASE Informer /\ ~Die
      BY <3>2 DEF Informer, configMapCreated, configMapDeleted, configMapUpdated, UpdatedDeleted,
                  Added, Dropped, kernelVars
    <3>3. CASE ~Informer /\ ~Die
      BY <1>2, <3>3 DEF handleSignal, Exit, Restart, UpdateConfigMap, HelmInstall, HelmDelete,
                        Write, vars, kernelVars
    <3>4. devTo' = devTo
      BY DaemonStep
    <3> QED BY <3>1, <3>2, <3>3, <3>4
  <2> DEFINE a == Share
             c == Share'
  <2>3. Split(routes, rules, nat, a, b, r) /\ WellFormed(a)
    BY ShareWellFormed
  <2>4. /\ c.nat = a.nat
        /\ \A o : o.on \in {"route", "rule", "nat"} => (o \in c.hold <=> o \in a.hold)
        /\ \A o \in a.reach : o.on = "rule" => o \in c.reach
        /\ \A o \in c.firm : o.on = "rule" => o \in a.firm
        /\ c.missing \subseteq a.missing /\ c.deleting \subseteq a.deleting
    BY <2>1, <2>2, MovesShare
  <2> HIDE DEF a, c
  <2>5. Split(routes, rules, nat, c, b, r)
    BY <2>3, <2>4, SplitKept
  <2> QED BY <2>2, <2>5 DEF c
<1> QED BY <1>1, <1>2 DEF Next, Environment, Faulty

-----------------------------------------------------------------------------
(* For two of them.                                                        *)

\* The two shares are alike in what is said of them.
LEMMA SplitTurned ==
  ASSUME NEW rt, NEW ru, NEW nt, NEW a, NEW b, NEW r, Split(rt, ru, nt, a, b, r)
  PROVE  Split(rt, ru, nt, b, a, r)
<1>1. \A o : Count(a.hold, o) \in Nat /\ Count(b.hold, o) \in Nat
  BY DEF Count
<1> QED BY <1>1 DEF Split

\* When they have raced, less is known of the rules.
LEMMA SplitWeakens ==
  ASSUME NEW rt, NEW ru, NEW nt, NEW a, NEW b, NEW r, NEW s, Split(rt, ru, nt, a, b, r), r => s
  PROVE  Split(rt, ru, nt, a, b, s)
BY DEF Split

\* A daemon that takes no step has the share it had.
LEMMA ShareKept ==
  ASSUME UNCHANGED <<cm, left, feed, seen, proc, saved, target, pc, todo, look, devTo, taint>>
  PROVE  /\ DaemonInv => DaemonInv'
         /\ Share' = Share /\ Calm' = Calm /\ LeftOK' = LeftOK
<1>1. DaemonTypeOK => DaemonTypeOK'
  BY LookKept DEF DaemonTypeOK
<1>2. /\ \A d \in Maps : Installed(d)' = Installed(d)
      /\ handleRoutes(target, "add")' = handleRoutes(target, "add")
      /\ Installed(saved)' = Installed(saved)
  BY CallSame, TargetKept, SavedKept
<1>3. CallInOrder => CallInOrder'
  BY <1>2 DEF CallInOrder
<1>4. \A t \in Threads : LooksAtFirst(t) => LooksAtFirst(t)'
  BY DEF LooksAtFirst, Adding
<1>5. SavedInv => SavedInv'
  BY DEF SavedInv, Data
<1>6. Doing' = Doing
  BY <1>2 DEF Doing
<1>7. Reach' = Reach /\ Firm' = Firm
  BY <1>2, <1>6 DEF Reach, Firm
<1>8. LookingAt("missing")' = LookingAt("missing") /\ Deleting' = Deleting
  BY DEF LookingAt, Deleting, Adding
<1>9. Share' = Share
  BY <1>6, <1>7, <1>8 DEF Share
<1>10. Calm' = Calm /\ LeftOK' = LeftOK
  BY DEF Calm, LeftOK
<1> QED BY <1>1, <1>3, <1>4, <1>5, <1>9, <1>10 DEF DaemonInv

\* What is in the kernel, or on the way there, are commands.
LEMMA ReachTyped ==
  ASSUME DaemonInv
  PROVE  Share.reach \subseteq AllOps
BY ReachOfCall DEF Share, AllOps

\* A daemon that is in no call holds what its data needs.
LEMMA IdleShare ==
  ASSUME pc = Idle
  PROVE  /\ Share.nat = NatOps /\ Share.hold = Installed(saved)
         /\ Share.reach = Installed(saved) /\ Share.firm = Installed(saved)
<1>1. pc["inf"] = "idle" /\ pc["sig"] = "idle"
  BY DEF Idle, Threads
<1>2. Doing = Installed(saved) /\ Reach = Doing /\ Firm = Doing
  BY <1>1 DEF Doing, Reach, Firm
<1> QED BY <1>2 DEF Share

\* A daemon that has just been started for the first time.
LEMMA FreshDaemon ==
  ASSUME cm = NilMap, left = Budget, feed = <<NilMap>>, seen = Absent, proc = "up",
         saved = NilMap, target = NilMap, pc = Idle, todo = Nothing, look = NotLooking, taint = {},
         \A w \in Workers : devTo[w] \in Devices
  PROVE  /\ DaemonInv /\ LeftOK
         /\ Share.nat = NatOps /\ Share.hold = {} /\ Share.reach = {} /\ Share.firm = {}
         /\ Share.missing = {} /\ Share.deleting = {}
<1> USE DEF Threads
<1>1. LookOK
  BY NoLookTyped DEF NotLooking, LookOK
<1>2. DaemonTypeOK
  BY <1>1 DEF DaemonTypeOK, Maps, Idle, Nothing
<1>3. CallInOrder
  BY DEF CallInOrder, Idle, Nothing
<1>4. \A t \in Threads : look[t].st = "none"
  BY DEF NotLooking, NoLook
<1>5. \A t \in Threads : LooksAtFirst(t)
  BY <1>4 DEF LooksAtFirst
<1>6. SavedInv
  BY DEF SavedInv, Data, Idle
<1>7. LookingAt("missing") = {} /\ Deleting = {}
  BY <1>4 DEF LookingAt, Deleting
<1>8. LeftOK
  BY BudgetAssumption DEF LeftOK
<1> QED BY <1>2, <1>3, <1>5, <1>6, <1>7, <1>8, IdleShare, NothingForNil DEF DaemonInv, Share

\* Which subnets a call has routes to, and rules for.
LEMMA OpsNamed ==
  ASSUME NEW d \in Configs, NEW dev, NEW o \in Ops(d, dev)
  PROVE  /\ o.on = "route" =>
              \/ VpnNode(d) /\ o \in TunnelRoutes(d)
              \/ o.table = d.table /\ \E s \in d.remote : o.dest = Network[remap[s]]
         /\ o.on = "rule" /\ o.dest # "all" =>
              VpnNode(d) /\ \E s \in d.remote : o.dest = remap[s]
<1>1. CASE VpnNode(d)
  <2>1. o \in RouteRemoteSubnet(d, dev) =>
          o.table = d.table /\ \E s \in d.remote : o.dest = Network[remap[s]]
    BY DEF RouteRemoteSubnet, Op
  <2>2. o = Op(5, "rule", d.table, "all", None) => o.dest = "all"
    BY DEF Op
  <2> QED BY <1>1, <2>1, <2>2, OpsParts, OpsKinds
<1>2. CASE ~VpnNode(d)
  <2>1. \/ o \in RouteRemoteSubnet(d, dev) \/ o = Op(5, "rule", d.table, "all", None)
        \/ o \in handleRoutesSNAT(d)
    BY <1>2 DEF Ops, HostNetwork
  <2>2. o \in RouteRemoteSubnet(d, dev) =>
          o.table = d.table /\ \E s \in d.remote : o.dest = Network[remap[s]]
    BY DEF RouteRemoteSubnet, Op
  <2>3. o = Op(5, "rule", d.table, "all", None) => o.dest = "all" /\ o.on = "rule"
    BY DEF Op
  <2> QED BY <2>1, <2>2, <2>3, OpsKinds
<1> QED BY <1>1, <1>2
=============================================================================
