-------------------------- MODULE RouteDaemonProofs --------------------------
(* Theorems about RouteDaemon, for every value of its constants.           *)
EXTENDS RouteDaemon, TLAPS

-----------------------------------------------------------------------------
(* Lemmas about the commands of a handleRoutes call and the types.         *)

\* Each call runs commands of AllOps only.
LEMMA CallsRunOps ==
  ASSUME TypeOK, NEW d \in Maps, NEW action
  PROVE  handleRoutes(d, action) \in SUBSET AllOps
<1>1. CASE ~Complete(d)
  BY <1>1 DEF handleRoutes
<1>2. CASE Complete(d)
  <2>1. d \in Configs
    BY <1>2 DEF Complete, Maps
  <2>2. GetDeviceToWorkerNode(d) \in Devices \cup {NoDevice}
    BY <2>1 DEF TypeOK, GetDeviceToWorkerNode, VpnNode, Workers
  <2>3. Ops(d, GetDeviceToWorkerNode(d)) \subseteq AllOps
    BY <2>1, <2>2 DEF AllOps
  <2> QED BY <1>2, <2>3 DEF handleRoutes
<1> QED BY <1>1, <1>2

\* A goroutine that starts a call is inside of it, with commands of AllOps.
LEMMA CallTyped ==
  ASSUME TypeOK, NEW t \in Threads, NEW d \in Maps, NEW action,
         NEW where \in {"add", "del", "drop"}, Call(t, d, action, where)
  PROVE  /\ pc' \in [Threads -> {"idle", "add", "del", "drop"}]
         /\ todo' \in [Threads -> SUBSET AllOps]
<1>1. handleRoutes(d, action) \in SUBSET AllOps
  BY CallsRunOps
<1>2. /\ pc \in [Threads -> {"idle", "add", "del", "drop"}]
      /\ todo \in [Threads -> SUBSET AllOps]
  BY DEF TypeOK
<1>3. /\ pc' = [pc EXCEPT ![t] = where]
      /\ todo' = [todo EXCEPT ![t] = handleRoutes(d, action)]
  BY DEF Call
<1> QED BY <1>1, <1>2, <1>3

\* The first event of the feed is one, and so are the ones after it.
LEMMA FeedTyped ==
  ASSUME TypeOK, feed # <<>>
  PROVE  Tail(feed) \in Seq(Maps \cup {Absent, Tombstone})
BY DEF TypeOK

\* The feed a list of the API server makes: no event, or one.
LEMMA ShortFeedTyped ==
  ASSUME NEW S, NEW e \in S, NEW f, f = <<>> \/ f = <<e>>
  PROVE  f \in Seq(S)
<1>1. <<>> \in Seq(S)
  OBVIOUS
<1>2. <<e>> \in Seq(S)
  OBVIOUS
<1> QED BY <1>1, <1>2, Zenon

\* The end of the process leaves the type invariant true.
LEMMA DieTyped ==
  ASSUME TypeOK, Die, UNCHANGED devTo, cm' = cm, left' \in [DOMAIN Budget -> Nat]
  PROVE  TypeOK'
<1>1. LookOK'
  BY DEF Die, NotLooking, NoLook, LookOK
<1> QED BY <1>1 DEF TypeOK, Die, Idle, Nothing, Threads, Maps, kernelVars

\* The state of a goroutine that is not in UpdateRouteRule is a state.
LEMMA NoLookTyped ==
  NoLook \in [st : {"none", "found", "missing", "run"}, op : AllOps \cup {NoLook.op}]
BY DEF NoLook

\* A step that leaves look alone leaves its type alone.
LEMMA LookKept ==
  ASSUME LookOK, look' = look
  PROVE  LookOK'
BY DEF LookOK

\* History is not forgotten.
LEMMA TaintGrows ==
  ASSUME [Next]_vars
  PROVE  taint \subseteq taint'
<1>1. CASE Die
  BY <1>1 DEF Die
<1>2. CASE Informer /\ ~Die
  BY <1>2 DEF Informer, configMapCreated, configMapDeleted, configMapUpdated, UpdatedDeleted,
              Added, Dropped, Overlap
<1>3. CASE handleSignal /\ ~Die
  BY <1>3 DEF handleSignal
<1>4. CASE Restart
  BY <1>4 DEF Restart
<1>5. CASE Environment /\ ~Die
  BY <1>5 DEF Environment, UpdateConfigMap, HelmInstall, HelmDelete, Relist, Kill, CalicoChange,
              Write
<1>6. ASSUME NEW t \in Threads, Command(t) PROVE taint' = taint
  BY <1>6 DEF Command, UpdateRoute, ConfigureSNAT, ListRules, ListTable, RunRule, Dial
<1>7. CASE UNCHANGED vars
  BY <1>7 DEF vars
<1>8. ASSUME NEW t \in Threads, CommandFails(t) PROVE taint \subseteq taint'
  BY <1>8 DEF CommandFails
<1> QED BY <1>1, <1>2, <1>3, <1>4, <1>5, <1>6, <1>7, <1>8 DEF Next, Exit

\* Spending from the budget leaves natural numbers.
LEMMA SpendTyped ==
  ASSUME TypeOK,
         NEW event \in {"publish", "helm", "kill", "signal", "relist", "calico", "fail"},
         Spend(event)
  PROVE  left' \in [DOMAIN Budget -> Nat]
<1>1. event \in DOMAIN Budget
  BY BudgetAssumption
<1>2. left[event] - 1 \in Nat
  BY <1>1 DEF TypeOK, Spend
<1> QED BY <1>1, <1>2 DEF TypeOK, Spend

-----------------------------------------------------------------------------
\* Type correctness of the daemon: RouteDaemon's type invariant, for any
\* set of configurations and any budget.
THEOREM TypeCorrect == Spec => []TypeOK
<1>1. Init => TypeOK
  <2>1. NotLooking \in [Threads -> [st : {"none", "found", "missing", "run"},
                                    op : AllOps \cup {NoLook.op}]]
    BY NoLookTyped DEF NotLooking
  <2>2. Init => LookOK
    BY <2>1 DEF Init, LookOK
  <2> QED BY <2>2, BudgetAssumption DEF Init, TypeOK, Maps, Idle, Nothing, Threads
<1>2. TypeOK /\ [Next]_vars => TypeOK'
  <2> SUFFICES ASSUME TypeOK, [Next]_vars PROVE TypeOK'
    OBVIOUS
  <2> USE DEF callVars, apiVars, kernelVars
  <2> USE LookKept
  <2>1. CASE configMapCreated
    <3>1. PICK new \in Maps :
            /\ Event(new) /\ seen = Absent
            /\ \/ /\ Call("inf", new, "add", "add")
                  /\ feed' = Tail(feed) /\ seen' = new /\ target' = new
                  /\ Overlap
                  /\ UNCHANGED <<proc, saved, look, kernelVars>>
               \/ Refuses(new, "add") /\ Die
            /\ UNCHANGED <<cm, left, devTo>>
      BY <2>1 DEF configMapCreated
    <3>2. CASE Die
      BY <3>1, <3>2, DieTyped DEF TypeOK
    <3>3. CASE Call("inf", new, "add", "add") /\ ~Die
      <4>1. Tail(feed) \in Seq(Maps \cup {Absent, Tombstone})
        BY <3>1, FeedTyped DEF Event
      <4>2. /\ pc' \in [Threads -> {"idle", "add", "del", "drop"}]
            /\ todo' \in [Threads -> SUBSET AllOps]
        BY <3>3, CallTyped DEF Threads
      <4> QED BY <3>1, <3>3, <4>1, <4>2 DEF TypeOK, Overlap
    <3> QED BY <3>1, <3>2, <3>3
  <2>2. CASE configMapDeleted
    <3>1. CASE Die
      BY <2>2, <3>1, DieTyped DEF configMapDeleted, TypeOK
    <3>2. CASE ~Die
      <4>1. seen \in Maps
        BY <2>2 DEF configMapDeleted, TypeOK
      <4>2. feed # <<>>
        BY <2>2 DEF configMapDeleted, Event
      <4>3. /\ Call("inf", seen, "del", "drop")
            /\ feed' = Tail(feed) /\ seen' = Absent /\ saved' = NilMap
            /\ Overlap
            /\ UNCHANGED <<proc, target, look, kernelVars, cm, left, devTo>>
        BY <2>2, <3>2 DEF configMapDeleted
      <4>4. /\ pc' \in [Threads -> {"idle", "add", "del", "drop"}]
            /\ todo' \in [Threads -> SUBSET AllOps]
        BY <4>1, <4>3, CallTyped DEF Threads
      <4>5. Tail(feed) \in Seq(Maps \cup {Absent, Tombstone})
        BY <4>2, FeedTyped
      <4> QED BY <4>3, <4>4, <4>5 DEF TypeOK, Overlap, Maps
    <3> QED BY <3>1, <3>2
  <2>3. CASE configMapUpdated
    <3>1. CASE Die
      BY <2>3, <3>1, DieTyped DEF configMapUpdated, TypeOK
    <3>2. CASE ~Die
      <4>1. OldData \in Maps
        BY <2>3 DEF configMapUpdated, TypeOK, OldData
      <4>2. feed # <<>>
        BY <2>3 DEF configMapUpdated, Event
      <4>4. Tail(feed) \in Seq(Maps \cup {Absent, Tombstone})
        BY <4>2, FeedTyped
      <4>5. CASE OldData = Head(feed)
        BY <2>3, <3>2, <4>1, <4>4, <4>5 DEF configMapUpdated, TypeOK, Event
      <4>6. CASE OldData # Head(feed)
        <5>1. PICK new \in Maps :
                /\ Call("inf", OldData, "del", "del")
                /\ saved' = OldData /\ feed' = Tail(feed) /\ seen' = new /\ target' = new
                /\ Overlap
                /\ UNCHANGED <<proc, look, kernelVars>>
                /\ UNCHANGED <<cm, left, devTo>>
          BY <2>3, <3>2, <4>6 DEF configMapUpdated, Event
        <5>2. /\ pc' \in [Threads -> {"idle", "add", "del", "drop"}]
              /\ todo' \in [Threads -> SUBSET AllOps]
          BY <4>1, <5>1, CallTyped DEF Threads
        <5> QED BY <4>1, <4>4, <5>1, <5>2 DEF TypeOK, Overlap
      <4> QED BY <4>5, <4>6
    <3> QED BY <3>1, <3>2
  <2>4. CASE UpdatedDeleted
    <3>1. CASE Die
      BY <2>4, <3>1, DieTyped DEF UpdatedDeleted, TypeOK
    <3>2. CASE ~Die
      <4>1. target \in Maps /\ NilMap \in Maps
        BY DEF Maps, TypeOK
      <4>2. /\ Call("inf", target, "add", "add")
            /\ saved' = NilMap
            /\ UNCHANGED <<feed, seen, proc, target, look, kernelVars, taint, cm, left, devTo>>
        BY <2>4, <3>2 DEF UpdatedDeleted
      <4>3. /\ pc' \in [Threads -> {"idle", "add", "del", "drop"}]
            /\ todo' \in [Threads -> SUBSET AllOps]
        BY <4>1, <4>2, CallTyped DEF Threads
      <4> QED BY <4>1, <4>2, <4>3 DEF TypeOK
    <3> QED BY <3>1, <3>2
  <2>5. CASE Added
    BY <2>5 DEF Added, TypeOK, Threads
  <2>6. CASE Dropped
    BY <2>6 DEF Dropped, TypeOK, Threads
  <2>7. CASE handleSignal
    <3>0. left' \in [DOMAIN Budget -> Nat]
      BY <2>7, SpendTyped DEF handleSignal
    <3>1. CASE Die
      BY <2>7, <3>0, <3>1, DieTyped DEF handleSignal, TypeOK
    <3>2. CASE ~Die
      <4>1. saved \in Maps
        BY DEF TypeOK
      <4>2. /\ Call("sig", saved, "del", "del")
            /\ taint' = IF pc["inf"] = "idle" THEN taint ELSE taint \cup {"overlap"}
            /\ UNCHANGED <<cm, feed, seen, proc, saved, target, look, kernelVars, devTo>>
        BY <2>7, <3>2 DEF handleSignal
      <4>3. /\ pc' \in [Threads -> {"idle", "add", "del", "drop"}]
            /\ todo' \in [Threads -> SUBSET AllOps]
        BY <4>1, <4>2, CallTyped DEF Threads
      <4> QED BY <3>0, <4>2, <4>3 DEF TypeOK
    <3> QED BY <3>1, <3>2
  <2>8. CASE Exit
    BY <2>8, DieTyped DEF Exit, TypeOK
  <2>9. CASE Restart
    <3>1. feed' \in Seq(Maps \cup {Absent, Tombstone})
      <4>1. cm \in Maps \cup {Absent, Tombstone}
        BY DEF TypeOK
      <4>2. feed' = <<>> \/ feed' = <<cm>>
        BY <2>9 DEF Restart
      <4> QED BY <4>1, <4>2, ShortFeedTyped, Zenon
    <3> QED BY <2>9, <3>1 DEF Restart, TypeOK
  <2>10. CASE UpdateConfigMap
    <3>1. left' \in [DOMAIN Budget -> Nat]
      BY <2>10, SpendTyped DEF UpdateConfigMap
    <3> QED BY <2>10, <3>1 DEF UpdateConfigMap, Write, TypeOK, Maps
  <2>11. CASE HelmInstall
    <3>1. left' \in [DOMAIN Budget -> Nat]
      BY <2>11, SpendTyped DEF HelmInstall
    <3> QED BY <2>11, <3>1 DEF HelmInstall, Write, TypeOK, Maps
  <2>12. CASE HelmDelete
    <3>1. left' \in [DOMAIN Budget -> Nat]
      BY <2>12, SpendTyped DEF HelmDelete
    <3> QED BY <2>12, <3>1 DEF HelmDelete, Write, TypeOK, Maps
  <2>13. CASE Relist
    <3>1. left' \in [DOMAIN Budget -> Nat]
      BY <2>13, SpendTyped DEF Relist
    <3>2. feed' \in Seq(Maps \cup {Absent, Tombstone})
      <4>1. cm \in Maps \cup {Absent, Tombstone}
        BY DEF TypeOK
      <4>2. PICK e \in Maps \cup {Absent, Tombstone} : feed' = <<>> \/ feed' = <<e>>
        BY <2>13, <4>1 DEF Relist
      <4> QED BY <4>2, ShortFeedTyped, Zenon
    <3> QED BY <2>13, <3>1, <3>2 DEF Relist, TypeOK
  <2>14. CASE Kill
    <3>1. left' \in [DOMAIN Budget -> Nat]
      BY <2>14, SpendTyped DEF Kill
    <3> QED BY <2>14, <3>1, DieTyped DEF Kill
  <2>15. CASE CalicoChange
    <3>1. left' \in [DOMAIN Budget -> Nat]
      BY <2>15, SpendTyped DEF CalicoChange
    <3> QED BY <2>15, <3>1 DEF CalicoChange, TypeOK
  <2>16. ASSUME NEW t \in Threads, UpdateRoute(t) PROVE TypeOK'
    BY <2>16 DEF UpdateRoute, Done, TypeOK
  <2>17. ASSUME NEW t \in Threads, ConfigureSNAT(t) PROVE TypeOK'
    BY <2>17 DEF ConfigureSNAT, Done, TypeOK, NatOps
  <2>18. ASSUME NEW t \in Threads, ListRules(t) PROVE TypeOK'
    <3>1. LookOK'
      <4>1. PICK o \in todo[t] :
              \/ look' = look
              \/ \E st \in {"found", "missing", "run"} :
                   look' = [look EXCEPT ![t] = [st |-> st, op |-> o]]
        BY <2>18 DEF ListRules
      <4>2. o \in AllOps
        BY <4>1 DEF TypeOK
      <4>3. ASSUME NEW st \in {"found", "missing", "run"},
                   look' = [look EXCEPT ![t] = [st |-> st, op |-> o]]
            PROVE  LookOK'
        <5>1. [st |-> st, op |-> o] \in [st : {"none", "found", "missing", "run"},
                                        op : AllOps \cup {NoLook.op}]
          BY <4>2
        <5> QED BY <4>3, <5>1 DEF TypeOK, LookOK
      <4> QED BY <4>1, <4>3 DEF TypeOK
    <3>2. (todo \in [Threads -> SUBSET AllOps])'
      BY <2>18 DEF ListRules, Done, TypeOK
    <3> QED BY <2>18, <3>1, <3>2 DEF ListRules, TypeOK
  <2>19. ASSUME NEW t \in Threads, ListTable(t) PROVE TypeOK'
    <3>1. LookOK'
      <4>1. PICK o \in todo[t] :
              \/ look' = [look EXCEPT ![t] = NoLook]
              \/ look' = [look EXCEPT ![t] = [st |-> "run", op |-> o]]
        BY <2>19 DEF ListTable
      <4>2. [st |-> "run", op |-> o] \in [st : {"none", "found", "missing", "run"},
                                         op : AllOps \cup {NoLook.op}]
        BY <4>1 DEF TypeOK
      <4> QED BY <4>1, <4>2, NoLookTyped DEF TypeOK, LookOK
    <3>2. (todo \in [Threads -> SUBSET AllOps])'
      <4>1. PICK o \in todo[t] : todo' = todo \/ todo' = [todo EXCEPT ![t] = @ \ {o}]
        BY <2>19 DEF ListTable, Done
      <4> QED BY <4>1 DEF TypeOK
    <3> QED BY <2>19, <3>1, <3>2 DEF ListTable, TypeOK
  <2>20. ASSUME NEW t \in Threads, RunRule(t) PROVE TypeOK'
    <3>1. LookOK'
      <4>1. look' = [look EXCEPT ![t] = NoLook]
        BY <2>20 DEF RunRule
      <4> QED BY <4>1, NoLookTyped DEF TypeOK, LookOK
    <3>2. (todo \in [Threads -> SUBSET AllOps])'
      BY <2>20 DEF RunRule, Done, TypeOK
    <3>3. (rules \in SUBSET AllOps)'
      <4>1. PICK o \in todo[t] : rules' = IF Adding(t) THEN rules \cup {o} ELSE rules \ {o}
        BY <2>20 DEF RunRule
      <4>2. o \in AllOps
        BY <4>1 DEF TypeOK
      <4> QED BY <4>1, <4>2 DEF TypeOK
    <3> QED BY <2>20, <3>1, <3>2, <3>3 DEF RunRule, TypeOK
  <2>21. ASSUME NEW t \in Threads, Dial(t) PROVE TypeOK'
    BY <2>21 DEF Dial, Done, TypeOK
  <2>22. CASE UNCHANGED vars
    BY <2>22 DEF vars, TypeOK
  <2>23. ASSUME NEW t \in Threads, CommandFails(t) PROVE TypeOK'
    <3>1. left' \in [DOMAIN Budget -> Nat]
      BY <2>23, SpendTyped DEF CommandFails
    <3>2. LookOK'
      <4>1. look' = [look EXCEPT ![t] = NoLook]
        BY <2>23 DEF CommandFails
      <4> QED BY <4>1, NoLookTyped DEF TypeOK, LookOK
    <3>3. (todo \in [Threads -> SUBSET AllOps])'
      BY <2>23 DEF CommandFails, Done, TypeOK
    <3> QED BY <2>23, <3>1, <3>2, <3>3 DEF CommandFails, TypeOK, callVars, kernelVars
  <2> QED BY <2>1, <2>2, <2>3, <2>4, <2>5, <2>6, <2>7, <2>8, <2>9, <2>10, <2>11, <2>12,
             <2>13, <2>14, <2>15, <2>16, <2>17, <2>18, <2>19, <2>20, <2>21, <2>22, <2>23
          DEF Next, Informer, Environment, Command
<1> QED BY <1>1, <1>2, PTL DEF Spec

-----------------------------------------------------------------------------
(* savedRouteMap and the informer's store.  SavedMatchesOld speaks of the  *)
(* time between two callbacks; the invariant adds what holds inside one.   *)

Data(object) == IF object = Absent THEN NilMap ELSE object

SavedInv ==
  /\ proc = "down" => pc["inf"] = "idle" /\ seen = Absent /\ saved = NilMap
  /\ pc["inf"] = "idle" => saved = Data(seen)
  /\ pc["inf"] \in {"add", "del"} => seen = target /\ seen # Absent
  /\ pc["inf"] = "drop" => seen = Absent /\ saved = NilMap

\* The end of the process establishes it.
LEMMA DieSaved ==
  ASSUME Die
  PROVE  SavedInv'
BY DEF Die, SavedInv, Data, Idle, Threads

\* No command of handleRoutes touches the variables it speaks of.
LEMMA CommandSaved ==
  ASSUME SavedInv, NEW t \in Threads, Command(t) \/ CommandFails(t)
  PROVE  SavedInv'
<1>1. UNCHANGED <<proc, pc, seen, saved, target>>
  BY DEF Command, CommandFails, UpdateRoute, ConfigureSNAT, ListRules, ListTable, RunRule, Dial, callVars
<1> QED BY <1>1 DEF SavedInv, Data

\* An object of the API server is not the absence of one.
LEMMA MapsPresent == Absent \notin Maps
BY DataAssumption DEF Maps

\* savedRouteMap follows the informer's store in every step.
LEMMA SavedStep ==
  ASSUME pc \in [Threads -> {"idle", "add", "del", "drop"}], SavedInv, [Next]_vars
  PROVE  SavedInv'
<1>1. CASE Die
  BY <1>1, DieSaved
<1>2. CASE configMapCreated /\ ~Die
  <2>1. PICK new \in Maps :
          /\ Event(new) /\ seen = Absent
          /\ Call("inf", new, "add", "add")
          /\ seen' = new /\ target' = new /\ proc' = proc
    BY <1>2 DEF configMapCreated
  <2>2. pc'["inf"] = "add" /\ proc' = "up"
    BY <2>1 DEF Call, Event, Threads
  <2> QED BY <2>1, <2>2, MapsPresent DEF SavedInv
<1>3. CASE configMapDeleted /\ ~Die
  <2>1. Call("inf", seen, "del", "drop") /\ proc = "up" /\ proc' = proc
        /\ seen' = Absent /\ saved' = NilMap
    BY <1>3 DEF configMapDeleted, Event
  <2>2. pc'["inf"] = "drop"
    BY <2>1 DEF Call, Threads
  <2> QED BY <2>1, <2>2 DEF SavedInv
<1>4. CASE configMapUpdated /\ ~Die
  <2>1. PICK new \in Maps :
          /\ Event(new) /\ seen # Absent /\ proc' = proc
          /\ saved' = OldData /\ seen' = new
          /\ \/ OldData = new /\ pc' = pc
             \/ Call("inf", OldData, "del", "del") /\ target' = new
    BY <1>4 DEF configMapUpdated
  <2>2. proc' = "up" /\ new # Absent
    BY <2>1, MapsPresent DEF Event
  <2>3. CASE OldData = new /\ pc' = pc
    BY <2>1, <2>2, <2>3 DEF SavedInv, Event, Data
  <2>4. CASE Call("inf", OldData, "del", "del") /\ target' = new
    <3>1. pc'["inf"] = "del"
      BY <2>4 DEF Call, Threads
    <3> QED BY <2>1, <2>2, <2>4, <3>1 DEF SavedInv
  <2> QED BY <2>1, <2>3, <2>4
<1>5. CASE UpdatedDeleted /\ ~Die
  <2>1. pc["inf"] = "del" /\ Call("inf", target, "add", "add")
        /\ UNCHANGED <<proc, seen, target>> /\ proc = "up"
    BY <1>5 DEF UpdatedDeleted, Returned
  <2>2. pc'["inf"] = "add"
    BY <2>1 DEF Call, Threads
  <2> QED BY <2>1, <2>2 DEF SavedInv
<1>6. CASE Added
  <2>1. pc'["inf"] = "idle" /\ proc' = "up"
    BY <1>6 DEF Added, Returned, Threads
  <2>2. saved' = target /\ seen' = seen /\ seen = target /\ seen # Absent
    BY <1>6 DEF Added, Returned, SavedInv
  <2> QED BY <2>1, <2>2 DEF SavedInv, Data
<1>7. CASE Dropped
  <2>1. pc'["inf"] = "idle" /\ proc' = "up"
    BY <1>7 DEF Dropped, Returned, Threads
  <2>2. saved' = NilMap /\ seen' = Absent
    BY <1>7 DEF Dropped, Returned, SavedInv
  <2> QED BY <2>1, <2>2 DEF SavedInv, Data
<1>8. CASE handleSignal /\ ~Die
  <2>1. pc'["inf"] = pc["inf"]
    BY <1>8 DEF handleSignal, Call, Threads
  <2>2. proc' = "up" /\ UNCHANGED <<seen, saved, target>>
    BY <1>8 DEF handleSignal
  <2> QED BY <2>1, <2>2 DEF SavedInv, Data
<1>9. CASE Restart
  <2>1. pc["inf"] = "idle" /\ seen = Absent /\ saved = NilMap
    BY <1>9 DEF Restart, SavedInv
  <2>2. proc' = "up" /\ UNCHANGED callVars
    BY <1>9 DEF Restart
  <2> QED BY <2>1, <2>2 DEF SavedInv, Data, callVars
<1>10. CASE UpdateConfigMap \/ HelmInstall \/ HelmDelete \/ Relist \/ CalicoChange
  <2>1. UNCHANGED <<proc, pc, seen, saved, target>>
    BY <1>10 DEF UpdateConfigMap, HelmInstall, HelmDelete, Relist, CalicoChange, Write, callVars
  <2> QED BY <2>1 DEF SavedInv, Data
<1>11. ASSUME NEW t \in Threads, Command(t) \/ CommandFails(t) PROVE SavedInv'
  BY <1>11, CommandSaved
<1>12. CASE UNCHANGED vars
  BY <1>12 DEF vars, SavedInv, Data
<1>13. Exit => Die
  BY DEF Exit
<1>14. Kill => Die
  BY DEF Kill
<1> QED BY <1>1, <1>2, <1>3, <1>4, <1>5, <1>6, <1>7, <1>8, <1>9, <1>10, <1>11, <1>12,
           <1>13, <1>14 DEF Next, Informer, Environment

\* savedRouteMap follows the informer's store in every execution.
THEOREM SavedAlways == Spec => []SavedInv
<1>1. Init => SavedInv
  BY DEF Init, SavedInv, Data, Idle, Threads
<1>2. TypeOK /\ SavedInv /\ [Next]_vars => SavedInv'
  BY SavedStep DEF TypeOK
<1> QED BY <1>1, <1>2, TypeCorrect, PTL DEF Spec

\* When configMapUpdated is called, savedRouteMap is the data of the old
\* object (routedaemon.go:72-76 never logs), and when configMapCreated is
\* called it is nil: for every interleaving with handleSignal, every crash,
\* every lost event, and every configuration.
THEOREM SavedIsOldData == Spec => []SavedMatchesOld
<1>1. SavedInv => SavedMatchesOld
  BY DEF SavedInv, SavedMatchesOld, Data
<1> QED BY <1>1, SavedAlways, PTL

\* The commands of a call are those of the five functions that make them.
LEMMA OpsParts ==
  ASSUME NEW d \in Configs, NEW dev, NEW o \in Ops(d, dev)
  PROVE  \/ o \in TunnelRoutes(d) \/ o \in TunnelRules(d)
         \/ o \in handleRoutesNonCluster(d) \/ o \in RouteRemoteSubnet(d, dev)
         \/ o = Op(5, "rule", d.table, "all", None) \/ o \in handleRoutesSNAT(d)
<1> DEFINE A == IF VpnNode(d) THEN handleRoutesVpnNode(d) ELSE {}
           B == IF VpnNode(d) /\ ~HostNetwork(d) THEN handleRoutesNonCluster(d) ELSE {}
           C == IF HostNetwork(d) THEN {}
                ELSE RouteRemoteSubnet(d, dev)
                       \cup {Op(5, "rule", d.table, "all", None)}
                       \cup (IF d.usingLB THEN handleRoutesSNAT(d) ELSE {})
<1>1. Ops(d, dev) = UNION {A, B, C}
  BY DEF Ops
<1>2. o \in A \/ o \in B \/ o \in C
  <2> HIDE DEF A, B, C
  <2> QED BY <1>1
<1>3. CASE o \in A
  BY <1>3 DEF handleRoutesVpnNode
<1>4. CASE o \in B
  BY <1>4
<1>5. CASE o \in C
  BY <1>5
<1> QED BY <1>2, <1>3, <1>4, <1>5

\* The kind of command that each of them makes.
LEMMA OpsKinds ==
  ASSUME NEW d \in Configs, NEW dev, NEW o
  PROVE  /\ o \in TunnelRoutes(d) =>
              o = Op(1, "route", 199, o.dest, Tunnel) /\ o.on = "route"
         /\ o \in TunnelRules(d) =>
              /\ o = Op(2, "rule", 199, o.dest, None) /\ o.on = "rule"
              /\ \E s \in d.remote : o.dest = remap[s]
         /\ o \in handleRoutesNonCluster(d) => o.on = "nat"
         /\ o \in RouteRemoteSubnet(d, dev) =>
              /\ o = Op(4, "route", d.table, o.dest,
                        RouteInfo(d, dev))
              /\ o.on = "route"
         /\ o = Op(5, "rule", d.table, "all", None) => o.on = "rule"
         /\ o \in handleRoutesSNAT(d) => o.on \in {"nat", "dial"}
<1>1. o \in TunnelRoutes(d) =>
        o = Op(1, "route", 199, o.dest, Tunnel) /\ o.on = "route"
  BY DEF TunnelRoutes, Op
<1>2. o \in TunnelRules(d) =>
        /\ o = Op(2, "rule", 199, o.dest, None) /\ o.on = "rule"
        /\ \E s \in d.remote : o.dest = remap[s]
  BY DEF TunnelRules, Op
<1>3. o \in handleRoutesNonCluster(d) => o.on = "nat"
  BY DEF handleRoutesNonCluster, Op
<1>4. o \in RouteRemoteSubnet(d, dev) =>
        /\ o = Op(4, "route", d.table, o.dest,
                  RouteInfo(d, dev))
        /\ o.on = "route"
  BY DEF RouteRemoteSubnet, Op
<1>5. o = Op(5, "rule", d.table, "all", None) => o.on = "rule"
  BY DEF Op
<1>6. o \in handleRoutesSNAT(d) => o.on \in {"nat", "dial"}
  BY DEF handleRoutesSNAT, Op
<1> QED BY <1>1, <1>2, <1>3, <1>4, <1>5, <1>6

\* What a route of a call is, up to its destination.
LEMMA RouteShape ==
  ASSUME NEW d \in Configs, NEW dev, NEW o \in Ops(d, dev), o.on = "route"
  PROVE  \/ o = Op(1, "route", 199, o.dest, Tunnel)
         \/ o = Op(4, "route", d.table, o.dest,
                   RouteInfo(d, dev))
BY OpsParts, OpsKinds

\* What a rule of a call is: a tunnel rule, or the one for all sources.
LEMMA RuleShape ==
  ASSUME NEW d \in Configs, NEW dev, NEW o \in Ops(d, dev), o.on = "rule"
  PROVE  \/ o = Op(2, "rule", 199, o.dest, None) /\ \E s \in d.remote : o.dest = remap[s]
         \/ o = Op(5, "rule", d.table, "all", None)
BY OpsParts, OpsKinds

\* Two routes of a call differ in table or destination, so that `ip route
\* add' never fails on a route of the same call.
LEMMA RouteKey ==
  ASSUME NEW d \in Configs, NEW dev, NEW o \in Ops(d, dev), NEW p \in Ops(d, dev),
         o.on = "route", p.on = "route", o.table = p.table, o.dest = p.dest
  PROVE  o = p
BY RouteShape, DataAssumption DEF Op

\* Two rules of a call differ in table or source.
LEMMA RuleKey ==
  ASSUME NEW d \in Configs, NEW dev, NEW o \in Ops(d, dev), NEW p \in Ops(d, dev),
         o.on = "rule", p.on = "rule", o.table = p.table, o.dest = p.dest
  PROVE  o = p
BY RuleShape, DataAssumption DEF Op

\* The rule of a table is deleted after the routes in it: RoutesExist is
\* false then.
LEMMA RulesLast ==
  ASSUME NEW d \in Configs, NEW dev, NEW o \in Ops(d, dev), NEW p \in Ops(d, dev),
         o.on = "rule", p.on = "route", o.table = p.table
  PROVE  ~ o.stage <= p.stage
BY RuleShape, RouteShape, DataAssumption DEF Op

\* The kind of an entry decides where it is kept.
LEMMA EntryAdded ==
  ASSUME NEW S, NEW rt, NEW ru, NEW nt, Exactly(S, rt, ru, nt), NEW o
  PROVE  /\ o.on = "route" => Exactly(S \cup {o}, rt \cup {o}, ru, nt)
         /\ o.on = "rule" => Exactly(S \cup {o}, rt, ru \cup {o}, nt)
         /\ o.on = "dial" => Exactly(S \cup {o}, rt, ru, nt)
         /\ o \in NatOps /\ o \notin S =>
              Exactly(S \cup {o}, rt, ru, [nt EXCEPT ![o] = @ + 1])
<1>1. \A p \in NatOps : p.on = "nat"
  BY DEF NatOps
<1> QED BY <1>1 DEF Exactly

LEMMA EntryRemoved ==
  ASSUME NEW S, NEW rt, NEW ru, NEW nt, Exactly(S, rt, ru, nt), NEW o
  PROVE  /\ o.on = "route" => Exactly(S \ {o}, rt \ {o}, ru, nt)
         /\ o.on = "rule" => Exactly(S \ {o}, rt, ru \ {o}, nt)
         /\ o.on = "dial" => Exactly(S \ {o}, rt, ru, nt)
         /\ o \in NatOps /\ o \in S =>
              nt[o] > 0 /\ Exactly(S \ {o}, rt, ru, [nt EXCEPT ![o] = @ - 1])
<1>1. \A p \in NatOps : p.on = "nat"
  BY DEF NatOps
<1> QED BY <1>1 DEF Exactly

-----------------------------------------------------------------------------
(* The kernel.  Inside a callback it holds what is still to be deleted, or *)
(* what has been added so far; ExactInv says so and what makes each        *)
(* command find the kernel as it expects it.                               *)

\* What is in the kernel now
Doing ==
  IF pc["inf"] = "add" THEN handleRoutes(target, "add") \ todo["inf"]
  ELSE IF pc["inf"] # "idle" THEN todo["inf"]
  ELSE IF pc["sig"] # "idle" THEN todo["sig"]
  ELSE Installed(saved)

\* At most one goroutine is in handleRoutes, and it runs commands of one call
OneCall ==
  /\ pc["inf"] = "idle" \/ pc["sig"] = "idle"
  /\ pc["sig"] # "add"
  /\ \A t \in Threads : pc[t] = "idle" => todo[t] = {}
  /\ pc["inf"] = "add" => todo["inf"] \subseteq handleRoutes(target, "add")
  /\ \A t \in Threads :
       pc[t] \in {"del", "drop"} => \E d \in Maps : todo[t] \subseteq Installed(d)

\* UpdateRouteRule finds the rule exactly when it is to be deleted
LookRight(t) ==
  look[t].st # "none" =>
    /\ look[t].op \in todo[t] /\ look[t].op.on = "rule"
    /\ \A p \in todo[t] : look[t].op.stage <= p.stage
    /\ look[t].st # "missing"
    /\ Adding(t) => look[t].st = "run"

ExactInv ==
  taint = {} => OneCall /\ (\A t \in Threads : LookRight(t)) /\ KernelIs(Doing)

\* The commands of a call are a matter of its data and of the device.
LEMMA CallKept ==
  ASSUME devTo' = devTo, NEW d, NEW action
  PROVE  handleRoutes(d, action)' = handleRoutes(d, action)
BY DEF handleRoutes, GetDeviceToWorkerNode

\* The data being added is the same after a step that leaves it alone.
LEMMA TargetKept ==
  ASSUME devTo' = devTo, target' = target
  PROVE  handleRoutes(target, "add")' = handleRoutes(target, "add")
BY DEF handleRoutes, GetDeviceToWorkerNode, Complete, Ops

LEMMA SavedKept ==
  ASSUME devTo' = devTo, saved' = saved
  PROVE  Installed(saved)' = Installed(saved)
BY DEF handleRoutes, GetDeviceToWorkerNode, Installed

\* A command is done: the invariant holds again when the kernel has changed
\* by its entry.
LEMMA CommandDone ==
  ASSUME TypeOK, ExactInv, taint = {}, UNCHANGED <<callVars, devTo, taint>>,
         NEW t \in Threads, NEW o \in todo[t], Done(t, o),
         \/ look[t].st = "none" /\ look' = look
         \/ look' = [look EXCEPT ![t] = NoLook],
         Exactly(IF Adding(t) THEN Doing \cup {o} ELSE Doing \ {o}, routes', rules', nat')
  PROVE  ExactInv'
<1> USE DEF Threads
<1>1. /\ todo'[t] = todo[t] \ {o}
      /\ \A u \in Threads \ {t} : todo'[u] = todo[u] /\ look'[u] = look[u]
      /\ look'[t].st = "none"
  <2>1. /\ todo'[t] = todo[t] \ {o}
        /\ \A u \in Threads \ {t} : todo'[u] = todo[u]
    BY DEF TypeOK, Done
  <2>2. DOMAIN look = Threads /\ NoLook.st = "none"
    BY DEF TypeOK, LookOK, NoLook
  <2>3. /\ \A u \in Threads \ {t} : look'[u] = look[u]
        /\ look'[t].st = "none"
    BY <2>2
  <2> QED BY <2>1, <2>3
<1>2. pc' = pc /\ target' = target /\ saved' = saved /\ devTo' = devTo
  BY DEF callVars
<1>3. pc[t] # "idle" /\ \A u \in Threads \ {t} : pc[u] = "idle"
  BY DEF ExactInv, OneCall
<1>4. OneCall'
  <2>1. (pc["inf"] = "idle" \/ pc["sig"] = "idle")' /\ (pc["sig"] # "add")'
    BY <1>2 DEF ExactInv, OneCall
  <2>2. ASSUME NEW u \in Threads, pc'[u] = "idle" PROVE todo'[u] = {}
    BY <1>1, <1>2, <1>3, <2>2 DEF ExactInv, OneCall
  <2>3. pc'["inf"] = "add" => todo'["inf"] \subseteq handleRoutes(target, "add")'
    BY <1>1, <1>2, <1>3, TargetKept DEF ExactInv, OneCall
  <2>4. ASSUME NEW u \in Threads, pc'[u] \in {"del", "drop"}
        PROVE  \E d \in Maps : todo'[u] \subseteq Installed(d)'
    <3>1. PICK d \in Maps : todo[u] \subseteq Installed(d)
      BY <1>2, <2>4 DEF ExactInv, OneCall
    <3>2. Installed(d)' = Installed(d)
      BY <1>2, CallKept DEF Installed
    <3> QED BY <1>1, <3>1, <3>2
  <2> QED BY <2>1, <2>2, <2>3, <2>4 DEF OneCall
<1>5. \A u \in Threads : LookRight(u)'
  BY <1>1, <1>2, <1>3 DEF ExactInv, LookRight, OneCall, Adding
<1>6. KernelIs(Doing)'
  <2>1. CASE Adding(t)
    <3>1. t = "inf" /\ pc["inf"] = "add"
      BY <2>1 DEF Adding, ExactInv, OneCall
    <3>2. o \in handleRoutes(target, "add")
      BY <3>1 DEF ExactInv, OneCall
    <3>3. Doing' = Doing \cup {o}
      BY <1>1, <1>2, <3>1, <3>2, TargetKept DEF Doing
    <3> QED BY <2>1, <3>3 DEF KernelIs
  <2>2. CASE ~Adding(t)
    <3>1. Doing = todo[t] /\ Doing' = todo'[t]
      BY <1>2, <1>3, <2>2 DEF Doing, Adding
    <3> QED BY <1>1, <2>2, <3>1 DEF KernelIs
  <2> QED BY <2>1, <2>2
<1> QED BY <1>4, <1>5, <1>6 DEF ExactInv

\* No rule line of a source contains another source.  Two hosts such as
\* 10.1.1.1 and 10.1.1.12 break it: the text of the second contains the first.
NoLookalikes ==
  /\ lookalike["all"] = {"all"}
  /\ \A d \in Configs : \A s \in d.remote : lookalike[remap[s]] = {remap[s]}

\* While goroutine t runs handleRoutes, its commands are of one call, those
\* to come and, when it adds, those in the kernel.
LEMMA CallOfThread ==
  ASSUME TypeOK, ExactInv, taint = {}, NEW t \in Threads, todo[t] # {}
  PROVE  \E d \in Configs, dev \in Devices \cup {NoDevice} :
           /\ todo[t] \subseteq Ops(d, dev) /\ Doing \subseteq Ops(d, dev)
           /\ IF Adding(t) THEN Doing \cap todo[t] = {} ELSE Doing = todo[t]
<1> USE DEF Threads
<1>1. pc[t] # "idle" /\ \A u \in Threads \ {t} : pc[u] = "idle"
  BY DEF ExactInv, OneCall
<1>2. ASSUME NEW d \in Maps, NEW action, NEW o \in handleRoutes(d, action)
      PROVE  /\ d \in Configs /\ GetDeviceToWorkerNode(d) \in Devices \cup {NoDevice}
             /\ handleRoutes(d, action) \subseteq Ops(d, GetDeviceToWorkerNode(d))
  <2>1. d \in Configs
    BY <1>2 DEF handleRoutes, Complete, Maps
  <2>2. GetDeviceToWorkerNode(d) \in Devices \cup {NoDevice}
    BY <2>1 DEF TypeOK, GetDeviceToWorkerNode, VpnNode, Workers
  <2> QED BY <1>2, <2>1, <2>2 DEF handleRoutes
<1>3. CASE Adding(t)
  <2>1. t = "inf" /\ pc["inf"] = "add"
    BY <1>3 DEF Adding, ExactInv, OneCall
  <2>2. Doing = handleRoutes(target, "add") \ todo[t]
    BY <2>1 DEF Doing
  <2>3. todo[t] \subseteq handleRoutes(target, "add") /\ target \in Maps
    BY <2>1 DEF ExactInv, OneCall, TypeOK
  <2> QED BY <1>2, <1>3, <2>2, <2>3
<1>4. CASE ~Adding(t)
  <2>1. Doing = todo[t]
    BY <1>1, <1>4 DEF Doing, Adding
  <2>2. pc[t] \in {"del", "drop"}
    BY <1>1, <1>4 DEF Adding, TypeOK
  <2>3. PICK d \in Maps : todo[t] \subseteq handleRoutes(d, "del")
    BY <2>2 DEF ExactInv, OneCall, Installed
  <2> QED BY <1>2, <1>4, <2>1, <2>3
<1> QED BY <1>3, <1>4

\* `ip route add' and `ip route del' do what they are asked to.
LEMMA UpdateRouteExact ==
  ASSUME TypeOK, ExactInv, NEW t \in Threads, UpdateRoute(t)
  PROVE  ExactInv'
<1> SUFFICES ASSUME taint = {} PROVE ExactInv'
  BY DEF UpdateRoute, ExactInv
<1>1. PICK o \in todo[t] :
        /\ o.on = "route" /\ Next1(t, o) /\ Done(t, o)
        /\ routes' = IF ~Adding(t) THEN routes \ {o}
                     ELSE IF \E r \in routes : r.table = o.table /\ r.dest = o.dest
                     THEN routes ELSE routes \cup {o}
        /\ UNCHANGED <<apiVars, callVars, proc, look, rules, nat, devTo, taint>>
  BY DEF UpdateRoute
<1>2. PICK d \in Configs, dev \in Devices \cup {NoDevice} :
        /\ todo[t] \subseteq Ops(d, dev) /\ Doing \subseteq Ops(d, dev)
        /\ IF Adding(t) THEN Doing \cap todo[t] = {} ELSE Doing = todo[t]
  BY <1>1, CallOfThread
<1>3. Exactly(Doing, routes, rules, nat)
  BY DEF ExactInv, KernelIs
<1>4. o.on = "route" /\ rules' = rules /\ nat' = nat
  BY <1>1
<1>5. CASE Adding(t)
  <2>1. ASSUME NEW r \in routes, r.table = o.table, r.dest = o.dest PROVE FALSE
    <3>1. r \in Doing /\ r.on = "route"
      BY <1>3, <2>1 DEF Exactly
    <3>2. r = o
      BY <1>1, <1>2, <2>1, <3>1, RouteKey
    <3> QED BY <1>2, <1>5, <3>1, <3>2
  <2>2. routes' = routes \cup {o}
    BY <1>1, <1>5, <2>1
  <2>3. Exactly(Doing \cup {o}, routes', rules', nat')
    BY <1>3, <1>4, <2>2, EntryAdded
  <2> QED BY <1>1, <1>5, <2>3, CommandDone DEF Next1
<1>6. CASE ~Adding(t)
  <2>1. routes' = routes \ {o}
    BY <1>1, <1>6
  <2>2. Exactly(Doing \ {o}, routes', rules', nat')
    BY <1>3, <1>4, <2>1, EntryRemoved
  <2> QED BY <1>1, <1>6, <2>2, CommandDone DEF Next1
<1> QED BY <1>5, <1>6

\* `iptables -A' adds a rule that is not there, `-D' removes one that is.
LEMMA ConfigureSNATExact ==
  ASSUME TypeOK, ExactInv, NEW t \in Threads, ConfigureSNAT(t)
  PROVE  ExactInv'
<1> SUFFICES ASSUME taint = {} PROVE ExactInv'
  BY DEF ConfigureSNAT, ExactInv
<1>1. PICK o \in todo[t] :
        /\ o.on = "nat" /\ Next1(t, o) /\ Done(t, o)
        /\ nat' = IF Adding(t) THEN [nat EXCEPT ![o] = @ + 1]
                  ELSE IF nat[o] > 0 THEN [nat EXCEPT ![o] = @ - 1]
                  ELSE nat
        /\ UNCHANGED <<apiVars, callVars, proc, look, routes, rules, devTo, taint>>
  BY DEF ConfigureSNAT
<1>2. IF Adding(t) THEN Doing \cap todo[t] = {} ELSE Doing = todo[t]
  BY <1>1, CallOfThread
<1>3. Exactly(Doing, routes, rules, nat)
  BY DEF ExactInv, KernelIs
<1>4. o \in NatOps
  BY <1>1 DEF NatOps, TypeOK
<1>5. CASE Adding(t)
  <2>1. Exactly(Doing \cup {o}, routes', rules', nat')
    BY <1>1, <1>2, <1>3, <1>4, <1>5, EntryAdded
  <2> QED BY <1>1, <1>5, <2>1, CommandDone DEF Next1
<1>6. CASE ~Adding(t)
  <2>1. nat[o] > 0 /\ Exactly(Doing \ {o}, routes, rules, [nat EXCEPT ![o] = @ - 1])
    BY <1>2, <1>3, <1>4, <1>6, EntryRemoved
  <2>2. Exactly(Doing \ {o}, routes', rules', nat')
    BY <1>1, <1>6, <2>1
  <2> QED BY <1>1, <1>6, <2>2, CommandDone DEF Next1
<1> QED BY <1>5, <1>6

\* The VPN pod is woken; nothing in the kernel changes.
LEMMA DialExact ==
  ASSUME TypeOK, ExactInv, NEW t \in Threads, Dial(t)
  PROVE  ExactInv'
<1> SUFFICES ASSUME taint = {} PROVE ExactInv'
  BY DEF Dial, ExactInv
<1>1. PICK o \in todo[t] :
        /\ o.on = "dial" /\ Next1(t, o) /\ Done(t, o)
        /\ UNCHANGED <<apiVars, callVars, proc, look, kernelVars, devTo, taint>>
  BY DEF Dial
<1>2. Exactly(Doing, routes', rules', nat')
  BY <1>1 DEF ExactInv, KernelIs, kernelVars
<1>3. Exactly(IF Adding(t) THEN Doing \cup {o} ELSE Doing \ {o}, routes', rules', nat')
  BY <1>1, <1>2, EntryAdded, EntryRemoved
<1> QED BY <1>1, <1>3, CommandDone DEF Next1

\* UpdateRouteRule finds a rule when it is there, and no other in its place.
LEMMA FoundExact ==
  ASSUME NoLookalikes, TypeOK, ExactInv, taint = {},
         NEW t \in Threads, NEW o \in todo[t], o.on = "rule"
  PROVE  Found(o) <=> ~Adding(t)
<1>1. PICK d \in Configs, dev \in Devices \cup {NoDevice} :
        /\ todo[t] \subseteq Ops(d, dev) /\ Doing \subseteq Ops(d, dev)
        /\ IF Adding(t) THEN Doing \cap todo[t] = {} ELSE Doing = todo[t]
  BY CallOfThread
<1>2. rules = {p \in Doing : p.on = "rule"}
  BY DEF ExactInv, KernelIs, Exactly
<1>3. lookalike[o.dest] = {o.dest}
  <2>1. o \in Ops(d, dev)
    BY <1>1
  <2>2. o.dest = "all" \/ \E s \in d.remote : o.dest = remap[s]
    BY <2>1, RuleShape DEF Op
  <2> QED BY <2>2 DEF NoLookalikes
<1>4. CASE Adding(t)
  <2>1. ASSUME NEW r \in rules, r.table = o.table, r.dest = o.dest PROVE FALSE
    <3>1. r \in Doing /\ r.on = "rule"
      BY <1>2, <2>1
    <3>2. r = o
      BY <1>1, <2>1, <3>1, RuleKey
    <3> QED BY <1>1, <1>4, <3>1, <3>2
  <2> QED BY <1>3, <1>4, <2>1 DEF Found
<1>5. CASE ~Adding(t)
  <2>1. o \in rules
    BY <1>1, <1>2, <1>5
  <2> QED BY <1>3, <1>5, <2>1 DEF Found
<1> QED BY <1>4, <1>5

\* When the rule of a table is to be deleted, the table has no routes left.
LEMMA TableEmpty ==
  ASSUME TypeOK, ExactInv, taint = {}, NEW t \in Threads, NEW o \in todo[t],
         o.on = "rule", ~Adding(t), \A p \in todo[t] : o.stage <= p.stage
  PROVE  ~RoutesExist(o)
<1>1. PICK d \in Configs, dev \in Devices \cup {NoDevice} :
        /\ todo[t] \subseteq Ops(d, dev) /\ Doing = todo[t]
  BY CallOfThread
<1>2. routes = {p \in Doing : p.on = "route"}
  BY DEF ExactInv, KernelIs, Exactly
<1>3. SUFFICES ASSUME NEW r \in routes, r.table = o.table PROVE FALSE
  BY DEF RoutesExist
<1>4. r \in todo[t] /\ r.on = "route"
  BY <1>1, <1>2
<1>5. o.stage <= r.stage
  BY <1>4
<1>6. o \in Ops(d, dev) /\ r \in Ops(d, dev)
  BY <1>1, <1>4
<1>7. ~ o.stage <= r.stage
  BY <1>3, <1>4, <1>6, RulesLast
<1> QED BY <1>5, <1>7

\* A step that moves on inside UpdateRouteRule, for the same rule.
LEMMA LookMoved ==
  ASSUME TypeOK, ExactInv, taint = {}, UNCHANGED <<callVars, todo, kernelVars, devTo, taint>>,
         NEW t \in Threads, NEW o \in todo[t], o.on = "rule",
         \A p \in todo[t] : o.stage <= p.stage,
         NEW st \in {"found", "run"}, Adding(t) => st = "run",
         look' = [look EXCEPT ![t] = [st |-> st, op |-> o]]
  PROVE  ExactInv'
<1>1. pc' = pc /\ target' = target /\ saved' = saved /\ devTo' = devTo /\ todo' = todo
      /\ routes' = routes /\ rules' = rules /\ nat' = nat
  BY DEF callVars, kernelVars
<1>2. OneCall'
  <2>1. \A d \in Maps : Installed(d)' = Installed(d)
    BY <1>1, CallKept DEF Installed
  <2> QED BY <1>1, <2>1, TargetKept DEF ExactInv, OneCall
<1>3. look'[t] = [st |-> st, op |-> o] /\ \A u \in Threads \ {t} : look'[u] = look[u]
  BY DEF TypeOK, LookOK
<1>4. \A u \in Threads : LookRight(u)'
  BY <1>1, <1>3 DEF ExactInv, LookRight, Adding
<1>5. Doing' = Doing
  BY <1>1, TargetKept, SavedKept DEF Doing
<1> QED BY <1>1, <1>2, <1>4, <1>5 DEF ExactInv, KernelIs

\* UpdateRouteRule, first command: it goes on, for it has found what it should.
LEMMA ListRulesExact ==
  ASSUME NoLookalikes, TypeOK, ExactInv, NEW t \in Threads, ListRules(t)
  PROVE  ExactInv'
<1> SUFFICES ASSUME taint = {} PROVE ExactInv'
  BY DEF ListRules, ExactInv
<1>1. PICK o \in todo[t] :
        /\ o.on = "rule" /\ Next1(t, o)
        /\ IF Adding(t) /\ Found(o)
           THEN Done(t, o) /\ look' = look
           ELSE /\ todo' = todo
                /\ look' = [look EXCEPT ![t] =
                     [st |-> IF Adding(t) THEN "run"
                             ELSE IF Found(o) THEN "found" ELSE "missing",
                      op |-> o]]
        /\ UNCHANGED <<apiVars, callVars, proc, kernelVars, devTo, taint>>
  BY DEF ListRules
<1>2. Found(o) <=> ~Adding(t)
  BY <1>1, FoundExact
<1>3. /\ todo' = todo
      /\ look' = [look EXCEPT ![t] = [st |-> IF Adding(t) THEN "run" ELSE "found", op |-> o]]
  BY <1>1, <1>2
<1>4. \A p \in todo[t] : o.stage <= p.stage
  BY <1>1 DEF Next1
<1> QED BY <1>1, <1>3, <1>4, LookMoved

\* UpdateRouteRule, second command: no routes are left, it goes on.
LEMMA ListTableExact ==
  ASSUME TypeOK, ExactInv, NEW t \in Threads, ListTable(t)
  PROVE  ExactInv'
<1> SUFFICES ASSUME taint = {} PROVE ExactInv'
  BY DEF ListTable, ExactInv
<1> DEFINE keep(o) == look[t].st = "missing" \/ (o.dest = "all" /\ RoutesExist(o))
<1>1. PICK o \in todo[t] :
        /\ look[t].op = o /\ look[t].st \in {"found", "missing"}
        /\ look' = [look EXCEPT ![t] = IF keep(o) THEN NoLook ELSE [st |-> "run", op |-> o]]
        /\ IF keep(o) THEN Done(t, o) ELSE todo' = todo
        /\ UNCHANGED <<apiVars, callVars, proc, kernelVars, devTo, taint>>
  BY DEF ListTable
<1>2. /\ o.on = "rule" /\ \A p \in todo[t] : o.stage <= p.stage
      /\ look[t].st = "found" /\ ~Adding(t)
  BY <1>1 DEF ExactInv, LookRight
<1>3. ~keep(o)
  BY <1>1, <1>2, TableEmpty
<1>4. todo' = todo /\ look' = [look EXCEPT ![t] = [st |-> "run", op |-> o]]
  BY <1>1, <1>3
<1> QED BY <1>1, <1>2, <1>4, LookMoved

\* UpdateRouteRule, last command.
LEMMA RunRuleExact ==
  ASSUME TypeOK, ExactInv, NEW t \in Threads, RunRule(t)
  PROVE  ExactInv'
<1> SUFFICES ASSUME taint = {} PROVE ExactInv'
  BY DEF RunRule, ExactInv
<1>1. PICK o \in todo[t] :
        /\ look[t].op = o /\ look[t].st = "run"
        /\ rules' = IF Adding(t) THEN rules \cup {o} ELSE rules \ {o}
        /\ Done(t, o) /\ look' = [look EXCEPT ![t] = NoLook]
        /\ UNCHANGED <<apiVars, callVars, proc, routes, nat, devTo, taint>>
  BY DEF RunRule
<1>2. o.on = "rule"
  BY <1>1 DEF ExactInv, LookRight
<1>3. Exactly(Doing, routes, rules, nat)
  BY DEF ExactInv, KernelIs
<1>4. routes' = routes /\ nat' = nat
  BY <1>1
<1>5. Exactly(IF Adding(t) THEN Doing \cup {o} ELSE Doing \ {o}, routes', rules', nat')
  BY <1>1, <1>2, <1>3, <1>4, EntryAdded, EntryRemoved
<1> QED BY <1>1, <1>5, CommandDone

\* A goroutine that is in no call has a look of none and no commands.
LEMMA CallBegins ==
  ASSUME TypeOK, ExactInv, pc = Idle, taint = {}, taint' = {},
         UNCHANGED <<look, kernelVars, devTo>>, NEW t \in Threads, NEW where,
         pc' = [pc EXCEPT ![t] = where],
         \/ /\ where \in {"del", "drop"}
            /\ \E d \in Maps : todo' = [todo EXCEPT ![t] = Installed(d)]
            /\ todo'[t] = Doing
            /\ t = "sig" => where = "del"
         \/ /\ t = "inf" /\ where = "add" /\ Doing = {}
            /\ todo' = [todo EXCEPT ![t] = handleRoutes(target', "add")]
  PROVE  ExactInv'
<1> USE DEF Threads, Idle
<1>1. /\ pc'[t] = where /\ \A u \in Threads \ {t} : pc'[u] = "idle" /\ todo'[u] = {}
      /\ \A u \in Threads : look'[u].st = "none"
  BY DEF TypeOK, ExactInv, OneCall, LookRight
<1>2. handleRoutes(target', "add") = handleRoutes(target, "add")'
  BY DEF handleRoutes, GetDeviceToWorkerNode, kernelVars
<1>3. CASE where \in {"del", "drop"}
  <2>1. PICK d \in Maps : todo' = [todo EXCEPT ![t] = Installed(d)]
    BY <1>3
  <2>2. todo'[t] = Installed(d) /\ todo'[t] = Doing
    BY <1>3, <2>1 DEF TypeOK
  <2>3. Installed(d)' = Installed(d)
    BY CallKept DEF Installed
  <2>4. OneCall'
    BY <1>1, <1>3, <2>2, <2>3 DEF OneCall
  <2>5. Doing' = Doing
    BY <1>1, <1>3, <2>2 DEF Doing
  <2> QED BY <1>1, <2>4, <2>5 DEF ExactInv, LookRight, KernelIs, kernelVars
<1>4. CASE where = "add"
  <2>1. t = "inf" /\ Doing = {} /\ todo'[t] = handleRoutes(target, "add")'
    BY <1>2, <1>4 DEF TypeOK
  <2>2. OneCall'
    BY <1>1, <1>4, <2>1 DEF OneCall
  <2>3. Doing' = Doing
    BY <1>1, <1>4, <2>1 DEF Doing
  <2> QED BY <1>1, <2>2, <2>3 DEF ExactInv, LookRight, KernelIs, kernelVars
<1> QED BY <1>3, <1>4

\* A goroutine returns from its call: what it leaves is what savedRouteMap is.
LEMMA CallEnds ==
  ASSUME TypeOK, ExactInv, taint = {}, UNCHANGED <<todo, look, kernelVars, devTo, taint>>,
         todo["inf"] = {}, pc["inf"] # "idle", pc' = [pc EXCEPT !["inf"] = "idle"],
         KernelIs(Installed(saved'))
  PROVE  ExactInv'
<1> USE DEF Threads
<1>1. pc["sig"] = "idle" /\ pc' = Idle
  BY DEF ExactInv, OneCall, TypeOK, Idle
<1>2. \A u \in Threads : pc'[u] = "idle" /\ todo'[u] = {} /\ look'[u].st = "none"
  BY <1>1 DEF ExactInv, OneCall, LookRight, Idle
<1>3. Doing' = Installed(saved)'
  BY <1>1 DEF Doing, Idle
<1>4. Installed(saved)' = Installed(saved')
  BY DEF Installed, handleRoutes, GetDeviceToWorkerNode
<1>5. KernelIs(Doing)'
  BY <1>3, <1>4 DEF KernelIs, kernelVars
<1>6. OneCall'
  BY <1>2 DEF OneCall
<1> QED BY <1>2, <1>5, <1>6 DEF ExactInv, LookRight

\* Nothing is installed for a nil map.
LEMMA NothingForNil == Installed(NilMap) = {}
BY DEF Installed, handleRoutes, Complete

\* The dial that wakes the VPN pod leaves nothing in the kernel.
LEMMA DialLeavesNothing ==
  ASSUME NEW d
  PROVE  KernelIs(handleRoutes(d, "add")) <=> KernelIs(Installed(d))
<1>1. \A o : o.on \in {"route", "rule", "nat"} =>
        (o \in handleRoutes(d, "add") <=> o \in Installed(d))
  BY DEF Installed, handleRoutes
<1>2. \A o \in NatOps : o.on = "nat"
  BY DEF NatOps
<1> QED BY <1>1, <1>2 DEF KernelIs, Exactly

\* The end of the process keeps the invariant: when it leaves entries in the
\* kernel, taint says so.
LEMMA DieExact ==
  ASSUME TypeOK, ExactInv, Die, devTo' = devTo
  PROVE  ExactInv'
<1> SUFFICES ASSUME taint' = {} PROVE ExactInv'
  BY DEF ExactInv
<1>1. KernelEmpty
  BY DEF Die
<1>2. /\ pc' = Idle /\ todo' = Nothing /\ look' = NotLooking /\ saved' = NilMap
      /\ routes' = routes /\ rules' = rules /\ nat' = nat
  BY DEF Die, kernelVars
<1>3. Doing' = {}
  <2>1. Doing' = Installed(saved)'
    BY <1>2 DEF Doing, Idle, Threads
  <2>2. Installed(saved)' = {}
    BY <1>2 DEF Installed, handleRoutes, Complete
  <2> QED BY <2>1, <2>2
<1>4. OneCall'
  BY <1>2 DEF OneCall, Idle, Nothing, Threads
<1>5. \A u \in Threads : LookRight(u)'
  BY <1>2 DEF LookRight, NotLooking, NoLook
<1>6. KernelIs(Doing)'
  BY <1>1, <1>2, <1>3 DEF KernelIs, KernelEmpty
<1> QED BY <1>4, <1>5, <1>6 DEF ExactInv

\* Calico changes a route to a worker node when nothing is installed: then
\* nothing would be for the new device either.
LEMMA CalicoExact ==
  ASSUME TypeOK, ExactInv, CalicoChange
  PROVE  ExactInv'
<1> SUFFICES ASSUME taint' = {} PROVE ExactInv'
  BY DEF ExactInv
<1>1. /\ KernelEmpty /\ pc = Idle /\ taint = {}
      /\ UNCHANGED <<callVars, todo, look, kernelVars>>
  BY DEF CalicoChange
<1>2. /\ pc' = Idle /\ saved' = saved /\ todo' = todo /\ look' = look
      /\ routes' = routes /\ rules' = rules /\ nat' = nat
  BY <1>1 DEF callVars, kernelVars
<1>3. OneCall'
  BY <1>1, <1>2 DEF ExactInv, OneCall, Idle, Threads
<1>4. \A u \in Threads : LookRight(u)'
  BY <1>1, <1>2 DEF ExactInv, LookRight, OneCall, Idle, Threads
<1>5. Doing = Installed(saved) /\ Doing' = Installed(saved)'
  BY <1>1, <1>2 DEF Doing, Idle, Threads
<1>6. KernelIs(Installed(saved))
  BY <1>1, <1>5 DEF ExactInv
<1>7. Installed(saved)' = Installed(saved)
  <2>1. CASE ~Complete(saved)
    BY <1>2, <2>1 DEF Installed, handleRoutes, Complete
  <2>2. CASE VpnNode(saved)
    BY <1>2, <2>2 DEF Installed, handleRoutes, Complete, VpnNode, GetDeviceToWorkerNode
  <2>3. CASE Complete(saved) /\ ~VpnNode(saved)
    <3> DEFINE o == Op(5, "rule", saved.table, "all", None)
    <3>1. o.on = "rule"
      BY DEF Op
    <3>2. o \in Ops(saved, GetDeviceToWorkerNode(saved))
      BY <2>3 DEF Ops, HostNetwork
    <3>3. o \in Installed(saved)
      BY <2>3, <3>1, <3>2 DEF Installed, handleRoutes
    <3>4. o \in rules
      BY <1>6, <3>1, <3>3 DEF KernelIs, Exactly
    <3>5. rules = {}
      BY <1>1 DEF KernelEmpty, KernelIs, Exactly
    <3> QED BY <3>4, <3>5
  <2> QED BY <2>1, <2>2, <2>3
<1>8. KernelIs(Doing)'
  BY <1>2, <1>5, <1>6, <1>7 DEF KernelIs
<1> QED BY <1>3, <1>4, <1>8 DEF ExactInv

\* A step that touches none of its variables keeps the invariant.
LEMMA OthersExact ==
  ASSUME ExactInv, UNCHANGED <<callVars, todo, look, kernelVars, devTo, taint>>
  PROVE  ExactInv'
<1>1. /\ pc' = pc /\ target' = target /\ saved' = saved /\ todo' = todo /\ look' = look
      /\ routes' = routes /\ rules' = rules /\ nat' = nat /\ devTo' = devTo /\ taint' = taint
  BY DEF callVars, kernelVars
<1>2. \A d \in Maps : Installed(d)' = Installed(d)
  BY <1>1, CallKept DEF Installed
<1>3. OneCall'  <=> OneCall
  BY <1>1, <1>2, TargetKept DEF OneCall
<1>4. \A u \in Threads : LookRight(u)' <=> LookRight(u)
  BY <1>1 DEF LookRight, Adding
<1>5. Doing' = Doing
  BY <1>1, TargetKept, SavedKept DEF Doing
<1> QED BY <1>1, <1>3, <1>4, <1>5 DEF ExactInv, KernelIs

\* The callbacks of the informer.
LEMMA InformerExact ==
  ASSUME TypeOK, SavedInv, ExactInv, Informer, ~Die
  PROVE  ExactInv'
<1> SUFFICES ASSUME taint' = {} PROVE ExactInv'
  BY DEF ExactInv
<1> USE DEF Threads
<1>1. Overlap /\ pc["inf"] = "idle" => taint = {} /\ pc = Idle
  BY DEF Overlap, TypeOK, Idle
<1>2. pc = Idle /\ taint = {} => Doing = Installed(saved) /\ KernelIs(Doing)
  BY DEF Idle, Doing, ExactInv
<1>3. CASE configMapCreated
  <2>1. PICK new \in Maps :
          /\ Event(new) /\ seen = Absent
          /\ Call("inf", new, "add", "add") /\ target' = new /\ Overlap
          /\ UNCHANGED <<saved, look, kernelVars, devTo>>
    BY <1>3 DEF configMapCreated
  <2>2. pc = Idle /\ taint = {}
    BY <1>1, <2>1 DEF Event
  <2>3. Doing = {}
    BY <1>2, <2>1, <2>2, NothingForNil DEF SavedInv, Data, Idle
  <2>4. /\ pc' = [pc EXCEPT !["inf"] = "add"]
        /\ todo' = [todo EXCEPT !["inf"] = handleRoutes(target', "add")]
    BY <2>1 DEF Call
  <2> QED BY <2>1, <2>2, <2>3, <2>4, CallBegins
<1>4. CASE configMapDeleted
  <2>1. /\ Event(Absent) /\ seen # Absent /\ Call("inf", seen, "del", "drop") /\ Overlap
        /\ UNCHANGED <<look, kernelVars, devTo>>
    BY <1>4 DEF configMapDeleted
  <2>2. pc = Idle /\ taint = {}
    BY <1>1, <2>1 DEF Event
  <2>3. Doing = Installed(seen) /\ seen \in Maps
    BY <1>2, <2>1, <2>2 DEF SavedInv, Data, Idle, TypeOK
  <2>4. /\ pc' = [pc EXCEPT !["inf"] = "drop"]
        /\ todo' = [todo EXCEPT !["inf"] = Installed(seen)]
    BY <2>1 DEF Call, Installed
  <2>5. todo'["inf"] = Doing
    BY <2>3, <2>4 DEF TypeOK
  <2> QED BY <2>1, <2>2, <2>3, <2>4, <2>5, CallBegins
<1>5. CASE configMapUpdated
  <2>1. PICK new \in Maps :
          /\ Event(new) /\ seen # Absent /\ saved' = OldData /\ UNCHANGED <<look, kernelVars, devTo>>
          /\ \/ OldData = new /\ UNCHANGED <<target, pc, todo, taint>>
             \/ Call("inf", OldData, "del", "del") /\ target' = new /\ Overlap
    BY <1>5 DEF configMapUpdated
  <2>2. pc["inf"] = "idle" /\ saved = seen /\ OldData = saved /\ saved \in Maps
    BY <2>1 DEF Event, SavedInv, Data, OldData, TypeOK
  <2>3. CASE UNCHANGED <<target, pc, todo, taint>>
    <3>1. ExactInv' <=> ExactInv
      <4>1. Installed(saved)' = Installed(saved)
        BY <2>1, <2>2, SavedKept
      <4>2. \A d \in Maps : Installed(d)' = Installed(d)
        BY <2>1, CallKept DEF Installed
      <4>3. OneCall' <=> OneCall
        BY <2>1, <2>3, <4>2, TargetKept DEF OneCall
      <4>4. \A u \in Threads : LookRight(u)' <=> LookRight(u)
        BY <2>1, <2>3 DEF LookRight, Adding
      <4>5. Doing' = Doing
        BY <2>1, <2>3, <4>1, TargetKept DEF Doing
      <4>6. KernelIs(Doing)' <=> KernelIs(Doing)
        BY <2>1, <4>5 DEF KernelIs, kernelVars
      <4> QED BY <2>3, <4>3, <4>4, <4>6 DEF ExactInv
    <3> QED BY <3>1
  <2>4. CASE Call("inf", OldData, "del", "del") /\ Overlap
    <3>1. pc = Idle /\ taint = {}
      BY <1>1, <2>2, <2>4
    <3>2. /\ pc' = [pc EXCEPT !["inf"] = "del"]
          /\ todo' = [todo EXCEPT !["inf"] = Installed(saved)]
      BY <2>2, <2>4 DEF Call, Installed
    <3>3. todo'["inf"] = Doing
      BY <1>2, <3>1, <3>2 DEF TypeOK
    <3> QED BY <2>1, <2>2, <3>1, <3>2, <3>3, CallBegins
  <2> QED BY <2>1, <2>3, <2>4
<1>6. CASE UpdatedDeleted
  <2>1. /\ Returned("inf", "del") /\ Call("inf", target, "add", "add") /\ target' = target
        /\ UNCHANGED <<look, kernelVars, devTo, taint>>
    BY <1>6 DEF UpdatedDeleted
  <2>2. /\ pc["inf"] = "del" /\ pc["sig"] = "idle" /\ todo["inf"] = {}
        /\ OneCall /\ (\A u \in Threads : LookRight(u)) /\ KernelIs({})
    BY <2>1 DEF ExactInv, OneCall, Doing, Returned
  <2>3. /\ pc'["inf"] = "add" /\ pc'["sig"] = "idle"
        /\ todo'["inf"] = handleRoutes(target, "add")' /\ todo'["sig"] = {}
    <3>1. pc'["inf"] = "add" /\ pc'["sig"] = "idle"
      BY <2>1, <2>2 DEF Call, TypeOK
    <3>2. todo'["inf"] = handleRoutes(target, "add") /\ todo'["sig"] = {}
      BY <2>1, <2>2 DEF Call, TypeOK, OneCall
    <3> QED BY <2>1, <3>1, <3>2, TargetKept
  <2>4. \A u \in Threads : look'[u].st = "none"
    BY <2>1, <2>2 DEF OneCall, LookRight
  <2>5. Doing' = {}
    BY <2>3 DEF Doing
  <2>6. OneCall'
    BY <2>3 DEF OneCall
  <2> QED BY <2>1, <2>2, <2>4, <2>5, <2>6 DEF ExactInv, LookRight, KernelIs, kernelVars
<1>7. CASE Added
  <2>1. /\ pc["inf"] = "add" /\ todo["inf"] = {} /\ saved' = target /\ taint = {}
        /\ pc' = [pc EXCEPT !["inf"] = "idle"]
        /\ UNCHANGED <<todo, look, kernelVars, devTo, taint>>
    BY <1>7 DEF Added, Returned
  <2>2. KernelIs(handleRoutes(target, "add"))
    BY <2>1 DEF ExactInv, Doing
  <2>3. KernelIs(Installed(saved'))
    BY <2>1, <2>2, DialLeavesNothing
  <2> QED BY <2>1, <2>3, CallEnds
<1>8. CASE Dropped
  <2>1. /\ pc["inf"] = "drop" /\ todo["inf"] = {} /\ saved' = NilMap /\ taint = {}
        /\ pc' = [pc EXCEPT !["inf"] = "idle"]
        /\ UNCHANGED <<todo, look, kernelVars, devTo, taint>>
    BY <1>8 DEF Dropped, Returned, SavedInv
  <2>2. KernelIs({})
    BY <2>1 DEF ExactInv, Doing
  <2>3. KernelIs(Installed(saved'))
    BY <2>1, <2>2, NothingForNil
  <2> QED BY <2>1, <2>3, CallEnds
<1> QED BY <1>3, <1>4, <1>5, <1>6, <1>7, <1>8 DEF Informer

\* handleSignal deletes what savedRouteMap says is there.
LEMMA SignalExact ==
  ASSUME TypeOK, SavedInv, ExactInv, handleSignal, ~Die
  PROVE  ExactInv'
<1> SUFFICES ASSUME taint' = {} PROVE ExactInv'
  BY DEF ExactInv
<1>1. /\ pc["sig"] = "idle" /\ pc["inf"] = "idle" /\ taint = {} /\ saved \in Maps
      /\ Call("sig", saved, "del", "del")
      /\ UNCHANGED <<look, kernelVars, devTo>>
  BY DEF handleSignal, TypeOK
<1>2. pc = Idle
  BY <1>1 DEF TypeOK, Idle, Threads
<1>3. /\ pc' = [pc EXCEPT !["sig"] = "del"]
      /\ todo' = [todo EXCEPT !["sig"] = Installed(saved)]
  BY <1>1 DEF Call, Installed
<1>4. todo'["sig"] = Doing
  BY <1>2, <1>3 DEF TypeOK, Doing, Idle, Threads
<1> QED BY <1>1, <1>2, <1>3, <1>4, CallBegins DEF Threads

\* The kernel follows the callbacks in every step.
THEOREM ExactAlways == ASSUME NoLookalikes PROVE Spec => []ExactInv
<1>1. Init => ExactInv
  <2> SUFFICES ASSUME Init PROVE ExactInv
    OBVIOUS
  <2>1. Doing = {}
    BY NothingForNil DEF Init, Doing, Idle, Threads
  <2>2. OneCall
    BY DEF Init, OneCall, Idle, Nothing, Threads
  <2>3. \A u \in Threads : LookRight(u)
    BY DEF Init, LookRight, NotLooking, NoLook
  <2>4. KernelIs({})
    BY DEF Init, KernelIs, Exactly
  <2> QED BY <2>1, <2>2, <2>3, <2>4 DEF ExactInv
<1>2. TypeOK /\ SavedInv /\ ExactInv /\ [Next]_vars => ExactInv'
  <2> SUFFICES ASSUME TypeOK, SavedInv, ExactInv, [Next]_vars PROVE ExactInv'
    OBVIOUS
  <2>1. CASE Informer
    <3>1. devTo' = devTo
      BY <2>1 DEF Informer, configMapCreated, configMapDeleted, configMapUpdated,
                  UpdatedDeleted, Added, Dropped
    <3> QED BY <2>1, <3>1, InformerExact, DieExact
  <2>2. CASE handleSignal
    BY <2>2, SignalExact, DieExact DEF handleSignal
  <2>3. CASE Exit \/ Kill
    BY <2>3, DieExact DEF Exit, Kill
  <2>4. CASE Restart
    BY <2>4, OthersExact DEF Restart
  <2>5. CASE UpdateConfigMap \/ HelmInstall \/ HelmDelete \/ Relist
    <3>1. UNCHANGED <<callVars, todo, look, kernelVars, devTo, taint>>
      BY <2>5 DEF UpdateConfigMap, HelmInstall, HelmDelete, Relist, Write
    <3> QED BY <3>1, OthersExact
  <2>6. CASE CalicoChange
    BY <2>6, CalicoExact
  <2>7. ASSUME NEW t \in Threads, Command(t) PROVE ExactInv'
    BY <2>7, UpdateRouteExact, ConfigureSNATExact, ListRulesExact, ListTableExact,
       RunRuleExact, DialExact DEF Command
  <2>8. CASE UNCHANGED vars
    BY <2>8, OthersExact DEF vars, callVars, kernelVars
  <2>9. ASSUME NEW t \in Threads, CommandFails(t) PROVE ExactInv'
    BY <2>9 DEF CommandFails, ExactInv
  <2> QED BY <2>1, <2>2, <2>3, <2>4, <2>5, <2>6, <2>7, <2>8, <2>9 DEF Next, Environment
<1> QED BY <1>1, <1>2, TypeCorrect, SavedAlways, PTL DEF Spec

\* Between two callbacks the kernel of the node holds exactly the routes,
\* rules and iptables rules of savedRouteMap, for every set of configurations
\* and every node, as long as no process has ended with entries in the kernel
\* or was told to stop inside a callback, Calico has not moved a route in use, no
\* command has failed, and no source is the text of a part of another.
THEOREM KernelIsExact == ASSUME NoLookalikes PROVE Spec => []ExactWhenIdle
<1>1. ExactInv => ExactWhenIdle
  BY DEF ExactInv, ExactWhenIdle, Doing, Idle, Threads
<1> QED BY <1>1, ExactAlways, PTL

\* At no moment, inside a callback or not, does the kernel hold entries of two
\* versions of the config map: the old ones are all gone before the first new
\* one is added.
THEOREM OneAtATime == ASSUME NoLookalikes PROVE Spec => []OneConfiguration
<1>1. TypeOK /\ ExactInv => OneConfiguration
  <2> SUFFICES ASSUME TypeOK, ExactInv, taint = {} PROVE OneConfiguration
    BY DEF OneConfiguration
  <2> USE DEF Threads
  <2>1. Exactly(Doing, routes, rules, nat)
    BY DEF ExactInv, KernelIs
  <2>2. \E d \in Maps : Doing \subseteq Installed(d) \cup {o \in Doing : o.on = "dial"}
    <3>1. CASE pc["inf"] = "add"
      <4>1. \A o \in handleRoutes(target, "add") : o.on # "dial" => o \in Installed(target)
        BY DEF Installed, handleRoutes
      <4>2. Doing \subseteq handleRoutes(target, "add")
        BY <3>1 DEF Doing
      <4> QED BY <4>1, <4>2 DEF TypeOK
    <3>2. CASE pc["inf"] \in {"del", "drop"}
      <4>1. Doing = todo["inf"]
        BY <3>2 DEF Doing
      <4> QED BY <3>2, <4>1 DEF ExactInv, OneCall
    <3>3. CASE pc["inf"] = "idle" /\ pc["sig"] # "idle"
      <4>1. Doing = todo["sig"] /\ pc["sig"] \in {"del", "drop"}
        BY <3>3 DEF Doing, ExactInv, OneCall, TypeOK
      <4> QED BY <4>1 DEF ExactInv, OneCall
    <3>4. CASE pc["inf"] = "idle" /\ pc["sig"] = "idle"
      <4>1. Doing = Installed(saved)
        BY <3>4 DEF Doing
      <4> QED BY <4>1 DEF TypeOK
    <3> QED BY <3>1, <3>2, <3>3, <3>4 DEF TypeOK
  <2>3. PICK d \in Maps : Doing \subseteq Installed(d) \cup {o \in Doing : o.on = "dial"}
    BY <2>2
  <2>4. routes \cup rules \subseteq Installed(d)
    BY <2>1, <2>3 DEF Exactly
  <2>5. ASSUME NEW o \in NatOps PROVE nat[o] <= IF o \in Installed(d) THEN 1 ELSE 0
    <3>1. o.on = "nat"
      BY DEF NatOps
    <3>2. nat[o] = IF o \in Doing THEN 1 ELSE 0
      BY <2>1 DEF Exactly
    <3> QED BY <2>3, <3>1, <3>2
  <2> QED BY <2>4, <2>5 DEF OneConfiguration
<1> QED BY <1>1, TypeCorrect, ExactAlways, PTL

\* A shutdown that handleSignal goes through alone leaves nothing in the kernel.
THEOREM CleanShutdown == ASSUME NoLookalikes PROVE Spec => ShutdownClean
<1>1. ExactInv /\ [Next]_vars
        => [Exit /\ pc["inf"] = "idle" /\ taint = {} => KernelEmpty]_vars
  <2> SUFFICES ASSUME ExactInv, Exit, pc["inf"] = "idle", taint = {} PROVE KernelEmpty
    OBVIOUS
  <2>1. Doing = {}
    BY DEF Exit, Returned, Doing
  <2> QED BY <2>1 DEF ExactInv, KernelEmpty
<1> QED BY <1>1, ExactAlways, PTL DEF Spec, ShutdownClean

-----------------------------------------------------------------------------
(* The daemon implements RouteSync.  The refinement mapping is that of     *)
(* RouteDaemon: Doing, without the dial, is what RouteSync calls kernel.   *)

Entries(S) == {o \in S : o.on # "dial"}

\* A command of a call is of one of four kinds.
LEMMA Kinds ==
  ASSUME NEW d \in Maps, NEW action, NEW o \in handleRoutes(d, action)
  PROVE  /\ o \in AllOps \/ devTo \notin [Workers -> Devices \cup {NoDevice}]
         /\ o.on \in {"route", "rule", "nat", "dial"}
<1>1. d \in Configs /\ o \in Ops(d, GetDeviceToWorkerNode(d))
  BY DEF handleRoutes, Complete, Maps
<1>2. o.on \in {"route", "rule", "nat", "dial"}
  BY <1>1, OpsParts, OpsKinds
<1>3. devTo \in [Workers -> Devices \cup {NoDevice}] =>
        GetDeviceToWorkerNode(d) \in Devices \cup {NoDevice}
  BY <1>1 DEF GetDeviceToWorkerNode, VpnNode, Workers
<1> QED BY <1>1, <1>2, <1>3 DEF AllOps

\* What is installed for some data is one of RouteSync's configurations.
LEMMA InstalledIsConfiguration ==
  ASSUME TypeOK, NEW d \in Maps
  PROVE  Installed(d) \in
           {{o \in Ops(e, dev) : o.on # "dial"} :
              e \in Configs, dev \in Devices \cup {NoDevice}} \cup {{}}
<1>1. CASE ~Complete(d)
  BY <1>1 DEF Installed, handleRoutes
<1>2. CASE Complete(d)
  <2>1. d \in Configs
    BY <1>2 DEF Complete, Maps
  <2>2. GetDeviceToWorkerNode(d) \in Devices \cup {NoDevice}
    BY <2>1 DEF TypeOK, GetDeviceToWorkerNode, VpnNode, Workers
  <2>3. Installed(d) = {o \in Ops(d, GetDeviceToWorkerNode(d)) : o.on # "dial"}
    BY <1>2 DEF Installed, handleRoutes
  <2> QED BY <2>1, <2>2, <2>3
<1> QED BY <1>1, <1>2

\* With or without the dial, the entries of a call are the same.
LEMMA EntriesOfCall ==
  ASSUME NEW d
  PROVE  /\ Entries(handleRoutes(d, "add")) = Installed(d)
         /\ Entries(Installed(d)) = Installed(d)
BY DEF Entries, Installed, handleRoutes

\* Everything in Doing is a command, of one of the four kinds.
LEMMA DoingKinds ==
  ASSUME TypeOK, ExactInv, taint = {}, NEW o \in Doing
  PROVE  o \in AllOps /\ o.on \in {"route", "rule", "nat", "dial"}
<1> USE DEF Threads
<1>1. \E d \in Maps, action \in {"add", "del"} : o \in handleRoutes(d, action)
  <2>1. CASE pc["inf"] = "add"
    BY <2>1 DEF Doing, TypeOK
  <2>2. CASE pc["inf"] \in {"del", "drop"}
    BY <2>2 DEF Doing, ExactInv, OneCall, Installed
  <2>3. CASE pc["inf"] = "idle" /\ pc["sig"] # "idle"
    BY <2>3 DEF Doing, ExactInv, OneCall, Installed, TypeOK
  <2>4. CASE pc["inf"] = "idle" /\ pc["sig"] = "idle"
    BY <2>4 DEF Doing, Installed, TypeOK
  <2> QED BY <2>1, <2>2, <2>3, <2>4 DEF TypeOK
<1>2. devTo \in [Workers -> Devices \cup {NoDevice}]
  BY DEF TypeOK
<1> QED BY <1>1, <1>2, Kinds

\* The kernel, as RouteSync has it
LEMMA KernelIsDoing ==
  ASSUME TypeOK, ExactInv, taint = {}
  PROVE  SyncKernel = Entries(Doing)
<1>1. Exactly(Doing, routes, rules, nat)
  BY DEF ExactInv, KernelIs
<1>2. {o \in NatOps : nat[o] > 0} = {o \in Doing : o.on = "nat"}
  <2>1. ASSUME NEW o \in NatOps PROVE o.on = "nat" /\ (nat[o] > 0 <=> o \in Doing)
    BY <1>1 DEF Exactly, NatOps
  <2>2. ASSUME NEW o \in Doing, o.on = "nat" PROVE o \in NatOps
    BY <2>2, DoingKinds DEF NatOps
  <2> QED BY <2>1, <2>2
<1>3. \A o \in Doing : o.on \in {"route", "rule", "nat", "dial"}
  BY DoingKinds
<1> QED BY <1>1, <1>2, <1>3 DEF SyncKernel, Exactly, Entries

\* RouteSync's kernel and the configuration it wants, in every state.
SyncConfigurations ==
  {{o \in Ops(d, dev) : o.on # "dial"} : d \in Configs, dev \in Devices \cup {NoDevice}}
    \cup {{}}

SyncInv ==
  /\ taint = {} => SyncKernel = Entries(Doing)
  /\ SyncWant \in SyncConfigurations

THEOREM SyncAlways == ASSUME NoLookalikes PROVE Spec => []SyncInv
<1>1. TypeOK /\ ExactInv => SyncInv
  <2> SUFFICES ASSUME TypeOK, ExactInv PROVE SyncInv
    OBVIOUS
  <2>1. SyncWant \in SyncConfigurations
    <3>1. saved \in Maps /\ target \in Maps
      BY DEF TypeOK
    <3>2. Installed(saved) \in SyncConfigurations /\ Installed(target) \in SyncConfigurations
      BY <3>1, InstalledIsConfiguration DEF SyncConfigurations
    <3> QED BY <3>2 DEF SyncWant, SyncConfigurations
  <2> QED BY <2>1, KernelIsDoing DEF SyncInv
<1> QED BY <1>1, TypeCorrect, ExactAlways, PTL

\* Whatever taints the kernel takes RouteSync's promise away.
LEMMA SpoilStep ==
  ASSUME taint' # {}
  PROVE  Sync!Next
BY DEF Sync!Next, Sync!Spoil, SyncPhase, SyncWant, SyncKernel

\* A call of handleRoutes is with one goroutine only.
LEMMA Phases ==
  ASSUME TypeOK, taint = {}
  PROVE  /\ pc = Idle <=> pc["inf"] = "idle" /\ pc["sig"] = "idle"
         /\ pc["inf"] = "add" => SyncPhase = "adding" /\ SyncWant = Installed(target)
         /\ pc = Idle => SyncPhase = "settled" /\ SyncWant = Installed(saved)
         /\ pc["inf"] # "add" /\ pc # Idle => SyncPhase = "removing" /\ SyncWant = {}
<1>1. pc = Idle <=> pc["inf"] = "idle" /\ pc["sig"] = "idle"
  BY DEF TypeOK, Idle, Threads
<1> QED BY <1>1 DEF SyncPhase, SyncWant, Idle, Threads

\* Nothing that RouteSync speaks of changes.
LEMMA Stutters ==
  ASSUME UNCHANGED <<pc, saved, target, kernelVars, devTo, taint>>
  PROVE  UNCHANGED Sync!vars
<1>1. Installed(saved)' = Installed(saved) /\ Installed(target)' = Installed(target)
  BY DEF Installed, handleRoutes, GetDeviceToWorkerNode
<1> QED BY <1>1 DEF Sync!vars, SyncPhase, SyncWant, SyncKernel, kernelVars

\* What a command changes, apart from the kernel.
LEMMA CommandChanges ==
  ASSUME NEW t \in Threads, Command(t)
  PROVE  /\ UNCHANGED <<pc, saved, target, devTo, taint>>
         /\ todo' = todo \/ \E o \in todo[t] : todo' = [todo EXCEPT ![t] = @ \ {o}]
BY DEF Command, UpdateRoute, ConfigureSNAT, ListRules, ListTable, RunRule, Dial, callVars, Done

\* A command removes one entry, or adds one, or does not count.
LEMMA CommandSync ==
  ASSUME TypeOK, ExactInv, SyncInv, SyncInv', taint = {}, taint' = {},
         NEW t \in Threads, Command(t)
  PROVE  Sync!Next \/ UNCHANGED Sync!vars
<1> USE DEF Threads
<1>1. /\ UNCHANGED <<pc, saved, target, devTo, taint>>
      /\ todo' = todo \/ \E o \in todo[t] : todo' = [todo EXCEPT ![t] = @ \ {o}]
  BY CommandChanges
<1>2. SyncPhase' = SyncPhase /\ SyncWant' = SyncWant
  <2>1. Installed(saved)' = Installed(saved) /\ Installed(target)' = Installed(target)
    BY <1>1 DEF Installed, handleRoutes, GetDeviceToWorkerNode
  <2> QED BY <1>1, <2>1 DEF SyncPhase, SyncWant
<1>3. SyncKernel = Entries(Doing) /\ SyncKernel' = Entries(Doing')
  BY DEF SyncInv, Entries
<1>4. CASE todo' = todo
  <2>1. Doing' = Doing
    BY <1>1, <1>4, TargetKept, SavedKept DEF Doing
  <2> QED BY <1>2, <1>3, <2>1 DEF Sync!vars
<1>5. ASSUME NEW o \in todo[t], todo' = [todo EXCEPT ![t] = @ \ {o}]
      PROVE  Sync!Next \/ UNCHANGED Sync!vars
  <2>1. pc[t] # "idle" /\ \A u \in Threads \ {t} : pc[u] = "idle"
    BY <1>5 DEF ExactInv, OneCall
  <2>2. todo'[t] = todo[t] \ {o}
    BY <1>5 DEF TypeOK
  <2>3. CASE pc["inf"] = "add"
    <3>1. t = "inf" /\ o \in handleRoutes(target, "add")
      BY <2>1, <2>3 DEF ExactInv, OneCall
    <3>2. Doing' = Doing \cup {o} /\ o \notin Doing
      BY <1>1, <2>2, <2>3, <3>1, TargetKept DEF Doing
    <3>3. SyncPhase = "adding" /\ SyncWant = Installed(target)
      BY <2>3, Phases
    <3>4. CASE o.on = "dial"
      <4>1. Entries(Doing') = Entries(Doing)
        BY <3>2, <3>4 DEF Entries
      <4> QED BY <1>2, <1>3, <4>1 DEF Sync!vars
    <3>5. CASE o.on # "dial"
      <4>1. o \in SyncWant \ SyncKernel
        BY <1>3, <3>1, <3>2, <3>3, <3>5, EntriesOfCall DEF Entries
      <4>2. SyncKernel' = SyncKernel \cup {o}
        BY <1>3, <3>2, <3>5 DEF Entries
      <4> QED BY <1>2, <3>3, <4>1, <4>2 DEF Sync!Next, Sync!Add
    <3> QED BY <3>4, <3>5
  <2>4. CASE pc["inf"] # "add"
    <3>1. Doing = todo[t] /\ Doing' = todo'[t]
      BY <1>1, <2>1, <2>4 DEF Doing
    <3>2. SyncPhase = "removing"
      BY <2>1, <2>4, Phases
    <3>3. SyncKernel' = SyncKernel \ {o}
      BY <1>3, <2>2, <3>1 DEF Entries
    <3>4. CASE o \in SyncKernel
      BY <1>2, <3>2, <3>3, <3>4 DEF Sync!Next, Sync!Remove
    <3>5. CASE o \notin SyncKernel
      BY <1>2, <3>3, <3>5 DEF Sync!vars
    <3> QED BY <3>4, <3>5
  <2> QED BY <2>3, <2>4
<1> QED BY <1>1, <1>4, <1>5

\* The end of the process with an empty kernel.
LEMMA DieSync ==
  ASSUME Die, taint = {}, taint' = {}
  PROVE  Sync!Next
<1>1. KernelEmpty /\ UNCHANGED <<routes, rules, nat>>
  BY DEF Die, kernelVars
<1>2. SyncKernel = {} /\ SyncKernel' = {}
  BY <1>1 DEF SyncKernel, KernelEmpty, KernelIs, Exactly
<1>3. pc' = Idle /\ saved' = NilMap
  BY DEF Die
<1>4. SyncPhase' = "settled"
  BY <1>3 DEF SyncPhase, Idle, Threads
<1>5. SyncWant' = {}
  <2>1. Installed(saved)' = {}
    BY <1>3 DEF Installed, handleRoutes, Complete
  <2> QED BY <1>3, <2>1 DEF SyncWant, Idle, Threads
<1>6. SyncPhase # "spoilt"
  BY DEF SyncPhase
<1> QED BY <1>2, <1>4, <1>5, <1>6 DEF Sync!Next, Sync!Rest

\* A callback, or handleSignal, starts to delete.
LEMMA RemovingStarts ==
  ASSUME TypeOK, taint = {}, taint' = {}, pc = Idle, NEW t \in Threads,
         NEW where \in {"del", "drop"}, pc' = [pc EXCEPT ![t] = where],
         UNCHANGED kernelVars
  PROVE  Sync!Next
<1>1. pc'[t] = where /\ t \in {"inf", "sig"} /\ pc'["inf"] # "add"
  BY DEF TypeOK, Threads, Idle
<1>2. SyncPhase = "settled"
  BY Phases
<1>3. SyncPhase' = "removing" /\ SyncWant' = {}
  BY <1>1 DEF SyncPhase, SyncWant, Idle
<1>4. SyncKernel' = SyncKernel
  BY DEF SyncKernel, kernelVars
<1> QED BY <1>2, <1>3, <1>4 DEF Sync!Next, Sync!StartRemoving

\* A callback starts to add, into an empty kernel.
LEMMA AddingStarts ==
  ASSUME TypeOK, SyncInv, SyncInv', taint = {}, taint' = {},
         pc = Idle \/ pc["inf"] = "del", SyncKernel = {},
         pc' = [pc EXCEPT !["inf"] = "add"], UNCHANGED kernelVars
  PROVE  Sync!Next
<1>1. pc'["inf"] = "add"
  BY DEF TypeOK, Threads
<1>2. SyncPhase \in {"settled", "removing"}
  BY Phases
<1>3. SyncPhase' = "adding"
  BY <1>1 DEF SyncPhase
<1>4. SyncKernel' = SyncKernel
  BY DEF SyncKernel, kernelVars
<1>5. SyncWant' \in SyncConfigurations
  BY DEF SyncInv, SyncConfigurations
<1> QED BY <1>2, <1>3, <1>4, <1>5 DEF Sync!Next, Sync!StartAdding, SyncConfigurations

\* The callbacks of the informer, step by step.
LEMMA InformerSync ==
  ASSUME TypeOK, SavedInv, ExactInv, SyncInv, SyncInv', taint = {}, taint' = {}, Informer, ~Die
  PROVE  Sync!Next \/ UNCHANGED Sync!vars
<1> USE DEF Threads
<1>1. Overlap /\ pc["inf"] = "idle" => pc = Idle
  BY DEF Overlap, TypeOK, Idle
<1>2. SyncKernel = Entries(Doing)
  BY DEF SyncInv
<1>3. CASE configMapCreated
  <2>1. PICK new \in Maps :
          /\ Event(new) /\ seen = Absent
          /\ Call("inf", new, "add", "add") /\ Overlap /\ UNCHANGED kernelVars
    BY <1>3 DEF configMapCreated
  <2>2. pc = Idle
    BY <1>1, <2>1 DEF Event
  <2>3. Doing = {}
    BY <2>1, <2>2, NothingForNil DEF SavedInv, Data, Idle, Doing
  <2>4. SyncKernel = {}
    BY <1>2, <2>3 DEF Entries
  <2> QED BY <2>1, <2>2, <2>4, AddingStarts DEF Call
<1>4. CASE configMapDeleted
  <2>1. Event(Absent) /\ Call("inf", seen, "del", "drop") /\ Overlap /\ UNCHANGED kernelVars
    BY <1>4 DEF configMapDeleted
  <2> QED BY <1>1, <2>1, RemovingStarts DEF Event, Call
<1>5. CASE configMapUpdated
  <2>1. PICK new \in Maps :
          /\ Event(new) /\ seen # Absent /\ saved' = OldData
          /\ UNCHANGED <<kernelVars, devTo>>
          /\ \/ OldData = new /\ UNCHANGED <<target, pc, taint>>
             \/ Call("inf", OldData, "del", "del") /\ Overlap
    BY <1>5 DEF configMapUpdated
  <2>2. saved' = saved
    BY <2>1 DEF Event, SavedInv, Data, OldData
  <2>3. CASE UNCHANGED <<target, pc, taint>>
    BY <2>1, <2>2, <2>3, Stutters
  <2>4. CASE Call("inf", OldData, "del", "del") /\ Overlap
    BY <1>1, <2>1, <2>4, RemovingStarts DEF Event, Call
  <2> QED BY <2>1, <2>3, <2>4
<1>6. CASE UpdatedDeleted
  <2>1. Returned("inf", "del") /\ Call("inf", target, "add", "add") /\ UNCHANGED kernelVars
    BY <1>6 DEF UpdatedDeleted
  <2>2. pc["inf"] = "del" /\ Doing = {}
    BY <2>1 DEF Returned, Doing
  <2>3. SyncKernel = {}
    BY <1>2, <2>2 DEF Entries
  <2> QED BY <2>1, <2>2, <2>3, AddingStarts DEF Call
<1>7. ASSUME Added \/ Dropped PROVE Sync!Next
  <2>1. /\ pc["inf"] \in {"add", "drop"} /\ todo["inf"] = {}
        /\ pc' = [pc EXCEPT !["inf"] = "idle"] /\ pc["sig"] = "idle"
        /\ pc["inf"] = "add" => saved' = target
        /\ pc["inf"] = "drop" => saved' = NilMap
        /\ UNCHANGED <<routes, rules, nat, devTo>>
    BY <1>7 DEF Added, Dropped, Returned, SavedInv, ExactInv, OneCall, kernelVars
  <2>2. pc' = Idle
    BY <2>1 DEF TypeOK, Idle
  <2>3. SyncPhase' = "settled" /\ SyncWant' = Installed(saved)' /\ SyncKernel' = SyncKernel
    BY <2>1, <2>2 DEF SyncPhase, SyncWant, SyncKernel, Idle
  <2>4. CASE pc["inf"] = "add"
    <3>1. SyncPhase = "adding" /\ SyncWant = Installed(target)
      BY <2>4, Phases
    <3>2. SyncKernel = Installed(target)
      BY <1>2, <2>1, <2>4, EntriesOfCall DEF Doing
    <3>3. Installed(saved)' = Installed(target)
      BY <2>1, <2>4 DEF Installed, handleRoutes, GetDeviceToWorkerNode
    <3> QED BY <2>3, <3>1, <3>2, <3>3 DEF Sync!Next, Sync!Settle
  <2>5. CASE pc["inf"] = "drop"
    <3>1. SyncKernel = {}
      BY <1>2, <2>1, <2>5 DEF Doing, Entries
    <3>2. Installed(saved)' = {}
      BY <2>1, <2>5 DEF Installed, handleRoutes, Complete
    <3>3. SyncPhase # "spoilt"
      BY DEF SyncPhase
    <3> QED BY <2>3, <3>1, <3>2, <3>3 DEF Sync!Next, Sync!Rest
  <2> QED BY <2>1, <2>4, <2>5
<1> QED BY <1>3, <1>4, <1>5, <1>6, <1>7 DEF Informer

\* handleSignal removes entries when it is alone.
LEMMA SignalSync ==
  ASSUME TypeOK, taint = {}, taint' = {}, handleSignal, ~Die
  PROVE  Sync!Next
<1>1. /\ pc["sig"] = "idle" /\ pc["inf"] = "idle"
      /\ Call("sig", saved, "del", "del") /\ UNCHANGED kernelVars
  BY DEF handleSignal
<1>2. pc = Idle
  BY <1>1, Phases
<1> QED BY <1>1, <1>2, RemovingStarts DEF Call, Threads

\* Calico may move a route only when nothing is installed, which is so for
\* the new device too.
LEMMA CalicoSync ==
  ASSUME TypeOK, SyncInv, SyncInv', taint = {}, taint' = {}, CalicoChange
  PROVE  UNCHANGED Sync!vars
<1>1. /\ pc = Idle /\ pc' = pc /\ saved' = saved
      /\ routes' = routes /\ rules' = rules /\ nat' = nat
  BY DEF CalicoChange, callVars, kernelVars
<1>2. SyncKernel' = SyncKernel /\ SyncPhase' = SyncPhase
  BY <1>1 DEF SyncKernel, SyncPhase
<1>3. Doing = Installed(saved) /\ Doing' = Installed(saved)'
  BY <1>1 DEF Doing, Idle, Threads
<1>4. SyncKernel = Installed(saved) /\ SyncKernel' = Installed(saved)'
  BY <1>3, EntriesOfCall DEF SyncInv, Entries, Installed, handleRoutes
<1>5. SyncWant = Installed(saved) /\ SyncWant' = Installed(saved)'
  BY <1>1 DEF SyncWant, Idle, Threads
<1> QED BY <1>2, <1>4, <1>5 DEF Sync!vars

\* The route daemon keeps what RouteSync promises: the kernel of a node goes
\* from one configuration to the next through the empty kernel, with nothing
\* removed while adding or added while removing, for all configurations, with
\* restarts, relists, repeated objects and signals, until something that
\* handleRoutes does not undo has happened.
THEOREM DaemonImplementsRouteSync == ASSUME NoLookalikes PROVE Spec => ImplementsRouteSync
<1>1. Init => Sync!Init
  <2> SUFFICES ASSUME Init PROVE Sync!Init
    OBVIOUS
  <2>1. pc = Idle /\ taint = {} /\ saved = NilMap
    BY DEF Init
  <2>2. SyncKernel = {}
    BY DEF Init, SyncKernel
  <2> QED BY <2>1, <2>2, NothingForNil DEF Sync!Init, SyncPhase, SyncWant, Idle, Threads
<1>2. TypeOK /\ SavedInv /\ ExactInv /\ SyncInv /\ SyncInv' /\ [Next]_vars
        => [Sync!Next]_Sync!vars
  <2> SUFFICES ASSUME TypeOK, SavedInv, ExactInv, SyncInv, SyncInv', [Next]_vars
               PROVE  Sync!Next \/ UNCHANGED Sync!vars
    OBVIOUS
  <2> SUFFICES ASSUME taint' = {} PROVE Sync!Next \/ UNCHANGED Sync!vars
    BY SpoilStep
  <2>1. taint = {}
    <3>1. taint \subseteq taint' \/ taint' = taint
      BY DEF Next, Informer, configMapCreated, configMapDeleted, configMapUpdated,
             UpdatedDeleted, Added, Dropped, handleSignal, Exit, Restart, Environment,
             UpdateConfigMap, HelmInstall, HelmDelete, Write, Relist, Kill, CalicoChange,
             Die, Overlap, Command, CommandFails, UpdateRoute, ConfigureSNAT, ListRules,
             ListTable, RunRule, Dial, vars
    <3> QED BY <3>1
  <2>2. CASE Informer
    BY <2>1, <2>2, InformerSync, DieSync
  <2>3. CASE handleSignal
    BY <2>1, <2>3, SignalSync, DieSync
  <2>4. CASE Exit \/ Kill
    BY <2>1, <2>4, DieSync DEF Exit, Kill
  <2>5. CASE Restart
    BY <2>5, Stutters DEF Restart, callVars
  <2>6. CASE UpdateConfigMap \/ HelmInstall \/ HelmDelete \/ Relist
    BY <2>6, Stutters DEF UpdateConfigMap, HelmInstall, HelmDelete, Relist, Write, callVars
  <2>7. CASE CalicoChange
    BY <2>1, <2>7, CalicoSync
  <2>8. ASSUME NEW t \in Threads, Command(t) PROVE Sync!Next \/ UNCHANGED Sync!vars
    BY <2>1, <2>8, CommandSync
  <2>9. CASE UNCHANGED vars
    BY <2>9, Stutters DEF vars, kernelVars
  <2>10. ASSUME NEW t \in Threads PROVE ~CommandFails(t)
    BY DEF CommandFails
  <2> QED BY <2>2, <2>3, <2>4, <2>5, <2>6, <2>7, <2>8, <2>9, <2>10 DEF Next, Environment
<1> QED BY <1>1, <1>2, TypeCorrect, SavedAlways, ExactAlways, SyncAlways, PTL
        DEF Spec, ImplementsRouteSync, Sync!Spec
=============================================================================
