------------------------------ MODULE Health_proofs ------------------------------
(***************************************************************************)
(* For all objects, pods, endpoints and faults: a status is only ever      *)
(* written for the spec that it is written to, and leaves out none of its  *)
(* components; an object that is to be looked at again never is forgotten. *)
(***************************************************************************)
EXTENDS Health, TLAPS

IsObject(h) == h # NoHealth => DOMAIN h = {"spec", "status"}

\* Objects and passes have their fields.
Shape ==
    /\ IsObject(stored) /\ IsObject(cached)
    /\ fresh \in [cached: BOOLEAN, work: BOOLEAN]
    /\ DOMAIN work = {"pc", "health", "todo"} /\ work.pc \in {"idle", "list", "probe"}
    /\ work.pc # "idle" => DOMAIN work.health = {"spec", "status"}

\* A copy that is of the newest version is the object, or was it when the pass began.
Fresh ==
    /\ fresh.cached => cached = stored
    /\ work.pc # "idle" /\ fresh.work => stored # NoHealth /\ work.health.spec = stored.spec

\* What of the copy's spec the pass has dealt with is in its status.
Covered ==
    LET spec == work.health.spec
        told == DOMAIN work.health.status
    IN  /\ work.pc = "list" => DOMAIN spec.selectors \subseteq told \cup work.todo
        /\ work.pc = "probe" => Asked(spec) \subseteq told \cup work.todo

IInv == Shape /\ Fresh /\ Covered

\* What one step may do to the status.
StatusStep ==
    stored # NoHealth /\ stored' # NoHealth /\ stored'.status # stored.status =>
        /\ work.health.spec = stored'.spec
        /\ Asked(stored'.spec) \subseteq DOMAIN stored'.status

LEMMA InitIInv == Init => IInv
BY DEF Init, IInv, Shape, IsObject, Fresh, Covered, Idle

\* The object is made, changed or deleted by others: all copies are old.
LEMMA ObjectStep ==
    ASSUME IInv, UNCHANGED <<cached, work>>, IsObject(stored)', fresh' = Stale
    PROVE  IInv'
<1>1. Shape'
  BY DEF IInv, Shape, IsObject, Stale
<1>2. Fresh' /\ Covered'
  BY DEF IInv, Fresh, Covered, Stale
<1> QED BY <1>1, <1>2 DEF IInv

\* Nothing that matters here happens.
LEMMA OtherStep == IInv /\ UNCHANGED <<stored, cached, work, fresh>> => IInv'
BY DEF IInv, Shape, IsObject, Fresh, Covered

LEMMA ChangesIInv ==
    ASSUME IInv, \/ \E spec : CreateHealth(spec) \/ ChangeSpec(spec)
                 \/ DeleteHealth
                 \/ \E p, phase : ChangePod(p, phase)
                 \/ \E e, answer : ChangeEndpoint(e, answer)
    PROVE  IInv' /\ StatusStep
<1>1. ASSUME NEW spec, CreateHealth(spec) PROVE IInv' /\ StatusStep
  <2>1. IsObject(stored)' /\ UNCHANGED <<cached, work>> /\ fresh' = Stale /\ StatusStep
    BY <1>1 DEF CreateHealth, Change, IsObject, StatusStep
  <2> QED BY <2>1, ObjectStep
<1>2. ASSUME NEW spec, ChangeSpec(spec) PROVE IInv' /\ StatusStep
  <2>1. DOMAIN stored = {"spec", "status"} /\ stored' = [stored EXCEPT !.spec = spec]
    BY <1>2 DEF ChangeSpec, IInv, Shape, IsObject
  <2>2. DOMAIN stored' = {"spec", "status"} /\ stored'.status = stored.status
    BY <2>1
  <2>3. UNCHANGED <<cached, work>> /\ fresh' = Stale
    BY <1>2 DEF ChangeSpec, Change
  <2> QED BY <2>2, <2>3, ObjectStep DEF IsObject, StatusStep
<1>3. CASE DeleteHealth
  <2>1. IsObject(stored)' /\ UNCHANGED <<cached, work>> /\ fresh' = Stale /\ StatusStep
    BY <1>3 DEF DeleteHealth, Change, IsObject, StatusStep
  <2> QED BY <2>1, ObjectStep
<1>4. ASSUME NEW p, NEW phase, ChangePod(p, phase) PROVE IInv' /\ StatusStep
  BY <1>4, OtherStep DEF ChangePod, Change, StatusStep
<1>5. ASSUME NEW e, NEW answer, ChangeEndpoint(e, answer) PROVE IInv' /\ StatusStep
  BY <1>5, OtherStep DEF ChangeEndpoint, Change, StatusStep
<1> QED BY <1>1, <1>2, <1>3, <1>4, <1>5

LEMMA InformersIInv ==
    ASSUME IInv, SyncHealth \/ SyncPods \/ Fire
    PROVE  IInv' /\ StatusStep
<1>1. CASE SyncHealth
  <2>1. /\ cached' = stored /\ UNCHANGED <<stored, work>>
        /\ fresh' \in [cached: BOOLEAN, work: BOOLEAN] /\ fresh'.work = fresh.work
    BY <1>1 DEF SyncHealth, IInv, Shape
  <2> QED BY <2>1 DEF IInv, Shape, IsObject, Fresh, Covered, StatusStep
<1>2. CASE SyncPods \/ Fire
  BY <1>2, OtherStep DEF SyncPods, Fire, StatusStep
<1> QED BY <1>1, <1>2

LEMMA RestartIInv == ASSUME IInv, Restart PROVE IInv' /\ StatusStep
<1>1. /\ UNCHANGED stored /\ cached' = stored /\ work' = Idle
      /\ fresh' = [cached |-> TRUE, work |-> FALSE]
  BY DEF Restart
<1> QED BY <1>1 DEF IInv, Shape, IsObject, Fresh, Covered, StatusStep, Idle

LEMMA GetIInv == ASSUME IInv, Get PROVE IInv' /\ StatusStep
<1>1. UNCHANGED <<stored, cached>> /\ fresh' = [fresh EXCEPT !.work = fresh.cached]
  BY DEF Get, Pass
<1>2. fresh' \in [cached: BOOLEAN, work: BOOLEAN]
      /\ fresh'.cached = fresh.cached /\ fresh'.work = fresh.cached
  BY <1>1 DEF IInv, Shape
<1>3. CASE work' = Idle
  BY <1>1, <1>2, <1>3 DEF IInv, Shape, IsObject, Fresh, Covered, StatusStep, Idle
<1>4. CASE /\ cached # NoHealth
           /\ work' = [pc |-> "list", health |-> cached, todo |-> DOMAIN cached.spec.selectors]
  BY <1>1, <1>2, <1>4 DEF IInv, Shape, IsObject, Fresh, Covered, StatusStep
<1> QED BY <1>3, <1>4 DEF Get

\* One component more is told of.
LEMMA PutIInv ==
    ASSUME IInv, NEW component \in work.todo, NEW message, NEW list,
           Put(component, message, list), work.pc # "idle", UNCHANGED <<stored, cached, fresh>>
    PROVE  IInv' /\ StatusStep
<1> DEFINE status == [c \in {component} \cup DOMAIN work.health.status |->
                        IF c = component THEN [message |-> message, list |-> list]
                        ELSE work.health.status[c]]
<1>1. work' = [work EXCEPT !.todo = @ \ {component}, !.health.status = status]
  BY DEF Put
<1>2. DOMAIN work = {"pc", "health", "todo"} /\ DOMAIN work.health = {"spec", "status"}
  BY DEF IInv, Shape
<1>3. /\ DOMAIN work' = {"pc", "health", "todo"} /\ work'.pc = work.pc
      /\ work'.todo = work.todo \ {component}
      /\ work'.health = [work.health EXCEPT !.status = status]
  BY <1>1, <1>2
<1>4. /\ DOMAIN work'.health = {"spec", "status"} /\ work'.health.spec = work.health.spec
      /\ work'.health.status = status
  BY <1>2, <1>3
<1>5. DOMAIN status = {component} \cup DOMAIN work.health.status
  OBVIOUS
<1> HIDE DEF status
<1>6. Shape' /\ Fresh'
  BY <1>3, <1>4 DEF IInv, Shape, IsObject, Fresh
<1>7. Covered'
  BY <1>3, <1>4, <1>5 DEF IInv, Covered
<1> QED BY <1>6, <1>7 DEF IInv, StatusStep

LEMMA ComponentsIInv ==
    ASSUME IInv, NEW c, ListPods(c) \/ HTTPCheck(c)
    PROVE  IInv' /\ StatusStep
<1>1. /\ c \in work.todo /\ work.pc # "idle" /\ UNCHANGED <<stored, cached, fresh>>
      /\ \E message, list : Put(c, message, list)
  BY DEF ListPods, HTTPCheck, Pass
<1> QED BY <1>1, PutIInv

LEMMA ListedIInv == ASSUME IInv, Listed PROVE IInv' /\ StatusStep
<1>1. /\ UNCHANGED <<stored, cached, fresh>> /\ work.pc = "list" /\ work.todo = {}
      /\ work' = [work EXCEPT !.pc = "probe", !.todo = DOMAIN work.health.spec.probes]
  BY DEF Listed, Pass
<1>2. /\ DOMAIN work' = {"pc", "health", "todo"} /\ work'.pc = "probe"
      /\ work'.health = work.health /\ work'.todo = DOMAIN work.health.spec.probes
  BY <1>1 DEF IInv, Shape
<1>3. Shape' /\ Fresh'
  BY <1>1, <1>2 DEF IInv, Shape, IsObject, Fresh
<1>4. Covered'
  BY <1>1, <1>2 DEF IInv, Covered, Asked
<1> QED BY <1>1, <1>3, <1>4 DEF IInv, StatusStep

LEMMA UpdateStatusIInv == ASSUME IInv, UpdateStatus PROVE IInv' /\ StatusStep
<1>1. UNCHANGED cached /\ work' = Idle /\ work.pc = "probe" /\ work.todo = {}
  BY DEF UpdateStatus, Pass
<1>2. CASE UNCHANGED <<stored, fresh>>
  BY <1>1, <1>2 DEF IInv, Shape, IsObject, Fresh, Covered, StatusStep, Idle
<1>3. CASE /\ stored # NoHealth /\ fresh.work
           /\ stored' = [stored EXCEPT !.status = work.health.status]
           /\ fresh' = IF stored' = stored THEN fresh ELSE Stale
  <2>1. /\ DOMAIN stored' = {"spec", "status"} /\ stored'.spec = stored.spec
        /\ stored'.status = work.health.status
    BY <1>3 DEF IInv, Shape, IsObject
  <2>2. Shape' /\ Fresh' /\ Covered'
    BY <1>1, <1>3, <2>1 DEF IInv, Shape, IsObject, Fresh, Covered, Idle, Stale
  <2>3. StatusStep
    BY <1>1, <1>3, <2>1 DEF IInv, Fresh, Covered, StatusStep
  <2> QED BY <2>2, <2>3 DEF IInv
<1> QED BY <1>2, <1>3 DEF UpdateStatus

LEMMA NextIInv == IInv /\ [Next]_vars => IInv' /\ (StatusStep \/ UNCHANGED vars)
<1> SUFFICES ASSUME IInv, [Next]_vars PROVE IInv' /\ (StatusStep \/ UNCHANGED vars)
  OBVIOUS
<1>1. CASE UNCHANGED vars
  BY <1>1, OtherStep DEF vars
<1>2. CASE Reconcile
  BY <1>2, GetIInv, ListedIInv, UpdateStatusIInv, ComponentsIInv DEF Reconcile
<1>3. CASE SyncHealth \/ SyncPods \/ Fire
  BY <1>3, InformersIInv
<1>4. CASE Restart
  BY <1>4, RestartIInv
<1>5. CASE \/ \E spec : CreateHealth(spec) \/ ChangeSpec(spec)
           \/ DeleteHealth
           \/ \E p, phase : ChangePod(p, phase)
           \/ \E e, answer : ChangeEndpoint(e, answer)
  BY <1>5, ChangesIInv
<1> QED BY <1>1, <1>2, <1>3, <1>4, <1>5 DEF Next

\* A status is written for the spec that it is written to, and complete
\* (health_controller.go Reconcile).
THEOREM StatusAlwaysOfSpec == Spec => StatusOfSpec
<1>1. IInv /\ [Next]_vars =>
        [stored # NoHealth /\ stored' # NoHealth /\ stored'.status # stored.status =>
            /\ work.health.spec = stored'.spec
            /\ Asked(stored'.spec) \subseteq DOMAIN stored'.status]_vars
  BY NextIInv DEF StatusStep
<1> QED BY InitIInv, NextIInv, <1>1, PTL DEF Spec, StatusOfSpec

-----------------------------------------------------------------------------
(* The chain of passes. Nothing but time brings the news of a pod or of an *)
(* endpoint, so that every pass has to see to it that there will be        *)
(* another. TLC checks that the status is true in the end; that the chain  *)
(* never breaks is what there is of it without fairness.                   *)

\* A pass is due, or will be, or is under way, or the object's event is to come.
ChainHolds ==
    Started /\ stored # NoHealth /\ RegularReconcile(stored.spec) =>
        ~fresh.cached \/ queue.due \/ queue.later \/ work.pc # "idle"

QueueShape == queue \in [due: BOOLEAN, later: BOOLEAN]

Chain == IInv /\ QueueShape /\ ChainHolds

LEMMA InitChain == Init => Chain
BY InitIInv DEF Init, Chain, QueueShape, ChainHolds

LEMMA GetChain == ASSUME Chain, Get PROVE QueueShape' /\ ChainHolds'
<1>1. /\ UNCHANGED <<manager, stored, cached>> /\ fresh'.cached = fresh.cached
      /\ fresh.cached => cached = stored
  BY DEF Get, Pass, Chain, IInv, Shape, Fresh
<1>2. queue.later \in BOOLEAN
  BY DEF Chain, QueueShape
<1>3. CASE work' = Idle /\ cached = NoHealth /\ queue' = [queue EXCEPT !.due = FALSE]
  BY <1>1, <1>3 DEF Chain, QueueShape, ChainHolds
<1>4. CASE /\ cached # NoHealth
           /\ queue' = [due |-> FALSE, later |-> queue.later \/ RegularReconcile(cached.spec)]
  <2> DEFINE later == queue.later \/ RegularReconcile(cached.spec)
  <2>1. later \in BOOLEAN /\ (RegularReconcile(cached.spec) => later)
    BY <1>2, Zenon
  <2>2. queue' = [due |-> FALSE, later |-> later]
    BY <1>4
  <2> HIDE DEF later
  <2>3. QueueShape' /\ (RegularReconcile(cached.spec) => queue'.later)
    BY <2>1, <2>2 DEF QueueShape
  <2> QED BY <1>1, <2>3 DEF ChainHolds, RegularReconcile
<1>5. CASE work'.pc = "list" /\ queue' = [queue EXCEPT !.due = FALSE]
  BY <1>5 DEF Chain, QueueShape, ChainHolds
<1> QED BY <1>3, <1>4, <1>5 DEF Get

LEMMA UpdateStatusChain == ASSUME Chain, UpdateStatus PROVE QueueShape' /\ ChainHolds'
<1>1. UNCHANGED <<manager, cached>> /\ work.pc # "idle"
  BY DEF UpdateStatus, Pass
<1>2. QueueShape'
  BY DEF UpdateStatus, Chain, QueueShape, RegularReconcile
<1>3. CASE queue' = [queue EXCEPT !.later = TRUE]
  BY <1>3 DEF Chain, QueueShape, ChainHolds
<1>4. CASE /\ stored # NoHealth /\ fresh.work
           /\ stored' = [stored EXCEPT !.status = work.health.status]
           /\ queue' = [queue EXCEPT !.later = @ \/ RegularReconcile(work.health.spec)]
  <2>1. stored'.spec = stored.spec /\ work.health.spec = stored.spec
    BY <1>1, <1>4 DEF Chain, IInv, Shape, IsObject, Fresh
  <2>2. RegularReconcile(stored'.spec) => queue'.later
    BY <1>4, <2>1 DEF Chain, QueueShape
  <2> QED BY <1>2, <2>2 DEF ChainHolds
<1> QED BY <1>2, <1>3, <1>4 DEF UpdateStatus

LEMMA NextChain == Chain /\ [Next]_vars => Chain'
<1> SUFFICES ASSUME Chain, [Next]_vars PROVE QueueShape' /\ ChainHolds'
  BY NextIInv DEF Chain
<1>1. CASE UNCHANGED vars
  BY <1>1 DEF vars, Chain, QueueShape, ChainHolds, Started
<1>2. CASE Get
  BY <1>2, GetChain
<1>3. CASE UpdateStatus
  BY <1>3, UpdateStatusChain
<1>4. CASE Listed
  <2>1. UNCHANGED queue /\ work'.pc = "probe"
    BY <1>4 DEF Listed, Pass, Chain, IInv, Shape
  <2> QED BY <2>1 DEF Chain, QueueShape, ChainHolds
<1>5. ASSUME NEW c, ListPods(c) \/ HTTPCheck(c) PROVE QueueShape' /\ ChainHolds'
  <2>1. UNCHANGED queue /\ work.pc # "idle"
    BY <1>5 DEF ListPods, HTTPCheck, Pass
  <2>2. work'.pc = work.pc
    <3>1. DOMAIN work = {"pc", "health", "todo"}
      BY DEF Chain, IInv, Shape
    <3>2. \/ work' = [work EXCEPT !.todo = @ \ {c}]
          \/ \E message, list : Put(c, message, list)
      BY <1>5 DEF ListPods, HTTPCheck
    <3> QED BY <3>1, <3>2 DEF Put
  <2> QED BY <2>1, <2>2 DEF Chain, QueueShape, ChainHolds
<1>6. CASE SyncHealth
  BY <1>6 DEF SyncHealth, Chain, QueueShape, ChainHolds, Started
<1>7. CASE SyncPods
  BY <1>7 DEF SyncPods, Chain, QueueShape, ChainHolds, Started
<1>8. CASE Fire
  BY <1>8 DEF Fire, Chain, QueueShape, ChainHolds, Started
<1>9. CASE Restart
  BY <1>9 DEF Restart, Chain, QueueShape, ChainHolds, Started
<1>10. CASE \/ \E spec \in Specs : CreateHealth(spec) \/ ChangeSpec(spec)
            \/ DeleteHealth
  <2>1. UNCHANGED queue /\ ~fresh'.cached
    BY <1>10 DEF CreateHealth, ChangeSpec, DeleteHealth, Change, Stale
  <2> QED BY <2>1 DEF Chain, QueueShape, ChainHolds
<1>11. CASE \/ \E p \in Pods, phase \in Phases : ChangePod(p, phase)
            \/ \E e \in Endpoints, answer \in {"ok", "fails", "hangs"} : ChangeEndpoint(e, answer)
  <2>1. UNCHANGED <<manager, stored, fresh, queue, work>>
    BY <1>11 DEF ChangePod, ChangeEndpoint, Change
  <2> QED BY <2>1 DEF Chain, QueueShape, ChainHolds, Started
<1> QED BY <1>1, <1>2, <1>3, <1>4, <1>5, <1>6, <1>7, <1>8, <1>9, <1>10, <1>11
        DEF Next, Reconcile

\* An object that is to be looked at regularly is never forgotten: not by an
\* object without selectors and probes, a conflict, a failing call, a restart, nor
\* by a pass for a spec that asked for no other (health_controller.go Reconcile).
THEOREM ChainNeverBreaks == Spec => []ChainHolds
<1>1. Chain => ChainHolds
  BY DEF Chain
<1> QED BY InitChain, NextChain, <1>1, PTL DEF Spec

=============================================================================
