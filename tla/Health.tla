--------------------------------- MODULE Health ---------------------------------
(***************************************************************************)
(* The controller that keeps the status of a Health object                 *)
(* (pkg/controllers/core/health_controller.go), its work queue, and the    *)
(* feature gate that starts it (pkg/controllers/common/reconciler.go,      *)
(* cmd/ai-controller-manager).                                             *)
(*                                                                         *)
(* A pass works on the informer's copy of the object: it lists the pods of *)
(* each selector, asks each probe's endpoint, and writes the whole status  *)
(* back. Nothing but time and the object's own events starts a pass.       *)
(***************************************************************************)
EXTENDS Integers, FiniteSets, SequencesExt

CONSTANTS
    Components,   \* names of components
    Pods,
    Endpoints,
    Specs,        \* [selectors, probes, interval]: functions of some components to
                  \* a set of pods or Invalid, to an endpoint or NoAction
    Managers,     \* command lines of the manager, [features, gate]
    Invalid,      \* a selector that cannot be parsed
    NoAction,     \* a probe that is no HTTP request
    NoHealth,     \* where there is no Health object
    MaxChanges,   \* bound: changes of the object, of pods and of endpoints
    MaxFaults     \* bound: failing calls and restarts

ASSUME HealthAssumption == MaxChanges \in Nat /\ MaxFaults \in Nat

Phases == {"Running", "Failed", "gone"}

VARIABLES
    manager,  \* the command line of the controller manager
    stored,   \* the API server's object, [spec, status], or NoHealth
    cached,   \* the manager's informer cache of it
    pods,     \* phases of the pods
    seen,     \* the informer cache of them
    answers,  \* what endpoints do: "ok", "fails" or "hangs"
    queue,    \* [due, later]: waiting to be worked on, or to be put there
    work,     \* the pass under way
    fresh,    \* [cached, work]: whether the copies are of the newest version
    changes,
    faults

vars == <<manager, stored, cached, pods, seen, answers, queue, work, fresh, changes, faults>>

Idle == [pc |-> "idle", health |-> NoHealth, todo |-> {}]

-----------------------------------------------------------------------------
(* What is started.                                                        *)

getGateValue(gate) ==
    CASE gate = "release" -> 1 [] gate = "beta" -> 2 [] gate = "alpha" -> 3 [] OTHER -> -1

\* The reconciler is of the group core and of the gate alpha.
Started ==
    /\ "core" \in manager.features
    /\ getGateValue(manager.gate) # -1
    /\ getGateValue(manager.gate) >= getGateValue("alpha")

Init ==
    /\ manager \in Managers
    /\ stored = NoHealth /\ cached = NoHealth
    /\ pods \in [Pods -> {"Running"}] /\ seen = pods
    /\ answers \in [Endpoints -> {"ok"}]
    /\ queue = [due |-> FALSE, later |-> FALSE] /\ work = Idle
    /\ fresh = [cached |-> TRUE, work |-> FALSE]
    /\ changes = 0 /\ faults = 0

-----------------------------------------------------------------------------
(* The world, and the informers.                                           *)

Change ==
    /\ changes < MaxChanges /\ changes' = changes + 1
    /\ UNCHANGED <<manager, cached, seen, queue, work, faults>>

\* A write makes all copies old.
Stale == [cached |-> FALSE, work |-> FALSE]

CreateHealth(spec) ==
    /\ Change /\ stored = NoHealth
    /\ stored' = [spec |-> spec, status |-> <<>>] /\ fresh' = Stale
    /\ UNCHANGED <<pods, answers>>

ChangeSpec(spec) ==
    /\ Change /\ stored # NoHealth /\ stored.spec # spec
    /\ stored' = [stored EXCEPT !.spec = spec] /\ fresh' = Stale
    /\ UNCHANGED <<pods, answers>>

DeleteHealth ==
    /\ Change /\ stored # NoHealth /\ stored' = NoHealth /\ fresh' = Stale
    /\ UNCHANGED <<pods, answers>>

ChangePod(p, phase) ==
    /\ Change /\ pods[p] # phase /\ pods' = [pods EXCEPT ![p] = phase]
    /\ UNCHANGED <<stored, fresh, answers>>

ChangeEndpoint(e, answer) ==
    /\ Change /\ answers[e] # answer /\ answers' = [answers EXCEPT ![e] = answer]
    /\ UNCHANGED <<stored, fresh, pods>>

\* Every event of the object makes it due.
SyncHealth ==
    /\ ~fresh.cached /\ cached' = stored /\ fresh' = [fresh EXCEPT !.cached = TRUE]
    /\ queue' = [queue EXCEPT !.due = Started]
    /\ UNCHANGED <<manager, stored, pods, seen, answers, work, changes, faults>>

SyncPods ==
    /\ seen # pods /\ seen' = pods
    /\ UNCHANGED <<manager, stored, cached, pods, answers, queue, work, fresh, changes, faults>>

\* The interval, or the delay of a retry, is over.
Fire ==
    /\ queue.later /\ queue' = [due |-> TRUE, later |-> FALSE]
    /\ UNCHANGED <<manager, stored, cached, pods, seen, answers, work, fresh, changes, faults>>

-----------------------------------------------------------------------------
(* Reconcile.                                                              *)

Pass(pc) ==
    /\ work.pc = pc
    /\ UNCHANGED <<manager, cached, pods, seen, answers, changes>>

\* Mutant of the next: only an interval that is given is waited for.
RegularReconcileIfGiven(spec) == spec.interval > 0

\* Whether a pass without an error comes again: an interval of zero is one of 30
\* seconds, one below zero is none.
RegularReconcile(spec) == spec.interval >= 0

Get ==
    /\ Pass("idle") /\ queue.due
    /\ IF cached = NoHealth
       THEN work' = Idle /\ queue' = [queue EXCEPT !.due = FALSE]
       ELSE IF cached.spec.selectors = <<>> /\ cached.spec.probes = <<>>
       THEN /\ work' = Idle
            /\ queue' = [due |-> FALSE, later |-> queue.later \/ RegularReconcile(cached.spec)]
       ELSE /\ work' = [pc |-> "list", health |-> cached, todo |-> DOMAIN cached.spec.selectors]
            /\ queue' = [queue EXCEPT !.due = FALSE]
    /\ fresh' = [fresh EXCEPT !.work = fresh.cached]
    /\ UNCHANGED <<stored, faults>>

Put(component, message, list) ==
    work' = [work EXCEPT !.todo = @ \ {component},
               !.health.status = [c \in {component} \cup DOMAIN @ |->
                    IF c = component THEN [message |-> message, list |-> list] ELSE @[c]]]

\* The pods that are there, in any order: the informer's cache is a map.
PodLists(selected) == SetToSeqs({<<p, seen[p]>> : p \in {q \in selected : seen[q] # "gone"}})

\* Mutant of the next: a selector that cannot be parsed is passed over.
ListValid(component) ==
    /\ Pass("list") /\ component \in work.todo
    /\ LET selected == work.health.spec.selectors[component]
       IN  IF selected = Invalid THEN work' = [work EXCEPT !.todo = @ \ {component}]
           ELSE \E list \in PodLists(selected) : Put(component, "ok", list)
    /\ UNCHANGED <<stored, fresh, queue, faults>>

ListPods(component) ==
    /\ Pass("list") /\ component \in work.todo
    /\ LET selected == work.health.spec.selectors[component]
       IN  IF selected = Invalid THEN Put(component, "error", <<>>)
           ELSE \E list \in PodLists(selected) : Put(component, "ok", list)
    /\ UNCHANGED <<stored, fresh, queue, faults>>

Listed ==
    /\ Pass("list") /\ work.todo = {}
    /\ work' = [work EXCEPT !.pc = "probe", !.todo = DOMAIN work.health.spec.probes]
    /\ UNCHANGED <<stored, fresh, queue, faults>>

\* A get without a timeout: it waits for an endpoint that hangs.
HTTPCheck(component) ==
    /\ Pass("probe") /\ component \in work.todo
    /\ LET endpoint == work.health.spec.probes[component]
       IN  \/ endpoint = NoAction /\ Put(component, "ok", <<>>)
           \/ endpoint # NoAction /\ answers[endpoint] = "ok" /\ Put(component, "ok", <<>>)
           \/ endpoint # NoAction /\ answers[endpoint] = "fails" /\ Put(component, "error", <<>>)
    /\ UNCHANGED <<stored, fresh, queue, faults>>

\* The whole status is written, if the copy is of the newest version; else, and
\* when a call fails, the pass ends in an error and is tried again.
UpdateStatus ==
    /\ Pass("probe") /\ work.todo = {}
    /\ work' = Idle
    /\ \/ /\ stored # NoHealth /\ fresh.work
          /\ stored' = [stored EXCEPT !.status = work.health.status]
          /\ fresh' = IF stored' = stored THEN fresh ELSE Stale
          /\ queue' = [queue EXCEPT !.later = @ \/ RegularReconcile(work.health.spec)]
          /\ UNCHANGED faults
       \/ /\ stored = NoHealth \/ ~fresh.work
          /\ queue' = [queue EXCEPT !.later = TRUE]
          /\ UNCHANGED <<stored, fresh, faults>>
       \/ /\ faults < MaxFaults /\ faults' = faults + 1
          /\ queue' = [queue EXCEPT !.later = TRUE]
          /\ UNCHANGED <<stored, fresh>>

\* The manager dies and is started anew: what is there is due.
Restart ==
    /\ Started /\ faults < MaxFaults /\ faults' = faults + 1
    /\ work' = Idle /\ cached' = stored /\ seen' = pods
    /\ fresh' = [cached |-> TRUE, work |-> FALSE]
    /\ queue' = [due |-> stored # NoHealth, later |-> FALSE]
    /\ UNCHANGED <<manager, stored, pods, answers, changes>>

Reconcile ==
    \/ Get \/ Listed \/ UpdateStatus
    \/ \E c \in Components : ListPods(c) \/ HTTPCheck(c)

Next ==
    \/ \E spec \in Specs : CreateHealth(spec) \/ ChangeSpec(spec)
    \/ DeleteHealth
    \/ \E p \in Pods, phase \in Phases : ChangePod(p, phase)
    \/ \E e \in Endpoints, answer \in {"ok", "fails", "hangs"} : ChangeEndpoint(e, answer)
    \/ SyncHealth \/ SyncPods \/ Fire \/ Reconcile \/ Restart

Spec == Init /\ [][Next]_vars

\* Informers catch up, delays pass and the worker goes on.
FairSpec ==
    Spec /\ WF_vars(SyncHealth) /\ WF_vars(SyncPods) /\ WF_vars(Fire) /\ WF_vars(Reconcile)

-----------------------------------------------------------------------------
(* Properties.                                                             *)

Asked(spec) == DOMAIN spec.selectors \cup DOMAIN spec.probes

\* What a status says of a component when it is up to date: of one that is both
\* selected and probed it is the probe's word.
Tells(spec, component, told) ==
    IF component \in DOMAIN spec.probes
    THEN told.list = <<>> /\ (told.message = "ok" <=>
            (spec.probes[component] = NoAction \/ answers[spec.probes[component]] = "ok"))
    ELSE IF spec.selectors[component] = Invalid THEN told.message = "error"
    ELSE /\ told.message = "ok"
         /\ ToSet(told.list) = {<<p, pods[p]>> : p \in {q \in spec.selectors[component] :
                                                            pods[q] # "gone"}}

\* A status is only ever written for the spec that it is written to, and says
\* something of each of that spec's components, although the spec may be changed
\* or the object made anew while a pass is under way (health_controller.go
\* Reconcile).
StatusOfSpec ==
    [][stored # NoHealth /\ stored' # NoHealth /\ stored'.status # stored.status =>
          /\ work.health.spec = stored'.spec
          /\ Asked(stored'.spec) \subseteq DOMAIN stored'.status]_vars

\* Once nothing changes, the status tells of each component what is the case,
\* unless the gate keeps the controller off, the interval is below zero or an
\* endpoint hangs, even one that only a pass for an older spec asks
\* (health_controller.go Reconcile, RegularReconcile): through stale caches,
\* conflicts, failing calls and restarts of the manager. No event but the timer's
\* brings the news of a pod or an endpoint.
EventuallyTold ==
    <>[](/\ Started /\ stored # NoHealth
         /\ stored.spec.interval >= 0 /\ \A e \in Endpoints : answers[e] # "hangs"
         => \A c \in Asked(stored.spec) :
                c \in DOMAIN stored.status /\ Tells(stored.spec, c, stored.status[c]))

=============================================================================
