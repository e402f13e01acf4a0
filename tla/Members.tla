------------------------------- MODULE Members -------------------------------
(***************************************************************************)
(* The members of one namespace: its role bindings, its creator annotation *)
(* that names the manager, and the handlers of ai-server that change both  *)
(* (pkg/middles/iam/am/am.go, called from pkg/aiapis/iam/v1/handler.go).   *)
(*                                                                         *)
(* A handler makes up to eight API calls and holds no lock: other handlers *)
(* run between any two of them. Only the last call, the update of the      *)
(* namespace, is checked against what was read first.                      *)
(***************************************************************************)
EXTENDS Integers, FiniteSets

CONSTANTS
    Users,
    Roles,       \* roles of the namespace, "admin" and "operator" among them
    Handlers,    \* requests that are served at the same time
    NoBinding,   \* nothing to delete
    MaxServed,   \* bound: requests
    MaxFaults    \* bound: API calls that fail for a reason of their own

ASSUME RolesAssumption ==
    /\ {"admin", "operator"} \subseteq Roles
    /\ "none" \notin Roles

ASSUME BoundsAssumption == MaxServed \in Nat /\ MaxFaults \in Nat

VARIABLES
    manager,     \* the creator annotation of the namespace
    version,     \* the namespace's resourceVersion
    bindings,    \* role bindings; the name of one is its user and its role
    call,        \* [Handlers -> Calls], where each request has come to
    joined,      \* users who ever had a binding
    removing,    \* users whose removal was ever asked for and not refused
    served,      \* how many requests were taken
    overlapped,  \* whether two requests were ever in hand at a time
    faults       \* how many calls failed

vars == <<manager, version, bindings, call, joined, removing, served, overlapped, faults>>

Bindings == [user: Users, role: Roles]

ASSUME NoBindingAssumption == NoBinding \notin Bindings

Idle == [pc |-> "idle"]

\* A request for user to get role ("none": to be removed) replaces the binding
\* of who: the user, and after that, for a new admin, the old manager.
Calls == [ pc: {"list", "delete", "create", "annotate"},
           user: Users, role: Roles \cup {"none"}, who: Users,
           manager: Users, version: Nat, target: Bindings \cup {NoBinding} ]

BindingsOf(u) == {b \in bindings : b.user = u}

Goto(h, c) == call' = [call EXCEPT ![h] = c]

\* Both operations begin with a Get of the namespace.
GetNamespace(h, u, role) ==
    /\ call[h] = Idle
    /\ served < MaxServed
    /\ served' = served + 1
    /\ overlapped' = (overlapped \/ \E g \in Handlers : call[g] # Idle)
    /\ Goto(h, [ pc |-> "list", user |-> u, role |-> role, who |-> u,
                 manager |-> manager, version |-> version, target |-> NoBinding ])

\* CreateNamespaceRoleBinding, for new members and for changed ones. The manager
\* may only be made admin: any other role is refused, which changes nothing.
SetMember(h, u, role) ==
    /\ role # "admin" => manager # u
    /\ GetNamespace(h, u, role)
    /\ UNCHANGED <<manager, version, bindings, joined, removing, faults>>

\* RemoveUserFromNamespace is refused for the manager.
RemoveMember(h, u) ==
    /\ manager # u
    /\ GetNamespace(h, u, "none")
    /\ removing' = removing \cup {u}
    /\ UNCHANGED <<manager, version, bindings, joined, faults>>

\* Mutant of AfterDelete: a removal goes on as an appointment does.
AfterDeleteAlways(c) == [c EXCEPT !.pc = "create"]

\* What follows when there is no old binding any more.
AfterDelete(c) == IF c.role = "none" THEN Idle ELSE [c EXCEPT !.pc = "create"]

\* Mutant of AfterCreate: the old manager's binding is not replaced.
AfterCreateKeep(c) ==
    IF c.role = "admin" /\ c.manager # c.user THEN [c EXCEPT !.pc = "annotate"] ELSE Idle

\* A new admin goes on with the old manager, and then with the annotation.
AfterCreate(c) ==
    IF c.role = "admin" /\ c.manager # c.user
    THEN IF c.who = c.user
         THEN [c EXCEPT !.pc = "list", !.who = c.manager, !.target = NoBinding]
         ELSE [c EXCEPT !.pc = "annotate"]
    ELSE Idle

\* GetNamespaceRoleBindingByUser: the first binding with the user's label; one
\* at most is deleted.
ListBindings(h) ==
    LET c == call[h] IN
    /\ c.pc = "list"
    /\ \/ \E b \in BindingsOf(c.who) : Goto(h, [c EXCEPT !.pc = "delete", !.target = b])
       \/ BindingsOf(c.who) = {} /\ Goto(h, AfterDelete(c))
    /\ UNCHANGED <<manager, version, bindings, joined, removing, served, overlapped, faults>>

\* Mutant of DeleteBinding: a binding that is gone is no error, so the handler
\* is content with a removal that another one made, and stops.
DeleteThenStop(h) ==
    LET c == call[h] IN
    /\ c.pc = "delete"
    /\ bindings' = bindings \ {c.target}
    /\ Goto(h, Idle)
    /\ UNCHANGED <<manager, version, joined, removing, served, overlapped, faults>>

\* The delete names the binding; one that is gone ends the request.
DeleteBinding(h) ==
    LET c == call[h] IN
    /\ c.pc = "delete"
    /\ bindings' = bindings \ {c.target}
    /\ Goto(h, IF c.target \in bindings THEN AfterDelete(c) ELSE Idle)
    /\ UNCHANGED <<manager, version, joined, removing, served, overlapped, faults>>

\* The old manager becomes an operator. A binding of that name ends the request.
CreateBinding(h) ==
    LET c == call[h]
        b == [user |-> c.who, role |-> IF c.who = c.user THEN c.role ELSE "operator"]
    IN  /\ c.pc = "create"
        /\ bindings' = bindings \cup {b}
        /\ joined' = joined \cup {c.who}
        /\ Goto(h, IF b \in bindings THEN Idle ELSE AfterCreate(c))
        /\ UNCHANGED <<manager, version, removing, served, overlapped, faults>>

\* Mutant of UpdateNamespace: the namespace is read again before the update.
UpdateNamespaceForced(h) ==
    LET c == call[h] IN
    /\ c.pc = "annotate"
    /\ manager' = c.user
    /\ version' = version + 1
    /\ Goto(h, Idle)
    /\ UNCHANGED <<bindings, joined, removing, served, overlapped, faults>>

\* The namespace read at the start is written back with the new manager, and
\* refused if it has changed since.
UpdateNamespace(h) ==
    LET c == call[h] IN
    /\ c.pc = "annotate"
    /\ IF c.version = version
       THEN manager' = c.user /\ version' = version + 1
       ELSE UNCHANGED <<manager, version>>
    /\ Goto(h, Idle)
    /\ UNCHANGED <<bindings, joined, removing, served, overlapped, faults>>

\* An API call fails. The error ends the request, but for that of a list, which
\* is taken for an empty one.
CallFails(h) ==
    LET c == call[h] IN
    /\ c # Idle
    /\ faults < MaxFaults
    /\ faults' = faults + 1
    /\ Goto(h, IF c.pc = "list" THEN AfterDelete(c) ELSE Idle)
    /\ UNCHANGED <<manager, version, bindings, joined, removing, served, overlapped>>

-----------------------------------------------------------------------------
\* A namespace that was made by ai-server's users names one of them; the binding
\* of its first admin is there or not.
Init ==
    /\ manager \in Users
    /\ version = 1
    /\ bindings \in {{}, {[user |-> manager, role |-> "admin"]}}
    /\ call = [h \in Handlers |-> Idle]
    /\ joined = {b.user : b \in bindings}
    /\ removing = {}
    /\ served = 0 /\ overlapped = FALSE /\ faults = 0

Next ==
    \E h \in Handlers :
        \/ \E u \in Users : \/ \E role \in Roles : SetMember(h, u, role)
                            \/ RemoveMember(h, u)
        \/ ListBindings(h) \/ DeleteBinding(h) \/ CreateBinding(h)
        \/ UpdateNamespace(h) \/ CallFails(h)

Spec == Init /\ [][Next]_vars

-----------------------------------------------------------------------------
(* Properties.                                                             *)

Quiet == \A h \in Handlers : call[h] = Idle

\* A request in hand read the namespace as it was at its version: at an older
\* one, or as it still is. A namespace has one manager in each version.
ReadsPast(c) ==
    c # Idle => c.version <= version /\ (c.version = version => c.manager = manager)

\* Every variable holds a value of its type, and requests hold the past.
TypeOK ==
    /\ manager \in Users /\ version \in Nat
    /\ bindings \subseteq Bindings
    /\ call \in [Handlers -> {Idle} \cup Calls]
    /\ \A h \in Handlers : ReadsPast(call[h])
    /\ joined \subseteq Users /\ removing \subseteq Users
    /\ served \in Nat /\ overlapped \in BOOLEAN /\ faults \in Nat

\* Whatever appointments of other managers run beside it, one that succeeds
\* takes over from the very manager whose binding it replaced: no update of the
\* annotation is lost to one that was computed before it.
HandedOver ==
    [][manager' # manager =>
          \E h \in Handlers : /\ call[h] # Idle /\ call'[h] = Idle
                              /\ call[h].manager = manager
                              /\ call[h].user = manager']_vars

\* Nobody drops out of the namespace by a change of roles, one's own or the
\* manager's: of requests that replace bindings one call at a time, with the
\* others in between, the last leaves a binding, if no call fails of itself and
\* nobody asked for the removal.
NobodyLost ==
    Quiet /\ faults = 0 => \A u \in joined \ removing : BindingsOf(u) # {}

\* As long as requests came one after the other and no call failed, nobody is
\* left with two roles and nobody but the manager is admin.
OneRoleEach ==
    Quiet /\ ~overlapped /\ faults = 0 =>
        /\ \A u \in Users : Cardinality(BindingsOf(u)) <= 1
        /\ \A b \in bindings : b.role = "admin" => b.user = manager

-----------------------------------------------------------------------------
(* What messages of the code say and the code does not do.                 *)

\* "the user is the manager of the project: before this user can be removed the
\* manager has to be replaced" (am.go:573): of a manager with an appointment that
\* went through, the admin binding is there when all is quiet.
ManagerStaysAdmin ==
    Quiet /\ faults = 0 /\ version > 1 =>
        [user |-> manager, role |-> "admin"] \in bindings

=============================================================================
