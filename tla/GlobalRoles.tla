----------------------------- MODULE GlobalRoles -----------------------------
(***************************************************************************)
(* Who has which role on the whole platform and in the cluster: the global *)
(* role bindings and cluster role bindings of the API server, and the      *)
(* operations of ai-server that replace them (pkg/middles/iam/am/am.go,    *)
(* called from the handlers that create and update users).                 *)
(*                                                                         *)
(* An operation lists the bindings in an informer cache that lags behind,  *)
(* then deletes and creates them one API call at a time, by name and       *)
(* without a lock. The names of global roles here are those that the       *)
(* handlers make with the option NamePrefix; nothing in this module makes  *)
(* a name without it.                                                      *)
(***************************************************************************)
EXTENDS Naturals, FiniteSets

CONSTANTS
    Users,
    GlobalRoles,    \* names of global roles
    ClusterRoles,   \* names of cluster roles
    Handlers,       \* requests that are served at the same time
    MaxRequests,    \* bound: requests to change a role
    MaxOthers       \* bound: deleted users and failures

Kinds == {"global", "cluster"}

\* A binding's name is its user and its role; no two of a kind have the same.
Binding == [user: Users, role: GlobalRoles \cup ClusterRoles]

ASSUME RolesAssumption == {"none", "unknown"} \cap (GlobalRoles \cup ClusterRoles) = {}

ASSUME BoundsAssumption == MaxRequests \in Nat /\ MaxOthers \in Nat

VARIABLES
    bound,      \* [Kinds -> SUBSET Binding], the API server's bindings
    cached,     \* [Kinds -> SUBSET Binding], ai-server's informer caches
    call,       \* [Handlers -> Calls], where each request has come to
    granted,    \* the role of each kind an answer last promised to each user;
                \* "unknown" after one that failed half way
    blurred,    \* users of whom a request overlapped another, or read a past
    spent       \* how often requests and others happened

vars == <<bound, cached, call, granted, blurred, spent>>

Idle == [pc |-> "idle"]

\* A request for user to get role ("none": to lose every role) of a kind;
\* todo are the bindings it listed and has not come to.
Calls == [ pc: {"check", "list", "replace", "create"}, kind: Kinds, user: Users,
           role: GlobalRoles \cup ClusterRoles \cup {"none"}, todo: SUBSET Binding ]

Of(bs, u) == {b \in bs : b.user = u}

Goto(h, c) == call' = [call EXCEPT ![h] = c]

Spend(op, most) ==
    /\ spent[op] < most
    /\ spent' = [spent EXCEPT ![op] = @ + 1]

\* The request ends, and what it answers promises a role.
End(h, promise) ==
    /\ Goto(h, Idle)
    /\ granted' = [granted EXCEPT ![call[h].kind][call[h].user] = promise]

-----------------------------------------------------------------------------
(* ai-server.                                                              *)

\* A request begins. What it does to the user is blurred if another request on
\* the same user is in hand.
Begin(h, kind, u, role, pc) ==
    /\ call[h] = Idle
    /\ Spend("requests", MaxRequests)
    /\ blurred' = IF \E g \in Handlers : call[g] # Idle /\ call[g].user = u
                  THEN blurred \cup {u} ELSE blurred
    /\ Goto(h, [pc |-> pc, kind |-> kind, user |-> u, role |-> role, todo |-> {}])
    /\ UNCHANGED <<bound, cached, granted>>

\* PUT /users/{user}: the role is changed by those who may update users.
UpdateUser(h, u, role) == role \in GlobalRoles /\ Begin(h, "global", u, role, "check")

\* POST /users: the new user gets its role.
CreateUser(h, u, role) == role \in GlobalRoles /\ Begin(h, "global", u, role, "list")

CreateClusterRoleBinding(h, u, role) ==
    role \in ClusterRoles /\ Begin(h, "cluster", u, role, "list")

RemoveUserFromCluster(h, u) == Begin(h, "cluster", u, "none", "list")

ListGlobalRoleBindings(u) == Of(cached["global"], u)

ListClusterRoleBindings(u) == Of(cached["cluster"], u)

\* The role of a user is that of the first binding listed, if there is one.
GetGlobalRoleOfUser(u) ==
    LET listed == ListGlobalRoleBindings(u) IN
    IF listed = {} THEN {"none"} ELSE {b.role : b \in listed}

\* updateGlobalRoleBinding: nothing is to do if the user has the role;
\* otherwise the operator is authorized, or not.
Check(h) ==
    LET c == call[h] IN
    /\ c.pc = "check"
    /\ \E role \in GetGlobalRoleOfUser(c.user) :
          IF role = c.role THEN End(h, c.role)
          ELSE \/ Goto(h, [c EXCEPT !.pc = "list"]) /\ UNCHANGED granted
               \/ End(h, granted["global"][c.user])
    /\ blurred' = IF ListGlobalRoleBindings(c.user) = Of(bound["global"], c.user)
                  THEN blurred ELSE blurred \cup {c.user}
    /\ UNCHANGED <<bound, cached, spent>>

ListBindings(h) ==
    LET c == call[h]
        listed == IF c.kind = "global" THEN ListGlobalRoleBindings(c.user)
                  ELSE ListClusterRoleBindings(c.user)
    IN  /\ c.pc = "list"
        /\ Goto(h, [c EXCEPT !.pc = "replace", !.todo = listed])
        /\ blurred' = IF listed = Of(bound[c.kind], c.user)
                      THEN blurred ELSE blurred \cup {c.user}
        /\ UNCHANGED <<bound, cached, granted, spent>>

\* Mutant of ReplaceOne: the condition that ends the loop is the wrong way round.
ReplaceOneInverted(h) ==
    LET c == call[h] IN
    /\ c.pc = "replace"
    /\ \E b \in c.todo :
          IF b.role # c.role
          THEN End(h, c.role) /\ UNCHANGED bound
          ELSE /\ bound' = [bound EXCEPT ![c.kind] = @ \ {b}]
               /\ Goto(h, [c EXCEPT !.todo = @ \ {b}])
               /\ UNCHANGED granted
    /\ UNCHANGED <<cached, blurred, spent>>

\* One binding of the list, newest first at the grain of a second, so in any
\* order: the loop ends at one with the role, and deletes any other by name. One
\* that is gone already is passed over.
ReplaceOne(h) ==
    LET c == call[h] IN
    /\ c.pc = "replace"
    /\ \E b \in c.todo :
          IF b.role = c.role
          THEN End(h, c.role) /\ UNCHANGED bound
          ELSE /\ bound' = [bound EXCEPT ![c.kind] = @ \ {b}]
               /\ Goto(h, [c EXCEPT !.todo = @ \ {b}])
               /\ UNCHANGED granted
    /\ UNCHANGED <<cached, blurred, spent>>

\* All are deleted.
ReplaceDone(h) ==
    LET c == call[h] IN
    /\ c.pc = "replace" /\ c.todo = {}
    /\ IF c.role = "none" THEN End(h, c.role)
       ELSE Goto(h, [c EXCEPT !.pc = "create"]) /\ UNCHANGED granted
    /\ UNCHANGED <<bound, cached, blurred, spent>>

\* A binding of that name is an error.
CreateBinding(h) ==
    LET c == call[h]
        b == [user |-> c.user, role |-> c.role]
    IN  /\ c.pc = "create"
        /\ bound' = [bound EXCEPT ![c.kind] = @ \cup {b}]
        /\ End(h, IF b \in bound[c.kind] THEN "unknown" ELSE c.role)
        /\ UNCHANGED <<cached, blurred, spent>>

\* An API call fails, and the error ends the request.
CallFails(h) ==
    /\ call[h].pc \in {"replace", "create"}
    /\ Spend("others", MaxOthers)
    /\ End(h, "unknown")
    /\ UNCHANGED <<bound, cached, blurred>>

-----------------------------------------------------------------------------
(* The rest of the platform.                                               *)

\* The user controller deletes the global bindings of a user it finalizes, and
\* leaves those in the cluster.
DeleteUserBindings(u) ==
    /\ Spend("others", MaxOthers)
    /\ bound' = [bound EXCEPT !["global"] = @ \ Of(@, u)]
    /\ blurred' = blurred \cup {u}
    /\ UNCHANGED <<cached, call, granted>>

\* ai-server's informers catch up.
SyncServer(kind) ==
    /\ cached[kind] # bound[kind]
    /\ cached' = [cached EXCEPT ![kind] = bound[kind]]
    /\ UNCHANGED <<bound, call, granted, blurred, spent>>

-----------------------------------------------------------------------------
\* The caches are full when the server serves; some user may have a global role.
Init ==
    /\ \E u \in Users, r \in GlobalRoles \cup {"none"} :
          /\ bound = [k \in Kinds |-> IF k = "global" /\ r # "none"
                                      THEN {[user |-> u, role |-> r]} ELSE {}]
          /\ granted = [k \in Kinds |-> [v \in Users |-> IF k = "global" /\ v = u
                                                         THEN r ELSE "none"]]
    /\ cached = bound
    /\ call = [h \in Handlers |-> Idle]
    /\ blurred = {}
    /\ spent = [op \in {"requests", "others"} |-> 0]

ServerStep(h) == Check(h) \/ ListBindings(h) \/ ReplaceOne(h) \/ ReplaceDone(h) \/ CreateBinding(h)

Next ==
    \/ \E h \in Handlers :
          \/ \E u \in Users :
                \/ \E role \in GlobalRoles : UpdateUser(h, u, role) \/ CreateUser(h, u, role)
                \/ \E role \in ClusterRoles : CreateClusterRoleBinding(h, u, role)
                \/ RemoveUserFromCluster(h, u)
          \/ ServerStep(h) \/ CallFails(h)
    \/ \E u \in Users : DeleteUserBindings(u)
    \/ \E kind \in Kinds : SyncServer(kind)

Spec == Init /\ [][Next]_vars

-----------------------------------------------------------------------------
(* Properties.                                                             *)

Quiet(u) == \A h \in Handlers : call[h] = Idle \/ call[h].user # u

\* While requests for a user come one after the other and find the caches up to
\* date, the user has one global role and one cluster role at most, also after a
\* failure half way; and when no request is in hand exactly the roles that the
\* last answers promised. Requests that overlap, or list an old cache, can leave
\* a user with two roles or none: of them nothing is said.
AnswerIsTrue ==
    \A u \in Users \ blurred, kind \in Kinds :
        /\ Cardinality(Of(bound[kind], u)) <= 1
        /\ Quiet(u) /\ granted[kind][u] # "unknown" =>
              {b.role : b \in Of(bound[kind], u)} = {granted[kind][u]} \ {"none"}

=============================================================================
