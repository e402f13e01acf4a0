------------------------------- MODULE Requests -------------------------------
(***************************************************************************)
(* A request's way through ai-server: what it is about, who it is from,    *)
(* whether that user may do it, and who answers (the handler chain of      *)
(* pkg/aiserver/aiserver.go with filters, authentication, authorization),  *)
(* the change of a password, which asks the authorizer once more, and the  *)
(* operations on roles of pkg/middles/iam/am.                              *)
(*                                                                         *)
(* Who it is from is always system:anonymous: that authenticator is asked  *)
(* first and never fails. The rights decided about are those of that user. *)
(*                                                                         *)
(* Bindings, roles and users are read from informer caches, a binding and  *)
(* its role at different times, while they are changed and the caches      *)
(* follow each in its own time.                                            *)
(***************************************************************************)
EXTENDS RequestInfo, Rbac, FiniteSets

CONSTANTS
    Calls,        \* requests and what they show who makes them: [ask, credential], what RequestInfo
                  \* takes with the current and the new password of those that change
                  \* one, and [kind, name, good], where good ones have the right secret
    Excluded,     \* paths that need no role
    Globals,      \* global role bindings, [subjects, ref]
    Locals,       \* role bindings, [subjects, ref, ns]
    Contents,     \* what a role may hold, [rules, policy]
    Users,
    OwnGroups,    \* [Users -> groups], those of the User objects
    Passwords,
    First,        \* the password that all have at first
    Absent,       \* in the place of an object that is not there
    MaxChanges,   \* bound: changes of bindings, roles and users
    MaxRequests   \* bound: requests

ASSUME BindingsAssumption == Globals \cap Locals = {}

ASSUME CallsAssumption ==
    \A c \in Calls :
        c.ask \in [path: Seq(STRING), method: STRING, watch: BOOLEAN, field: STRING,
                  workspace: STRING, current: STRING, new: STRING]

\* What bindings refer to: kind, namespace and name of a role.
Refs == {b.ref : b \in Globals \cup Locals}

Tables == {"globals", "locals", "roles", "users"}

VARIABLES
    stored,    \* the API server's objects, a user with its password and version
    cached,    \* ai-server's informer caches of them
    call,      \* the request in hand
    changes,   \* how many changes there were
    requests   \* and requests

vars == <<stored, cached, call, changes, requests>>

Idle == [pc |-> "idle"]

Anonymous == [name |-> "system:anonymous", groups |-> {"system:unauthenticated"}]

\* What a role may come to hold.
Holdings == [ rules: {c.rules : c \in Contents} \cup {{}}, policy: {c.policy : c \in Contents} ]

Objects == [ globals: SUBSET Globals, locals: SUBSET Locals,
             roles: [Refs -> Holdings \cup {Absent}],
             users: [Users -> [password: Passwords, version: 0 .. MaxChanges + MaxRequests] \cup {Absent}] ]

Init ==
    /\ \E content \in Contents \cup {Absent} :
          stored = [ globals |-> Globals, locals |-> Locals,
                     roles   |-> [ref \in Refs |-> content],
                     users   |-> [u \in Users |-> [password |-> First, version |-> 0]] ]
    /\ cached = stored
    /\ call = Idle /\ changes = 0 /\ requests = 0

-----------------------------------------------------------------------------
(* What was to be seen in the caches since a request came. A grant is a    *)
(* binding with what its role holds; the steady ones were there throughout.*)

Grants(c) == {[binding |-> b, role |-> c.roles[b.ref]] : b \in c.globals \cup c.locals}

Seeing(c) == [ bindings |-> c.globals \cup c.locals,
               roles    |-> {<<ref, c.roles[ref]>> : ref \in Refs},
               secrets  |-> {<<u, c.users[u].password>> : u \in {v \in Users : c.users[v] # Absent}},
               steady   |-> Grants(c) ]

Saw(old, c) == [ bindings |-> old.bindings \cup Seeing(c).bindings,
                 roles    |-> old.roles \cup Seeing(c).roles,
                 secrets  |-> old.secrets \cup Seeing(c).secrets,
                 steady   |-> old.steady \cap Grants(c) ]

-----------------------------------------------------------------------------
(* Filters and authenticators.                                             *)

Step(pc) == call.pc = pc /\ UNCHANGED <<changes, requests, cached>>

Answer(outcome) == call' = [call EXCEPT !.pc = "done", !.outcome = outcome]

GoTo(pc) == call' = [call EXCEPT !.pc = pc]

\* WithRequestInfo.
Arrive(ask, credential) ==
    /\ call.pc \in {"idle", "done"}
    /\ requests < MaxRequests /\ requests' = requests + 1
    /\ LET new == [ pc |-> "authenticate", ask |-> ask, credential |-> credential,
                    attributes |-> NonResource(ask), user |-> Anonymous, todo |-> {},
                    allowed |-> FALSE, local |-> FALSE, target |-> "", outcome |-> "",
                    saw |-> Seeing(cached) ]
       IN  \/ \E info \in NewRequestInfo(ask) : call' = [new EXCEPT !.attributes = info]
           \/ /\ NewRequestInfo(ask) = {}
              /\ call' = [new EXCEPT !.pc = "done", !.outcome = "internal error"]
    /\ UNCHANGED <<stored, cached, changes>>

\* The authenticators, which find a user or none. That of Kubernetes for anonymous
\* requests (aiserver.go imports k8s.io/apiserver's) finds one whatever the credential.
AnonymousUser(c) == {Anonymous}

\* Those for basic and for bearer credentials ask the cache for the user; a token's
\* has the groups of its object.
Known(c) == c.good /\ c.name \in Users /\ cached.users[c.name] # Absent

BasicUser(c) ==
    IF c.kind = "basic" /\ Known(c)
    THEN {[name |-> c.name, groups |-> {"system:authenticated"}]} ELSE {}

BearerUser(c) ==
    IF c.kind = "bearer" /\ Known(c)
    THEN {[name |-> c.name, groups |-> OwnGroups[c.name] \cup {"system:authenticated"}]}
    ELSE {}

Authenticators(c) == <<AnonymousUser(c), BasicUser(c), BearerUser(c)>>

\* WithAuthentication: the first that finds a user decides, and as the first always
\* finds one there is no answer that the request is not authorized.
Authenticate ==
    /\ Step("authenticate")
    /\ LET found == Authenticators(call.credential)
       IN  \E i \in DOMAIN found :
               /\ \A j \in 1 .. i - 1 : found[j] = {}
               /\ \E u \in found[i] : call' = [call EXCEPT !.pc = "path", !.user = u]
    /\ UNCHANGED stored

IsPasswordChange(a) ==
    /\ a.isResource /\ ~a.isKubernetes
    /\ a.group = "iam.ai.io" /\ a.resource = <<"users">> /\ a.subresource = "password"
    /\ a.verb = "update"

\* WithKubeAPIServer: what has a prefix of Kubernetes is passed on to it.
Serve ==
    IF call.attributes.isKubernetes THEN Answer("proxied")
    ELSE IF IsPasswordChange(call.attributes) THEN GoTo("modify password")
    ELSE Answer("handled")

\* The union asks the path authorizer first.
AuthorizePath ==
    /\ Step("path")
    /\ IF PathAllows(Excluded, call.attributes.path) THEN Serve ELSE GoTo("list globals")
    /\ UNCHANGED stored

-----------------------------------------------------------------------------
(* The authorizer by roles.                                                *)

\* visitRulesFor: the bindings of the user, whatever the groups.
ListGlobals ==
    /\ Step("list globals")
    /\ call' = [call EXCEPT !.pc = "visit", !.local = FALSE,
                  !.todo = {b \in cached.globals : contains(b.subjects, call.user.name, {})}]
    /\ UNCHANGED stored

ListLocals ==
    /\ Step("list locals")
    /\ call' = [call EXCEPT !.pc = "visit", !.local = TRUE,
                  !.todo = {b \in cached.locals :
                              /\ b.ns = call.attributes.namespace
                              /\ contains(b.subjects, call.user.name, {})}]
    /\ UNCHANGED stored

Kinds == {"Role", "ClusterRole", "GlobalRole"}

\* What a role holds, in a set; none of a kind that is not known. A role that is
\* not there holds nothing, and that of a role binding is in its namespace.
GetRoleReferenceRules(ref) ==
    IF ref[1] \notin Kinds THEN {}
    ELSE IF cached.roles[ref] = Absent THEN {[rules |-> {}, policy |-> {}]}
    ELSE {cached.roles[ref]}

\* Mutant of the next: an error ends the visit.
VisitUntilError ==
    /\ Step("visit")
    /\ \E b \in call.todo :
          LET allows == \E r \in GetRoleReferenceRules(b.ref) : RoleAllows(call.attributes, r)
          IN  call' = [call EXCEPT !.allowed = allows,
                         !.todo = IF allows \/ GetRoleReferenceRules(b.ref) = {} THEN {}
                                  ELSE @ \ {b}]
    /\ UNCHANGED stored

\* One binding of the list: its role is fetched, and its policy and rules are
\* visited until one allows. An error is noted and passed over.
Visit ==
    /\ Step("visit")
    /\ \E b \in call.todo :
          LET ns == IF call.local THEN call.attributes.namespace ELSE ""
              allows == /\ appliesTo(call.user, b.subjects, ns)
                        /\ \E r \in GetRoleReferenceRules(b.ref) : RoleAllows(call.attributes, r)
          IN  call' = [call EXCEPT !.allowed = allows, !.todo = IF allows THEN {} ELSE @ \ {b}]
    /\ UNCHANGED stored

\* WithAuthorization: without an opinion it is forbidden. The change of a password
\* has asked on its own, and goes on in either case.
Decide ==
    IF call.target # "" THEN GoTo("verify")
    ELSE IF call.allowed THEN Serve
    ELSE Answer("forbidden")

\* Mutant of the next: bindings of a namespace count for whatever names it.
VisitedInAnyScope ==
    /\ Step("visit") /\ call.todo = {}
    /\ IF ~call.allowed /\ ~call.local /\ call.attributes.namespace # ""
       THEN GoTo("list locals") ELSE Decide
    /\ UNCHANGED stored

\* All are visited: those of the namespace are next, if the request is of one.
Visited ==
    /\ Step("visit") /\ call.todo = {}
    /\ IF ~call.allowed /\ ~call.local /\ call.attributes.scope = "Namespace"
       THEN GoTo("list locals") ELSE Decide
    /\ UNCHANGED stored

-----------------------------------------------------------------------------
(* The change of a password.                                               *)

\* What ModifyPassword asks the authorizer: the resource has a slash in its name.
userManagement == [ path |-> <<>>, verb |-> "update", isResource |-> TRUE, isKubernetes |-> FALSE,
                    group |-> "", namespace |-> "", workspace |-> "",
                    resource |-> <<"users", "password">>, subresource |-> "", name |-> "",
                    scope |-> "Global" ]

ModifyPassword ==
    /\ Step("modify password")
    /\ call' = [call EXCEPT !.pc = "list globals", !.target = call.attributes.name,
                  !.attributes = userManagement, !.allowed = FALSE]
    /\ UNCHANGED stored

CachedUser == IF call.target \in Users THEN cached.users[call.target] ELSE Absent

\* Mutant of the next: who knows no password is not asked for one.
PasswordVerifyIfGiven ==
    /\ Step("verify")
    /\ IF call.ask.current = "" THEN GoTo("update")
       ELSE IF CachedUser = Absent THEN Answer("not found")
       ELSE IF CachedUser.password # call.ask.current THEN Answer("bad request")
       ELSE GoTo("update")
    /\ UNCHANGED stored

\* Without the right to change passwords, or when one is given, the current one is
\* compared.
PasswordVerify ==
    /\ Step("verify")
    /\ IF call.allowed /\ call.ask.current = "" THEN GoTo("update")
       ELSE IF CachedUser = Absent THEN Answer("not found")
       ELSE IF CachedUser.password # call.ask.current THEN Answer("bad request")
       ELSE GoTo("update")
    /\ UNCHANGED stored

\* The user is fetched anew, and must be the newest version.
UpdatePassword ==
    /\ Step("update")
    /\ IF CachedUser = Absent THEN Answer("not found") /\ UNCHANGED stored
       ELSE IF stored.users[call.target] = Absent THEN Answer("not found") /\ UNCHANGED stored
       ELSE IF CachedUser.version # stored.users[call.target].version
       THEN Answer("conflict") /\ UNCHANGED stored
       ELSE /\ Answer("changed")
            /\ stored' = [stored EXCEPT !.users[call.target] =
                            [password |-> call.ask.new, version |-> @.version + 1]]

Handle ==
    \/ Authenticate \/ AuthorizePath \/ ListGlobals \/ ListLocals \/ Visit \/ Visited
    \/ ModifyPassword \/ PasswordVerify \/ UpdatePassword

-----------------------------------------------------------------------------
(* Changes by others, and of roles by the operations on them.              *)

Change ==
    /\ changes < MaxChanges /\ changes' = changes + 1
    /\ UNCHANGED <<cached, call, requests>>

\* CreateOrUpdateGlobalRole, ClusterRole and NamespaceRole: one who passes a version
\* has the newest, and no rules are taken over.
CreateOrUpdateRole(ref, content) ==
    /\ Change
    /\ stored' = [stored EXCEPT !.roles[ref] = [content EXCEPT !.rules = {}]]

\* PatchGlobalRole, ClusterRole and NamespaceRole: the rules are those of the cache.
PatchRole(ref, content) ==
    /\ Change
    /\ cached.roles[ref] # Absent /\ stored.roles[ref] # Absent
    /\ stored' = [stored EXCEPT !.roles[ref] = [content EXCEPT !.rules = cached.roles[ref].rules]]

DeleteRole(ref) ==
    /\ Change
    /\ stored.roles[ref] # Absent
    /\ stored' = [stored EXCEPT !.roles[ref] = Absent]

\* Others, who write to the API server.
Others ==
    /\ Change
    /\ \/ \E b \in Globals : stored' = [stored EXCEPT !.globals = (@ \ {b}) \cup ({b} \ @)]
       \/ \E b \in Locals : stored' = [stored EXCEPT !.locals = (@ \ {b}) \cup ({b} \ @)]
       \/ \E ref \in Refs, content \in Contents : stored' = [stored EXCEPT !.roles[ref] = content]
       \/ \E u \in Users : stored' = [stored EXCEPT !.users[u] = Absent]
       \/ \E u \in Users, p \in Passwords :
             /\ stored.users[u] # Absent
             /\ stored' = [stored EXCEPT !.users[u].password = p, !.users[u].version = @ + 1]

\* An informer catches up.
Sync(table) ==
    /\ cached[table] # stored[table]
    /\ cached' = [cached EXCEPT ![table] = stored[table]]
    /\ call' = IF call.pc \in {"idle", "done"} THEN call
               ELSE [call EXCEPT !.saw = Saw(@, cached')]
    /\ UNCHANGED <<stored, changes, requests>>

Next ==
    \/ \E c \in Calls : Arrive(c.ask, c.credential)
    \/ Handle
    \/ \E ref \in Refs, content \in Contents :
          CreateOrUpdateRole(ref, content) \/ PatchRole(ref, content)
    \/ \E ref \in Refs : DeleteRole(ref)
    \/ Others
    \/ \E table \in Tables : Sync(table)

Spec == Init /\ [][Next]_vars

-----------------------------------------------------------------------------
(* Properties.                                                             *)

\* "authenticators are unordered" (aiserver.go:132): whichever of them finds a user,
\* that is the user who acts.
OrderDoesNotMatter ==
    call.pc = "path" =>
        \A i \in DOMAIN Authenticators(call.credential) :
            Authenticators(call.credential)[i] \subseteq {call.user}

\* Whether a binding is of the user, here or everywhere.
Concerns(b, c) ==
    /\ \E s \in b.subjects : s.kind = "User" /\ s.name = c.user.name
    /\ b \in Locals => c.attributes.scope = "Namespace" /\ b.ns = c.attributes.namespace

\* That a binding and a role, seen since the request came, let its user do it.
WasGranted(c) ==
    \E b \in c.saw.bindings, seen \in c.saw.roles :
        /\ Concerns(b, c) /\ seen[1] = b.ref /\ seen[2] # Absent
        /\ RoleAllows(c.attributes, seen[2])

\* What needs a role is done only for one whose binding and whose role's rules were
\* in the caches while it was decided (rbac.go Authorize): that of another
\* namespace, or of a namespace for what is in none, does not count.
AllowedWasGranted ==
    /\ call.pc = "done" /\ call.outcome \in {"handled", "proxied"}
    /\ ~PathAllows(Excluded, call.attributes.path)
    => WasGranted(call)

\* No request is refused whose user had, all the time, a binding to a role that
\* allows it, whatever became of other bindings and roles meanwhile and whichever
\* of them is visited first or fails (rbac.go visitRulesFor).
NoLostGrant ==
    call.pc = "done" /\ call.outcome = "forbidden" =>
    \A g \in call.saw.steady :
        Concerns(g.binding, call) /\ g.binding.ref[1] \in Kinds /\ g.role # Absent =>
        ~RoleAllows(call.attributes, g.role)

\* A password is changed for one who had the right to change passwords, or who gave
\* the password that the cache held (handler.go ModifyPassword), although both the
\* rights and the password may change between the check and the update.
PasswordChangedByRight ==
    call.pc = "done" /\ call.outcome = "changed" =>
        WasGranted(call) \/ <<call.target, call.ask.current>> \in call.saw.secrets

\* The path of a request, moved into a workspace.
InWorkspace(ask, workspace) ==
    LET n == IF ask.path[1] \in GrouplessAPIPrefixes THEN 2 ELSE 3
    IN  [ask EXCEPT !.path = SubSeq(@, 1, n) \o <<"workspaces", workspace>> \o Drop(@, n)]

\* Below a workspace's prefix a path is about the same resource as without it
\* (requestinfo.go NewRequestInfo): only the workspace differs, and the scope of
\* what is in no namespace.
SameInWorkspace ==
    call # Idle /\ call.ask.workspace = "" /\ IsResourceRequest(call.ask.path) =>
    LET rest  == AfterVersion(call.ask.path)
        plain == Resource(call.ask)
        moved == Resource(InWorkspace(call.ask, "w1"))
    IN  rest[1] \notin specialVerbs \cup {"workspaces"} =>
        moved = [plain EXCEPT !.path = moved.path, !.workspace = "w1",
                   !.scope = IF @ = "Global" THEN "Workspace" ELSE @]

=============================================================================
