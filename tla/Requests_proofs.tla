----------------------------- MODULE Requests_proofs -----------------------------
(***************************************************************************)
(* For all requests, bindings, roles and users, and however many changes   *)
(* meet one request: what is done was granted, what was granted all along  *)
(* is not refused, a password changes by right or by knowing it, and the   *)
(* prefix of a workspace changes nothing but the workspace.                *)
(***************************************************************************)
EXTENDS Requests, SequenceTheorems, TLAPS

Fields == {"pc", "ask", "credential", "attributes", "user", "todo", "allowed", "local",
           "target", "outcome", "saw"}

\* Bindings are where they belong, and a request has all its fields.
Shape ==
    /\ DOMAIN stored = Tables /\ DOMAIN cached = Tables
    /\ stored.globals \subseteq Globals /\ stored.locals \subseteq Locals
    /\ cached.globals \subseteq Globals /\ cached.locals \subseteq Locals
    /\ call.pc # "idle" => DOMAIN call = Fields

Open == call.pc \notin {"idle", "done"}

\* What the caches hold has been seen, and what was steady is still there.
Seen ==
    Open =>
        /\ cached.globals \cup cached.locals \subseteq call.saw.bindings
        /\ \A ref \in Refs : <<ref, cached.roles[ref]>> \in call.saw.roles
        /\ \A u \in Users : cached.users[u] # Absent =>
              <<u, cached.users[u].password>> \in call.saw.secrets
        /\ call.saw.steady \subseteq Grants(cached)

\* What is visited was listed for the user and the namespace.
Listed ==
    /\ call.pc = "list locals" => call.attributes.scope = "Namespace"
    /\ call.pc = "visit" => \A b \in call.todo :
          /\ b \in Globals \cup Locals /\ b \in call.saw.bindings
          /\ Concerns(b, call)

\* The authorizer's answer has a reason, and so has a password that is updated.
Reasons ==
    /\ Open /\ call.allowed => WasGranted(call)
    /\ call.pc \in {"authenticate", "path", "list globals", "list locals"} => ~call.allowed
    /\ call.pc = "visit" /\ call.allowed => call.todo = {}
    /\ call.pc = "update" =>
          WasGranted(call) \/ <<call.target, call.ask.current>> \in call.saw.secrets

\* A steady grant of what is asked for.
Helps(g) ==
    /\ Concerns(g.binding, call) /\ g.binding.ref[1] \in Kinds /\ g.role # Absent
    /\ RoleAllows(call.attributes, g.role)

\* One that helps is still to come, as long as the answer is not given.
StillToCome ==
    /\ call.pc = "visit" /\ ~call.allowed =>
          \A g \in call.saw.steady : Helps(g) =>
              g.binding \in call.todo \/ (~call.local /\ g.binding \in Locals)
    /\ call.pc = "list locals" =>
          \A g \in call.saw.steady : Helps(g) => g.binding \in Locals

IInv ==
    /\ Shape /\ Seen /\ Listed /\ Reasons /\ StillToCome
    /\ AllowedWasGranted /\ NoLostGrant /\ PasswordChangedByRight

-----------------------------------------------------------------------------
(* Facts about the parts of the model.                                     *)

\* Without groups a binding is listed for a user it names.
LEMMA ContainsUser ==
    ASSUME NEW b, NEW c, contains(b.subjects, c.user.name, {})
    PROVE  \E s \in b.subjects : s.kind = "User" /\ s.name = c.user.name
BY DEF contains

\* A user of whom a binding is, is one it applies to.
LEMMA ConcernsApplies ==
    ASSUME NEW b, NEW c, Concerns(b, c), NEW ns
    PROVE  contains(b.subjects, c.user.name, {}) /\ appliesTo(c.user, b.subjects, ns)
<1>1. PICK s \in b.subjects : s.kind = "User" /\ s.name = c.user.name
  BY DEF Concerns
<1>2. appliesToUser(c.user, s, ns)
  BY <1>1 DEF appliesToUser
<1> QED BY <1>1, <1>2 DEF contains, appliesTo

\* An empty role allows nothing.
LEMMA EmptyRole == ASSUME NEW a PROVE ~RoleAllows(a, [rules |-> {}, policy |-> {}])
BY DEF RoleAllows, regoPolicyAllows

\* A binding that allows is the reason why.
LEMMA AllowedBy ==
    ASSUME Seen, Open, NEW b \in Globals \cup Locals, b \in call.saw.bindings,
           Concerns(b, call),
           NEW r \in GetRoleReferenceRules(b.ref), RoleAllows(call.attributes, r)
    PROVE  WasGranted(call)
<1>1. b.ref \in Refs
  BY DEF Refs
<1>2. cached.roles[b.ref] # Absent /\ r = cached.roles[b.ref]
  BY EmptyRole DEF GetRoleReferenceRules
<1>3. <<b.ref, r>> \in call.saw.roles
  BY <1>1, <1>2 DEF Seen
<1>4. <<b.ref, r>>[1] = b.ref /\ <<b.ref, r>>[2] = r
  OBVIOUS
<1> QED BY <1>2, <1>3, <1>4 DEF WasGranted

\* What a grant that helps is of is listed and found to allow.
LEMMA HelpsAllows ==
    ASSUME Seen, Open, NEW g \in call.saw.steady, Helps(g), NEW ns
    PROVE  /\ appliesTo(call.user, g.binding.subjects, ns)
           /\ \E r \in GetRoleReferenceRules(g.binding.ref) : RoleAllows(call.attributes, r)
           /\ g.binding \in cached.globals \cup cached.locals
           /\ contains(g.binding.subjects, call.user.name, {})
<1>1. g \in Grants(cached)
  BY DEF Seen
<1>2. g.binding \in cached.globals \cup cached.locals /\ g.role = cached.roles[g.binding.ref]
  BY <1>1 DEF Grants
<1>3. g.role \in GetRoleReferenceRules(g.binding.ref) /\ RoleAllows(call.attributes, g.role)
  BY <1>2 DEF Helps, GetRoleReferenceRules
<1>4. Concerns(g.binding, call)
  BY DEF Helps
<1> QED BY <1>2, <1>3, <1>4, ConcernsApplies

\* What a request asks, and what it has seen, decides what concerns it.
LEMMA SameQuestion ==
    ASSUME call'.user = call.user, call'.attributes = call.attributes, call'.saw = call.saw
    PROVE  /\ \A b : Concerns(b, call') <=> Concerns(b, call)
           /\ WasGranted(call') <=> WasGranted(call)
           /\ \A g : Helps(g)' <=> Helps(g)
<1>1. \A b : Concerns(b, call') <=> Concerns(b, call)
  BY DEF Concerns
<1>2. WasGranted(call') <=> WasGranted(call)
  BY <1>1 DEF WasGranted
<1>3. \A g : Helps(g)' <=> Helps(g)
  BY <1>1 DEF Helps
<1> QED BY <1>1, <1>2, <1>3

\* A step that leaves the caches and what was seen alone.
LEMMA SameCaches ==
    ASSUME Shape, Seen, Open, UNCHANGED <<stored, cached>>,
           DOMAIN call' = Fields, call'.saw = call.saw
    PROVE  Shape' /\ Seen'
<1>1. Shape'
  BY DEF Shape
<1>2. Seen'
  BY DEF Seen, Grants
<1> QED BY <1>1, <1>2

-----------------------------------------------------------------------------
(* One lemma for each step.                                                *)

LEMMA InitIInv == Init => IInv
<1> SUFFICES ASSUME Init PROVE IInv
  OBVIOUS
<1> USE DEF Init, Idle
<1>1. Shape
  BY DEF Shape, Tables
<1>2. Seen /\ Listed /\ Reasons /\ StillToCome
  BY DEF Seen, Open, Listed, Reasons, StillToCome
<1>3. AllowedWasGranted /\ NoLostGrant /\ PasswordChangedByRight
  BY DEF AllowedWasGranted, NoLostGrant, PasswordChangedByRight
<1> QED BY <1>1, <1>2, <1>3 DEF IInv

LEMMA ArriveIInv ==
    ASSUME IInv, NEW ask, NEW credential, Arrive(ask, credential)
    PROVE  IInv'
<1> DEFINE new == [ pc |-> "authenticate", ask |-> ask, credential |-> credential,
                    attributes |-> NonResource(ask), user |-> Anonymous, todo |-> {},
                    allowed |-> FALSE, local |-> FALSE, target |-> "", outcome |-> "",
                    saw |-> Seeing(cached) ]
<1>1. UNCHANGED <<stored, cached>>
  BY DEF Arrive
<1>2. \/ \E info : call' = [new EXCEPT !.attributes = info]
      \/ call' = [new EXCEPT !.pc = "done", !.outcome = "internal error"]
  BY DEF Arrive
<1> HIDE DEF new
<1>3. /\ DOMAIN call' = Fields /\ call'.saw = Seeing(cached) /\ ~call'.allowed
      /\ \/ call'.pc = "authenticate"
         \/ call'.pc = "done" /\ call'.outcome = "internal error"
  BY <1>2 DEF new, Fields
<1>4. Shape'
  BY <1>1, <1>3 DEF IInv, Shape
<1>5. Seen'
  <2>1. /\ Seeing(cached).bindings = cached.globals \cup cached.locals
        /\ Seeing(cached).roles = {<<ref, cached.roles[ref]>> : ref \in Refs}
        /\ Seeing(cached).secrets = {<<u, cached.users[u].password>> :
                                      u \in {v \in Users : cached.users[v] # Absent}}
        /\ Seeing(cached).steady = Grants(cached)
    BY DEF Seeing
  <2> QED BY <1>1, <1>3, <2>1 DEF Seen, Grants
<1>6. (Listed /\ Reasons /\ StillToCome)'
  BY <1>3 DEF Listed, Reasons, StillToCome, Open
<1>7. (AllowedWasGranted /\ NoLostGrant /\ PasswordChangedByRight)'
  BY <1>3 DEF AllowedWasGranted, NoLostGrant, PasswordChangedByRight
<1> QED BY <1>4, <1>5, <1>6, <1>7 DEF IInv

LEMMA AuthenticateIInv == ASSUME IInv, Authenticate PROVE IInv'
<1>1. UNCHANGED <<stored, cached>> /\ call.pc = "authenticate" /\ Open
  BY DEF Authenticate, Step, Open
<1>2. \E u : call' = [call EXCEPT !.pc = "path", !.user = u]
  BY DEF Authenticate
<1>3. DOMAIN call = Fields /\ ~call.allowed
  BY <1>1 DEF IInv, Shape, Reasons
<1>4. /\ DOMAIN call' = Fields /\ call'.saw = call.saw /\ ~call'.allowed
      /\ call'.pc = "path"
  BY <1>2, <1>3 DEF Fields
<1>5. Shape' /\ Seen'
  BY <1>1, <1>4, SameCaches DEF IInv
<1>6. (Listed /\ Reasons /\ StillToCome)'
  BY <1>4 DEF Listed, Reasons, StillToCome, Open
<1>7. (AllowedWasGranted /\ NoLostGrant /\ PasswordChangedByRight)'
  BY <1>4 DEF AllowedWasGranted, NoLostGrant, PasswordChangedByRight
<1> QED BY <1>5, <1>6, <1>7 DEF IInv

\* What is served has a reason to be.
LEMMA ServeIInv ==
    ASSUME IInv, Open, Serve, UNCHANGED <<stored, cached>>,
           PathAllows(Excluded, call.attributes.path) \/ WasGranted(call)
    PROVE  IInv'
<1>1. DOMAIN call = Fields
  BY DEF IInv, Shape, Open
<1>2. /\ DOMAIN call' = Fields /\ call'.saw = call.saw /\ call'.allowed = call.allowed
      /\ call'.user = call.user /\ call'.attributes = call.attributes
      /\ \/ call'.pc = "modify password"
         \/ call'.pc = "done" /\ call'.outcome \in {"handled", "proxied"}
  BY <1>1 DEF Serve, Answer, GoTo, Fields
<1>3. WasGranted(call') <=> WasGranted(call)
  BY <1>2, SameQuestion
<1>4. Shape' /\ Seen'
  BY <1>2, SameCaches DEF IInv
<1>5. (Listed /\ Reasons /\ StillToCome)'
  BY <1>2, <1>3 DEF IInv, Listed, Reasons, StillToCome, Open
<1>6. (AllowedWasGranted /\ NoLostGrant /\ PasswordChangedByRight)'
  BY <1>2, <1>3 DEF AllowedWasGranted, NoLostGrant, PasswordChangedByRight
<1> QED BY <1>4, <1>5, <1>6 DEF IInv

LEMMA AuthorizePathIInv == ASSUME IInv, AuthorizePath PROVE IInv'
<1>1. UNCHANGED <<stored, cached>> /\ call.pc = "path" /\ Open
  BY DEF AuthorizePath, Step, Open
<1>2. CASE PathAllows(Excluded, call.attributes.path)
  BY <1>1, <1>2, ServeIInv DEF AuthorizePath
<1>3. CASE ~PathAllows(Excluded, call.attributes.path)
  <2>1. call' = [call EXCEPT !.pc = "list globals"] /\ DOMAIN call = Fields /\ ~call.allowed
    BY <1>1, <1>3 DEF AuthorizePath, GoTo, IInv, Shape, Reasons
  <2>2. /\ DOMAIN call' = Fields /\ call'.saw = call.saw /\ ~call'.allowed
        /\ call'.pc = "list globals"
    BY <2>1 DEF Fields
  <2>3. Shape' /\ Seen'
    BY <1>1, <2>2, SameCaches DEF IInv
  <2>4. (Listed /\ Reasons /\ StillToCome)'
    BY <2>2 DEF Listed, Reasons, StillToCome, Open
  <2>5. (AllowedWasGranted /\ NoLostGrant /\ PasswordChangedByRight)'
    BY <2>2 DEF AllowedWasGranted, NoLostGrant, PasswordChangedByRight
  <2> QED BY <2>3, <2>4, <2>5 DEF IInv
<1> QED BY <1>2, <1>3

LEMMA ListGlobalsIInv == ASSUME IInv, ListGlobals PROVE IInv'
<1> DEFINE todo == {b \in cached.globals : contains(b.subjects, call.user.name, {})}
<1>1. /\ UNCHANGED <<stored, cached>> /\ call.pc = "list globals" /\ Open
      /\ call' = [call EXCEPT !.pc = "visit", !.local = FALSE, !.todo = todo]
  BY DEF ListGlobals, Step, Open
<1>2. DOMAIN call = Fields /\ ~call.allowed
  BY <1>1 DEF IInv, Shape, Reasons
<1>3. /\ DOMAIN call' = Fields /\ call'.saw = call.saw /\ ~call'.allowed /\ ~call'.local
      /\ call'.user = call.user /\ call'.attributes = call.attributes
      /\ call'.pc = "visit" /\ call'.todo = todo
  BY <1>1, <1>2 DEF Fields
<1>4. Shape' /\ Seen'
  BY <1>1, <1>3, SameCaches DEF IInv
<1>5. Listed'
  <2> SUFFICES ASSUME NEW b \in todo
               PROVE  b \in Globals /\ b \in call.saw.bindings /\ Concerns(b, call)
    BY <1>3, SameQuestion DEF Listed
  <2>1. b \in Globals /\ b \in call.saw.bindings
    BY <1>1 DEF IInv, Shape, Seen
  <2>2. Concerns(b, call)
    BY <2>1, ContainsUser, BindingsAssumption DEF Concerns
  <2> QED BY <2>1, <2>2
<1>6. Reasons' /\ (AllowedWasGranted /\ NoLostGrant /\ PasswordChangedByRight)'
  BY <1>3 DEF Reasons, AllowedWasGranted, NoLostGrant, PasswordChangedByRight
<1>7. StillToCome'
  <2> SUFFICES ASSUME NEW g \in call.saw.steady, Helps(g), g.binding \notin Locals
               PROVE  g.binding \in todo
    BY <1>3, SameQuestion DEF StillToCome
  <2>1. /\ g.binding \in cached.globals \cup cached.locals
        /\ contains(g.binding.subjects, call.user.name, {})
    BY <1>1, HelpsAllows DEF IInv
  <2> QED BY <2>1 DEF IInv, Shape
<1> QED BY <1>4, <1>5, <1>6, <1>7 DEF IInv

LEMMA ListLocalsIInv == ASSUME IInv, ListLocals PROVE IInv'
<1> DEFINE todo == {b \in cached.locals : /\ b.ns = call.attributes.namespace
                                         /\ contains(b.subjects, call.user.name, {})}
<1>1. /\ UNCHANGED <<stored, cached>> /\ call.pc = "list locals" /\ Open
      /\ call' = [call EXCEPT !.pc = "visit", !.local = TRUE, !.todo = todo]
  BY DEF ListLocals, Step, Open
<1>2. DOMAIN call = Fields /\ call.attributes.scope = "Namespace"
  BY <1>1 DEF IInv, Shape, Listed
<1>3. /\ DOMAIN call' = Fields /\ call'.saw = call.saw /\ call'.allowed = call.allowed
      /\ call'.local /\ call'.user = call.user /\ call'.attributes = call.attributes
      /\ call'.pc = "visit" /\ call'.todo = todo
  BY <1>1, <1>2 DEF Fields
<1>4. Shape' /\ Seen'
  BY <1>1, <1>3, SameCaches DEF IInv
<1>5. Listed'
  <2> SUFFICES ASSUME NEW b \in todo
               PROVE  b \in Locals /\ b \in call.saw.bindings /\ Concerns(b, call)
    BY <1>3, SameQuestion DEF Listed
  <2>1. b \in Locals /\ b \in call.saw.bindings
    BY <1>1 DEF IInv, Shape, Seen
  <2>2. Concerns(b, call)
    BY <1>2, ContainsUser DEF Concerns
  <2> QED BY <2>1, <2>2
<1>6. Reasons' /\ (AllowedWasGranted /\ NoLostGrant /\ PasswordChangedByRight)'
  BY <1>1, <1>3, SameQuestion
  DEF IInv, Reasons, Open, AllowedWasGranted, NoLostGrant, PasswordChangedByRight
<1>7. StillToCome'
  <2> SUFFICES ASSUME NEW g \in call.saw.steady, Helps(g)
               PROVE  g.binding \in todo
    BY <1>3, SameQuestion DEF StillToCome
  <2>1. /\ g.binding \in cached.globals \cup cached.locals
        /\ contains(g.binding.subjects, call.user.name, {})
    BY <1>1, HelpsAllows DEF IInv
  <2>2. g.binding \in Locals /\ g.binding.ns = call.attributes.namespace
    BY <1>1 DEF IInv, StillToCome, Helps, Concerns
  <2> QED BY <2>1, <2>2, BindingsAssumption DEF IInv, Shape
<1> QED BY <1>4, <1>5, <1>6, <1>7 DEF IInv

LEMMA VisitIInv == ASSUME IInv, Visit PROVE IInv'
<1>1. UNCHANGED <<stored, cached>> /\ call.pc = "visit" /\ Open /\ DOMAIN call = Fields
  BY DEF Visit, Step, Open, IInv, Shape
<1> DEFINE ns == IF call.local THEN call.attributes.namespace ELSE ""
           allows(b) == /\ appliesTo(call.user, b.subjects, ns)
                        /\ \E r \in GetRoleReferenceRules(b.ref) : RoleAllows(call.attributes, r)
<1>2. PICK b \in call.todo :
        call' = [call EXCEPT !.allowed = allows(b), !.todo = IF allows(b) THEN {} ELSE @ \ {b}]
  BY DEF Visit
<1> HIDE DEF allows
<1>3. /\ DOMAIN call' = Fields /\ call'.saw = call.saw /\ call'.allowed = allows(b)
      /\ call'.local = call.local /\ call'.user = call.user
      /\ call'.attributes = call.attributes /\ call'.pc = "visit"
      /\ call'.todo = IF allows(b) THEN {} ELSE call.todo \ {b}
  BY <1>1, <1>2 DEF Fields
<1>4. Shape' /\ Seen'
  BY <1>1, <1>3, SameCaches DEF IInv
<1>5. Listed'
  BY <1>1, <1>3, SameQuestion DEF IInv, Listed
<1>6. Reasons'
  <2> SUFFICES ASSUME allows(b) PROVE WasGranted(call)
    BY <1>3, SameQuestion DEF Reasons
  <2>1. PICK r \in GetRoleReferenceRules(b.ref) : RoleAllows(call.attributes, r)
    BY DEF allows
  <2>2. b \in Globals \cup Locals /\ b \in call.saw.bindings /\ Concerns(b, call)
    BY <1>1 DEF IInv, Listed
  <2> QED BY <1>1, <2>1, <2>2, AllowedBy DEF IInv
<1>7. StillToCome'
  <2> SUFFICES ASSUME ~allows(b), NEW g \in call.saw.steady, Helps(g)
               PROVE  g.binding \in call.todo \ {b} \/ (~call.local /\ g.binding \in Locals)
    BY <1>3, SameQuestion DEF StillToCome
  <2>1. allows(g.binding)
    BY <1>1, HelpsAllows DEF IInv, allows
  <2>2. ~call.allowed
    BY <1>1 DEF IInv, Reasons
  <2> QED BY <1>1, <2>1, <2>2 DEF IInv, StillToCome
<1>8. (AllowedWasGranted /\ NoLostGrant /\ PasswordChangedByRight)'
  BY <1>3 DEF AllowedWasGranted, NoLostGrant, PasswordChangedByRight
<1> QED BY <1>4, <1>5, <1>6, <1>7, <1>8 DEF IInv

LEMMA VisitedIInv == ASSUME IInv, Visited PROVE IInv'
<1>1. /\ UNCHANGED <<stored, cached>> /\ call.pc = "visit" /\ Open /\ DOMAIN call = Fields
      /\ call.todo = {}
  BY DEF Visited, Step, Open, IInv, Shape
<1> DEFINE on == ~call.allowed /\ ~call.local /\ call.attributes.scope = "Namespace"
<1>2. CASE on
  <2>1. call' = [call EXCEPT !.pc = "list locals"]
    BY <1>2 DEF Visited, GoTo
  <2>2. /\ DOMAIN call' = Fields /\ call'.saw = call.saw /\ ~call'.allowed
        /\ call'.user = call.user /\ call'.attributes = call.attributes
        /\ call'.pc = "list locals"
    BY <1>1, <1>2, <2>1 DEF Fields
  <2>3. Shape' /\ Seen'
    BY <1>1, <2>2, SameCaches DEF IInv
  <2>4. Listed' /\ Reasons'
    BY <1>2, <2>2 DEF Listed, Reasons
  <2>5. StillToCome'
    BY <1>1, <1>2, <2>2, SameQuestion DEF IInv, StillToCome
  <2>6. (AllowedWasGranted /\ NoLostGrant /\ PasswordChangedByRight)'
    BY <2>2 DEF AllowedWasGranted, NoLostGrant, PasswordChangedByRight
  <2> QED BY <2>3, <2>4, <2>5, <2>6 DEF IInv
<1>3. CASE ~on /\ call.target = "" /\ call.allowed
  BY <1>1, <1>3, ServeIInv DEF Visited, Decide, IInv, Reasons
<1>4. CASE ~on /\ call.target # ""
  <2>1. call' = [call EXCEPT !.pc = "verify"]
    BY <1>4 DEF Visited, Decide, GoTo
  <2>2. /\ DOMAIN call' = Fields /\ call'.saw = call.saw /\ call'.allowed = call.allowed
        /\ call'.user = call.user /\ call'.attributes = call.attributes
        /\ call'.pc = "verify"
    BY <1>1, <2>1 DEF Fields
  <2>3. Shape' /\ Seen'
    BY <1>1, <2>2, SameCaches DEF IInv
  <2>4. (Listed /\ Reasons /\ StillToCome)'
    BY <1>1, <2>2, SameQuestion DEF IInv, Listed, Reasons, StillToCome
  <2>5. (AllowedWasGranted /\ NoLostGrant /\ PasswordChangedByRight)'
    BY <2>2 DEF AllowedWasGranted, NoLostGrant, PasswordChangedByRight
  <2> QED BY <2>3, <2>4, <2>5 DEF IInv
<1>5. CASE ~on /\ call.target = "" /\ ~call.allowed
  <2>1. call' = [call EXCEPT !.pc = "done", !.outcome = "forbidden"]
    BY <1>5 DEF Visited, Decide, Answer
  <2>2. /\ DOMAIN call' = Fields /\ call'.saw = call.saw /\ call'.allowed = call.allowed
        /\ call'.user = call.user /\ call'.attributes = call.attributes
        /\ call'.pc = "done" /\ call'.outcome = "forbidden"
    BY <1>1, <2>1 DEF Fields
  <2>3. Shape' /\ Seen'
    BY <1>1, <2>2, SameCaches DEF IInv
  <2>4. (Listed /\ Reasons /\ StillToCome)'
    BY <2>2 DEF Listed, Reasons, StillToCome, Open
  <2>5. ASSUME NEW g \in call.saw.steady, Helps(g) PROVE FALSE
    <3>1. ~call.local /\ g.binding \in Locals
      BY <1>1, <1>5, <2>5 DEF IInv, StillToCome
    <3>2. call.attributes.scope = "Namespace"
      BY <2>5, <3>1 DEF Helps, Concerns
    <3> QED BY <1>5, <3>1, <3>2
  <2>6. NoLostGrant'
    BY <2>2, <2>5, SameQuestion DEF NoLostGrant, Helps
  <2>7. (AllowedWasGranted /\ PasswordChangedByRight)'
    BY <2>2 DEF AllowedWasGranted, PasswordChangedByRight
  <2> QED BY <2>3, <2>4, <2>6, <2>7 DEF IInv
<1> QED BY <1>2, <1>3, <1>4, <1>5

LEMMA ModifyPasswordIInv == ASSUME IInv, ModifyPassword PROVE IInv'
<1>1. /\ UNCHANGED <<stored, cached>> /\ call.pc = "modify password" /\ Open
      /\ DOMAIN call = Fields
  BY DEF ModifyPassword, Step, Open, IInv, Shape
<1>2. \E target : call' = [call EXCEPT !.pc = "list globals", !.target = target,
                                        !.attributes = userManagement, !.allowed = FALSE]
  BY DEF ModifyPassword
<1>3. /\ DOMAIN call' = Fields /\ call'.saw = call.saw /\ ~call'.allowed
      /\ call'.pc = "list globals"
  BY <1>1, <1>2 DEF Fields
<1>4. Shape' /\ Seen'
  BY <1>1, <1>3, SameCaches DEF IInv
<1>5. (Listed /\ Reasons /\ StillToCome)'
  BY <1>3 DEF Listed, Reasons, StillToCome
<1>6. (AllowedWasGranted /\ NoLostGrant /\ PasswordChangedByRight)'
  BY <1>3 DEF AllowedWasGranted, NoLostGrant, PasswordChangedByRight
<1> QED BY <1>4, <1>5, <1>6 DEF IInv

LEMMA PasswordVerifyIInv == ASSUME IInv, PasswordVerify PROVE IInv'
<1>1. /\ UNCHANGED <<stored, cached>> /\ call.pc = "verify" /\ Open /\ DOMAIN call = Fields
  BY DEF PasswordVerify, Step, Open, IInv, Shape
<1>2. CASE \E outcome \in {"not found", "bad request"} :
             call' = [call EXCEPT !.pc = "done", !.outcome = outcome]
  <2>1. /\ DOMAIN call' = Fields /\ call'.saw = call.saw
        /\ call'.pc = "done" /\ call'.outcome \in {"not found", "bad request"}
    BY <1>1, <1>2 DEF Fields
  <2>2. Shape' /\ Seen'
    BY <1>1, <2>1, SameCaches DEF IInv
  <2>3. (Listed /\ Reasons /\ StillToCome)'
    BY <2>1 DEF Listed, Reasons, StillToCome, Open
  <2>4. (AllowedWasGranted /\ NoLostGrant /\ PasswordChangedByRight)'
    BY <2>1 DEF AllowedWasGranted, NoLostGrant, PasswordChangedByRight
  <2> QED BY <2>2, <2>3, <2>4 DEF IInv
<1>3. CASE /\ call' = [call EXCEPT !.pc = "update"]
           /\ WasGranted(call) \/ <<call.target, call.ask.current>> \in call.saw.secrets
  <2>1. /\ DOMAIN call' = Fields /\ call'.saw = call.saw /\ call'.allowed = call.allowed
        /\ call'.user = call.user /\ call'.attributes = call.attributes
        /\ call'.target = call.target /\ call'.ask = call.ask /\ call'.pc = "update"
    BY <1>1, <1>3 DEF Fields
  <2>2. Shape' /\ Seen'
    BY <1>1, <2>1, SameCaches DEF IInv
  <2>3. (Listed /\ Reasons /\ StillToCome)'
    BY <1>1, <1>3, <2>1, SameQuestion DEF IInv, Listed, Reasons, StillToCome
  <2>4. (AllowedWasGranted /\ NoLostGrant /\ PasswordChangedByRight)'
    BY <2>1 DEF AllowedWasGranted, NoLostGrant, PasswordChangedByRight
  <2> QED BY <2>2, <2>3, <2>4 DEF IInv
<1>4. CASE call.allowed /\ call.ask.current = ""
  <2>1. WasGranted(call)
    BY <1>1, <1>4 DEF IInv, Reasons
  <2> QED BY <1>3, <1>4, <2>1 DEF PasswordVerify, GoTo
<1>5. CASE ~(call.allowed /\ call.ask.current = "") /\ CachedUser # Absent
           /\ CachedUser.password = call.ask.current
  <2>1. call.target \in Users /\ CachedUser = cached.users[call.target]
    BY <1>5 DEF CachedUser
  <2>2. <<call.target, call.ask.current>> \in call.saw.secrets
    BY <1>1, <1>5, <2>1 DEF IInv, Seen
  <2> QED BY <1>3, <1>5, <2>2 DEF PasswordVerify, GoTo
<1>6. CASE ~(call.allowed /\ call.ask.current = "")
           /\ (CachedUser = Absent \/ CachedUser.password # call.ask.current)
  BY <1>2, <1>6 DEF PasswordVerify, Answer
<1> QED BY <1>4, <1>5, <1>6

LEMMA UpdatePasswordIInv == ASSUME IInv, UpdatePassword PROVE IInv'
<1>1. /\ UNCHANGED cached /\ call.pc = "update" /\ Open /\ DOMAIN call = Fields
      /\ WasGranted(call) \/ <<call.target, call.ask.current>> \in call.saw.secrets
  BY DEF UpdatePassword, Step, Open, IInv, Shape, Reasons
<1>2. /\ \E outcome \in {"not found", "conflict", "changed"} :
            call' = [call EXCEPT !.pc = "done", !.outcome = outcome]
      /\ \/ UNCHANGED stored
         \/ \E user : stored' = [stored EXCEPT !.users[call.target] = user]
  BY DEF UpdatePassword, Answer
<1>3. /\ DOMAIN call' = Fields /\ call'.saw = call.saw
      /\ call'.user = call.user /\ call'.attributes = call.attributes
      /\ call'.target = call.target /\ call'.ask = call.ask
      /\ call'.pc = "done" /\ call'.outcome \in {"not found", "conflict", "changed"}
  BY <1>1, <1>2 DEF Fields
<1>4. Shape'
  BY <1>1, <1>2, <1>3 DEF IInv, Shape, Tables
<1>5. (Seen /\ Listed /\ Reasons /\ StillToCome)'
  BY <1>3 DEF Seen, Listed, Reasons, StillToCome, Open
<1>6. (AllowedWasGranted /\ NoLostGrant)'
  BY <1>3 DEF AllowedWasGranted, NoLostGrant
<1>7. PasswordChangedByRight'
  BY <1>1, <1>3, SameQuestion DEF PasswordChangedByRight
<1> QED BY <1>4, <1>5, <1>6, <1>7 DEF IInv

\* What others write to the API server changes nothing for the request.
LEMMA ChangeIInv ==
    ASSUME IInv, UNCHANGED <<cached, call>>, DOMAIN stored' = Tables,
           stored'.globals \subseteq Globals, stored'.locals \subseteq Locals
    PROVE  IInv'
<1>1. Shape' /\ Seen'
  BY DEF IInv, Shape, Seen, Open, Grants
<1>2. (Listed /\ Reasons)'
  BY DEF IInv, Listed, Reasons, Open, WasGranted, Concerns
<1>3. StillToCome'
  BY DEF IInv, StillToCome, Helps, Concerns
<1>4. (AllowedWasGranted /\ NoLostGrant /\ PasswordChangedByRight)'
  BY DEF IInv, AllowedWasGranted, NoLostGrant, PasswordChangedByRight, WasGranted, Concerns
<1> QED BY <1>1, <1>2, <1>3, <1>4 DEF IInv

LEMMA RolesIInv ==
    ASSUME IInv, NEW ref, NEW content,
           CreateOrUpdateRole(ref, content) \/ PatchRole(ref, content) \/ DeleteRole(ref)
    PROVE  IInv'
<1>1. UNCHANGED <<cached, call>> /\ \E role : stored' = [stored EXCEPT !.roles[ref] = role]
  BY DEF CreateOrUpdateRole, PatchRole, DeleteRole, Change
<1>2. /\ DOMAIN stored' = Tables
      /\ stored'.globals = stored.globals /\ stored'.locals = stored.locals
  BY <1>1 DEF IInv, Shape, Tables
<1> QED BY <1>1, <1>2, ChangeIInv DEF IInv, Shape

LEMMA OthersIInv == ASSUME IInv, Others PROVE IInv'
<1>1. UNCHANGED <<cached, call>>
  BY DEF Others, Change
<1>2. \/ \E b \in Globals : stored' = [stored EXCEPT !.globals = (@ \ {b}) \cup ({b} \ @)]
      \/ \E b \in Locals : stored' = [stored EXCEPT !.locals = (@ \ {b}) \cup ({b} \ @)]
      \/ \E roles : stored' = [stored EXCEPT !.roles = roles]
      \/ \E users : stored' = [stored EXCEPT !.users = users]
  BY DEF Others
<1>3. /\ DOMAIN stored' = Tables
      /\ stored'.globals \subseteq Globals /\ stored'.locals \subseteq Locals
  BY <1>2 DEF IInv, Shape, Tables
<1> QED BY <1>1, <1>3, ChangeIInv

LEMMA SyncIInv == ASSUME IInv, NEW table \in Tables, Sync(table) PROVE IInv'
<1>1. UNCHANGED stored /\ cached' = [cached EXCEPT ![table] = stored[table]]
  BY DEF Sync
<1>2. /\ DOMAIN cached' = Tables
      /\ cached'.globals \subseteq Globals /\ cached'.locals \subseteq Locals
  BY <1>1 DEF IInv, Shape, Tables
<1>3. CASE ~Open
  <2>1. call' = call
    BY <1>3 DEF Sync, Open
  <2>2. (Shape /\ Seen)'
    BY <1>1, <1>2, <1>3, <2>1 DEF IInv, Shape, Seen, Open
  <2>3. (Listed /\ Reasons /\ StillToCome)'
    BY <1>3, <2>1 DEF Listed, Reasons, StillToCome, Open
  <2>4. (AllowedWasGranted /\ NoLostGrant /\ PasswordChangedByRight)'
    BY <2>1 DEF IInv, AllowedWasGranted, NoLostGrant, PasswordChangedByRight, WasGranted, Concerns
  <2> QED BY <2>2, <2>3, <2>4 DEF IInv
<1>4. CASE Open
  <2>1. call' = [call EXCEPT !.saw = Saw(call.saw, cached')] /\ DOMAIN call = Fields
    BY <1>4 DEF Sync, Open, IInv, Shape
  <2>2. /\ DOMAIN call' = Fields /\ call'.saw = Saw(call.saw, cached')
        /\ call'.pc = call.pc /\ call'.user = call.user /\ call'.attributes = call.attributes
        /\ call'.ask = call.ask /\ call'.target = call.target /\ call'.todo = call.todo
        /\ call'.allowed = call.allowed /\ call'.local = call.local
    BY <2>1 DEF Fields
  <2>3. /\ call'.saw.bindings = call.saw.bindings \cup cached'.globals \cup cached'.locals
        /\ call'.saw.roles = call.saw.roles \cup {<<ref, cached'.roles[ref]>> : ref \in Refs}
        /\ call'.saw.secrets = call.saw.secrets \cup
              {<<u, cached'.users[u].password>> : u \in {v \in Users : cached'.users[v] # Absent}}
        /\ call'.saw.steady = call.saw.steady \cap Grants(cached')
    BY <2>2 DEF Saw, Seeing
  <2>4. Shape'
    BY <1>1, <1>2, <2>2 DEF IInv, Shape
  <2>5. Seen'
    BY <2>3 DEF Seen, Grants
  <2>6. \A b : Concerns(b, call') <=> Concerns(b, call)
    BY <2>2 DEF Concerns
  <2>7. WasGranted(call) => WasGranted(call')
    BY <2>2, <2>3, <2>6 DEF WasGranted
  <2>8. \A g : Helps(g)' <=> Helps(g)
    BY <2>2, <2>6 DEF Helps
  <2>9. (Listed /\ Reasons)'
    BY <2>2, <2>3, <2>6, <2>7 DEF IInv, Listed, Reasons, Open
  <2>10. StillToCome'
    BY <2>2, <2>3, <2>8 DEF IInv, StillToCome
  <2>11. (AllowedWasGranted /\ NoLostGrant /\ PasswordChangedByRight)'
    BY <1>4, <2>2 DEF AllowedWasGranted, NoLostGrant, PasswordChangedByRight, Open
  <2> QED BY <2>4, <2>5, <2>9, <2>10, <2>11 DEF IInv
<1> QED BY <1>3, <1>4

-----------------------------------------------------------------------------
(* The theorems.                                                           *)

LEMMA NextIInv == IInv /\ [Next]_vars => IInv'
<1> SUFFICES ASSUME IInv, [Next]_vars PROVE IInv'
  OBVIOUS
<1>1. ASSUME NEW c \in Calls, Arrive(c.ask, c.credential) PROVE IInv'
  BY <1>1, ArriveIInv
<1>2. CASE Handle
  BY <1>2, AuthenticateIInv, AuthorizePathIInv, ListGlobalsIInv, ListLocalsIInv, VisitIInv,
     VisitedIInv, ModifyPasswordIInv, PasswordVerifyIInv, UpdatePasswordIInv DEF Handle
<1>3. ASSUME NEW ref \in Refs, NEW content,
             CreateOrUpdateRole(ref, content) \/ PatchRole(ref, content) \/ DeleteRole(ref)
      PROVE  IInv'
  BY <1>3, RolesIInv
<1>4. CASE Others
  BY <1>4, OthersIInv
<1>5. ASSUME NEW table \in Tables, Sync(table) PROVE IInv'
  BY <1>5, SyncIInv
<1>6. CASE UNCHANGED vars
  <2>1. UNCHANGED <<cached, call>> /\ stored' = stored
    BY <1>6 DEF vars
  <2> QED BY <2>1, ChangeIInv DEF IInv, Shape
<1> QED BY <1>1, <1>2, <1>3, <1>4, <1>5, <1>6 DEF Next

\* The whole invariant, on every reachable state: what the filters of a request saw
\* of the caches covers what they hold now (rbac.go, requestinfo.go).
THEOREM Invariance == Spec => []IInv
<1> QED BY InitIInv, NextIInv, PTL DEF Spec

\* What needs a role is done only for one to whom a binding gave it, in the caches,
\* while it was decided (rbac.go Authorize, visitRulesFor).
THEOREM AllowedAlwaysGranted == Spec => []AllowedWasGranted
<1>1. IInv => AllowedWasGranted
  BY DEF IInv
<1> QED BY <1>1, Invariance, PTL

\* Whoever has had the right all the time is not refused (rbac.go visitRulesFor).
THEOREM GrantNeverLost == Spec => []NoLostGrant
<1>1. IInv => NoLostGrant
  BY DEF IInv
<1> QED BY <1>1, Invariance, PTL

\* A password is changed by right or by knowing it (handler.go ModifyPassword).
THEOREM PasswordAlwaysByRight == Spec => []PasswordChangedByRight
<1>1. IInv => PasswordChangedByRight
  BY DEF IInv
<1> QED BY <1>1, Invariance, PTL

-----------------------------------------------------------------------------
(* The prefix of a workspace.                                              *)

\* What is left of a sequence from a place on.
LEMMA FromThere ==
    ASSUME NEW S, NEW s \in Seq(S), NEW m \in 1 .. Len(s)
    PROVE  /\ SubSeq(s, m, Len(s)) \in Seq(S)
           /\ Len(SubSeq(s, m, Len(s))) = Len(s) - m + 1
           /\ \A i \in 1 .. Len(s) - m + 1 : SubSeq(s, m, Len(s))[i] = s[m + i - 1]
<1>1. Len(s) \in Nat /\ m \in Int /\ m <= Len(s) /\ \A i \in 1 .. Len(s) : s[i] \in S
  BY LenProperties
<1>2. \A i \in m .. Len(s) : s[i] \in S
  BY <1>1
<1>3. SubSeq(s, m, Len(s)) \in Seq(S)
  BY <1>1, <1>2, SubSeqProperties
<1>4. Len(SubSeq(s, m, Len(s))) = Len(s) - m + 1
  BY <1>1, <1>2, SubSeqProperties
<1>5. \A i \in 1 .. Len(s) - m + 1 : SubSeq(s, m, Len(s))[i] = s[m + i - 1]
  BY <1>1, <1>2, SubSeqProperties
<1> QED BY <1>3, <1>4, <1>5

\* A path p that goes on with rest, and q, which goes on with a, b and the rest.
HasBoth(S, p, a, b, q, rest, below) ==
    /\ q \in Seq(S) /\ Len(q) > 3 /\ Len(p) >= 3 /\ q[1] = p[1] /\ q[2] = p[2]
    /\ rest # <<>> /\ below[1] = a /\ below[2] = b /\ Len(below) > 2
    /\ SubSeq(below, 3, Len(below)) = rest

\* Two parts put into a path: what is ahead of them and what follows them stays.
LEMMA PutIn ==
    ASSUME NEW S, NEW p \in Seq(S), NEW n \in {2, 3}, Len(p) > n, NEW a \in S, NEW b \in S,
           NEW q, q = SubSeq(p, 1, n) \o <<a, b>> \o SubSeq(p, n + 1, Len(p)),
           NEW rest, rest = SubSeq(p, n + 1, Len(p)),
           NEW below, below = SubSeq(q, n + 1, Len(q))
    PROVE  HasBoth(S, p, a, b, q, rest, below)
<1> DEFINE front == SubSeq(p, 1, n)
           w == <<a, b>>
           f == front \o w
           end == SubSeq(below, 3, Len(below))
<1>1. Len(p) \in Nat /\ n \in Nat /\ n + 1 \in 1 .. Len(p) /\ n \in 1 .. Len(p) /\ n >= 2
  OBVIOUS
<1>2. /\ front \in Seq(S) /\ Len(front) = n
      /\ \A i \in 1 .. n : front[i] = p[i]
  BY <1>1, SubSeqProperties
<1>3. rest \in Seq(S) /\ Len(rest) = Len(p) - n /\ Len(rest) \in Nat /\ Len(rest) > 0
  BY <1>1, SubSeqProperties
<1>4. w \in Seq(S) /\ Len(w) = 2 /\ w[1] = a /\ w[2] = b
  OBVIOUS
<1>5. q = f \o rest
  OBVIOUS
<1> HIDE DEF front, w
<1>6. /\ f \in Seq(S) /\ Len(f) = Len(front) + Len(w)
      /\ \A i \in 1 .. Len(front) + Len(w) :
            f[i] = IF i <= Len(front) THEN front[i] ELSE w[i - Len(front)]
  <2>1. f \in Seq(S)
    BY <1>2, <1>4, ConcatProperties
  <2>2. Len(f) = Len(front) + Len(w)
    BY <1>2, <1>4, ConcatProperties
  <2>3. \A i \in 1 .. Len(front) + Len(w) :
            f[i] = IF i <= Len(front) THEN front[i] ELSE w[i - Len(front)]
    BY <1>2, <1>4, ConcatProperties
  <2> QED BY <2>1, <2>2, <2>3
<1> HIDE DEF f
<1>7. /\ Len(f) = n + 2
      /\ \A i \in 1 .. n : f[i] = p[i]
      /\ f[n + 1] = a /\ f[n + 2] = b
  <2>1. Len(front) = n /\ Len(w) = 2
    BY <1>2, <1>4
  <2>2. \A i \in 1 .. n + 2 : f[i] = IF i <= n THEN front[i] ELSE w[i - n]
    BY <1>6, <2>1
  <2>3. n + 1 \in 1 .. n + 2 /\ n + 2 \in 1 .. n + 2 /\ (n + 1) - n = 1 /\ (n + 2) - n = 2
    BY <1>1
  <2> QED BY <1>1, <1>2, <1>4, <1>6, <2>1, <2>2, <2>3
<1>8. /\ q \in Seq(S) /\ Len(q) = Len(f) + Len(rest)
      /\ \A i \in 1 .. Len(f) + Len(rest) :
            q[i] = IF i <= Len(f) THEN f[i] ELSE rest[i - Len(f)]
  <2>1. f \o rest \in Seq(S)
    BY <1>3, <1>6, ConcatProperties
  <2>2. Len(f \o rest) = Len(f) + Len(rest)
    BY <1>3, <1>6, ConcatProperties
  <2>3. \A i \in 1 .. Len(f) + Len(rest) :
            (f \o rest)[i] = IF i <= Len(f) THEN f[i] ELSE rest[i - Len(f)]
    BY <1>3, <1>6, ConcatProperties
  <2> QED BY <1>5, <2>1, <2>2, <2>3
<1>9. /\ Len(q) = n + 2 + Len(rest)
      /\ \A i \in 1 .. n + 2 : q[i] = f[i]
      /\ \A i \in 1 .. Len(rest) : q[n + 2 + i] = rest[i]
  <2>1. \A i \in 1 .. n + 2 + Len(rest) :
            q[i] = IF i <= n + 2 THEN f[i] ELSE rest[i - (n + 2)]
    BY <1>7, <1>8
  <2>2. \A i \in 1 .. Len(rest) :
            /\ n + 2 + i \in 1 .. n + 2 + Len(rest) /\ ~(n + 2 + i <= n + 2)
            /\ (n + 2 + i) - (n + 2) = i
    BY <1>1, <1>3
  <2>3. \A i \in 1 .. n + 2 : i \in 1 .. n + 2 + Len(rest) /\ i <= n + 2
    BY <1>1, <1>3
  <2>4. \A i \in 1 .. Len(rest) : q[n + 2 + i] = rest[i]
    BY <2>1, <2>2
  <2>5. \A i \in 1 .. n + 2 : q[i] = f[i]
    BY <2>1, <2>3
  <2> QED BY <1>7, <1>8, <2>4, <2>5
<1>10. /\ below \in Seq(S) /\ Len(below) = 2 + Len(rest)
       /\ \A i \in 1 .. 2 + Len(rest) : below[i] = q[n + i]
  <2>1. n + 1 \in 1 .. Len(q) /\ Len(q) \in 1 .. Len(q) /\ Len(q) - (n + 1) + 1 = 2 + Len(rest)
    BY <1>1, <1>3, <1>9
  <2>2. /\ below \in Seq(S) /\ Len(below) = Len(q) - (n + 1) + 1
        /\ \A i \in 1 .. Len(q) - (n + 1) + 1 : below[i] = q[(n + 1) + i - 1]
    BY <1>8, <2>1, FromThere
  <2>3. \A i \in 1 .. 2 + Len(rest) : (n + 1) + i - 1 = n + i
    BY <1>1, <1>3
  <2> QED BY <2>1, <2>2, <2>3
<1>11. below[1] = a /\ below[2] = b /\ Len(below) > 2
  <2>1. 1 \in 1 .. 2 + Len(rest) /\ 2 \in 1 .. 2 + Len(rest) /\ 2 + Len(rest) > 2
    BY <1>3
  <2>2. below[1] = q[n + 1] /\ below[2] = q[n + 2]
    BY <1>10, <2>1
  <2>3. q[n + 1] = f[n + 1] /\ q[n + 2] = f[n + 2]
    <3>1. n + 1 \in 1 .. n + 2 /\ n + 2 \in 1 .. n + 2
      BY <1>1
    <3> QED BY <1>9, <3>1
  <2> QED BY <1>7, <1>10, <2>1, <2>2, <2>3
<1>12. end = rest
  <2>1. ASSUME NEW k \in Nat, k > 0, NEW l, l = 2 + k
        PROVE  3 \in 1 .. l /\ l - 3 + 1 = k
    BY <2>1
  <2>2. ASSUME NEW s \in Seq(S), 3 \in 1 .. Len(s), Len(s) - 3 + 1 = Len(rest)
        PROVE  /\ SubSeq(s, 3, Len(s)) \in Seq(S)
               /\ Len(SubSeq(s, 3, Len(s))) = Len(rest)
               /\ \A i \in 1 .. Len(rest) : SubSeq(s, 3, Len(s))[i] = s[3 + i - 1]
    BY <2>2, FromThere
  <2>3. /\ end \in Seq(S) /\ Len(end) = Len(rest)
        /\ \A i \in 1 .. Len(rest) : end[i] = below[3 + i - 1]
    <3>1. 3 \in 1 .. Len(below) /\ Len(below) - 3 + 1 = Len(rest)
      BY <1>3, <1>10, <2>1
    <3> QED BY <1>10, <2>2, <3>1
  <2> HIDE DEF end
  <2>4. \A i \in 1 .. Len(rest) : end[i] = rest[i]
    <3> SUFFICES ASSUME NEW i \in 1 .. Len(rest) PROVE end[i] = rest[i]
      OBVIOUS
    <3>1. 3 + i - 1 = 2 + i /\ 2 + i \in 1 .. 2 + Len(rest) /\ n + (2 + i) = n + 2 + i
      BY <1>1, <1>3
    <3>2. end[i] = below[2 + i]
      BY <2>3, <3>1
    <3>3. below[2 + i] = q[n + 2 + i]
      BY <1>10, <3>1
    <3> QED BY <1>9, <3>2, <3>3
  <2> QED BY <1>3, <2>3, <2>4, SeqEqual
<1>13. q[1] = p[1] /\ q[2] = p[2]
  <2>1. 1 \in 1 .. n /\ 2 \in 1 .. n /\ 1 \in 1 .. n + 2 /\ 2 \in 1 .. n + 2
    BY <1>1
  <2> QED BY <1>7, <1>9, <2>1
<1>14. Len(q) > 3 /\ Len(p) >= 3
  BY <1>1, <1>3, <1>9
<1>15. rest # <<>>
  <2>1. Len(rest) # Len(<<>>)
    BY <1>3, EmptySeq
  <2> QED BY <2>1
<1> QED BY <1>8, <1>11, <1>12, <1>13, <1>14, <1>15 DEF HasBoth

\* What is not in a namespace is in the workspace.
Below(scope) == IF scope = "Global" THEN "Workspace" ELSE scope

\* What NewRequestInfo says of the moved path, if info is what it says of the plain one.
Moved(info, path) ==
    [info EXCEPT !.path = path, !.workspace = "w1", !.scope = Below(@)]

\* The fields of what it says, and what requests are.
Told == {"path", "verb", "isResource", "isKubernetes", "group", "namespace", "workspace",
         "resource", "subresource", "name", "scope"}

Asks == [path: Seq(STRING), method: STRING, watch: BOOLEAN, field: STRING,
         workspace: STRING, current: STRING, new: STRING]

\* What NewRequestInfo says at first; c is what it says in either case.
About(path, c, workspace, scope) ==
    [ path |-> path, verb |-> c.verb, isResource |-> TRUE, isKubernetes |-> c.isKubernetes,
      group |-> c.group, namespace |-> c.namespace, workspace |-> workspace,
      resource |-> c.resource, name |-> c.name, subresource |-> c.subresource,
      scope |-> scope ]

\* What differs between what is said of a path below a workspace and without it.
LEMMA MovedRecord ==
    ASSUME NEW p, NEW q, NEW c, NEW scope
    PROVE  About(q, c, "w1", Below(scope)) = Moved(About(p, c, "", scope), q)
<1> DEFINE a == About(q, c, "w1", Below(scope))
           b == About(p, c, "", scope)
<1>1. DOMAIN a = Told /\ DOMAIN b = Told
  BY DEF Told, About
<1>2. a.path = q /\ a.workspace = "w1" /\ a.scope = Below(scope) /\ b.scope = scope
  BY DEF About
<1>3. /\ a.verb = b.verb /\ a.isResource = b.isResource /\ a.isKubernetes = b.isKubernetes
      /\ a.group = b.group /\ a.namespace = b.namespace /\ a.resource = b.resource
      /\ a.subresource = b.subresource /\ a.name = b.name
  BY DEF About
<1>4. a = [f \in Told |-> a[f]]
  BY DEF Told, About
<1> HIDE DEF a, b
<1>5. \A f \in Told \ {"path", "workspace", "scope"} : Moved(b, q)[f] = b[f]
  BY <1>1 DEF Moved, Told
<1>6. Moved(b, q).path = q /\ Moved(b, q).workspace = "w1" /\ Moved(b, q).scope = Below(scope)
  BY <1>1, <1>2 DEF Moved, Told
<1>7. \A f \in Told : Moved(b, q)[f] = a[f]
  BY <1>2, <1>3, <1>5, <1>6 DEF Told
<1>8. Moved(b, q) = [f \in Told |-> Moved(b, q)[f]]
  BY <1>1 DEF Moved, Told
<1>9. Moved(b, q) = a
  BY <1>4, <1>7, <1>8
<1> QED BY <1>9 DEF a, b

\* Two requests that differ in their paths at most, and select no workspace.
Alike(moved, ask) ==
    /\ moved.watch = ask.watch /\ moved.field = ask.field
    /\ moved.workspace = "" /\ ask.workspace = ""

\* What it says in the end.
InTheEnd(info, req) == Collection(Selected(Named(info, req), req))

\* What is done once the path is read does not ask for the workspace, unless
\* the query selects one.
LEMMA MovedInTheEnd ==
    ASSUME NEW ask, NEW moved, NEW info, DOMAIN info = Told, NEW path,
           Alike(moved, ask)
    PROVE  InTheEnd(Moved(info, path), moved) = Moved(InTheEnd(info, ask), path)
<1>1. ASSUME NEW i, DOMAIN i = Told
      PROVE  /\ DOMAIN Moved(i, path) = Told
             /\ Moved(i, path).name = i.name /\ Moved(i, path).verb = i.verb
             /\ \A v : [Moved(i, path) EXCEPT !.verb = v] = Moved([i EXCEPT !.verb = v], path)
  BY <1>1 DEF Moved, Told
<1>2. Named(Moved(info, path), moved) = Moved(Named(info, ask), path)
  <2> DEFINE v == IF ask.watch THEN "watch" ELSE "list"
  <2>1. [Moved(info, path) EXCEPT !.verb = v, !.name = ask.field]
        = Moved([info EXCEPT !.verb = v, !.name = ask.field], path)
    BY DEF Moved, Told
  <2>2. Moved(info, path).name = info.name /\ Moved(info, path).verb = info.verb
    BY <1>1
  <2>3. moved.watch = ask.watch /\ moved.field = ask.field
    BY DEF Alike
  <2>4. CASE info.name # "" \/ info.verb # "get"
    BY <2>2, <2>4 DEF Named
  <2>5. CASE ~(info.name # "" \/ info.verb # "get")
    <3>1. Named(info, ask) = [info EXCEPT !.verb = v, !.name = ask.field]
      BY <2>5 DEF Named
    <3>2. Named(Moved(info, path), moved)
          = [Moved(info, path) EXCEPT !.verb = v, !.name = ask.field]
      BY <2>2, <2>3, <2>5 DEF Named
    <3> QED BY <2>1, <3>1, <3>2
  <2> QED BY <2>4, <2>5
<1>3. DOMAIN Named(info, ask) = Told
  BY DEF Named
<1>4. ASSUME NEW i, NEW r, r.workspace = ""
      PROVE  Selected(i, r) = i
  BY <1>4 DEF Selected
<1>5. ASSUME NEW i, DOMAIN i = Told
      PROVE  Collection(Moved(i, path)) = Moved(Collection(i), path)
  BY <1>1, <1>5 DEF Collection
<1> QED BY <1>2, <1>3, <1>4, <1>5 DEF Alike, InTheEnd

\* A request that names no workspace and no special verb.
IsPlain(ask) ==
    ask.workspace = "" /\ AfterVersion(ask.path)[1] \notin specialVerbs \cup {"workspaces"}

\* The one request has the path of the other below a workspace.
IsMoved(moved, ask) ==
    /\ moved.method = ask.method /\ moved.watch = ask.watch
    /\ moved.field = ask.field /\ moved.workspace = ask.workspace
    /\ AfterVersion(moved.path)[1] = "workspaces"
    /\ AfterWorkspace(AfterVersion(moved.path)) = AfterVersion(ask.path)
    /\ Workspace(AfterVersion(moved.path)) = "w1"
    /\ APIGroup(moved.path) = APIGroup(ask.path)
    /\ IsKubernetesRequest(moved.path) = IsKubernetesRequest(ask.path)

\* A path that is moved keeps its beginning, and goes on below the workspace as it
\* went on before.
LEMMA MovedPath ==
    ASSUME NEW ask \in Asks, IsResourceRequest(ask.path),
           AfterVersion(ask.path)[1] \notin specialVerbs \cup {"workspaces"},
           NEW moved, moved = InWorkspace(ask, "w1")
    PROVE  IsMoved(moved, ask)
<1> DEFINE p == ask.path
           n == IF p[1] \in GrouplessAPIPrefixes THEN 2 ELSE 3
           S == {p[i] : i \in 1 .. Len(p)} \cup {"workspaces", "w1"}
           rest == SubSeq(p, n + 1, Len(p))
           q == SubSeq(p, 1, n) \o <<"workspaces", "w1">> \o rest
           below == SubSeq(q, n + 1, Len(q))
<1>1. p \in Seq(STRING) /\ n \in {2, 3} /\ Len(p) > n
  BY DEF IsResourceRequest, Asks, APIPrefixes
<1>2. AfterVersion(p) = rest
  BY DEF AfterVersion, Drop
<1>3. moved = [ask EXCEPT !.path = q]
  BY DEF InWorkspace, Drop
<1>4. moved.path = q /\ moved.method = ask.method /\ moved.watch = ask.watch
      /\ moved.field = ask.field /\ moved.workspace = ask.workspace
  BY <1>3 DEF Asks
<1>5. p \in Seq(S)
  <2>1. p \in [1 .. Len(p) -> STRING] /\ Len(p) \in Nat
    BY <1>1, LenProperties
  <2>2. p \in [1 .. Len(p) -> S]
    BY <2>1
  <2> QED BY <2>1, <2>2, SeqDef
<1>6. "workspaces" \in S /\ "w1" \in S
  OBVIOUS
<1> HIDE DEF S
<1>7. /\ q \in Seq(S) /\ Len(q) > 3 /\ Len(p) >= 3 /\ q[1] = p[1] /\ q[2] = p[2]
      /\ rest # <<>>
      /\ below[1] = "workspaces" /\ below[2] = "w1" /\ Len(below) > 2
      /\ SubSeq(below, 3, Len(below)) = rest
  <2>1. n \in {2, 3} /\ Len(p) > n
    BY <1>1
  <2> HIDE DEF n
  <2>2. /\ rest = SubSeq(p, n + 1, Len(p)) /\ below = SubSeq(q, n + 1, Len(q))
        /\ q = SubSeq(p, 1, n) \o <<"workspaces", "w1">> \o SubSeq(p, n + 1, Len(p))
    OBVIOUS
  <2> HIDE DEF q, rest, below, p
  <2>3. HasBoth(S, p, "workspaces", "w1", q, rest, below)
    BY <1>5, <1>6, <2>1, <2>2, PutIn
  <2> QED BY <2>3 DEF HasBoth
<1>8. AfterVersion(q) = below
  BY <1>7 DEF AfterVersion, Drop
<1> HIDE DEF q, rest, below
<1>9. AfterWorkspace(below) = rest /\ Workspace(below) = "w1"
  BY <1>7 DEF AfterWorkspace, Drop, Workspace, Part
<1>10. APIGroup(q) = APIGroup(p) /\ IsKubernetesRequest(q) = IsKubernetesRequest(p)
  <2> HIDE DEF p
  <2>1. APIGroup(q) = APIGroup(p)
    BY <1>7 DEF APIGroup
  <2>2. Len(q) >= 3 /\ Len(q) >= 1 /\ Len(p) >= 1
    <3>1. Len(p) \in Nat /\ Len(q) \in Nat
      BY <1>5, <1>7, LenProperties
    <3> QED BY <1>7, <3>1
  <2>3. Part(q, 1) = p[1] /\ Part(p, 1) = p[1]
    BY <1>7, <2>2 DEF Part
  <2> QED BY <1>7, <2>1, <2>2, <2>3 DEF IsKubernetesRequest
<1> QED BY <1>2, <1>4, <1>7, <1>8, <1>9, <1>10 DEF IsMoved

\* What a request is about, below a workspace and without it.
LEMMA MovedResource ==
    ASSUME NEW ask, IsPlain(ask), NEW moved, IsMoved(moved, ask)
    PROVE  Resource(moved) = Moved(Resource(ask), moved.path)
<1> DEFINE rest == AfterVersion(ask.path)
           below == AfterVersion(moved.path)
           parts == AfterNamespace(rest)
           ns == Namespace(rest)
           verb == VerbOfMethod(ask.method)
           scope == resolveResourceScope(ns, "")
           c == [ verb |-> verb, isKubernetes |-> IsKubernetesRequest(ask.path),
                  group |-> APIGroup(ask.path), namespace |-> ns, resource |-> <<parts[1]>>,
                  name |-> Part(parts, 2),
                  subresource |-> IF verb \in specialVerbsNoSubresources THEN ""
                                  ELSE Part(parts, 3) ]
           plain == About(ask.path, c, "", scope)
           lower == About(moved.path, c, "w1", resolveResourceScope(ns, "w1"))
<1>1. /\ moved.method = ask.method /\ moved.watch = ask.watch
      /\ moved.field = ask.field /\ moved.workspace = ask.workspace
      /\ AfterWorkspace(below) = rest /\ Workspace(below) = "w1"
      /\ below[1] = "workspaces"
      /\ APIGroup(moved.path) = APIGroup(ask.path)
      /\ IsKubernetesRequest(moved.path) = IsKubernetesRequest(ask.path)
  BY DEF IsMoved
<1>2. rest[1] \notin specialVerbs /\ rest[1] # "workspaces"
  BY DEF IsPlain
<1>3. AfterWorkspace(rest) = rest /\ Workspace(rest) = ""
  BY <1>2 DEF AfterWorkspace, Workspace
<1>4. below[1] \notin specialVerbs
  BY <1>1 DEF specialVerbs
<1>5. Resource(ask) = InTheEnd(plain, ask)
  BY <1>2, <1>3 DEF Resource, About, InTheEnd
<1>6. Resource(moved) = InTheEnd(lower, moved)
  BY <1>1, <1>4 DEF Resource, About, InTheEnd
<1>7. resolveResourceScope(ns, "w1") = Below(scope)
  BY DEF resolveResourceScope, Below
<1> HIDE DEF c, ns, scope
<1>8. lower = Moved(plain, moved.path) /\ DOMAIN plain = Told
  <2> DEFINE p == ask.path
             q == moved.path
  <2>1. lower = About(q, c, "w1", Below(scope)) /\ plain = About(p, c, "", scope)
    BY <1>7
  <2> HIDE DEF lower, plain, p, q
  <2>2. lower = Moved(plain, q)
    BY <2>1, MovedRecord
  <2>3. DOMAIN plain = Told
    BY <2>1 DEF About, Told
  <2> QED BY <2>2, <2>3 DEF q
<1> HIDE DEF plain, lower
<1>9. Alike(moved, ask)
  BY <1>1 DEF Alike, IsPlain
<1>10. InTheEnd(Moved(plain, moved.path), moved) = Moved(InTheEnd(plain, ask), moved.path)
  <2> DEFINE q == moved.path
  <2> HIDE DEF q
  <2>1. InTheEnd(Moved(plain, q), moved) = Moved(InTheEnd(plain, ask), q)
    BY <1>8, <1>9, MovedInTheEnd
  <2> QED BY <2>1 DEF q
<1> QED BY <1>5, <1>6, <1>8, <1>10

\* A request in hand is one of those that are made.
Made == call = Idle \/ (DOMAIN call = Fields /\ \E c \in Calls : call.ask = c.ask)

\* No step changes what is asked.
LEMMA NextMade == Made /\ [Next]_vars => Made'
<1> SUFFICES ASSUME Made, [Next]_vars PROVE Made'
  OBVIOUS
<1>1. ASSUME NEW c \in Calls, Arrive(c.ask, c.credential) PROVE Made'
  <2> DEFINE new == [ pc |-> "authenticate", ask |-> c.ask, credential |-> c.credential,
                      attributes |-> NonResource(c.ask), user |-> Anonymous, todo |-> {},
                      allowed |-> FALSE, local |-> FALSE, target |-> "", outcome |-> "",
                      saw |-> Seeing(cached) ]
  <2>1. \/ \E info : call' = [new EXCEPT !.attributes = info]
        \/ call' = [new EXCEPT !.pc = "done", !.outcome = "internal error"]
    BY <1>1 DEF Arrive
  <2>2. DOMAIN call' = Fields /\ call'.ask = c.ask
    BY <2>1 DEF Fields
  <2> QED BY <2>2 DEF Made
<1>2. ASSUME DOMAIN call = Fields => DOMAIN call' = Fields /\ call'.ask = call.ask,
             call # Idle
      PROVE  Made'
  BY <1>2 DEF Made
<1>3. ASSUME NEW pc, pc # "idle", call.pc = pc
      PROVE  call # Idle
  BY <1>3 DEF Idle
<1>4. ASSUME NEW pc, GoTo(pc) \/ Answer(pc), DOMAIN call = Fields
      PROVE  DOMAIN call' = Fields /\ call'.ask = call.ask
  BY <1>4 DEF GoTo, Answer, Fields
<1>5. CASE Handle
  <2>1. call # Idle
    BY <1>5, <1>3 DEF Handle, Step, Authenticate, AuthorizePath, ListGlobals, ListLocals, Visit,
       Visited, ModifyPassword, PasswordVerify, UpdatePassword
  <2>2. SUFFICES ASSUME DOMAIN call = Fields
                 PROVE  DOMAIN call' = Fields /\ call'.ask = call.ask
    BY <2>1, <1>2
  <2>3. CASE Authenticate
    BY <2>2, <2>3, <1>4 DEF Authenticate, Fields
  <2>4. CASE AuthorizePath
    BY <2>2, <2>4, <1>4 DEF AuthorizePath, Serve
  <2>5. CASE ListGlobals \/ ListLocals
    BY <2>2, <2>5 DEF ListGlobals, ListLocals, Fields
  <2>6. CASE Visit
    BY <2>2, <2>6 DEF Visit, Fields
  <2>7. CASE Visited
    BY <2>2, <2>7, <1>4 DEF Visited, Decide, Serve
  <2>8. CASE ModifyPassword
    BY <2>2, <2>8 DEF ModifyPassword, Fields
  <2>9. CASE PasswordVerify
    BY <2>2, <2>9, <1>4 DEF PasswordVerify
  <2>10. CASE UpdatePassword
    BY <2>2, <2>10, <1>4 DEF UpdatePassword
  <2> QED BY <1>5, <2>3, <2>4, <2>5, <2>6, <2>7, <2>8, <2>9, <2>10 DEF Handle
<1>6. ASSUME UNCHANGED call PROVE Made'
  BY <1>6 DEF Made
<1>7. ASSUME NEW ref \in Refs, NEW content,
             CreateOrUpdateRole(ref, content) \/ PatchRole(ref, content) \/ DeleteRole(ref)
      PROVE  Made'
  BY <1>6, <1>7 DEF CreateOrUpdateRole, PatchRole, DeleteRole, Change
<1>8. CASE Others
  BY <1>6, <1>8 DEF Others, Change
<1>9. ASSUME NEW table \in Tables, Sync(table) PROVE Made'
  <2>1. CASE call.pc \in {"idle", "done"}
    BY <2>1, <1>6, <1>9 DEF Sync
  <2>2. CASE call.pc \notin {"idle", "done"}
    <3>1. call # Idle /\ call' = [call EXCEPT !.saw = Saw(@, cached')]
      BY <2>2, <1>3, <1>9 DEF Sync
    <3> QED BY <3>1, <1>2 DEF Fields
  <2> QED BY <2>1, <2>2
<1>10. CASE UNCHANGED vars
  BY <1>6, <1>10 DEF vars
<1> QED BY <1>1, <1>5, <1>7, <1>8, <1>9, <1>10 DEF Next

\* For every request that is made: below a workspace's prefix its path is about the
\* same resource as without it (requestinfo.go NewRequestInfo).
THEOREM AlwaysSameInWorkspace == Spec => []SameInWorkspace
<1>1. Init => Made
  BY DEF Init, Made
<1>2. Made => SameInWorkspace
  <2> SUFFICES ASSUME Made, call # Idle, call.ask.workspace = "",
                      IsResourceRequest(call.ask.path),
                      AfterVersion(call.ask.path)[1] \notin specialVerbs \cup {"workspaces"}
               PROVE  Resource(InWorkspace(call.ask, "w1"))
                      = Moved(Resource(call.ask), Resource(InWorkspace(call.ask, "w1")).path)
    BY DEF SameInWorkspace, Moved, Below
  <2>1. call.ask \in Asks
    BY CallsAssumption DEF Made, Asks
  <2> DEFINE ask == call.ask
             moved == InWorkspace(ask, "w1")
  <2>2. IsMoved(moved, ask)
    BY <2>1, MovedPath
  <2>3. IsPlain(ask)
    BY DEF IsPlain
  <2> HIDE DEF ask, moved
  <2>4. Resource(moved) = Moved(Resource(ask), moved.path)
    BY <2>2, <2>3, MovedResource
  <2>5. "path" \in DOMAIN Resource(ask)
    BY DEF Resource, Collection, Selected, Named
  <2>6. Resource(moved).path = moved.path
    BY <2>4, <2>5 DEF Moved
  <2> QED BY <2>4, <2>6 DEF ask, moved
<1> QED BY <1>1, <1>2, NextMade, PTL DEF Spec

=============================================================================
