------------------------- MODULE GlobalRoles_proofs -------------------------
(***************************************************************************)
(* For any users, roles, handlers and bounds: a user whose requests came   *)
(* one after the other, and found the caches up to date, has the roles     *)
(* that the last answers promised.                                         *)
(***************************************************************************)
EXTENDS GlobalRoles, FiniteSetTheorems, TLAPS

\* What a user's bindings bs of a kind, the role last promised and its request c
\* (Idle for none) have to do with each other.
Place(c, kind, bs, promise) ==
    /\ \A a, b \in bs : a = b
    /\ c.pc = "replace" /\ c.kind = kind => c.todo = bs
    /\ c.pc = "create" /\ c.kind = kind => bs = {}
    /\ (c.pc \in {"replace", "create"} => c.kind # kind) /\ promise # "unknown" =>
          {b.role : b \in bs} = {promise} \ {"none"}

InPlace(c, kind, u) == Place(c, kind, Of(bound[kind], u), granted[kind][u])

Busy(h, u) == call[h] # Idle /\ call[h].user = u

\* A user without confusion has one request at a time, and it is in place.
Known(u, kind) ==
    /\ \A g, h \in Handlers : Busy(g, u) /\ Busy(h, u) => g = h
    /\ \A h \in Handlers : Busy(h, u) => Place(call[h], kind, Of(bound[kind], u), granted[kind][u])
    /\ Quiet(u) => Place(Idle, kind, Of(bound[kind], u), granted[kind][u])

Roles == GlobalRoles \cup ClusterRoles

\* A request has its fields, and lists the user's bindings.
IsCall(c) ==
    /\ DOMAIN c = {"pc", "kind", "user", "role", "todo"}
    /\ c.pc \in {"check", "list", "replace", "create"}
    /\ c.kind \in Kinds /\ c.user \in Users /\ c.role \in Roles \cup {"none"}
    /\ c.pc = "check" => c.kind = "global" /\ c.role \in Roles
    /\ c.pc = "create" => c.role \in Roles
    /\ \A b \in c.todo : b.user = c.user /\ b.role # "none"

\* The bindings of users give roles.
Shape ==
    /\ DOMAIN bound = Kinds /\ DOMAIN granted = Kinds
    /\ \A k \in Kinds : DOMAIN granted[k] = Users
    /\ \A k \in Kinds : \A b \in bound[k] \cup cached[k] : b.role # "none"
    /\ DOMAIN cached = Kinds
    /\ DOMAIN call = Handlers /\ call = [h \in Handlers |-> call[h]]
    /\ \A h \in Handlers : call[h] = Idle \/ IsCall(call[h])

IInv == Shape /\ \A u \in Users \ blurred, kind \in Kinds : Known(u, kind)

\* Fields of requests and of none.
LEMMA IdlePc == Idle.pc = "idle" /\ \A c : IsCall(c) => c # Idle
BY DEF Idle, IsCall

\* A promise of a role that exists.
LEMMA RolesAreNoWords == \A r \in Roles : r # "none" /\ r # "unknown"
BY RolesAssumption DEF Roles

\* A user is known as before if none of its requests, bindings and promises changed.
LEMMA SameKnown ==
    ASSUME NEW u \in Users, NEW kind \in Kinds, Known(u, kind),
           Of(bound'[kind], u) = Of(bound[kind], u), granted'[kind][u] = granted[kind][u],
           \A h \in Handlers : call'[h] = call[h] \/ (~Busy(h, u) /\ (call'[h] = Idle \/ call'[h].user # u))
    PROVE  Known(u, kind)'
<1>1. \A h \in Handlers : Busy(h, u)' => call'[h] = call[h] /\ Busy(h, u)
  BY DEF Busy
<1>2. Quiet(u)' => Quiet(u)
  BY DEF Quiet, Busy
<1>3. /\ \A h \in Handlers :
            Busy(h, u)' => Place(call'[h], kind, Of(bound'[kind], u), granted'[kind][u])
      /\ Quiet(u)' => Place(Idle, kind, Of(bound'[kind], u), granted'[kind][u])
  BY <1>1, <1>2 DEF Known
<1> QED BY <1>1, <1>3 DEF Known

\* Steps that touch no request and no binding.
LEMMA OtherStep ==
    ASSUME IInv, UNCHANGED <<bound, call, granted, blurred>>, DOMAIN cached' = Kinds,
           \A k \in Kinds : \A b \in cached'[k] : b.role # "none"
    PROVE  IInv'
<1>1. Shape'
  BY DEF IInv, Shape, IsCall
<1>2. \A u \in Users \ blurred', kind \in Kinds : Known(u, kind)'
  BY SameKnown DEF IInv
<1> QED BY <1>1, <1>2 DEF IInv

\* What a step of user u's request does not do.
OthersSame(u) ==
    /\ DOMAIN bound' = Kinds /\ DOMAIN granted' = Kinds
    /\ \A k \in Kinds : DOMAIN granted'[k] = Users
    /\ \A k \in Kinds : \A b \in bound'[k] \cup cached'[k] : b.role # "none"
    /\ UNCHANGED cached
    /\ \A v \in Users, k \in Kinds :
          v # u => Of(bound'[k], v) = Of(bound[k], v) /\ granted'[k][v] = granted[k][v]

\* One request goes on, from c to d: in place if it was so.
LEMMA HandlerStep ==
    ASSUME IInv, NEW h \in Handlers, NEW c, c = call[h], IsCall(c), NEW d,
           d = Idle \/ (IsCall(d) /\ d.user = c.user),
           Goto(h, d), blurred \subseteq blurred', OthersSame(c.user),
           \A k \in Kinds : c.user \notin blurred' /\ InPlace(c, k, c.user)
              => Place(d, k, Of(bound'[k], c.user), granted'[k][c.user])
    PROVE  IInv'
<1>1. call'[h] = d /\ \A g \in Handlers : g # h => call'[g] = call[g]
  BY DEF IInv, Shape, Goto
<1>2. Shape'
  <2>1. DOMAIN call' = Handlers /\ call' = [g \in Handlers |-> call'[g]]
    BY DEF IInv, Shape, Goto
  <2>2. \A g \in Handlers : call'[g] = Idle \/ IsCall(call'[g])
    BY <1>1 DEF IInv, Shape
  <2> QED BY <2>1, <2>2 DEF IInv, Shape, IsCall, OthersSame
<1>3. ASSUME NEW u \in Users \ blurred', NEW k \in Kinds, u # c.user PROVE Known(u, k)'
  <2>1. Known(u, k) /\ ~Busy(h, u) /\ (call'[h] = Idle \/ call'[h].user # u)
    BY <1>1, <1>3 DEF IInv, Busy
  <2>2. Of(bound'[k], u) = Of(bound[k], u) /\ granted'[k][u] = granted[k][u]
    BY <1>3 DEF OthersSame
  <2> QED BY <1>1, <1>3, <2>1, <2>2, SameKnown
<1>4. ASSUME NEW u \in Users \ blurred', NEW k \in Kinds, u = c.user PROVE Known(u, k)'
  <2>1. Known(u, k) /\ Busy(h, u)
    BY <1>4, IdlePc DEF IInv, Busy
  <2>2. \A g \in Handlers : g # h => ~Busy(g, u)
    BY <2>1 DEF Known
  <2>3. Place(d, k, Of(bound'[k], u), granted'[k][u])
    BY <1>4, <2>1 DEF Known, InPlace
  <2>4. \A g \in Handlers : Busy(g, u)' => g = h
    BY <1>1, <2>2 DEF Busy
  <2>5. Quiet(u)' => d = Idle
    BY <1>1, <1>4 DEF Quiet
  <2> QED BY <1>1, <2>3, <2>4, <2>5 DEF Known
<1> QED BY <1>2, <1>3, <1>4 DEF IInv

\* A request begins when its user has none, or the user is blurred.
LEMMA BeginStep ==
    ASSUME IInv, NEW h \in Handlers, NEW u \in Users, NEW kind \in Kinds, NEW role, NEW pc,
           Begin(h, kind, u, role, pc), pc \in {"check", "list"},
           role \in Roles \cup {"none"}, pc = "check" => kind = "global" /\ role \in Roles
    PROVE  IInv'
<1> DEFINE d == [pc |-> pc, kind |-> kind, user |-> u, role |-> role, todo |-> {}]
<1>1. /\ call[h] = Idle /\ Goto(h, d)
      /\ UNCHANGED <<bound, cached, granted>>
      /\ blurred \subseteq blurred'
      /\ u \notin blurred' => \A g \in Handlers : ~Busy(g, u)
  BY DEF Begin, Busy
<1>2. IsCall(d) /\ d.user = u /\ d.pc = pc
  BY DEF IsCall
<1> HIDE DEF d
<1>3. call'[h] = d /\ \A g \in Handlers : g # h => call'[g] = call[g]
  BY <1>1 DEF IInv, Shape, Goto
<1>4. Shape'
  <2>1. DOMAIN call' = Handlers /\ call' = [g \in Handlers |-> call'[g]]
    BY <1>1 DEF IInv, Shape, Goto
  <2>2. \A g \in Handlers : call'[g] = Idle \/ IsCall(call'[g])
    BY <1>2, <1>3 DEF IInv, Shape
  <2> QED BY <1>1, <2>1, <2>2 DEF IInv, Shape, IsCall
<1>5. ASSUME NEW v \in Users \ blurred', NEW k \in Kinds, v # u PROVE Known(v, k)'
  <2>1. Known(v, k) /\ ~Busy(h, v)
    BY <1>1, <1>5 DEF IInv, Busy
  <2> QED BY <1>1, <1>2, <1>3, <1>5, <2>1, SameKnown
<1>6. ASSUME u \notin blurred', NEW k \in Kinds PROVE Known(u, k)'
  <2>1. \A g \in Handlers : ~Busy(g, u)
    BY <1>1, <1>6
  <2>2. Place(Idle, k, Of(bound[k], u), granted[k][u])
    BY <1>1, <1>6, <2>1 DEF IInv, Known, Quiet, Busy
  <2>3. Place(d, k, Of(bound'[k], u), granted'[k][u])
    BY <1>1, <1>2, <2>2, IdlePc DEF Place
  <2>4. \A g \in Handlers : Busy(g, u)' => g = h
    BY <1>3, <2>1 DEF Busy
  <2>5. ~Quiet(u)'
    BY <1>2, <1>3, IdlePc DEF Quiet
  <2> QED BY <1>3, <2>3, <2>4, <2>5 DEF Known
<1> QED BY <1>4, <1>5, <1>6 DEF IInv

\* What the end of a request promises: the bindings bs after it.
Promises(bs, promise) ==
    /\ \A a, b \in bs : a = b
    /\ promise # "unknown" => {b.role : b \in bs} = {promise} \ {"none"}

LEMMA EndStep ==
    ASSUME IInv, NEW h \in Handlers, NEW c, c = call[h], IsCall(c), NEW promise, End(h, promise),
           blurred \subseteq blurred', DOMAIN bound' = Kinds, UNCHANGED cached,
           \A k \in Kinds : \A b \in bound'[k] : b.role # "none",
           \A k \in Kinds, u \in Users : k # c.kind \/ u # c.user =>
              Of(bound'[k], u) = Of(bound[k], u),
           c.user \notin blurred' /\ InPlace(c, c.kind, c.user) =>
              Promises(Of(bound'[c.kind], c.user), promise)
    PROVE  IInv'
<1>1. c.user \in Users /\ c.kind \in Kinds /\ Goto(h, Idle)
  BY DEF IsCall, End
<1>2. /\ DOMAIN granted' = Kinds /\ \A k \in Kinds : DOMAIN granted'[k] = Users
      /\ \A k \in Kinds, u \in Users :
            granted'[k][u] = IF k = c.kind /\ u = c.user THEN promise ELSE granted[k][u]
  BY <1>1 DEF End, IInv, Shape
<1>3. OthersSame(c.user)
  BY <1>1, <1>2 DEF OthersSame, IInv, Shape
<1>4. ASSUME NEW k \in Kinds, c.user \notin blurred', InPlace(c, k, c.user)
      PROVE  Place(Idle, k, Of(bound'[k], c.user), granted'[k][c.user])
  <2>1. CASE k = c.kind
    BY <1>1, <1>2, <1>4, <2>1, IdlePc DEF Place, Promises
  <2>2. CASE k # c.kind
    <3>1. Of(bound'[k], c.user) = Of(bound[k], c.user) /\ granted'[k][c.user] = granted[k][c.user]
      BY <1>1, <1>2, <2>2
    <3>2. Place(Idle, k, Of(bound[k], c.user), granted[k][c.user])
      BY <1>4, <2>2, IdlePc DEF Place, InPlace
    <3> QED BY <3>1, <3>2
  <2> QED BY <2>1, <2>2
<1> QED BY <1>1, <1>3, <1>4, HandlerStep

\* Each step of a request keeps it in place.
LEMMA CheckIInv == ASSUME IInv, NEW h \in Handlers, Check(h) PROVE IInv'
<1>0. PICK c : c = call[h]
  OBVIOUS
<1>1. /\ c.pc = "check" /\ UNCHANGED <<bound, cached>> /\ blurred \subseteq blurred'
      /\ c.user \notin blurred' => ListGlobalRoleBindings(c.user) = Of(bound["global"], c.user)
  BY <1>0 DEF Check
<1>2. IsCall(c) /\ c.kind = "global" /\ c.role \in Roles /\ c.user \in Users
  BY <1>0, <1>1, IdlePc DEF IInv, Shape, IsCall
<1>3. PICK role \in GetGlobalRoleOfUser(c.user) :
         IF role = c.role THEN End(h, c.role)
         ELSE \/ Goto(h, [c EXCEPT !.pc = "list"]) /\ UNCHANGED granted
              \/ End(h, granted["global"][c.user])
  BY <1>0 DEF Check
<1>a. DOMAIN bound' = Kinds /\ \A k \in Kinds : \A b \in bound'[k] : b.role # "none"
  BY <1>1 DEF IInv, Shape
<1>4. CASE role = c.role
  <2>1. ASSUME c.user \notin blurred', InPlace(c, c.kind, c.user)
        PROVE  Promises(Of(bound'[c.kind], c.user), c.role)
    <3> DEFINE bs == Of(bound["global"], c.user)
    <3>1. \A a, b \in bs : a = b
      BY <1>2, <2>1 DEF Place, InPlace
    <3>2. PICK b \in bs : b.role = c.role
      <4>1. c.role # "none"
        BY <1>2, RolesAreNoWords
      <4>2. ListGlobalRoleBindings(c.user) = bs
        BY <1>1, <2>1
      <4> QED BY <1>4, <4>1, <4>2 DEF GetGlobalRoleOfUser
    <3>3. c.role # "none" /\ Of(bound'[c.kind], c.user) = bs
      BY <1>1, <1>2, RolesAreNoWords
    <3> HIDE DEF bs
    <3> QED BY <3>1, <3>2, <3>3 DEF Promises
  <2>2. End(h, c.role)
    BY <1>3, <1>4
  <2> QED BY <1>0, <1>1, <1>2, <1>a, <2>1, <2>2, EndStep
<1>5. CASE End(h, granted["global"][c.user])
  <2>1. ASSUME InPlace(c, c.kind, c.user)
        PROVE  Promises(Of(bound'[c.kind], c.user), granted["global"][c.user])
    BY <1>1, <1>2, <2>1 DEF Place, InPlace, Promises
  <2> QED BY <1>0, <1>1, <1>2, <1>5, <1>a, <2>1, EndStep
<1>6. CASE Goto(h, [c EXCEPT !.pc = "list"]) /\ UNCHANGED granted
  <2> DEFINE d == [c EXCEPT !.pc = "list"]
  <2>1. IsCall(d) /\ d.user = c.user /\ d.pc = "list"
    BY <1>2 DEF IsCall
  <2>2. Goto(h, d)
    BY <1>6
  <2> HIDE DEF d
  <2>3. \A k \in Kinds : InPlace(c, k, c.user)
          => Place(d, k, Of(bound'[k], c.user), granted'[k][c.user])
    BY <1>1, <1>6, <2>1 DEF Place, InPlace
  <2>4. OthersSame(c.user)
    BY <1>1, <1>6 DEF OthersSame, IInv, Shape
  <2> QED BY <1>0, <1>1, <1>2, <2>1, <2>2, <2>3, <2>4, HandlerStep
<1> QED BY <1>3, <1>4, <1>5, <1>6

LEMMA ListIInv == ASSUME IInv, NEW h \in Handlers, ListBindings(h) PROVE IInv'
<1>0. PICK c : c = call[h]
  OBVIOUS
<1>1. PICK listed : listed = IF c.kind = "global" THEN ListGlobalRoleBindings(c.user)
                             ELSE ListClusterRoleBindings(c.user)
  OBVIOUS
<1> DEFINE d == [c EXCEPT !.pc = "replace", !.todo = listed]
<1>2. /\ c.pc = "list" /\ Goto(h, d) /\ UNCHANGED <<bound, cached, granted>>
      /\ blurred \subseteq blurred'
      /\ c.user \notin blurred' => listed = Of(bound[c.kind], c.user)
  BY <1>0, <1>1 DEF ListBindings
<1>3. IsCall(c) /\ \A b \in listed : b.user = c.user /\ b.role # "none"
  BY <1>0, <1>1, <1>2, IdlePc
     DEF IInv, Shape, ListGlobalRoleBindings, ListClusterRoleBindings, Of, Kinds
<1>4. IsCall(d) /\ d.user = c.user /\ d.pc = "replace" /\ d.kind = c.kind /\ d.todo = listed
  BY <1>3 DEF IsCall
<1> HIDE DEF d
<1>5. ASSUME NEW k \in Kinds, c.user \notin blurred', InPlace(c, k, c.user)
      PROVE  Place(d, k, Of(bound'[k], c.user), granted'[k][c.user])
  BY <1>2, <1>4, <1>5 DEF Place, InPlace
<1>6. OthersSame(c.user)
  BY <1>2 DEF OthersSame, IInv, Shape
<1> QED BY <1>0, <1>2, <1>3, <1>4, <1>5, <1>6, HandlerStep

LEMMA ReplaceOneIInv == ASSUME IInv, NEW h \in Handlers, ReplaceOne(h) PROVE IInv'
<1>0. PICK c : c = call[h]
  OBVIOUS
<1>1. c.pc = "replace" /\ UNCHANGED <<cached, blurred>>
  BY <1>0 DEF ReplaceOne
<1>2. IsCall(c) /\ c.kind \in Kinds /\ c.user \in Users
  BY <1>0, <1>1, IdlePc DEF IInv, Shape, IsCall
<1>3. PICK b \in c.todo :
         IF b.role = c.role
         THEN End(h, c.role) /\ UNCHANGED bound
         ELSE /\ bound' = [bound EXCEPT ![c.kind] = @ \ {b}]
              /\ Goto(h, [c EXCEPT !.todo = @ \ {b}])
              /\ UNCHANGED granted
  BY <1>0 DEF ReplaceOne
<1>4. b.user = c.user /\ b.role # "none"
  BY <1>2 DEF IsCall
<1>5. CASE b.role = c.role
  <2>1. End(h, c.role) /\ UNCHANGED bound
    BY <1>3, <1>5
  <2>2. ASSUME InPlace(c, c.kind, c.user)
        PROVE  Promises(Of(bound'[c.kind], c.user), c.role)
    <3>1. b \in Of(bound[c.kind], c.user) /\ \A x, y \in Of(bound[c.kind], c.user) : x = y
      BY <1>1, <2>2 DEF Place, InPlace
    <3>2. Of(bound'[c.kind], c.user) = {b}
      BY <2>1, <3>1
    <3>3. {x.role : x \in {b}} = {c.role} \ {"none"}
      BY <1>4, <1>5
    <3> QED BY <3>2, <3>3 DEF Promises
  <2>3. DOMAIN bound' = Kinds /\ \A k \in Kinds : \A x \in bound'[k] : x.role # "none"
    BY <2>1 DEF IInv, Shape
  <2> QED BY <1>0, <1>1, <1>2, <2>1, <2>2, <2>3, EndStep
<1>6. CASE b.role # c.role
  <2> DEFINE d == [c EXCEPT !.todo = @ \ {b}]
  <2>1. /\ bound' = [bound EXCEPT ![c.kind] = @ \ {b}]
        /\ Goto(h, d) /\ UNCHANGED granted
    BY <1>3, <1>6
  <2>2. /\ IsCall(d) /\ d.user = c.user /\ d.pc = "replace" /\ d.kind = c.kind
        /\ d.todo = c.todo \ {b}
    BY <1>1, <1>2 DEF IsCall
  <2> HIDE DEF d
  <2>3. /\ DOMAIN bound' = Kinds
        /\ \A k \in Kinds : bound'[k] = IF k = c.kind THEN bound[k] \ {b} ELSE bound[k]
    BY <2>1, <1>2 DEF IInv, Shape
  <2>4. OthersSame(c.user)
    <3>1. \A k \in Kinds, v \in Users : v # c.user => Of(bound'[k], v) = Of(bound[k], v)
      BY <1>4, <2>3 DEF Of
    <3> QED BY <1>1, <2>1, <2>3, <3>1 DEF OthersSame, IInv, Shape
  <2>5. ASSUME NEW k \in Kinds, InPlace(c, k, c.user)
        PROVE  Place(d, k, Of(bound'[k], c.user), granted'[k][c.user])
    <3>1. CASE k = c.kind
      <4>1. b \in Of(bound[k], c.user) /\ \A x, y \in Of(bound[k], c.user) : x = y
        BY <1>1, <2>5, <3>1 DEF Place, InPlace
      <4>2. Of(bound'[k], c.user) = {}
        BY <2>3, <3>1, <4>1 DEF Of
      <4>3. d.todo = {}
        BY <1>1, <2>2, <2>5, <3>1, <4>1 DEF Place, InPlace
      <4> QED BY <2>2, <3>1, <4>2, <4>3 DEF Place
    <3>2. CASE k # c.kind
      <4>1. Of(bound'[k], c.user) = Of(bound[k], c.user)
        BY <2>3, <3>2
      <4> QED BY <2>1, <2>2, <2>5, <3>2, <4>1 DEF Place, InPlace
    <3> QED BY <3>1, <3>2
  <2> QED BY <1>0, <1>1, <1>2, <2>1, <2>2, <2>4, <2>5, HandlerStep
<1> QED BY <1>5, <1>6

LEMMA ReplaceDoneIInv == ASSUME IInv, NEW h \in Handlers, ReplaceDone(h) PROVE IInv'
<1>0. PICK c : c = call[h]
  OBVIOUS
<1>1. /\ c.pc = "replace" /\ c.todo = {} /\ UNCHANGED <<bound, cached, blurred>>
      /\ IF c.role = "none" THEN End(h, c.role)
         ELSE Goto(h, [c EXCEPT !.pc = "create"]) /\ UNCHANGED granted
  BY <1>0 DEF ReplaceDone
<1>2. IsCall(c)
  BY <1>0, <1>1, IdlePc DEF IInv, Shape
<1>3. CASE c.role = "none"
  <2>1. ASSUME InPlace(c, c.kind, c.user) PROVE Promises(Of(bound'[c.kind], c.user), c.role)
    BY <1>1, <1>3, <2>1 DEF InPlace, Place, Promises
  <2>2. DOMAIN bound' = Kinds /\ \A k \in Kinds : \A x \in bound'[k] : x.role # "none"
    BY <1>1 DEF IInv, Shape
  <2> QED BY <1>0, <1>1, <1>2, <1>3, <2>1, <2>2, EndStep
<1>4. CASE c.role # "none"
  <2> DEFINE d == [c EXCEPT !.pc = "create"]
  <2>1. Goto(h, d) /\ UNCHANGED granted
    BY <1>1, <1>4
  <2>2. IsCall(d) /\ d.user = c.user /\ d.pc = "create" /\ d.kind = c.kind
    BY <1>2, <1>4 DEF IsCall
  <2> HIDE DEF d
  <2>3. \A k \in Kinds : InPlace(c, k, c.user)
          => Place(d, k, Of(bound'[k], c.user), granted'[k][c.user])
    BY <1>1, <2>1, <2>2 DEF Place, InPlace
  <2>4. OthersSame(c.user)
    BY <1>1, <2>1 DEF OthersSame, IInv, Shape
  <2> QED BY <1>0, <1>1, <1>2, <2>1, <2>2, <2>3, <2>4, HandlerStep
<1> QED BY <1>3, <1>4

LEMMA CreateIInv == ASSUME IInv, NEW h \in Handlers, CreateBinding(h) PROVE IInv'
<1>0. PICK c : c = call[h]
  OBVIOUS
<1>1. PICK b : b = [user |-> c.user, role |-> c.role]
  OBVIOUS
<1>2. b.user = c.user /\ b.role = c.role
  BY <1>1
<1>3. PICK promise : promise = IF b \in bound[c.kind] THEN "unknown" ELSE c.role
  OBVIOUS
<1>4. /\ c.pc = "create" /\ UNCHANGED <<cached, blurred>>
      /\ bound' = [bound EXCEPT ![c.kind] = @ \cup {b}]
      /\ End(h, promise)
  BY <1>0, <1>1, <1>3 DEF CreateBinding
<1>5. IsCall(c) /\ c.kind \in Kinds
  BY <1>0, <1>4, IdlePc DEF IInv, Shape, IsCall
<1>6. /\ DOMAIN bound' = Kinds
      /\ \A k \in Kinds : bound'[k] = IF k = c.kind THEN bound[k] \cup {b} ELSE bound[k]
  BY <1>4, <1>5 DEF IInv, Shape
<1>7. \A k \in Kinds, u \in Users : k # c.kind \/ u # c.user => Of(bound'[k], u) = Of(bound[k], u)
  BY <1>2, <1>6 DEF Of
<1>8. c.role # "none" /\ c.role # "unknown"
  BY <1>4, <1>5, RolesAreNoWords DEF IsCall
<1>9. \A k \in Kinds : \A x \in bound'[k] : x.role # "none"
  BY <1>2, <1>6, <1>8 DEF IInv, Shape
<1>10. ASSUME InPlace(c, c.kind, c.user)
       PROVE  Promises(Of(bound'[c.kind], c.user), promise)
  <2>1. Of(bound[c.kind], c.user) = {}
    BY <1>4, <1>10 DEF Place, InPlace
  <2>2. b \notin bound[c.kind] /\ promise = c.role
    BY <1>2, <1>3, <2>1 DEF Of
  <2>3. Of(bound'[c.kind], c.user) = {b}
    BY <1>2, <1>5, <1>6, <2>1 DEF Of
  <2>4. {x.role : x \in {b}} = {promise} \ {"none"}
    BY <1>2, <1>8, <2>2
  <2> QED BY <2>3, <2>4 DEF Promises
<1> QED BY <1>0, <1>4, <1>5, <1>6, <1>7, <1>9, <1>10, EndStep

LEMMA FailIInv == ASSUME IInv, NEW h \in Handlers, CallFails(h) PROVE IInv'
<1>0. PICK c : c = call[h]
  OBVIOUS
<1>1. c.pc \in {"replace", "create"} /\ End(h, "unknown") /\ UNCHANGED <<bound, cached, blurred>>
  BY <1>0 DEF CallFails
<1>2. IsCall(c) /\ c.kind \in Kinds
  BY <1>0, <1>1, IdlePc DEF IInv, Shape, IsCall
<1>3. InPlace(c, c.kind, c.user) => Promises(Of(bound'[c.kind], c.user), "unknown")
  BY <1>1, <1>2 DEF Place, InPlace, Promises
<1>4. DOMAIN bound' = Kinds /\ \A k \in Kinds : \A x \in bound'[k] : x.role # "none"
  BY <1>1 DEF IInv, Shape
<1> QED BY <1>0, <1>1, <1>2, <1>3, <1>4, EndStep

\* A clean-up blurs the user.
LEMMA DeleteIInv == ASSUME IInv, NEW u \in Users, DeleteUserBindings(u) PROVE IInv'
<1>1. /\ DOMAIN bound' = Kinds
      /\ bound'["global"] = bound["global"] \ Of(bound["global"], u)
      /\ bound'["cluster"] = bound["cluster"]
      /\ blurred' = blurred \cup {u} /\ UNCHANGED <<call, cached, granted>>
  BY DEF DeleteUserBindings, IInv, Shape, Kinds
<1>2. Shape'
  BY <1>1 DEF IInv, Shape, IsCall, Kinds
<1>3. ASSUME NEW v \in Users \ blurred', NEW k \in Kinds PROVE Known(v, k)'
  <2>1. v # u /\ Known(v, k)
    BY <1>1 DEF IInv
  <2>2. Of(bound'[k], v) = Of(bound[k], v)
    BY <1>1, <2>1 DEF Of, Kinds
  <2> QED BY <1>1, <2>1, <2>2, SameKnown
<1> QED BY <1>2, <1>3 DEF IInv

\* Every step keeps the invariant: one case for each action.
LEMMA NextIInv == IInv /\ [Next]_vars => IInv'
<1> SUFFICES ASSUME IInv, [Next]_vars PROVE IInv'
  OBVIOUS
<1>0. "global" \in Kinds /\ "cluster" \in Kinds
  BY DEF Kinds
<1>1. CASE UNCHANGED vars
  <2>1. UNCHANGED <<bound, cached, call, granted, blurred>>
    BY <1>1 DEF vars
  <2> QED BY <2>1, OtherStep DEF IInv, Shape
<1>2. ASSUME NEW h \in Handlers, NEW u \in Users, NEW role \in GlobalRoles,
             UpdateUser(h, u, role) \/ CreateUser(h, u, role)
      PROVE  IInv'
  BY <1>0, <1>2, BeginStep DEF UpdateUser, CreateUser, Roles
<1>3. ASSUME NEW h \in Handlers, NEW u \in Users, NEW role \in ClusterRoles,
             CreateClusterRoleBinding(h, u, role)
      PROVE  IInv'
  BY <1>0, <1>3, BeginStep DEF CreateClusterRoleBinding, Roles
<1>4. ASSUME NEW h \in Handlers, NEW u \in Users, RemoveUserFromCluster(h, u) PROVE IInv'
  BY <1>0, <1>4, BeginStep DEF RemoveUserFromCluster
<1>5. ASSUME NEW h \in Handlers, ServerStep(h) \/ CallFails(h) PROVE IInv'
  BY <1>5, CheckIInv, ListIInv, ReplaceOneIInv, ReplaceDoneIInv, CreateIInv, FailIInv
     DEF ServerStep
<1>6. ASSUME NEW u \in Users, DeleteUserBindings(u) PROVE IInv'
  BY <1>6, DeleteIInv
<1>7. ASSUME NEW kind \in Kinds, SyncServer(kind) PROVE IInv'
  <2>1. UNCHANGED <<bound, call, granted, blurred>>
        /\ cached' = [cached EXCEPT ![kind] = bound[kind]]
    BY <1>7 DEF SyncServer
  <2>2. DOMAIN cached' = Kinds /\ \A k \in Kinds : \A b \in cached'[k] : b.role # "none"
    BY <2>1 DEF IInv, Shape
  <2> QED BY <2>1, <2>2, OtherStep
<1> QED BY <1>1, <1>2, <1>3, <1>4, <1>5, <1>6, <1>7 DEF Next

\* At the start a role has been promised to whoever has one.
LEMMA InitIInv == Init => IInv
<1> SUFFICES ASSUME Init PROVE IInv
  OBVIOUS
<1>1. PICK w \in Users, r \in GlobalRoles \cup {"none"} :
         /\ bound = [k \in Kinds |-> IF k = "global" /\ r # "none"
                                     THEN {[user |-> w, role |-> r]} ELSE {}]
         /\ granted = [k \in Kinds |-> [v \in Users |-> IF k = "global" /\ v = w
                                                        THEN r ELSE "none"]]
  BY DEF Init
<1>2. ASSUME NEW k \in Kinds, NEW b \in bound[k]
      PROVE  k = "global" /\ r # "none" /\ b = [user |-> w, role |-> r]
  BY <1>1
<1>3. Shape
  <2>1. \A k \in Kinds : \A b \in bound[k] : b.role # "none"
    BY <1>2
  <2> QED BY <1>1, <2>1 DEF Init, Shape
<1>4. ASSUME NEW u \in Users, NEW k \in Kinds PROVE Known(u, k)
  <2>1. \A h \in Handlers : ~Busy(h, u)
    BY DEF Init, Busy
  <2>2. CASE k = "global" /\ u = w /\ r # "none"
    <3>1. Of(bound[k], u) = {[user |-> w, role |-> r]} /\ granted[k][u] = r
      BY <1>1, <2>2 DEF Of
    <3> QED BY <2>1, <2>2, <3>1, IdlePc DEF Known, Place
  <2>3. CASE ~(k = "global" /\ u = w /\ r # "none")
    <3>1. Of(bound[k], u) = {} /\ granted[k][u] = "none"
      BY <1>1, <2>3 DEF Of
    <3> QED BY <2>1, <3>1, IdlePc DEF Known, Place
  <2> QED BY <2>2, <2>3
<1> QED BY <1>3, <1>4 DEF IInv

-----------------------------------------------------------------------------
\* A user whom no two requests, no stale cache and no clean-up confused has one
\* role of a kind at most, and the promised one when no request is in hand (am.go
\* CreateGlobalRoleBinding, CreateClusterRoleBinding and RemoveUserFromCluster,
\* handler.go updateGlobalRoleBinding).
THEOREM AnswerIsAlwaysTrue == Spec => []AnswerIsTrue
<1>1. IInv => AnswerIsTrue
  <2> SUFFICES ASSUME IInv, NEW u \in Users \ blurred, NEW kind \in Kinds
               PROVE  /\ Cardinality(Of(bound[kind], u)) <= 1
                      /\ Quiet(u) /\ granted[kind][u] # "unknown" =>
                            {b.role : b \in Of(bound[kind], u)} = {granted[kind][u]} \ {"none"}
    BY DEF AnswerIsTrue
  <2>1. Known(u, kind)
    BY DEF IInv
  <2>2. \A a, b \in Of(bound[kind], u) : a = b
    BY <2>1 DEF Known, Quiet, Busy, Place
  <2>3. Cardinality(Of(bound[kind], u)) <= 1
    <3>1. CASE Of(bound[kind], u) = {}
      BY <3>1, FS_EmptySet
    <3>2. CASE Of(bound[kind], u) # {}
      <4>1. PICK b \in Of(bound[kind], u) : Of(bound[kind], u) = {b}
        BY <2>2, <3>2
      <4> QED BY <4>1, FS_Singleton
    <3> QED BY <3>1, <3>2
  <2>4. Quiet(u) /\ granted[kind][u] # "unknown" =>
          {b.role : b \in Of(bound[kind], u)} = {granted[kind][u]} \ {"none"}
    BY <2>1, IdlePc DEF Known, Place
  <2> QED BY <2>3, <2>4
<1>2. Init => IInv
  BY InitIInv
<1> QED BY <1>1, <1>2, NextIInv, PTL DEF Spec

=============================================================================
