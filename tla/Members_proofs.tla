--------------------------- MODULE Members_proofs ---------------------------
(***************************************************************************)
(* What holds of Members for any number of users, roles, handlers, requests*)
(* and failing calls.                                                      *)
(***************************************************************************)
EXTENDS Members, FiniteSetTheorems, TLAPS

\* A request in hand is a record of Calls that read the past.
LEMMA CallTyped ==
    ASSUME TypeOK, NEW h \in Handlers, call[h] # Idle
    PROVE  /\ call[h] \in Calls
           /\ call[h].version <= version
           /\ call[h].version = version => call[h].manager = manager
BY DEF TypeOK, ReadsPast

\* Goto to a typed place that read the past keeps the calls typed.
LEMMA GotoTyped ==
    ASSUME TypeOK, NEW h \in Handlers, NEW c \in {Idle} \cup Calls, Goto(h, c),
           manager' = manager, version' = version, ReadsPast(c)
    PROVE  /\ call' \in [Handlers -> {Idle} \cup Calls]
           /\ \A g \in Handlers : ReadsPast(call[g])'
<1>1. call' \in [Handlers -> {Idle} \cup Calls]
  BY DEF TypeOK, Goto
<1>2. ASSUME NEW g \in Handlers PROVE ReadsPast(call[g])'
  <2>1. CASE g = h
    BY <2>1 DEF TypeOK, Goto, ReadsPast
  <2>2. CASE g # h
    <3>1. call'[g] = call[g]
      BY <2>2 DEF TypeOK, Goto
    <3> QED BY <3>1 DEF TypeOK, ReadsPast
  <2> QED BY <2>1, <2>2
<1> QED BY <1>1, <1>2

\* The places that a request goes to are typed and keep what it read.
LEMMA AfterTyped ==
    ASSUME NEW c \in Calls
    PROVE  /\ AfterDelete(c) \in {Idle} \cup Calls
           /\ AfterDelete(c) # Idle =>
                AfterDelete(c).version = c.version /\ AfterDelete(c).manager = c.manager
           /\ c.role # "none" => AfterCreate(c) \in {Idle} \cup Calls
           /\ AfterCreate(c) # Idle =>
                AfterCreate(c).version = c.version /\ AfterCreate(c).manager = c.manager
<1>1. /\ AfterDelete(c) \in {Idle} \cup Calls
      /\ AfterDelete(c) # Idle =>
           AfterDelete(c).version = c.version /\ AfterDelete(c).manager = c.manager
  BY DEF AfterDelete, Calls, Idle
<1>2. AfterCreate(c) \in {Idle} \cup Calls
  BY DEF AfterCreate, Calls, Idle
<1>3. AfterCreate(c) # Idle =>
           AfterCreate(c).version = c.version /\ AfterCreate(c).manager = c.manager
  BY DEF AfterCreate, Calls, Idle
<1> QED BY <1>1, <1>2, <1>3

\* The part of the invariant that says what a request is about: a removal is of
\* a user whose removal was asked for and never creates, and a binding to be
\* deleted is one of the user whose turn it is.
Purpose(c) ==
    c # Idle =>
        /\ c.role = "none" => c.who = c.user /\ c.user \in removing /\ c.pc \in {"list", "delete"}
        /\ c.pc = "delete" => c.target \in Bindings /\ c.target.user = c.who

PurposeOK == \A h \in Handlers : Purpose(call[h])

IInv == TypeOK /\ PurposeOK

\* The places that a request goes to keep its purpose.
LEMMA AfterPurpose ==
    ASSUME NEW c \in Calls, Purpose(c)
    PROVE  /\ Purpose(AfterDelete(c))
           /\ c.pc = "create" => Purpose(AfterCreate(c))
<1>1. Purpose(AfterDelete(c))
  BY DEF Purpose, AfterDelete, Calls, Idle
<1>2. ASSUME c.pc = "create" PROVE Purpose(AfterCreate(c))
  BY <1>2 DEF Purpose, AfterCreate, Calls, Idle
<1> QED BY <1>1, <1>2

\* Goto to a place with a purpose keeps the purpose of all.
LEMMA GotoPurpose ==
    ASSUME IInv, NEW h \in Handlers, NEW c, Goto(h, c), Purpose(c)', removing \subseteq removing'
    PROVE  PurposeOK'
<1> SUFFICES ASSUME NEW g \in Handlers PROVE Purpose(call[g])'
  BY DEF PurposeOK
<1>1. CASE g = h
  BY <1>1 DEF IInv, TypeOK, Goto, Purpose
<1>2. CASE g # h
  <2>1. call'[g] = call[g]
    BY <1>2 DEF IInv, TypeOK, Goto
  <2> QED BY <2>1 DEF IInv, PurposeOK, Purpose
<1> QED BY <1>1, <1>2

\* The initial states satisfy the invariant.
LEMMA InitInv == Init => IInv
<1> SUFFICES ASSUME Init PROVE IInv
  OBVIOUS
<1>1. \A h \in Handlers : call[h] = Idle
  BY DEF Init
<1>2. bindings \subseteq Bindings
  BY RolesAssumption DEF Init, Bindings
<1>3. joined \subseteq Users
  BY <1>2 DEF Init, Bindings
<1>4. TypeOK
  BY <1>1, <1>2, <1>3 DEF Init, TypeOK, ReadsPast
<1>5. PurposeOK
  BY <1>1 DEF PurposeOK, Purpose
<1> QED BY <1>4, <1>5 DEF IInv

\* A request that begins keeps the invariant.
LEMMA BeginInv ==
    ASSUME IInv, NEW h \in Handlers, NEW u \in Users, NEW role \in Roles \cup {"none"},
           SetMember(h, u, role) \/ (RemoveMember(h, u) /\ role = "none"),
           role = "none" => RemoveMember(h, u)
    PROVE  IInv'
<1> DEFINE c == [ pc |-> "list", user |-> u, role |-> role, who |-> u,
                  manager |-> manager, version |-> version, target |-> NoBinding ]
<1>1. /\ Goto(h, c) /\ served' = served + 1 /\ overlapped' \in BOOLEAN
      /\ UNCHANGED <<manager, version, bindings, joined, faults>>
      /\ removing' \subseteq Users /\ removing \subseteq removing'
      /\ role = "none" => u \in removing'
  BY DEF SetMember, RemoveMember, GetNamespace, IInv, TypeOK
<1>2. c \in Calls /\ ReadsPast(c)
  BY DEF Calls, ReadsPast, IInv, TypeOK
<1>3. Purpose(c)'
  <2>1. c' = c
    BY <1>1
  <2> QED BY <1>1, <2>1 DEF Purpose
<1> HIDE DEF c
<1>4. TypeOK'
  <2>1. /\ call' \in [Handlers -> {Idle} \cup Calls]
        /\ \A g \in Handlers : ReadsPast(call[g])'
    BY <1>1, <1>2, GotoTyped DEF IInv
  <2> QED BY <1>1, <2>1 DEF TypeOK, IInv
<1>5. c' = c
  BY <1>1 DEF c
<1>6. PurposeOK'
  BY <1>1, <1>3, <1>5, GotoPurpose DEF Purpose
<1> QED BY <1>4, <1>6 DEF IInv

\* A step that only moves one request on, and at most changes the bindings and
\* the users who ever had one within their types, keeps the invariant.
LEMMA MoveInv ==
    ASSUME IInv, NEW h \in Handlers, NEW c \in {Idle} \cup Calls,
           Goto(h, c), ReadsPast(c), Purpose(c),
           bindings' \subseteq Bindings, joined' \subseteq Users, faults' \in Nat,
           UNCHANGED <<manager, version, removing, served, overlapped>>
    PROVE  IInv'
<1>1. ReadsPast(c)' /\ Purpose(c)'
  BY DEF ReadsPast, Purpose
<1>2. /\ call' \in [Handlers -> {Idle} \cup Calls]
      /\ \A g \in Handlers : ReadsPast(call[g])'
  BY GotoTyped DEF IInv
<1>3. TypeOK'
  BY <1>2 DEF TypeOK, IInv
<1>4. PurposeOK'
  BY <1>1, GotoPurpose
<1> QED BY <1>3, <1>4 DEF IInv

\* A step that ends a request, or takes it past the old binding, is such a step.
LEMMA OnwardInv ==
    ASSUME IInv, NEW h \in Handlers, call[h] # Idle,
           \/ Goto(h, Idle)
           \/ Goto(h, AfterDelete(call[h]))
           \/ call[h].pc = "create" /\ Goto(h, AfterCreate(call[h])),
           bindings' \subseteq Bindings, joined' \subseteq Users, faults' \in Nat,
           UNCHANGED <<manager, version, removing, served, overlapped>>
    PROVE  IInv'
<1> DEFINE c == call[h]
<1>1. c \in Calls /\ ReadsPast(c) /\ Purpose(c)
  BY CallTyped DEF IInv, PurposeOK, ReadsPast
<1>2. CASE Goto(h, Idle)
  <2>1. Idle \in {Idle} \cup Calls /\ ReadsPast(Idle) /\ Purpose(Idle)
    BY DEF ReadsPast, Purpose
  <2> QED BY <1>2, <2>1, MoveInv
<1>3. CASE Goto(h, AfterDelete(c))
  <2> DEFINE d == AfterDelete(c)
  <2>1. d \in {Idle} \cup Calls /\ ReadsPast(d) /\ Purpose(d)
    BY <1>1, AfterTyped, AfterPurpose DEF ReadsPast
  <2>2. Goto(h, d)
    BY <1>3
  <2> HIDE DEF d
  <2> QED BY <2>1, <2>2, MoveInv
<1>4. CASE c.pc = "create" /\ Goto(h, AfterCreate(c))
  <2> DEFINE d == AfterCreate(c)
  <2>1. c.role # "none"
    BY <1>1, <1>4 DEF Purpose
  <2>2. d \in {Idle} \cup Calls /\ ReadsPast(d) /\ Purpose(d)
    BY <1>1, <1>4, <2>1, AfterTyped, AfterPurpose DEF ReadsPast
  <2>3. Goto(h, d)
    BY <1>4
  <2> HIDE DEF d
  <2> QED BY <2>2, <2>3, MoveInv
<1> QED BY <1>2, <1>3, <1>4

\* The list of an old binding keeps the invariant.
LEMMA ListInv == ASSUME IInv, NEW h \in Handlers, ListBindings(h) PROVE IInv'
<1> DEFINE c == call[h]
<1>1. /\ c # Idle /\ bindings' \subseteq Bindings /\ joined' \subseteq Users /\ faults' \in Nat
      /\ UNCHANGED <<manager, version, removing, served, overlapped>>
  <2>1. c.pc = "list" /\ UNCHANGED <<manager, version, bindings, joined, removing, served, overlapped, faults>>
    BY DEF ListBindings
  <2>2. c # Idle
    BY <2>1 DEF Idle
  <2> QED BY <2>1, <2>2 DEF IInv, TypeOK
<1>2. c \in Calls /\ ReadsPast(c) /\ Purpose(c)
  BY <1>1, CallTyped DEF IInv, PurposeOK, ReadsPast
<1>3. ASSUME NEW b \in BindingsOf(c.who), Goto(h, [c EXCEPT !.pc = "delete", !.target = b])
      PROVE  IInv'
  <2> DEFINE d == [c EXCEPT !.pc = "delete", !.target = b]
  <2>1. b \in Bindings /\ b.user = c.who
    BY DEF BindingsOf, IInv, TypeOK
  <2>2. d \in Calls
    BY <1>2, <2>1 DEF Calls
  <2>3. ReadsPast(d) /\ Purpose(d)
    BY <1>1, <1>2, <2>1 DEF ReadsPast, Purpose, Calls
  <2>4. Goto(h, d)
    BY <1>3
  <2> HIDE DEF d
  <2> QED BY <1>1, <2>2, <2>3, <2>4, MoveInv
<1>4. ASSUME Goto(h, AfterDelete(c)) PROVE IInv'
  BY <1>1, <1>4, OnwardInv
<1> QED BY <1>3, <1>4 DEF ListBindings

\* The update of the annotation makes every other reading of it an old one.
LEMMA UpdateInv == ASSUME IInv, NEW h \in Handlers, UpdateNamespace(h) PROVE IInv'
<1> DEFINE c == call[h]
<1>1. c # Idle /\ c \in Calls
  BY CallTyped DEF UpdateNamespace, Idle, IInv
<1>2. CASE c.version # version
  BY <1>1, <1>2, OnwardInv DEF UpdateNamespace, IInv, TypeOK
<1>3. CASE c.version = version
  <2>1. /\ manager' \in Users /\ version' = version + 1 /\ version \in Nat
        /\ call' = [call EXCEPT ![h] = Idle]
        /\ UNCHANGED <<bindings, joined, removing, served, overlapped, faults>>
    BY <1>1, <1>3 DEF UpdateNamespace, Goto, Calls, IInv, TypeOK
  <2>2. ASSUME NEW g \in Handlers PROVE ReadsPast(call[g])' /\ Purpose(call[g])'
    <3>1. CASE g = h
      BY <2>1, <3>1 DEF IInv, TypeOK, ReadsPast, Purpose
    <3>2. CASE g # h
      <4>1. call'[g] = call[g]
        BY <2>1, <3>2 DEF IInv, TypeOK
      <4>2. ReadsPast(call[g]) /\ Purpose(call[g]) /\ (call[g] # Idle => call[g].version \in Nat)
        BY CallTyped DEF IInv, TypeOK, PurposeOK, Calls
      <4>3. call[g] # Idle => call[g].version <= version' /\ call[g].version # version'
        BY <2>1, <4>2 DEF ReadsPast
      <4> QED BY <2>1, <4>1, <4>2, <4>3 DEF ReadsPast, Purpose
    <3> QED BY <3>1, <3>2
  <2>3. TypeOK'
    BY <2>1, <2>2 DEF IInv, TypeOK
  <2>4. PurposeOK'
    BY <2>2 DEF PurposeOK
  <2> QED BY <2>3, <2>4 DEF IInv
<1> QED BY <1>2, <1>3

\* Every step keeps the invariant: one case for each action.
LEMMA StepInv == IInv /\ [Next]_vars => IInv'
<1> SUFFICES ASSUME IInv, [Next]_vars PROVE IInv'
  OBVIOUS
<1>1. CASE UNCHANGED vars
  BY <1>1 DEF vars, IInv, TypeOK, PurposeOK, Purpose, ReadsPast
<1>2. ASSUME NEW h \in Handlers, NEW u \in Users, NEW role \in Roles, SetMember(h, u, role)
      PROVE  IInv'
  <2>1. role # "none"
    BY RolesAssumption
  <2> QED BY <1>2, <2>1, BeginInv
<1>3. ASSUME NEW h \in Handlers, NEW u \in Users, RemoveMember(h, u)
      PROVE  IInv'
  BY <1>3, BeginInv
<1>4. ASSUME NEW h \in Handlers, ListBindings(h)
      PROVE  IInv'
  BY <1>4, ListInv
<1>5. ASSUME NEW h \in Handlers, DeleteBinding(h)
      PROVE  IInv'
  <2>1. /\ call[h] # Idle /\ bindings' \subseteq Bindings /\ joined' \subseteq Users
        /\ faults' \in Nat /\ UNCHANGED <<manager, version, removing, served, overlapped>>
    BY <1>5 DEF DeleteBinding, Idle, IInv, TypeOK
  <2>2. Goto(h, AfterDelete(call[h])) \/ Goto(h, Idle)
    BY <1>5 DEF DeleteBinding, Goto
  <2> QED BY <2>1, <2>2, OnwardInv
<1>6. ASSUME NEW h \in Handlers, CreateBinding(h)
      PROVE  IInv'
  <2> DEFINE c == call[h]
  <2>1. /\ c # Idle /\ c.pc = "create" /\ faults' \in Nat
        /\ UNCHANGED <<manager, version, removing, served, overlapped>>
    BY <1>6 DEF CreateBinding, Idle, IInv, TypeOK
  <2>2. c \in Calls /\ c.role # "none"
    BY <2>1, CallTyped DEF IInv, PurposeOK, Purpose
  <2>3. [user |-> c.who, role |-> IF c.who = c.user THEN c.role ELSE "operator"] \in Bindings
    BY <2>2, RolesAssumption DEF Calls, Bindings
  <2>4. bindings' \subseteq Bindings /\ joined' \subseteq Users
    BY <1>6, <2>2, <2>3 DEF CreateBinding, IInv, TypeOK, Calls
  <2>5. Goto(h, AfterCreate(c)) \/ Goto(h, Idle)
    BY <1>6 DEF CreateBinding, Goto
  <2> QED BY <2>1, <2>4, <2>5, OnwardInv
<1>7. ASSUME NEW h \in Handlers, UpdateNamespace(h)
      PROVE  IInv'
  BY <1>7, UpdateInv
<1>8. ASSUME NEW h \in Handlers, CallFails(h)
      PROVE  IInv'
  <2>1. /\ call[h] # Idle /\ bindings' \subseteq Bindings /\ joined' \subseteq Users
        /\ faults' \in Nat /\ UNCHANGED <<manager, version, removing, served, overlapped>>
    BY <1>8 DEF CallFails, IInv, TypeOK
  <2>2. Goto(h, AfterDelete(call[h])) \/ Goto(h, Idle)
    BY <1>8 DEF CallFails, Goto
  <2> QED BY <2>1, <2>2, OnwardInv
<1> QED BY <1>1, <1>2, <1>3, <1>4, <1>5, <1>6, <1>7, <1>8 DEF Next

-----------------------------------------------------------------------------
\* In every reachable state every variable has its type and every request in
\* hand knows the manager of the version it read.
THEOREM TypeCorrect == Spec => []TypeOK
<1>1. IInv => TypeOK
  BY DEF IInv
<1> QED BY <1>1, InitInv, StepInv, PTL DEF Spec

\* No appointment is lost to another: the one that moves the annotation replaced
\* the binding of the manager it takes over from.
THEOREM AlwaysHandedOver == Spec => HandedOver
<1> DEFINE Over == manager' # manager =>
          \E h \in Handlers : /\ call[h] # Idle /\ call'[h] = Idle
                              /\ call[h].manager = manager
                              /\ call[h].user = manager'
<1>1. IInv /\ [Next]_vars => Over
  <2> SUFFICES ASSUME IInv, [Next]_vars, manager' # manager
               PROVE  \E h \in Handlers : /\ call[h] # Idle /\ call'[h] = Idle
                                          /\ call[h].manager = manager
                                          /\ call[h].user = manager'
    OBVIOUS
  <2>1. PICK h \in Handlers : UpdateNamespace(h)
    BY DEF Next, vars, SetMember, RemoveMember, ListBindings, DeleteBinding,
           CreateBinding, CallFails
  <2>2. call[h] # Idle /\ call[h].version = version /\ manager' = call[h].user
    BY <2>1 DEF UpdateNamespace, Idle
  <2>3. call'[h] = Idle
    BY <2>1 DEF UpdateNamespace, Goto, IInv, TypeOK
  <2>4. call[h].manager = manager
    BY <2>2, CallTyped DEF IInv
  <2> QED BY <2>2, <2>3, <2>4
<1>2. IInv /\ [Next]_vars => [Over]_vars
  BY <1>1
<1> QED BY <1>2, InitInv, StepInv, PTL DEF Spec, HandedOver


\* What NobodyLost needs to be inductive: whoever has no binding between a
\* delete and the create that follows is in the hands of a request.
InHand(u) == \E h \in Handlers : call[h].pc = "create" /\ call[h].who = u

Held(u) == BindingsOf(u) # {} \/ InHand(u)

AllHeld == faults = 0 => \A u \in joined \ removing : Held(u)

\* A request that is not about to create leaves whoever it hands over to others.
LEMMA StillInHand ==
    ASSUME IInv, NEW h \in Handlers, NEW c, Goto(h, c), NEW u \in Users, InHand(u),
           call[h].pc = "create" /\ call[h].who = u => c.pc = "create" /\ c.who = u
    PROVE  InHand(u)'
<1>1. PICK g \in Handlers : call[g].pc = "create" /\ call[g].who = u
  BY DEF InHand
<1>2. call'[g] = IF g = h THEN c ELSE call[g]
  BY DEF IInv, TypeOK, Goto
<1>3. call'[g].pc = "create" /\ call'[g].who = u
  BY <1>1, <1>2
<1> QED BY <1>3 DEF InHand

\* A binding that is deleted by a request that goes on to create is in hand.
LEMMA HeldStep ==
    ASSUME IInv, AllHeld, NEW h \in Handlers, ListBindings(h) \/ DeleteBinding(h)
    PROVE  AllHeld'
<1> SUFFICES ASSUME faults = 0, NEW u \in joined \ removing PROVE Held(u)'
  BY DEF ListBindings, DeleteBinding, AllHeld
<1> DEFINE c == call[h]
<1>1. c.pc \in {"list", "delete"} /\ c \in Calls /\ Purpose(c) /\ u \in Users /\ Held(u)
  <2>1. c.pc = "list" \/ c.pc = "delete"
    BY DEF ListBindings, DeleteBinding
  <2>2. c # Idle
    BY <2>1 DEF Idle
  <2> QED BY <2>1, <2>2, CallTyped DEF IInv, PurposeOK, TypeOK, AllHeld
<1>2. PICK d : Goto(h, d)
  BY DEF ListBindings, DeleteBinding
<1>3. CASE InHand(u)
  BY <1>1, <1>2, <1>3, StillInHand DEF Held
<1>4. CASE BindingsOf(u) # {}
  <2>1. PICK b \in bindings : b.user = u
    BY <1>4 DEF BindingsOf
  <2>2. CASE b \in bindings'
    BY <2>1, <2>2 DEF Held, BindingsOf
  <2>3. CASE b \notin bindings'
    <3>1. DeleteBinding(h) /\ c.pc = "delete" /\ b = c.target
      BY <2>1, <2>3 DEF ListBindings, DeleteBinding
    <3>2. c.who = u /\ c.role # "none"
      BY <1>1, <2>1, <3>1 DEF Purpose, Idle
    <3>3. Goto(h, AfterDelete(c))
      BY <2>1, <3>1 DEF DeleteBinding
    <3>4. call'[h] = [c EXCEPT !.pc = "create"]
      BY <3>2, <3>3 DEF Goto, AfterDelete, IInv, TypeOK
    <3>5. call'[h].pc = "create" /\ call'[h].who = u
      BY <1>1, <3>2, <3>4 DEF Calls
    <3> QED BY <3>5 DEF Held, InHand
  <2> QED BY <2>2, <2>3
<1> QED BY <1>1, <1>3, <1>4 DEF Held

\* Every step keeps everyone held: one case for each action.
LEMMA StepHeld == IInv /\ AllHeld /\ [Next]_vars => AllHeld'
<1> SUFFICES ASSUME IInv, AllHeld, [Next]_vars PROVE AllHeld'
  OBVIOUS
<1>1. CASE UNCHANGED vars
  BY <1>1 DEF vars, AllHeld, Held, InHand, BindingsOf
<1>2. ASSUME NEW h \in Handlers, NEW u \in Users, NEW role \in Roles \cup {"none"},
             GetNamespace(h, u, role),
             UNCHANGED <<bindings, joined, faults>>, removing \subseteq removing'
      PROVE  AllHeld'
  <2> SUFFICES ASSUME faults = 0, NEW v \in joined \ removing PROVE Held(v)'
    BY <1>2 DEF AllHeld
  <2>1. v \in Users /\ Held(v)
    BY DEF IInv, TypeOK, AllHeld
  <2>2. PICK d : Goto(h, d)
    BY <1>2 DEF GetNamespace
  <2>3. call[h].pc # "create"
    BY <1>2 DEF GetNamespace, Idle
  <2>4. InHand(v) => InHand(v)'
    BY <2>1, <2>2, <2>3, StillInHand
  <2>5. BindingsOf(v)' = BindingsOf(v)
    BY <1>2 DEF BindingsOf
  <2> QED BY <2>1, <2>4, <2>5 DEF Held
<1>3. ASSUME NEW h \in Handlers, NEW u \in Users, NEW role \in Roles, SetMember(h, u, role)
      PROVE  AllHeld'
  BY <1>2, <1>3 DEF SetMember
<1>4. ASSUME NEW h \in Handlers, NEW u \in Users, RemoveMember(h, u)
      PROVE  AllHeld'
  BY <1>2, <1>4 DEF RemoveMember
<1>5. ASSUME NEW h \in Handlers, ListBindings(h) \/ DeleteBinding(h)
      PROVE  AllHeld'
  BY <1>5, HeldStep
<1>6. ASSUME NEW h \in Handlers, CreateBinding(h)
      PROVE  AllHeld'
  <2> DEFINE c == call[h]
             b == [user |-> c.who, role |-> IF c.who = c.user THEN c.role ELSE "operator"]
  <2> SUFFICES ASSUME faults = 0, NEW v \in joined' \ removing PROVE Held(v)'
    BY <1>6 DEF AllHeld, CreateBinding
  <2>1. /\ c.pc = "create" /\ c \in Calls
        /\ bindings' = bindings \cup {b} /\ joined' = joined \cup {c.who}
    BY <1>6, CallTyped DEF CreateBinding, Idle, IInv
  <2>2. PICK d : Goto(h, d)
    BY <1>6 DEF CreateBinding
  <2>3. CASE v = c.who
    <3>1. b \in bindings' /\ b.user = v
      BY <2>1, <2>3
    <3> QED BY <3>1 DEF Held, BindingsOf
  <2>4. CASE v # c.who
    <3>1. v \in Users /\ Held(v)
      BY <2>1, <2>4 DEF IInv, TypeOK, AllHeld
    <3>2. InHand(v) => InHand(v)'
      BY <2>2, <2>4, <3>1, StillInHand
    <3>3. BindingsOf(v) # {} => BindingsOf(v)' # {}
      BY <2>1 DEF BindingsOf
    <3> QED BY <3>1, <3>2, <3>3 DEF Held
  <2> QED BY <2>3, <2>4
<1>7. ASSUME NEW h \in Handlers, UpdateNamespace(h)
      PROVE  AllHeld'
  <2> SUFFICES ASSUME faults = 0, NEW v \in joined \ removing PROVE Held(v)'
    BY <1>7 DEF AllHeld, UpdateNamespace
  <2>1. v \in Users /\ Held(v) /\ Goto(h, Idle) /\ call[h].pc # "create"
    BY <1>7 DEF IInv, TypeOK, AllHeld, UpdateNamespace
  <2>2. InHand(v) => InHand(v)'
    BY <2>1, StillInHand
  <2>3. BindingsOf(v)' = BindingsOf(v)
    BY <1>7 DEF BindingsOf, UpdateNamespace
  <2> QED BY <2>1, <2>2, <2>3 DEF Held
<1>8. ASSUME NEW h \in Handlers, CallFails(h)
      PROVE  AllHeld'
  BY <1>8 DEF CallFails, AllHeld, IInv, TypeOK
<1> QED BY <1>1, <1>3, <1>4, <1>5, <1>6, <1>7, <1>8 DEF Next

\* As long as no call fails, a user who ever had a role, and whose removal nobody
\* asked for, has one whenever all is quiet, however requests interleave.
THEOREM NobodyEverLost == Spec => []NobodyLost
<1>1. Init => AllHeld
  <2> SUFFICES ASSUME Init, NEW u \in joined PROVE BindingsOf(u) # {}
    BY DEF AllHeld, Held
  <2>1. PICK b \in bindings : u = b.user
    BY DEF Init
  <2> QED BY <2>1 DEF BindingsOf
<1>2. AllHeld => NobodyLost
  <2> SUFFICES ASSUME AllHeld, Quiet, faults = 0, NEW u \in joined \ removing
               PROVE  BindingsOf(u) # {}
    BY DEF NobodyLost
  <2>1. \A h \in Handlers : call[h].pc # "create"
    BY DEF Quiet, Idle
  <2> QED BY <2>1 DEF AllHeld, Held, InHand
<1> QED BY <1>1, <1>2, InitInv, StepInv, StepHeld, PTL DEF Spec

-----------------------------------------------------------------------------
\* Why nobody is left with two roles: as long as one request was in hand at a
\* time, and no call failed, a request finds all as it read it or left it.

\* No user has two bindings.
Unique(bs) == \A a, b \in bs : a.user = b.user => a = b

\* Where a request c stands that is alone, at version v with manager m and the
\* bindings bs: what it deletes is there, what it creates a binding of has none.
Turn(c, v, m, bs) ==
    /\ c.version = v /\ c.manager = m
    /\ c.who # c.user => c.role = "admin" /\ c.who = m
    /\ c.pc = "delete" => c.target \in bs
    /\ c.pc = "create" => \A b \in bs : b.user # c.who
    /\ c.pc = "annotate" =>
          c.who # c.user /\ \A b \in bs : b.user = m => b.role # "admin"

\* An admin is the manager, or about to be.
Due(b, m, c) ==
    b.role = "admin" => b.user = m \/ (c # Idle /\ c.who # c.user /\ b.user = c.user)

Fits(c, v, m, bs) ==
    /\ Unique(bs)
    /\ c # Idle => Turn(c, v, m, bs)
    /\ \A b \in bs : Due(b, m, c)

InTurn ==
    /\ \A g, h \in Handlers : call[g] # Idle /\ call[h] # Idle => g = h
    /\ \A h \in Handlers : call[h] # Idle => Fits(call[h], version, manager, bindings)
    /\ Quiet => Fits(Idle, version, manager, bindings)

AllInTurn == ~overlapped /\ faults = 0 => InTurn

\* Without an old binding the request goes on, or is done if it is a removal.
LEMMA FitsAfterDelete ==
    ASSUME NEW c \in Calls, NEW v, NEW m, NEW bs, NEW cs, Fits(c, v, m, bs),
           cs \subseteq bs, \A b \in cs : b.user # c.who
    PROVE  Fits(AfterDelete(c), v, m, cs)
<1>1. c # Idle
  BY DEF Calls, Idle
<1>2. Unique(cs) /\ \A b \in cs : Due(b, m, c)
  BY DEF Fits, Unique
<1>3. CASE c.role = "none"
  <2>1. c.who = c.user
    BY <1>1, <1>3 DEF Fits, Turn
  <2> QED BY <1>2, <1>3, <2>1 DEF Fits, Due, AfterDelete
<1>4. CASE c.role # "none"
  <2> DEFINE d == [c EXCEPT !.pc = "create"]
  <2>1. /\ d.pc = "create" /\ d.who = c.who /\ d.user = c.user /\ d.role = c.role
        /\ d.version = c.version /\ d.manager = c.manager /\ d # Idle
    BY DEF Calls, Idle
  <2>2. AfterDelete(c) = d
    BY <1>4 DEF AfterDelete
  <2> HIDE DEF d
  <2>3. Turn(d, v, m, cs)
    BY <1>1, <2>1 DEF Fits, Turn
  <2>4. \A b \in cs : Due(b, m, d)
    BY <1>1, <1>2, <2>1 DEF Due
  <2> QED BY <1>2, <2>2, <2>3, <2>4 DEF Fits
<1> QED BY <1>3, <1>4

\* The new binding is the only one of its user; the admin among them is the
\* manager, or the one whose appointment goes on.
LEMMA FitsAfterCreate ==
    ASSUME NEW c \in Calls, NEW v, NEW m, NEW bs, Fits(c, v, m, bs), c.pc = "create"
    PROVE  Fits(AfterCreate(c), v, m,
                bs \cup {[user |-> c.who, role |-> IF c.who = c.user THEN c.role ELSE "operator"]})
<1> DEFINE b == [user |-> c.who, role |-> IF c.who = c.user THEN c.role ELSE "operator"]
           cs == bs \cup {b}
<1>1. c # Idle
  BY DEF Calls, Idle
<1>2. b.user = c.who /\ b.role = IF c.who = c.user THEN c.role ELSE "operator"
  OBVIOUS
<1> HIDE DEF b
<1>3. Turn(c, v, m, bs) /\ \A a \in bs : Due(a, m, c) /\ a.user # c.who
  BY <1>1 DEF Fits, Turn
<1>4. Unique(cs)
  BY <1>2, <1>3 DEF Fits, Unique
<1>5. CASE c.role = "admin" /\ m # c.user /\ c.who = c.user
  <2> DEFINE d == [c EXCEPT !.pc = "list", !.who = c.manager, !.target = NoBinding]
  <2>1. /\ d.pc = "list" /\ d.who = m /\ d.user = c.user /\ d.role = c.role
        /\ d.version = v /\ d.manager = m /\ d # Idle
    BY <1>3 DEF Turn, Calls, Idle
  <2>2. AfterCreate(c) = d
    BY <1>3, <1>5 DEF AfterCreate, Turn
  <2> HIDE DEF d
  <2>3. Turn(d, v, m, cs)
    BY <1>5, <2>1 DEF Turn
  <2>4. \A a \in cs : Due(a, m, d)
    BY <1>1, <1>2, <1>3, <1>5, <2>1 DEF Due
  <2> QED BY <1>4, <2>2, <2>3, <2>4 DEF Fits, b
<1>6. CASE c.role = "admin" /\ m # c.user /\ c.who # c.user
  <2> DEFINE d == [c EXCEPT !.pc = "annotate"]
  <2>1. /\ d.pc = "annotate" /\ d.who = m /\ d.user = c.user /\ d.role = c.role
        /\ d.version = v /\ d.manager = m /\ d # Idle /\ c.who = m
    BY <1>3, <1>6 DEF Turn, Calls, Idle
  <2>2. AfterCreate(c) = d
    BY <1>3, <1>6 DEF AfterCreate, Turn
  <2> HIDE DEF d
  <2>3. Turn(d, v, m, cs)
    BY <1>2, <1>3, <1>6, <2>1 DEF Turn
  <2>4. \A a \in cs : Due(a, m, d)
    BY <1>1, <1>2, <1>3, <1>6, <2>1 DEF Due
  <2> QED BY <1>4, <2>2, <2>3, <2>4 DEF Fits, b
<1>7. CASE ~(c.role = "admin" /\ m # c.user)
  <2>1. AfterCreate(c) = Idle
    BY <1>3, <1>7 DEF AfterCreate, Turn
  <2>2. c.who = c.user
    BY <1>3, <1>7 DEF Turn
  <2>3. \A a \in cs : Due(a, m, Idle)
    BY <1>2, <1>3, <1>7, <2>2 DEF Due
  <2> QED BY <1>4, <2>1, <2>3 DEF Fits, b
<1> QED BY <1>5, <1>6, <1>7

\* A step after which only h may have a request, one that fits.
LEMMA GotoInTurn ==
    ASSUME TypeOK, NEW h \in Handlers, NEW c, Goto(h, c),
           \A g \in Handlers : g # h => call[g] = Idle,
           Fits(c, version', manager', bindings')
    PROVE  InTurn'
<1>1. call'[h] = c /\ \A g \in Handlers : g # h => call'[g] = Idle
  BY DEF TypeOK, Goto
<1>2. \A g, k \in Handlers : call'[g] # Idle /\ call'[k] # Idle => g = k
  BY <1>1
<1>3. \A g \in Handlers : call'[g] # Idle => Fits(call'[g], version', manager', bindings')
  BY <1>1
<1>4. Quiet' => Fits(Idle, version', manager', bindings')
  BY <1>1 DEF Quiet
<1> QED BY <1>2, <1>3, <1>4 DEF InTurn

\* A request in hand is alone and fits.
LEMMA BusyInTurn ==
    ASSUME IInv, InTurn, NEW h \in Handlers, call[h] # Idle
    PROVE  /\ \A g \in Handlers : g # h => call[g] = Idle
           /\ Fits(call[h], version, manager, bindings)
           /\ call[h] \in Calls /\ Purpose(call[h])
BY CallTyped DEF InTurn, IInv, PurposeOK

\* A request that begins when there is none finds the current manager.
LEMMA BeginInTurn ==
    ASSUME IInv, AllInTurn, NEW h \in Handlers, NEW u \in Users, NEW role,
           GetNamespace(h, u, role),
           UNCHANGED <<manager, version, bindings, faults>>
    PROVE  AllInTurn'
<1> SUFFICES ASSUME ~overlapped', faults' = 0 PROVE InTurn'
  BY DEF AllInTurn
<1>1. ~overlapped /\ \A g \in Handlers : call[g] = Idle
  BY DEF GetNamespace
<1>2. Fits(Idle, version, manager, bindings)
  BY <1>1 DEF AllInTurn, InTurn, Quiet
<1> DEFINE c == [ pc |-> "list", user |-> u, role |-> role, who |-> u,
                  manager |-> manager, version |-> version, target |-> NoBinding ]
<1>3. /\ c.pc = "list" /\ c.who = u /\ c.user = u
      /\ c.version = version /\ c.manager = manager
  OBVIOUS
<1>4. Goto(h, c)
  BY DEF GetNamespace
<1> HIDE DEF c
<1>5. Fits(c, version, manager, bindings)
  <2>1. Turn(c, version, manager, bindings)
    BY <1>3 DEF Turn
  <2>2. \A b \in bindings : Due(b, manager, c)
    BY <1>2 DEF Fits, Due
  <2> QED BY <1>2, <2>1, <2>2 DEF Fits
<1> QED BY <1>1, <1>4, <1>5, GotoInTurn DEF IInv

\* Every step keeps requests in turn: one case for each action.
LEMMA StepInTurn == IInv /\ AllInTurn /\ [Next]_vars => AllInTurn'
<1> SUFFICES ASSUME IInv, AllInTurn, [Next]_vars PROVE AllInTurn'
  OBVIOUS
<1>1. CASE UNCHANGED vars
  BY <1>1 DEF vars, AllInTurn, InTurn, Quiet
<1>2. ASSUME NEW h \in Handlers, NEW u \in Users, NEW role \in Roles, SetMember(h, u, role)
      PROVE  AllInTurn'
  BY <1>2, BeginInTurn DEF SetMember
<1>3. ASSUME NEW h \in Handlers, NEW u \in Users, RemoveMember(h, u)
      PROVE  AllInTurn'
  BY <1>3, BeginInTurn DEF RemoveMember
<1>4. ASSUME NEW h \in Handlers, ListBindings(h)
      PROVE  AllInTurn'
  <2> SUFFICES ASSUME ~overlapped', faults' = 0 PROVE InTurn'
    BY DEF AllInTurn
  <2> DEFINE c == call[h]
  <2>1. /\ c.pc = "list" /\ c # Idle /\ InTurn
        /\ UNCHANGED <<manager, version, bindings>>
    <3>1. c.pc = "list" /\ UNCHANGED <<manager, version, bindings, overlapped, faults>>
      BY <1>4 DEF ListBindings
    <3> QED BY <3>1 DEF Idle, AllInTurn
  <2>2. /\ \A g \in Handlers : g # h => call[g] = Idle
        /\ Fits(c, version, manager, bindings) /\ c \in Calls
    BY <2>1, BusyInTurn
  <2>3. ASSUME NEW b \in BindingsOf(c.who), Goto(h, [c EXCEPT !.pc = "delete", !.target = b])
        PROVE  InTurn'
    <3> DEFINE d == [c EXCEPT !.pc = "delete", !.target = b]
    <3>1. /\ d.pc = "delete" /\ d.target = b /\ d.who = c.who /\ d.user = c.user
          /\ d.role = c.role /\ d.version = c.version /\ d.manager = c.manager /\ d # Idle
      BY <2>2 DEF Calls, Idle
    <3>2. Goto(h, d)
      BY <2>3
    <3> HIDE DEF d
    <3>3. Turn(d, version, manager, bindings)
      BY <2>1, <2>2, <3>1 DEF Fits, Turn, BindingsOf
    <3>4. Fits(d, version, manager, bindings)
      BY <2>1, <2>2, <3>1, <3>3 DEF Fits, Due
    <3> QED BY <2>1, <2>2, <3>2, <3>4, GotoInTurn DEF IInv
  <2>4. ASSUME BindingsOf(c.who) = {}, Goto(h, AfterDelete(c))
        PROVE  InTurn'
    <3>1. \A b \in bindings : b.user # c.who
      BY <2>4 DEF BindingsOf
    <3>2. Fits(AfterDelete(c), version, manager, bindings)
      BY <2>2, <3>1, FitsAfterDelete
    <3> QED BY <2>1, <2>2, <2>4, <3>2, GotoInTurn DEF IInv
  <2> QED BY <1>4, <2>3, <2>4 DEF ListBindings
<1>5. ASSUME NEW h \in Handlers, DeleteBinding(h)
      PROVE  AllInTurn'
  <2> SUFFICES ASSUME ~overlapped', faults' = 0 PROVE InTurn'
    BY DEF AllInTurn
  <2> DEFINE c == call[h]
  <2>1. /\ c.pc = "delete" /\ c # Idle /\ InTurn /\ bindings' = bindings \ {c.target}
        /\ UNCHANGED <<manager, version>>
    BY <1>5 DEF DeleteBinding, Idle, AllInTurn
  <2>2. /\ \A g \in Handlers : g # h => call[g] = Idle
        /\ Fits(c, version, manager, bindings) /\ c \in Calls /\ Purpose(c)
    BY <2>1, BusyInTurn
  <2>3. c.target \in bindings /\ c.target.user = c.who
    BY <2>1, <2>2 DEF Fits, Turn, Purpose
  <2>4. \A b \in bindings' : b.user # c.who
    BY <2>1, <2>2, <2>3 DEF Fits, Unique
  <2>5. Fits(AfterDelete(c), version, manager, bindings')
    BY <2>1, <2>2, <2>4, FitsAfterDelete
  <2>6. Goto(h, AfterDelete(c))
    BY <1>5, <2>3 DEF DeleteBinding
  <2> QED BY <2>1, <2>2, <2>5, <2>6, GotoInTurn DEF IInv
<1>6. ASSUME NEW h \in Handlers, CreateBinding(h)
      PROVE  AllInTurn'
  <2> SUFFICES ASSUME ~overlapped', faults' = 0 PROVE InTurn'
    BY DEF AllInTurn
  <2> DEFINE c == call[h]
             b == [user |-> c.who, role |-> IF c.who = c.user THEN c.role ELSE "operator"]
  <2>1. /\ c.pc = "create" /\ c # Idle /\ InTurn /\ bindings' = bindings \cup {b}
        /\ UNCHANGED <<manager, version>>
    BY <1>6 DEF CreateBinding, Idle, AllInTurn
  <2>2. /\ \A g \in Handlers : g # h => call[g] = Idle
        /\ Fits(c, version, manager, bindings) /\ c \in Calls
    BY <2>1, BusyInTurn
  <2>3. b \notin bindings
    BY <2>1, <2>2 DEF Fits, Turn
  <2>4. Fits(AfterCreate(c), version, manager, bindings')
    BY <2>1, <2>2, FitsAfterCreate
  <2>5. Goto(h, AfterCreate(c))
    BY <1>6, <2>3 DEF CreateBinding
  <2> QED BY <2>1, <2>2, <2>4, <2>5, GotoInTurn DEF IInv
<1>7. ASSUME NEW h \in Handlers, UpdateNamespace(h)
      PROVE  AllInTurn'
  <2> SUFFICES ASSUME ~overlapped', faults' = 0 PROVE InTurn'
    BY DEF AllInTurn
  <2> DEFINE c == call[h]
  <2>1. c.pc = "annotate" /\ c # Idle /\ InTurn /\ Goto(h, Idle) /\ bindings' = bindings
    BY <1>7 DEF UpdateNamespace, Idle, AllInTurn
  <2>2. /\ \A g \in Handlers : g # h => call[g] = Idle
        /\ Fits(c, version, manager, bindings)
    BY <2>1, BusyInTurn
  <2>3. Turn(c, version, manager, bindings)
    BY <2>1, <2>2 DEF Fits
  <2>4. manager' = c.user
    BY <1>7, <2>3 DEF UpdateNamespace, Turn
  <2>5. ASSUME NEW b \in bindings PROVE Due(b, manager', Idle)
    BY <2>1, <2>2, <2>3, <2>4 DEF Fits, Turn, Due
  <2>6. Fits(Idle, version', manager', bindings')
    BY <2>1, <2>2, <2>5 DEF Fits
  <2> QED BY <2>1, <2>2, <2>6, GotoInTurn DEF IInv
<1>8. ASSUME NEW h \in Handlers, CallFails(h)
      PROVE  AllInTurn'
  BY <1>8 DEF CallFails, AllInTurn, IInv, TypeOK
<1> QED BY <1>1, <1>2, <1>3, <1>4, <1>5, <1>6, <1>7, <1>8 DEF Next

\* As long as requests come one after the other and no call fails, nobody is left
\* with two roles and none but the manager is admin, through appointments that
\* take eight calls (am.go CreateNamespaceRoleBinding).
THEOREM OneRoleEachHolds == Spec => []OneRoleEach
<1>1. Init => AllInTurn
  <2> SUFFICES ASSUME Init PROVE InTurn
    BY DEF AllInTurn
  <2>1. /\ \A h \in Handlers : call[h] = Idle
        /\ \A b \in bindings : b = [user |-> manager, role |-> "admin"]
    BY DEF Init
  <2>2. Fits(Idle, version, manager, bindings)
    BY <2>1 DEF Fits, Unique, Due
  <2> QED BY <2>1, <2>2 DEF InTurn
<1>2. AllInTurn => OneRoleEach
  <2> SUFFICES ASSUME AllInTurn, Quiet, ~overlapped, faults = 0
               PROVE  /\ \A u \in Users : Cardinality(BindingsOf(u)) <= 1
                      /\ \A b \in bindings : b.role = "admin" => b.user = manager
    BY DEF OneRoleEach
  <2>1. Fits(Idle, version, manager, bindings)
    BY DEF AllInTurn, InTurn
  <2>2. ASSUME NEW u \in Users PROVE Cardinality(BindingsOf(u)) <= 1
    <3>1. CASE BindingsOf(u) = {}
      BY <3>1, FS_EmptySet
    <3>2. CASE BindingsOf(u) # {}
      <4>1. PICK b \in BindingsOf(u) : TRUE
        BY <3>2
      <4>2. BindingsOf(u) = {b}
        BY <2>1, <4>1 DEF Fits, Unique, BindingsOf
      <4>3. Cardinality({b}) = 1
        BY FS_Singleton
      <4> QED BY <4>2, <4>3
    <3> QED BY <3>1, <3>2
  <2>3. ASSUME NEW b \in bindings, b.role = "admin" PROVE b.user = manager
    BY <2>1, <2>3 DEF Fits, Due
  <2> QED BY <2>2, <2>3
<1> QED BY <1>1, <1>2, InitInv, StepInv, StepInTurn, PTL DEF Spec

=============================================================================
