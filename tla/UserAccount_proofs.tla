------------------------- MODULE UserAccount_proofs -------------------------
(* Proofs about UserAccount, for any users, passwords, bounds and clock.    *)
EXTENDS UserAccount, FiniteSetTheorems, TLAPS

Inv == TypeOK /\ CopiesAgree

\* What one step may do to the stored object of u: nothing, remove it, or
\* store an object of the present under the next resourceVersion.
Stores(u) ==
    \/ user'[u] = user[u]
    \/ user'[u] = NoUser
    \/ /\ user'[u] \in UserObject
       /\ rev' = rev + 1 /\ user'[u].rv = rev'
       /\ user'[u].since <= now' /\ user'[u].last <= now'

\* Every copy held after the step was held before it or is what is stored now.
Copied == \A u \in Users : \A c \in Copies(u)' : c \in Copies(u) \/ c = user'[u]

\* A Put is one of the things Stores allows, and stores what it is given.
LEMMA PutStores ==
    ASSUME TypeOK, NEW u \in Users, NEW o \in UserObject, Put(u, o),
           o.since <= now, o.last <= now, now' = now
    PROVE  /\ \A v \in Users : Stores(v)
           /\ user' \in UserMap /\ rev' \in Nat /\ rev <= rev'
           /\ \A v \in Users \ {u} : user'[v] = user[v]
           /\ user'[u] \in UserObject
           /\ user'[u].finalizer = o.finalizer /\ user'[u].deleting = o.deleting
           /\ user'[u].secret = o.secret /\ user'[u].hashed = o.hashed
           /\ user'[u].state = o.state /\ user'[u].since = o.since
           /\ user'[u].last = o.last
  <1>1. CASE o = user[u]
    BY <1>1 DEF Put, Stores, TypeOK, UserMap
  <1>2. CASE o # user[u]
    <2> DEFINE p == [o EXCEPT !.rv = rev + 1]
    <2>1. user' = [user EXCEPT ![u] = p] /\ rev' = rev + 1
      BY <1>2 DEF Put
    <2>2. p \in UserObject /\ p.rv = rev + 1
      BY DEF TypeOK, UserObject
    <2>3. user \in UserMap /\ rev \in Nat
      BY DEF TypeOK
    <2>4. user'[u] = p /\ user' \in UserMap
      BY <2>1, <2>2, <2>3 DEF UserMap
    <2>5. p.finalizer = o.finalizer /\ p.deleting = o.deleting /\ p.secret = o.secret
          /\ p.hashed = o.hashed /\ p.state = o.state /\ p.since = o.since /\ p.last = o.last
      BY DEF UserObject
    <2> HIDE DEF p
    <2>6. \A v \in Users \ {u} : user'[v] = user[v]
      BY <2>1, <2>3 DEF UserMap
    <2>7. Stores(u)
      BY <2>1, <2>2, <2>4, <2>5 DEF Stores
    <2> QED
      BY <2>1, <2>2, <2>3, <2>4, <2>5, <2>6, <2>7 DEF Stores
  <1> QED
    BY <1>1, <1>2

\* The step of the inductive argument on copies: a new version is newer than
\* every copy, so a copy under the current version is the current object.
LEMMA CopiesStep ==
    ASSUME Inv, now' \in Nat, rev' \in Nat, now <= now', rev <= rev',
           \A v \in Users : Stores(v), Copied
    PROVE  /\ CopiesAgree'
           /\ \A u \in Users : Past(user[u])' /\ \A c \in Copies(u)' : Past(c)'
  <1> USE DEF Inv
  <1>0. now \in Nat /\ rev \in Nat /\ user \in UserMap /\ mgr \in UserMap /\ srv \in UserMap
        /\ (worker = Idle \/ worker \in Passes)
    BY DEF TypeOK
  <1>a. \A u \in Users : \A c \in Copies(u) \cup {user[u]} : c # NoUser => c \in UserObject
    BY <1>0 DEF Copies, UserMap, Idle, Passes
  <1>1. CopiesAgree'
    <2> SUFFICES ASSUME NEW v \in Users, NEW c \in Copies(v)', c # NoUser,
                        Current(v, c)'
                 PROVE  c = user'[v]
      BY DEF CopiesAgree
    <2>1. user'[v] # NoUser /\ user'[v].rv = c.rv
      BY DEF Current
    <2>2. CASE c = user'[v]
      BY <2>2
    <2>3. CASE c \in Copies(v) /\ user'[v] = user[v]
      BY <2>1, <2>3 DEF CopiesAgree, Current
    <2>4. CASE c \in Copies(v) /\ user'[v] # user[v]
      <3>1. user'[v].rv = rev + 1
        BY <2>1, <2>4 DEF Stores
      <3>2. c.rv <= rev /\ c.rv \in Nat
        BY <2>4, <1>a DEF TypeOK, Past, UserObject
      <3> QED
        BY <3>1, <3>2, <2>1, <1>0
    <2> QED
      BY <2>2, <2>3, <2>4 DEF Copied
  <1>2. ASSUME NEW u \in Users PROVE Past(user[u])'
    <2>1. CASE user'[u] = user[u]
      <3>1. user[u] # NoUser => user[u] \in UserObject
        BY <1>a
      <3>2. Past(user[u])
        BY DEF TypeOK
      <3> QED
        BY <3>1, <3>2, <2>1, <1>0 DEF Past, UserObject
    <2>2. CASE user'[u] # user[u]
      BY <2>2, <1>0 DEF Stores, Past, UserObject
    <2> QED
      BY <2>1, <2>2
  <1>3. ASSUME NEW u \in Users, NEW c \in Copies(u)' PROVE Past(c)'
    <2>1. CASE c \in Copies(u)
      <3>1. c # NoUser => c \in UserObject
        BY <1>a, <2>1
      <3>2. Past(c)
        BY <2>1 DEF TypeOK
      <3> QED
        BY <3>1, <3>2, <1>0 DEF Past, UserObject
    <2>2. CASE c = user'[u]
      BY <2>2, <1>2 DEF Past
    <2> QED
      BY <2>1, <2>2 DEF Copied
  <1> QED
    BY <1>1, <1>2, <1>3

\* The steps on namespaces that no controller takes.
NamespaceStep == SyncNamespaces \/ \E ns \in Namespaces : CreateNamespace(ns)

\* The types of what does not involve copies.
Rest ==
    /\ now \in Nat /\ rev \in Nat
    /\ user \in UserMap /\ mgr \in UserMap /\ srv \in UserMap
    /\ records \subseteq LoginRecords /\ seen \subseteq LoginRecords
    /\ \A r \in records \cup seen : r.at <= now
    /\ bindings \subseteq Bindings
    /\ namespace \in [Namespaces -> NamespaceStates]
    /\ userQ \subseteq Users /\ granting \subseteq Users
    /\ recQ \subseteq Nat /\ expiring \in Nat
    /\ worker = Idle \/ worker \in Passes
    /\ spent \in [Ops -> Nat]

\* A step keeps the invariant if it keeps the types of the rest, stores only new
\* versions and copies only what is stored.
LEMMA InvStep ==
    ASSUME Inv, Rest', now <= now', rev <= rev', \A v \in Users : Stores(v), Copied
    PROVE  Inv'
  <1>1. now' \in Nat /\ rev' \in Nat
    BY DEF Rest
  <1>2. /\ CopiesAgree'
        /\ \A u \in Users : Past(user[u])' /\ \A c \in Copies(u)' : Past(c)'
    BY <1>1, CopiesStep
  <1> QED
    BY <1>2 DEF Inv, TypeOK, Rest

\* The part of the invariant that does not involve copies.
LEMMA InvRest == ASSUME Inv PROVE Rest
  BY DEF Inv, TypeOK, Rest

\* A step that leaves objects and copies alone.
LEMMA QuietStep ==
    ASSUME Inv, Rest', now <= now',
           UNCHANGED <<user, rev, mgr, srv>>, worker' = worker \/ worker' = Idle
    PROVE  Inv'
  <1>1. \A v \in Users : Stores(v)
    BY DEF Stores
  <1>2. Copied
    BY DEF Copied, Copies, Idle
  <1>3. rev <= rev'
    BY DEF Inv, TypeOK
  <1> QED
    BY <1>1, <1>2, <1>3, InvStep

\* The counters of the bounds stay counters.
LEMMA SpendType ==
    ASSUME Inv, NEW op \in Ops, Spend(op)
    PROVE  spent' \in [Ops -> Nat]
  BY DEF Inv, TypeOK, Spend

\* The invariant holds before anything exists.
LEMMA InitInv == Init => Inv
  <1> SUFFICES ASSUME Init PROVE Inv
    OBVIOUS
  <1>1. user \in UserMap /\ mgr = user /\ srv = user
    BY DEF Init, UserMap
  <1>2. \A u \in Users : user[u] = NoUser /\ \A c \in Copies(u) : c = NoUser
    BY DEF Init, Copies, Idle
  <1>3. worker = Idle
    BY DEF Init
  <1>4. spent \in [Ops -> Nat]
    BY DEF Init
  <1>5. now \in Nat /\ rev \in Nat /\ expiring \in Nat
    BY DEF Init
  <1>6. /\ records \subseteq LoginRecords /\ seen \subseteq LoginRecords
        /\ \A r \in records \cup seen : r.at <= now
        /\ bindings \subseteq Bindings /\ userQ \subseteq Users
        /\ granting \subseteq Users /\ recQ \subseteq Nat
        /\ namespace \in [Namespaces -> NamespaceStates]
    BY DEF Init, NamespaceStates
  <1>7. TypeOK
    BY <1>1, <1>2, <1>3, <1>4, <1>5, <1>6 DEF TypeOK, Past
  <1>8. CopiesAgree
    BY <1>2 DEF CopiesAgree
  <1> QED
    BY <1>7, <1>8 DEF Inv

\* The clock keeps the invariant: nothing is newer than before.
LEMMA TickInv == Inv /\ Tick => Inv'
  <1> SUFFICES ASSUME Inv, Tick PROVE Inv'
    OBVIOUS
  <1>1. Rest /\ now' = now + 1
        /\ UNCHANGED <<user, rev, records, bindings, mgr, srv, seen, namespace, userQ, recQ,
                       worker, expiring, granting, spent>>
    BY InvRest DEF Tick, cacheVars, queueVars
  <1>2. \A r \in records \cup seen : r.at \in Nat
    BY <1>1 DEF Rest, LoginRecords
  <1>3. now <= now' /\ now' \in Nat
    BY <1>1 DEF Rest
  <1>4. \A r \in records' \cup seen' : r.at <= now'
    BY <1>1, <1>2 DEF Rest
  <1>5. Rest'
    BY <1>1, <1>3, <1>4 DEF Rest, UserMap
  <1> QED
    BY <1>1, <1>3, <1>5, QuietStep

\* CreateUser stores a new object under a new version.
LEMMA CreateInv ==
    ASSUME Inv, NEW u \in Users, NEW s \in Secrets \cup {NoSecret}, NEW h \in BOOLEAN,
           CreateUser(u, s, h)
    PROVE  Inv'
  <1> DEFINE o == [ rv |-> rev + 1, finalizer |-> FALSE, deleting |-> FALSE,
                    secret |-> s, hashed |-> h, state |-> "none", since |-> 0, last |-> 0 ]
  <1>1. Rest
    BY InvRest
  <1>2. user' = [user EXCEPT ![u] = o] /\ rev' = rev + 1 /\ granting' = granting \cup {u}
        /\ UNCHANGED <<now, records, bindings, mgr, srv, seen, namespace, userQ, recQ, worker,
                       expiring>>
    BY DEF CreateUser, cacheVars, queueVars
  <1>3. spent' \in [Ops -> Nat]
    BY SpendType DEF CreateUser, Ops
  <1>4. o \in UserObject /\ o.rv = rev + 1 /\ o.since <= now /\ o.last <= now
    BY <1>1 DEF UserObject, Rest, States
  <1> HIDE DEF o
  <1>5. user' \in UserMap /\ \A v \in Users : user'[v] = user[v] \/ user'[v] = o
    BY <1>1, <1>2, <1>4 DEF Rest, UserMap
  <1>6. \A v \in Users : Stores(v)
    BY <1>2, <1>4, <1>5 DEF Stores
  <1>7. Copied
    BY <1>2 DEF Copied, Copies
  <1>8. rev <= rev' /\ now <= now'
    BY <1>1, <1>2 DEF Rest
  <1>9. Rest'
    BY <1>1, <1>2, <1>3, <1>5 DEF Rest
  <1> QED
    BY <1>6, <1>7, <1>8, <1>9, InvStep

\* The handlers that change roles.
LEMMA BindType ==
    ASSUME Inv, NEW u \in Users, NEW scope \in Scopes, Bind(u, scope)
    PROVE  bindings' \subseteq Bindings
  <1>1. (~Live(u)) \in BOOLEAN
    BY DEF Live
  <1>2. ASSUME NEW l \in BOOLEAN
        PROVE  [user |-> u, scope |-> scope, late |-> l] \in Bindings
    BY DEF Bindings
  <1>3. [user |-> u, scope |-> scope, late |-> ~Live(u)] \in Bindings
    BY <1>1, <1>2
  <1>4. bindings \subseteq Bindings
    BY DEF Inv, TypeOK
  <1> QED
    BY <1>3, <1>4 DEF Bind

\* The second call of CreateUser touches role bindings only.
LEMMA GrantInv ==
    ASSUME Inv, NEW u \in Users, GrantGlobalRole(u)
    PROVE  Inv'
  <1>1. Rest
    BY InvRest
  <1>2. bindings' \subseteq Bindings
    <2>1. CASE Bind(u, Global)
      BY <2>1, BindType DEF Scopes
    <2>2. CASE UNCHANGED bindings
      BY <2>2, <1>1 DEF Rest
    <2> QED
      BY <2>1, <2>2 DEF GrantGlobalRole
  <1>3. spent' \in [Ops -> Nat]
    BY SpendType DEF GrantGlobalRole, Ops
  <1>4. granting' \subseteq granting
        /\ UNCHANGED <<now, user, rev, records, mgr, srv, seen, namespace, userQ, recQ, worker,
                       expiring>>
    BY DEF GrantGlobalRole, cacheVars, queueVars
  <1>5. Rest' /\ now <= now'
    BY <1>1, <1>2, <1>3, <1>4 DEF Rest
  <1> QED
    BY <1>4, <1>5, QuietStep

\* Adding a member touches role bindings only.
LEMMA AddMemberInv ==
    ASSUME Inv, NEW u \in Users, NEW ns \in Namespaces, AddMember(u, ns)
    PROVE  Inv'
  <1>1. Rest
    BY InvRest
  <1>2. bindings' \subseteq Bindings
    BY BindType DEF AddMember, Scopes
  <1>3. spent' \in [Ops -> Nat]
    BY SpendType DEF AddMember, Ops
  <1>4. UNCHANGED <<now, user, rev, records, mgr, srv, seen, namespace, userQ, recQ, worker, expiring,
                    granting>>
    BY DEF AddMember, cacheVars, queueVars
  <1>5. Rest' /\ now <= now'
    BY <1>1, <1>2, <1>3, <1>4 DEF Rest
  <1> QED
    BY <1>4, <1>5, QuietStep

\* A write of an object that leaves the caches alone; a pass goes on with its
\* copy, with a later one, or ends.
LEMMA WriteStep ==
    ASSUME Inv, NEW u \in Users, NEW o \in UserObject, o.since <= now, o.last <= now,
           Put(u, o), UNCHANGED <<now, records, mgr, srv, seen, namespace, granting>>,
           bindings' \subseteq Bindings, Copied, worker' = Idle \/ worker' \in Passes,
           userQ' \subseteq Users, recQ' \subseteq Nat, expiring' \in Nat,
           spent' \in [Ops -> Nat]
    PROVE  Inv'
  <1>1. Rest
    BY InvRest
  <1>2. /\ \A v \in Users : Stores(v)
        /\ user' \in UserMap /\ rev' \in Nat /\ rev <= rev'
    BY PutStores DEF Inv
  <1>3. Rest' /\ now <= now'
    BY <1>1, <1>2 DEF Rest
  <1> QED
    BY <1>2, <1>3, InvStep

\* A step that removes at most one object.
LEMMA RemoveStep ==
    ASSUME Inv, NEW u \in Users, user' = [user EXCEPT ![u] = NoUser],
           UNCHANGED <<now, rev, records, bindings, mgr, srv, seen, namespace, recQ, expiring,
                       granting>>,
           worker' = worker \/ worker' = Idle, userQ' \subseteq Users,
           spent' \in [Ops -> Nat]
    PROVE  Inv'
  <1>1. Rest
    BY InvRest
  <1>2. user' \in UserMap /\ \A v \in Users : user'[v] = user[v] \/ user'[v] = NoUser
    BY <1>1 DEF Rest, UserMap
  <1>3. \A v \in Users : Stores(v)
    BY <1>2 DEF Stores
  <1>4. Copied
    BY DEF Copied, Copies, Idle
  <1>5. Rest' /\ now <= now' /\ rev <= rev'
    BY <1>1, <1>2 DEF Rest
  <1> QED
    BY <1>3, <1>4, <1>5, InvStep

\* No copy is new if the caches stay and the pass goes on as it was, or ends.
LEMMA SameCopies ==
    ASSUME UNCHANGED <<mgr, srv>>, worker' = worker \/ worker' = Idle
    PROVE  Copied
  BY DEF Copied, Copies, Idle

\* What is stored is a user object of the past.
LEMMA Stored ==
    ASSUME Inv, NEW u \in Users, user[u] # NoUser
    PROVE  user[u] \in UserObject /\ user[u].since <= now /\ user[u].last <= now
           /\ user[u].since \in Nat /\ user[u].last \in Nat /\ now \in Nat
  <1>1. user[u] \in UserObject /\ Past(user[u]) /\ now \in Nat
    BY DEF Inv, TypeOK, UserMap
  <1> QED
    BY <1>1 DEF Past, UserObject

\* ModifyPassword writes what it read from the lister with a new password.
LEMMA ModifyInv ==
    ASSUME Inv, NEW u \in Users, NEW s \in Secrets \cup {NoSecret}, NEW h \in BOOLEAN,
           ModifyPassword(u, s, h)
    PROVE  Inv'
  <1> DEFINE o == [user[u] EXCEPT !.secret = s, !.hashed = h]
  <1>1. /\ user[u] # NoUser /\ Put(u, o)
        /\ UNCHANGED <<now, records, bindings, mgr, srv, seen, namespace, userQ, recQ, worker,
                       expiring, granting>>
    BY DEF ModifyPassword, Current, cacheVars, queueVars
  <1>2. user[u] \in UserObject /\ user[u].since <= now /\ user[u].last <= now
    BY <1>1, Stored
  <1>3. o \in UserObject /\ o.since <= now /\ o.last <= now
    BY <1>2 DEF UserObject
  <1> HIDE DEF o
  <1>4. spent' \in [Ops -> Nat]
    BY SpendType DEF ModifyPassword, Ops
  <1>5. Copied
    BY <1>1, SameCopies
  <1> QED
    BY <1>1, <1>3, <1>4, <1>5, WriteStep, InvRest DEF Rest

\* Bindings that are missed are bindings still, the same but for being late.
LEMMA MissType ==
    ASSUME bindings \subseteq Bindings, NEW u \in Users, MissBindings(u)
    PROVE  /\ bindings' \subseteq Bindings
           /\ \A b \in bindings' : ~b.late =>
                b \in bindings /\ (b.user = u => b.scope \in Cached \cup {Global})
  <1> SUFFICES ASSUME NEW b \in bindings'
               PROVE  /\ b \in Bindings
                      /\ ~b.late => b \in bindings /\ (b.user = u => b.scope \in Cached \cup {Global})
    OBVIOUS
  <1> DEFINE Missed(x) == x.user = u /\ x.scope \notin Cached \cup {Global}
  <1>1. PICK x \in bindings : b = IF Missed(x) THEN [x EXCEPT !.late = TRUE] ELSE x
    BY DEF MissBindings
  <1>2. CASE Missed(x)
    BY <1>1, <1>2 DEF Bindings
  <1>3. CASE ~Missed(x)
    BY <1>1, <1>3
  <1> QED
    BY <1>2, <1>3

\* DeleteUser marks an object or removes it.
LEMMA DeleteInv ==
    ASSUME Inv, NEW u \in Users, DeleteUser(u)
    PROVE  Inv'
  <1> DEFINE o == [user[u] EXCEPT !.deleting = TRUE]
  <1>1. /\ user[u] # NoUser
        /\ UNCHANGED <<now, records, mgr, srv, seen, namespace, userQ, recQ, worker,
                       expiring, granting>>
    BY DEF DeleteUser, cacheVars, queueVars
  <1>2. user[u] \in UserObject /\ user[u].since <= now /\ user[u].last <= now
    BY <1>1, Stored
  <1>3. o \in UserObject /\ o.since <= now /\ o.last <= now
    BY <1>2 DEF UserObject
  <1>4. spent' \in [Ops -> Nat]
    BY SpendType DEF DeleteUser, Ops
  <1>5. Copied
    BY <1>1, SameCopies
  <1>6. CASE user[u].finalizer
    <2>1. Put(u, o) /\ MissBindings(u)
      BY <1>6 DEF DeleteUser
    <2> HIDE DEF o
    <2>2. bindings' \subseteq Bindings
      BY <2>1, InvRest, MissType DEF Rest
    <2> QED
      BY <2>1, <2>2, <1>1, <1>3, <1>4, <1>5, WriteStep, InvRest DEF Rest
  <1>7. CASE ~user[u].finalizer
    <2>1. user' = [user EXCEPT ![u] = NoUser] /\ UNCHANGED <<rev, bindings>>
      BY <1>7 DEF DeleteUser
    <2> QED
      BY <2>1, <1>1, <1>4, RemoveStep, InvRest DEF Rest
  <1> QED
    BY <1>6, <1>7

\* An operator's write of the state is a write like any other.
LEMMA SetStateInv ==
    ASSUME Inv, NEW u \in Users, NEW st \in {"Active", "Disabled"}, SetState(u, st)
    PROVE  Inv'
  <1> DEFINE o == [user[u] EXCEPT !.state = st]
  <1>1. /\ user[u] # NoUser /\ Put(u, o)
        /\ UNCHANGED <<now, records, bindings, mgr, srv, seen, namespace, userQ, recQ, worker,
                       expiring, granting>>
    BY DEF SetState, cacheVars, queueVars
  <1>2. user[u] \in UserObject /\ user[u].since <= now /\ user[u].last <= now
    BY <1>1, Stored
  <1>3. o \in UserObject /\ o.since <= now /\ o.last <= now
    BY <1>2 DEF UserObject, States
  <1> HIDE DEF o
  <1>4. spent' \in [Ops -> Nat]
    BY SpendType DEF SetState, Ops
  <1>5. Copied
    BY <1>1, SameCopies
  <1> QED
    BY <1>1, <1>3, <1>4, <1>5, WriteStep, InvRest DEF Rest

\* A login record carries a time that is not ahead of the clock.
LEMMA RecordLoginType ==
    ASSUME Inv, NEW l \in Users, NEW ok, ok \in BOOLEAN, RecordLogin(l, ok)
    PROVE  /\ records' \subseteq LoginRecords
           /\ \A r \in records' \cup seen : r.at <= now
  <1>1. Rest
    BY InvRest
  <1> DEFINE late == ~Live(l)
             new  == [ id |-> spent["login"] + 1, label |-> l, ok |-> ok, at |-> now,
                       late |-> late ]
  <1>2. late \in BOOLEAN
    BY DEF Live
  <1>3. spent["login"] + 1 \in Nat
    BY <1>1 DEF Rest, Ops
  <1>4. records' = records \cup {new}
    BY DEF RecordLogin
  <1> HIDE DEF late
  <1>5. new \in LoginRecords /\ new.at = now
    BY <1>1, <1>2, <1>3 DEF LoginRecords, Rest
  <1> HIDE DEF new
  <1> QED
    BY <1>1, <1>4, <1>5 DEF Rest

\* Password grants touch login records only.
LEMMA PasswordGrantInv ==
    ASSUME Inv, NEW n \in Users, NEW s \in Secrets \cup {NoSecret}, PasswordGrant(n, s)
    PROVE  Inv'
  <1>1. Rest
    BY InvRest
  <1>2. srv[n] \in UserObject
    BY <1>1 DEF PasswordGrant, Rest, UserMap
  <1>3. Verified(srv[n], s) \in BOOLEAN
    BY <1>2 DEF Verified, UserObject
  <1>4. records' \subseteq LoginRecords /\ \A r \in records' \cup seen : r.at <= now
    BY <1>2, <1>3, RecordLoginType DEF PasswordGrant
  <1>5. spent' \in [Ops -> Nat]
    BY SpendType DEF PasswordGrant, RecordLogin, Ops
  <1>6. UNCHANGED <<now, user, rev, bindings, mgr, srv, seen, namespace, userQ, recQ, worker,
                    expiring, granting>>
    BY DEF PasswordGrant, cacheVars, queueVars
  <1>7. Rest' /\ now <= now'
    BY <1>1, <1>4, <1>5, <1>6 DEF Rest
  <1> QED
    BY <1>6, <1>7, QuietStep

\* The manager's informers.
LEMMA SyncManagerInv ==
    ASSUME Inv, NEW u \in Users, SyncManagerUser(u)
    PROVE  Inv'
  <1>1. Rest
    BY InvRest
  <1>2. /\ mgr' = [mgr EXCEPT ![u] = user[u]] /\ userQ' = userQ \cup {u}
        /\ UNCHANGED <<now, user, rev, records, bindings, srv, seen, namespace, recQ, worker,
                       expiring, granting, spent>>
    BY DEF SyncManagerUser, apiVars
  <1>3. mgr' \in UserMap /\ \A v \in Users : mgr'[v] = mgr[v] \/ mgr'[v] = user[v]
    BY <1>1, <1>2 DEF Rest, UserMap
  <1>4. Copied
    BY <1>2, <1>3 DEF Copied, Copies
  <1>5. \A v \in Users : Stores(v)
    BY <1>2 DEF Stores
  <1>6. Rest' /\ now <= now' /\ rev <= rev'
    BY <1>1, <1>2, <1>3 DEF Rest
  <1> QED
    BY <1>4, <1>5, <1>6, InvStep

\* The cache of ai-server takes over what is stored.
LEMMA SyncServerInv ==
    ASSUME Inv, NEW u \in Users, SyncServerUser(u)
    PROVE  Inv'
  <1>1. Rest
    BY InvRest
  <1>2. /\ srv' = [srv EXCEPT ![u] = user[u]]
        /\ UNCHANGED <<now, user, rev, records, bindings, mgr, seen, namespace, userQ, recQ, worker,
                       expiring, granting, spent>>
    BY DEF SyncServerUser, apiVars, queueVars
  <1>3. srv' \in UserMap /\ \A v \in Users : srv'[v] = srv[v] \/ srv'[v] = user[v]
    BY <1>1, <1>2 DEF Rest, UserMap
  <1>4. Copied
    BY <1>2, <1>3 DEF Copied, Copies
  <1>5. \A v \in Users : Stores(v)
    BY <1>2 DEF Stores
  <1>6. Rest' /\ now <= now' /\ rev <= rev'
    BY <1>1, <1>2, <1>3 DEF Rest
  <1> QED
    BY <1>4, <1>5, <1>6, InvStep

\* Records are queued under numbers.
LEMMA IdsType == ASSUME NEW rs, rs \subseteq LoginRecords PROVE Ids(rs) \subseteq Nat
  BY DEF Ids, LoginRecords

\* The cache of records takes over what is stored.
LEMMA SyncRecordsInv == ASSUME Inv, SyncRecords PROVE Inv'
  <1>1. Rest
    BY InvRest
  <1>2. Ids(records \ seen) \subseteq Nat
    BY <1>1, IdsType DEF Rest
  <1>3. /\ seen' = records /\ recQ' = recQ \cup Ids(records \ seen)
        /\ UNCHANGED <<now, user, rev, records, bindings, mgr, srv, namespace, userQ, worker,
                       expiring, granting, spent>>
    BY DEF SyncRecords, apiVars
  <1>a. recQ' \subseteq Nat
    BY <1>1, <1>2, <1>3 DEF Rest
  <1>b. \A r \in records' \cup seen' : r.at <= now'
    BY <1>1, <1>3 DEF Rest
  <1>c. seen' \subseteq LoginRecords /\ now <= now'
    BY <1>1, <1>3 DEF Rest
  <1>4. Rest'
    BY <1>1, <1>3, <1>a, <1>b, <1>c DEF Rest
  <1> QED
    BY <1>3, <1>4, <1>c, QuietStep

\* What the informer of namespaces holds once it has caught up.
LEMMA ListedType ==
    ASSUME namespace \in [Namespaces -> NamespaceStates]
    PROVE  /\ Listed \in [Namespaces -> NamespaceStates]
           /\ \A ns \in Namespaces : namespace[ns] = "cached" => Listed[ns] = "cached"
  BY DEF Listed, NamespaceStates

\* Namespaces are all that these steps touch.
LEMMA NamespaceInv == ASSUME Inv, NamespaceStep PROVE Inv'
  <1>1. Rest
    BY InvRest
  <1>2. UNCHANGED <<now, user, rev, records, bindings, mgr, srv, seen, userQ, recQ, worker,
                    expiring, granting>>
    BY DEF NamespaceStep, SyncNamespaces, CreateNamespace, apiVars, queueVars
  <1>3. namespace' \in [Namespaces -> NamespaceStates]
    BY <1>1, ListedType DEF NamespaceStep, SyncNamespaces, CreateNamespace, Rest, NamespaceStates
  <1>4. spent' \in [Ops -> Nat]
    BY <1>1, SpendType DEF NamespaceStep, SyncNamespaces, CreateNamespace, Rest, Ops
  <1>5. Rest' /\ now <= now'
    BY <1>1, <1>2, <1>3, <1>4 DEF Rest
  <1> QED
    BY <1>2, <1>5, QuietStep

\* A resync touches the queues only.
LEMMA ResyncInv == ASSUME Inv, Resync PROVE Inv'
  <1>1. Rest
    BY InvRest
  <1>2. Ids(seen) \subseteq Nat
    BY <1>1, IdsType DEF Rest
  <1>3. spent' \in [Ops -> Nat]
    BY SpendType DEF Resync, Ops
  <1>4. /\ userQ' \subseteq Users /\ recQ' = recQ \cup Ids(seen)
        /\ UNCHANGED <<now, user, rev, records, bindings, mgr, srv, seen, namespace, worker,
                       expiring, granting>>
    BY <1>1 DEF Resync, Rest, apiVars, cacheVars
  <1>a. recQ' \subseteq Nat
    BY <1>1, <1>2, <1>4 DEF Rest
  <1>5. Rest' /\ now <= now'
    BY <1>1, <1>3, <1>4, <1>a DEF Rest
  <1> QED
    BY <1>4, <1>5, QuietStep

\* A restart lists what is stored and forgets the pass.
LEMMA RestartInv == ASSUME Inv, Restart PROVE Inv'
  <1>1. Rest
    BY InvRest
  <1>2. Ids(records) \subseteq Nat
    BY <1>1, IdsType DEF Rest
  <1>3. spent' \in [Ops -> Nat]
    BY SpendType DEF Restart, Ops
  <1>4. /\ mgr' = user /\ seen' = records /\ userQ' \subseteq Users
        /\ recQ' = Ids(records) /\ worker' = Idle /\ expiring' = 0
        /\ UNCHANGED <<now, user, rev, records, bindings, srv, granting>>
        /\ namespace' = Listed
    BY DEF Restart, apiVars
  <1>8. namespace' \in [Namespaces -> NamespaceStates]
    BY <1>1, <1>4, ListedType DEF Rest
  <1>5. Rest' /\ now <= now' /\ rev <= rev'
    BY <1>1, <1>2, <1>3, <1>4, <1>8 DEF Rest
  <1>6. Copied
    BY <1>4 DEF Copied, Copies, Idle
  <1>7. \A v \in Users : Stores(v)
    BY <1>4 DEF Stores
  <1> QED
    BY <1>5, <1>6, <1>7, InvStep

\* The user controller's worker.
LEMMA PassType ==
    ASSUME Inv, worker.pc # "idle"
    PROVE  /\ worker \in Passes /\ worker.user \in Users /\ worker.copy \in UserObject
           /\ worker.todo \in SUBSET Scopes /\ worker.copy # NoUser
           /\ worker.copy \in Copies(worker.user)
  <1>1. worker = Idle \/ worker \in Passes
    BY DEF Inv, TypeOK
  <1>2. worker \in Passes
    BY <1>1 DEF Idle
  <1> QED
    BY <1>2, ValuesAssumption DEF Passes, Copies

\* A pass that is allowed to write was computed from the stored object.
LEMMA PassCurrent ==
    ASSUME Inv, worker.pc # "idle", Current(worker.user, worker.copy)
    PROVE  worker.copy = user[worker.user] /\ user[worker.user] # NoUser
  BY PassType DEF Inv, CopiesAgree, Current

\* A pass is made of a program counter, a user, a copy and what is left to do.
LEMMA DoingType ==
    ASSUME NEW pc \in PCs \ {"idle"}, NEW u \in Users, NEW c \in UserObject,
           NEW todo \in SUBSET Scopes
    PROVE  /\ Doing(pc, u, c, todo) \in Passes
           /\ Doing(pc, u, c, todo).user = u /\ Doing(pc, u, c, todo).copy = c
           /\ Doing(pc, u, c, todo).pc = pc
  BY DEF Doing, Passes

\* A pass starts with the cached object as its copy.
LEMMA GetUserInv ==
    ASSUME Inv, NEW u \in Users, GetUser(u)
    PROVE  Inv'
  <1>1. Rest
    BY InvRest
  <1> DEFINE c == mgr[u]
  <1>2. userQ' = userQ \ {u}
        /\ UNCHANGED <<now, user, rev, records, bindings, mgr, srv, seen, namespace, recQ,
                       expiring, granting, spent>>
    BY DEF GetUser, apiVars, cacheVars
  <1>3. \/ worker' = Idle
        \/ /\ c # NoUser
           /\ \E pc \in PCs \ {"idle"}, todo \in SUBSET Scopes : worker' = Doing(pc, u, c, todo)
    BY DEF GetUser, PCs, Scopes, AfterFinalizer
  <1>4. c # NoUser => c \in UserObject
    BY <1>1 DEF Rest, UserMap
  <1>5. worker' = Idle \/ (worker' \in Passes /\ worker'.user = u /\ worker'.copy = c)
    BY <1>3, <1>4, DoingType
  <1>6. Copied
    BY <1>2, <1>5 DEF Copied, Copies, Idle
  <1>7. \A v \in Users : Stores(v)
    BY <1>2 DEF Stores
  <1>8. Rest' /\ now <= now' /\ rev <= rev'
    BY <1>1, <1>2, <1>5 DEF Rest
  <1> QED
    BY <1>6, <1>7, <1>8, InvStep

\* A pass that fails leaves the worker idle and its user queued.
LEMMA RetryType ==
    ASSUME Inv, worker.pc # "idle", Retry
    PROVE  worker' = Idle /\ userQ' \subseteq Users
  BY PassType, InvRest DEF Retry, Rest

\* AddFinalizer goes on with the object it stored.
LEMMA AddFinalizerInv == ASSUME Inv, AddFinalizer PROVE Inv'
  <1> DEFINE u == worker.user
             c == [worker.copy EXCEPT !.finalizer = TRUE, !.rv = rev + 1]
  <1>1. Rest
    BY InvRest
  <1>2. worker.pc # "idle"
    BY DEF AddFinalizer
  <1>3. UNCHANGED <<now, records, bindings, mgr, srv, seen, namespace, recQ, expiring,
                    granting, spent>>
    BY DEF AddFinalizer, cacheVars
  <1>4. CASE Current(u, worker.copy)
    <2>1. /\ user' = [user EXCEPT ![u] = c] /\ rev' = rev + 1
          /\ worker' = Doing(AfterFinalizer(c), u, c, {}) /\ UNCHANGED userQ
      BY <1>4 DEF AddFinalizer
    <2>2. /\ u \in Users /\ worker.copy \in UserObject
          /\ worker.copy.since <= now /\ worker.copy.last <= now
      BY <1>2, <1>4, PassType, PassCurrent, Stored
    <2>a. rev + 1 \in Nat
      BY <1>1 DEF Rest
    <2>b. c \in UserObject
      BY <2>2, <2>a DEF UserObject
    <2>c. c.rv = rev + 1 /\ c.since = worker.copy.since /\ c.last = worker.copy.last
      BY <2>2 DEF UserObject
    <2> HIDE DEF c
    <2>3. c \in UserObject /\ c.rv = rev + 1 /\ c.since <= now /\ c.last <= now
      BY <2>2, <2>b, <2>c
    <2>4. user' \in UserMap /\ user'[u] = c /\ \A v \in Users : user'[v] = user[v] \/ v = u
      BY <1>1, <2>1, <2>2, <2>3 DEF Rest, UserMap
    <2>5. AfterFinalizer(c) \in PCs \ {"idle"}
      BY DEF AfterFinalizer, PCs
    <2>6. worker' \in Passes /\ worker'.user = u /\ worker'.copy = c
      BY <2>1, <2>2, <2>3, <2>5, DoingType
    <2>7. Copied
      BY <1>3, <2>4, <2>6 DEF Copied, Copies
    <2>8. \A v \in Users : Stores(v)
      BY <1>3, <2>1, <2>3, <2>4 DEF Stores
    <2>9. Rest' /\ now <= now' /\ rev <= rev'
      BY <1>1, <1>3, <2>1, <2>4, <2>6 DEF Rest
    <2> QED
      BY <2>7, <2>8, <2>9, InvStep
  <1>5. CASE ~Current(u, worker.copy)
    <2>1. Retry /\ UNCHANGED <<user, rev>>
      BY <1>5 DEF AddFinalizer
    <2>2. worker' = Idle /\ userQ' \subseteq Users
      BY <1>2, <2>1, RetryType
    <2>3. Rest' /\ now <= now'
      BY <1>1, <1>3, <2>1, <2>2 DEF Rest
    <2> QED
      BY <1>3, <2>1, <2>2, <2>3, QuietStep
  <1> QED
    BY <1>4, <1>5

\* A pass that retries leaves objects and caches alone.
LEMMA RetryStep ==
    ASSUME Inv, worker.pc # "idle", Retry,
           UNCHANGED <<now, user, rev, records, bindings, mgr, srv, seen, namespace, recQ, expiring,
                       granting>>,
           spent' \in [Ops -> Nat]
    PROVE  Inv'
  <1>1. Rest /\ worker' = Idle /\ userQ' \subseteq Users
    BY InvRest, RetryType
  <1>2. Rest' /\ now <= now'
    BY <1>1 DEF Rest
  <1> QED
    BY <1>1, <1>2, QuietStep

\* EncryptPassword stores a new object and goes on with the old copy, which is
\* then under an older version.
LEMMA EncryptInv == ASSUME Inv, EncryptPassword PROVE Inv'
  <1> DEFINE u == worker.user
             c == worker.copy
             o == [c EXCEPT !.hashed = TRUE]
  <1>1. worker.pc # "idle"
        /\ UNCHANGED <<now, records, bindings, mgr, srv, seen, namespace, recQ, expiring,
                       granting, spent>>
    BY DEF EncryptPassword, cacheVars
  <1>2. CASE Current(u, c) /\ c.secret \notin LongSecrets
    <2>1. Put(u, o) /\ worker' = [worker EXCEPT !.pc = "sync"] /\ UNCHANGED userQ
      BY <1>2 DEF EncryptPassword
    <2>2. worker \in Passes /\ u \in Users /\ c \in UserObject /\ c.since <= now /\ c.last <= now
      BY <1>1, <1>2, PassType, PassCurrent, Stored
    <2>3. o \in UserObject /\ o.since <= now /\ o.last <= now
      BY <2>2 DEF UserObject
    <2> HIDE DEF o
    <2>4. worker' \in Passes /\ worker'.user = u /\ worker'.copy = c
      BY <2>1, <2>2 DEF Passes, PCs
    <2>5. Copied
      BY <1>1, <2>1, <2>4 DEF Copied, Copies
    <2> QED
      BY <1>1, <2>1, <2>2, <2>3, <2>4, <2>5, WriteStep, InvRest DEF Rest
  <1>3. CASE ~(Current(u, c) /\ c.secret \notin LongSecrets)
    <2>1. Retry /\ UNCHANGED <<user, rev>>
      BY <1>3 DEF EncryptPassword
    <2> QED
      BY <1>1, <2>1, RetryStep, InvRest DEF Rest
  <1> QED
    BY <1>2, <1>3

\* WriteState stores the state with the present as its time.
LEMMA WriteStateInv ==
    ASSUME Inv, NEW st \in States, worker.pc # "idle", WriteState(st),
           UNCHANGED <<now, records, bindings, mgr, srv, seen, namespace, recQ, expiring,
                       granting, spent>>
    PROVE  Inv'
  <1> DEFINE u == worker.user
             o == [user[u] EXCEPT !.state = st, !.since = now, !.last = 0]
  <1>1. CASE Current(u, worker.copy)
    <2>1. Put(u, o) /\ worker' = Idle /\ UNCHANGED userQ
      BY <1>1 DEF WriteState, Done
    <2>2. u \in Users /\ user[u] \in UserObject /\ now \in Nat
      BY <1>1, PassType, PassCurrent, Stored
    <2>3. o \in UserObject
      BY <2>2 DEF UserObject
    <2>4. o.since = now /\ o.last = 0
      BY <2>2 DEF UserObject
    <2>5. o.since <= now /\ o.last <= now
      BY <2>2, <2>4
    <2> HIDE DEF o
    <2>6. Copied
      BY <2>1, SameCopies
    <2> QED
      BY <2>1, <2>2, <2>3, <2>5, <2>6, WriteStep, InvRest DEF Rest
  <1>2. CASE ~Current(u, worker.copy)
    <2>1. Retry /\ UNCHANGED <<user, rev>>
      BY <1>2 DEF WriteState
    <2> QED
      BY <2>1, RetryStep, InvRest DEF Rest
  <1> QED
    BY <1>1, <1>2

\* SyncUserStatus writes the state or ends the pass.
LEMMA SyncStatusInv == ASSUME Inv, SyncUserStatus PROVE Inv'
  <1>1. worker.pc # "idle"
        /\ UNCHANGED <<now, records, bindings, mgr, srv, seen, namespace, recQ, expiring,
                       granting, spent>>
    BY DEF SyncUserStatus, cacheVars
  <1>2. WriteState("Active") \/ WriteState("AuthLimitExceeded")
        \/ (Done /\ UNCHANGED <<user, rev>>)
    BY DEF SyncUserStatus
  <1>3. CASE Done /\ UNCHANGED <<user, rev>>
    <2>1. Rest' /\ now <= now' /\ worker' = Idle
      BY <1>1, <1>3, InvRest DEF Rest, Done
    <2> QED
      BY <1>1, <1>3, <2>1, QuietStep
  <1> QED
    BY <1>1, <1>2, <1>3, WriteStateInv DEF States

\* The clean-up of a deleted user.
LEMMA DeleteBindingsInv ==
    ASSUME Inv, NEW scope \in Scopes, DeleteRoleBindings(scope)
    PROVE  Inv'
  <1> DEFINE u == worker.user
             todo == worker.todo \ {scope}
  <1>1. worker.pc # "idle"
        /\ UNCHANGED <<now, user, rev, records, mgr, srv, seen, namespace, userQ, recQ, expiring, granting,
                       spent>>
        /\ bindings' \subseteq bindings
    BY DEF DeleteRoleBindings, cacheVars, queueVars
  <1>2. \/ worker' = Doing("records", u, worker.copy, todo)
        \/ worker' = Doing("bindings", u, worker.copy, todo)
        \/ worker' = Doing("namespaces", u, worker.copy, todo)
    BY DEF DeleteRoleBindings, AfterBindings
  <1>3. u \in Users /\ worker.copy \in UserObject /\ todo \in SUBSET Scopes
    BY <1>1, PassType
  <1>4. worker' \in Passes /\ worker'.user = u /\ worker'.copy = worker.copy
    BY <1>2, <1>3, DoingType DEF PCs
  <1>5. Copied
    BY <1>1, <1>4 DEF Copied, Copies
  <1>6. \A v \in Users : Stores(v)
    BY <1>1 DEF Stores
  <1>7. Rest' /\ now <= now' /\ rev <= rev'
    BY <1>1, <1>4, InvRest DEF Rest
  <1> QED
    BY <1>5, <1>6, <1>7, InvStep

\* Listing the namespaces is a read of the cache.
LEMMA ListNamespacesInv == ASSUME Inv, ListNamespaces PROVE Inv'
  <1>1. worker.pc # "idle"
        /\ UNCHANGED <<now, user, rev, records, bindings, mgr, srv, seen, namespace, userQ, recQ,
                       expiring, granting, spent>>
    BY DEF ListNamespaces, apiVars, cacheVars, queueVars
  <1>2. \/ worker' = Doing("records", worker.user, worker.copy, Cached)
        \/ worker' = Doing("bindings", worker.user, worker.copy, Cached)
    BY DEF ListNamespaces, AfterBindings
  <1>3. worker.user \in Users /\ worker.copy \in UserObject /\ Cached \in SUBSET Scopes
    BY <1>1, PassType DEF Cached, Scopes
  <1>4. worker' \in Passes /\ worker'.user = worker.user /\ worker'.copy = worker.copy
    BY <1>2, <1>3, DoingType DEF PCs
  <1>5. Copied
    BY <1>1, <1>4 DEF Copied, Copies
  <1>6. \A v \in Users : Stores(v)
    BY <1>1 DEF Stores
  <1>7. Rest' /\ now <= now' /\ rev <= rev'
    BY <1>1, <1>4, InvRest DEF Rest
  <1> QED
    BY <1>5, <1>6, <1>7, InvStep

\* Deleting login records touches them only.
LEMMA DeleteRecordsInv == ASSUME Inv, DeleteLoginRecords PROVE Inv'
  <1>1. worker.pc # "idle" /\ worker' = [worker EXCEPT !.pc = "release"]
        /\ UNCHANGED <<now, user, rev, bindings, mgr, srv, seen, namespace, userQ, recQ, expiring, granting,
                       spent>>
        /\ records' \subseteq records
    BY DEF DeleteLoginRecords, cacheVars, queueVars
  <1>2. worker \in Passes
    BY <1>1, PassType
  <1>3. worker' \in Passes /\ worker'.user = worker.user /\ worker'.copy = worker.copy
    BY <1>1, <1>2 DEF Passes, PCs
  <1>4. Copied
    BY <1>1, <1>3 DEF Copied, Copies
  <1>5. \A v \in Users : Stores(v)
    BY <1>1 DEF Stores
  <1>6. Rest' /\ now <= now' /\ rev <= rev'
    BY <1>1, <1>3, InvRest DEF Rest
  <1> QED
    BY <1>4, <1>5, <1>6, InvStep

\* Taking the finalizer off removes the object.
LEMMA RemoveFinalizerInv == ASSUME Inv, RemoveFinalizer PROVE Inv'
  <1> DEFINE u == worker.user
  <1>1. worker.pc # "idle"
        /\ UNCHANGED <<now, rev, records, bindings, mgr, srv, seen, namespace, recQ, expiring,
                       granting, spent>>
    BY DEF RemoveFinalizer, cacheVars
  <1>2. CASE Current(u, worker.copy)
    <2>1. user' = [user EXCEPT ![u] = NoUser] /\ worker' = Idle /\ UNCHANGED userQ
      BY <1>2 DEF RemoveFinalizer, Done
    <2>2. u \in Users
      BY <1>1, PassType
    <2> QED
      BY <1>1, <2>1, <2>2, RemoveStep, InvRest DEF Rest
  <1>3. CASE ~Current(u, worker.copy)
    <2>1. Retry /\ UNCHANGED user
      BY <1>3 DEF RemoveFinalizer
    <2> QED
      BY <1>1, <2>1, RetryStep, InvRest DEF Rest
  <1> QED
    BY <1>2, <1>3

\* A failed call ends the pass.
LEMMA CallFailsInv == ASSUME Inv, CallFails PROVE Inv'
  <1>1. spent' \in [Ops -> Nat]
    BY SpendType DEF CallFails, Ops
  <1> QED
    BY <1>1, RetryStep DEF CallFails, apiVars, cacheVars

\* The login record controller.
LEMMA LastLoginInv ==
    ASSUME Inv, NEW r \in seen, UpdateUserLastLoginTime(r)
    PROVE  Inv'
  <1> DEFINE u == r.label
             newer == NewerLogin(r)
             o == [user[u] EXCEPT !.last = r.at]
  <1>1. /\ u \in Users /\ mgr[u] # NoUser /\ (newer => Current(u, mgr[u]))
        /\ (newer => Put(u, o)) /\ (~newer => UNCHANGED <<user, rev>>)
        /\ recQ' = recQ \ {r.id} /\ expiring' = r.id
        /\ UNCHANGED <<now, records, bindings, mgr, srv, seen, namespace, userQ, worker,
                       granting, spent>>
    BY InvRest DEF UpdateUserLastLoginTime, WriteLastLogin, cacheVars, Rest, LoginRecords
  <1>2. Rest /\ r.id \in Nat /\ r.at \in Nat /\ r.at <= now
    BY InvRest DEF Rest, LoginRecords
  <1>3. Copied
    BY <1>1, SameCopies
  <1>4. CASE newer
    <2>1. user[u] # NoUser
      BY <1>1, <1>4 DEF Current
    <2>2. user[u] \in UserObject /\ user[u].since <= now
      BY <1>1, <2>1, Stored
    <2>3. o \in UserObject
      BY <1>2, <2>2 DEF UserObject
    <2>4. o.since = user[u].since /\ o.last = r.at
      BY <2>2 DEF UserObject
    <2>5. o.since <= now /\ o.last <= now
      BY <1>2, <2>2, <2>4
    <2>6. Put(u, o)
      BY <1>1, <1>4
    <2> HIDE DEF o, newer
    <2> QED
      BY <1>1, <1>2, <1>3, <2>3, <2>5, <2>6, WriteStep DEF Rest
  <1>5. CASE ~newer
    <2>1. UNCHANGED <<user, rev>>
      BY <1>1, <1>5
    <2> HIDE DEF newer
    <2>2. Rest' /\ now <= now'
      BY <1>1, <1>2, <2>1 DEF Rest
    <2> QED
      BY <1>1, <2>1, <2>2, QuietStep
  <1> QED
    BY <1>4, <1>5

\* Expiring a record touches login records only.
LEMMA ExpireInv == ASSUME Inv, ExpireRecord PROVE Inv'
  <1>1. /\ records' \subseteq records /\ expiring' = 0
        /\ UNCHANGED <<now, user, rev, bindings, mgr, srv, seen, namespace, userQ, recQ, worker,
                       granting, spent>>
    BY DEF ExpireRecord, cacheVars, queueVars
  <1>2. Rest' /\ now <= now'
    BY <1>1, InvRest DEF Rest
  <1> QED
    BY <1>1, <1>2, QuietStep

\* A record that could not be deleted goes back to the queue.
LEMMA ExpireFailsInv == ASSUME Inv, ExpireFails PROVE Inv'
  <1>1. /\ expiring' = 0 /\ recQ' = recQ \cup {expiring} /\ spent' \in [Ops -> Nat]
        /\ UNCHANGED <<now, user, rev, records, bindings, mgr, srv, seen, namespace, userQ, worker,
                       granting>>
    BY InvRest, SpendType DEF ExpireFails, apiVars, cacheVars, Rest, Ops
  <1>2. Rest' /\ now <= now'
    BY <1>1, InvRest DEF Rest
  <1> QED
    BY <1>1, <1>2, QuietStep

\* Dropping a record from the queue touches the queue only.
LEMMA DropInv == ASSUME Inv, NEW id \in recQ, DropRecord(id) PROVE Inv'
  <1>1. /\ recQ' \subseteq recQ
        /\ UNCHANGED <<now, user, rev, records, bindings, mgr, srv, seen, namespace, userQ, worker,
                       expiring, granting, spent>>
    BY DEF DropRecord, apiVars, cacheVars
  <1>2. Rest' /\ now <= now'
    BY <1>1, InvRest DEF Rest
  <1> QED
    BY <1>1, <1>2, QuietStep

\* Every step keeps the invariant.
LEMMA NextInv == Inv /\ [Next]_vars => Inv'
  <1> SUFFICES ASSUME Inv, [Next]_vars PROVE Inv'
    OBVIOUS
  <1>1. CASE Tick
    BY <1>1, TickInv
  <1>2. ASSUME NEW u \in Users, UserHandlers(u) PROVE Inv'
    BY <1>2, CreateInv, ModifyInv, GrantInv, AddMemberInv, DeleteInv, SetStateInv DEF UserHandlers
  <1>3. ASSUME NEW u \in Users, SyncManagerUser(u) \/ SyncServerUser(u) \/ GetUser(u) PROVE Inv'
    BY <1>3, SyncManagerInv, SyncServerInv, GetUserInv
  <1>4. ASSUME NEW n \in Users, Logins(n) PROVE Inv'
    BY <1>4, PasswordGrantInv DEF Logins
  <1>5. CASE SyncRecords \/ NamespaceStep \/ Resync \/ Restart
    BY <1>5, SyncRecordsInv, NamespaceInv, ResyncInv, RestartInv
  <1>6. CASE UserPass
    BY <1>6, AddFinalizerInv, EncryptInv, SyncStatusInv, DeleteBindingsInv, ListNamespacesInv,
       DeleteRecordsInv, RemoveFinalizerInv DEF UserPass
  <1>7. CASE CallFails
    BY <1>7, CallFailsInv
  <1>8. ASSUME NEW r \in seen, RecordPass(r) PROVE Inv'
    BY <1>8, LastLoginInv DEF RecordPass
  <1>9. CASE ExpireRecord \/ ExpireFails
    BY <1>9, ExpireInv, ExpireFailsInv
  <1>10. ASSUME NEW id \in recQ, DropRecord(id) PROVE Inv'
    BY <1>10, DropInv
  <1>11. CASE UNCHANGED vars
    <2>1. UNCHANGED <<now, user, rev, records, bindings, mgr, srv, seen, namespace, userQ, recQ, worker,
                      expiring, granting, spent>>
      BY <1>11 DEF vars, apiVars, cacheVars, queueVars
    <2>2. Rest' /\ now <= now'
      BY <2>1, InvRest DEF Rest
    <2> QED
      BY <2>1, <2>2, QuietStep
  <1> QED
    BY <1>1, <1>2, <1>3, <1>4, <1>5, <1>6, <1>7, <1>8, <1>9, <1>10, <1>11 DEF Next, NamespaceStep

\* The invariant holds in every state.
LEMMA Invariance == Spec => []Inv
  BY InitInv, NextInv, PTL DEF Spec

\* Types, and the order of resourceVersions and of time, in every state.
THEOREM TypeCorrect == Spec => []TypeOK
  <1>1. Inv => TypeOK
    BY DEF Inv
  <1> QED
    BY <1>1, Invariance, PTL

\* No cache and no pass ever holds, under the version of the stored object, an
\* object that differs from it: optimistic concurrency works for this code.
THEOREM CopiesAlwaysAgree == Spec => []CopiesAgree
  <1>1. Inv => CopiesAgree
    BY DEF Inv
  <1> QED
    BY <1>1, Invariance, PTL

\* How one step may change the password and the status of an object that stays.
PasswordStep(u) ==
    \/ Requested("modify")
    \/ user'[u].secret = user[u].secret /\ (user[u].hashed => user'[u].hashed)

StatusStep(u) ==
    \/ Requested("status")
    \/ user'[u].state = user[u].state /\ user'[u].since = user[u].since
    \/ /\ worker.pc = "sync" /\ worker.user = u
       /\ user[u].state # "Disabled" /\ user'[u].since = now
       /\ \/ user'[u].state = "AuthLimitExceeded"
          \/ user[u].state = "AuthLimitExceeded" => user[u].since + Window <= now

ObjectStep == \A u \in Users : Kept(u) => PasswordStep(u) /\ StatusStep(u)

\* An operation that happens is counted.
LEMMA SpendCounts ==
    ASSUME Inv, NEW op \in Ops, Spend(op)
    PROVE  Requested(op)
  <1>1. spent \in [Ops -> Nat]
    BY DEF Inv, TypeOK
  <1> QED
    BY <1>1 DEF Spend, Requested

\* A step that leaves the objects alone changes neither password nor state.
LEMMA SameObjects == ASSUME UNCHANGED user PROVE ObjectStep
  BY DEF ObjectStep, PasswordStep, StatusStep

\* A write to u of an object with the password and status u has.
LEMMA SameFields ==
    ASSUME Inv, NEW u \in Users, user[u] # NoUser, NEW o \in UserObject, Put(u, o),
           now' = now, o.since <= now, o.last <= now,
           o.state = user[u].state, o.since = user[u].since,
           \/ Requested("modify")
           \/ o.secret = user[u].secret /\ (user[u].hashed => o.hashed)
    PROVE  ObjectStep
  <1>1. /\ \A v \in Users \ {u} : user'[v] = user[v]
        /\ user'[u].secret = o.secret /\ user'[u].hashed = o.hashed
        /\ user'[u].state = o.state /\ user'[u].since = o.since
    BY PutStores DEF Inv
  <1>2. PasswordStep(u) /\ StatusStep(u)
    BY <1>1 DEF PasswordStep, StatusStep
  <1> QED
    BY <1>1, <1>2 DEF ObjectStep, PasswordStep, StatusStep

\* The handlers change a password or a state only when asked to.
LEMMA HandlersObjectStep ==
    ASSUME Inv, NEW u \in Users, UserHandlers(u)
    PROVE  ObjectStep
  <1>0. Rest
    BY InvRest
  <1>1. ASSUME NEW s \in Secrets \cup {NoSecret}, NEW h \in BOOLEAN, CreateUser(u, s, h)
        PROVE  ObjectStep
    <2>1. user[u] = NoUser /\ \A v \in Users \ {u} : user'[v] = user[v]
      BY <1>0, <1>1 DEF CreateUser, Rest, UserMap
    <2> QED
      BY <2>1 DEF ObjectStep, PasswordStep, StatusStep, Kept
  <1>2. ASSUME NEW s \in Secrets \cup {NoSecret}, NEW h \in BOOLEAN, ModifyPassword(u, s, h)
        PROVE  ObjectStep
    <2> DEFINE o == [user[u] EXCEPT !.secret = s, !.hashed = h]
    <2>1. Requested("modify")
      BY <1>2, SpendCounts DEF ModifyPassword, Ops
    <2>2. user[u] # NoUser /\ Put(u, o) /\ now' = now
      BY <1>2 DEF ModifyPassword, Current
    <2>3. user[u] \in UserObject /\ user[u].since <= now /\ user[u].last <= now
      BY <2>2, Stored
    <2>4. o \in UserObject /\ o.since = user[u].since /\ o.last = user[u].last
          /\ o.state = user[u].state
      BY <2>3 DEF UserObject
    <2> HIDE DEF o
    <2> QED
      BY <2>1, <2>2, <2>3, <2>4, SameFields
  <1>3. CASE DeleteUser(u)
    <2> DEFINE o == [user[u] EXCEPT !.deleting = TRUE]
    <2>1. user[u] # NoUser /\ now' = now
      BY <1>3 DEF DeleteUser
    <2>2. user[u] \in UserObject /\ user[u].since <= now /\ user[u].last <= now
      BY <2>1, Stored
    <2>3. o \in UserObject /\ o.since = user[u].since /\ o.last = user[u].last
          /\ o.state = user[u].state /\ o.secret = user[u].secret /\ o.hashed = user[u].hashed
      BY <2>2 DEF UserObject
    <2>4. CASE user[u].finalizer
      <3>1. Put(u, o)
        BY <1>3, <2>4 DEF DeleteUser
      <3> HIDE DEF o
      <3> QED
        BY <2>1, <2>2, <2>3, <3>1, SameFields
    <2>5. CASE ~user[u].finalizer
      <3>1. user' = [user EXCEPT ![u] = NoUser]
        BY <1>3, <2>5 DEF DeleteUser
      <3>2. user'[u] = NoUser /\ \A v \in Users \ {u} : user'[v] = user[v]
        BY <1>0, <3>1 DEF Rest, UserMap
      <3> QED
        BY <3>2 DEF ObjectStep, PasswordStep, StatusStep, Kept
    <2> QED
      BY <2>4, <2>5
  <1>4. ASSUME NEW st \in {"Active", "Disabled"}, SetState(u, st) PROVE ObjectStep
    <2> DEFINE o == [user[u] EXCEPT !.state = st]
    <2>1. Requested("status")
      BY <1>4, SpendCounts DEF SetState, Ops
    <2>2. user[u] # NoUser /\ Put(u, o) /\ now' = now
      BY <1>4 DEF SetState
    <2>3. user[u] \in UserObject /\ user[u].since <= now /\ user[u].last <= now
      BY <2>2, Stored
    <2>4. o \in UserObject /\ o.since = user[u].since /\ o.last = user[u].last
          /\ o.secret = user[u].secret /\ o.hashed = user[u].hashed
      BY <2>3 DEF UserObject, States
    <2> HIDE DEF o
    <2>5. /\ \A v \in Users \ {u} : user'[v] = user[v]
          /\ user'[u].secret = user[u].secret /\ user'[u].hashed = user[u].hashed
      BY <2>2, <2>3, <2>4, PutStores DEF Inv
    <2> QED
      BY <2>1, <2>5 DEF ObjectStep, PasswordStep, StatusStep
  <1>5. ASSUME GrantGlobalRole(u) \/ \E ns \in Namespaces : AddMember(u, ns) PROVE ObjectStep
    <2>1. UNCHANGED user
      BY <1>5 DEF GrantGlobalRole, AddMember
    <2> QED
      BY <2>1, SameObjects
  <1> QED
    BY <1>1, <1>2, <1>3, <1>4, <1>5 DEF UserHandlers

\* The controller changes a state that is not Disabled, and unblocks in time.
LEMMA SyncObjectStep == ASSUME Inv, SyncUserStatus PROVE ObjectStep
  <1> DEFINE u == worker.user
             c == worker.copy
  <1>1. worker.pc = "sync" /\ now' = now
    BY DEF SyncUserStatus
  <1>2. CASE UNCHANGED user
    BY <1>2, SameObjects
  <1>3. ASSUME NEW st \in {"Active", "AuthLimitExceeded"}, WriteState(st),
               c.state # "Disabled",
               st = "Active" /\ c.state = "AuthLimitExceeded" => c.since + Window <= now
        PROVE  ObjectStep
    <2>1. CASE ~Current(u, c)
      BY <1>3, <2>1, SameObjects DEF WriteState
    <2>2. CASE Current(u, c)
      <3> DEFINE o == [user[u] EXCEPT !.state = st, !.since = now, !.last = 0]
      <3>1. Put(u, o)
        BY <1>3, <2>2 DEF WriteState
      <3>2. u \in Users /\ c = user[u] /\ user[u] \in UserObject /\ now \in Nat
        BY <1>1, <2>2, PassType, PassCurrent, Stored
      <3>a. st \in States
        BY DEF States
      <3>3. o \in UserObject
        BY <3>2, <3>a DEF UserObject
      <3>b. o.since = now /\ o.last = 0 /\ o.state = st
            /\ o.secret = user[u].secret /\ o.hashed = user[u].hashed
        BY <3>2 DEF UserObject
      <3>c. o.since <= now /\ o.last <= now
        BY <3>2, <3>b
      <3> HIDE DEF o
      <3>4. /\ \A v \in Users \ {u} : user'[v] = user[v]
            /\ user'[u].secret = o.secret /\ user'[u].hashed = o.hashed
            /\ user'[u].state = o.state /\ user'[u].since = o.since
        BY <1>1, <3>1, <3>2, <3>3, <3>c, PutStores DEF Inv
      <3>5. PasswordStep(u)
        BY <3>4, <3>b DEF PasswordStep
      <3>6. StatusStep(u)
        BY <1>1, <1>3, <3>2, <3>4, <3>b DEF StatusStep
      <3> QED
        BY <3>4, <3>5, <3>6 DEF ObjectStep, PasswordStep, StatusStep
    <2> QED
      BY <2>1, <2>2
  <1> QED
    BY <1>2, <1>3 DEF SyncUserStatus

\* No other call of a pass changes a state, and none the password.
LEMMA PassObjectStep == ASSUME Inv, UserPass PROVE ObjectStep
  <1> DEFINE u == worker.user
             c == worker.copy
  <1>0. Rest
    BY InvRest
  <1>1. CASE AddFinalizer
    <2>1. CASE ~Current(u, c)
      BY <1>1, <2>1, SameObjects DEF AddFinalizer
    <2>2. CASE Current(u, c)
      <3> DEFINE o == [c EXCEPT !.finalizer = TRUE, !.rv = rev + 1]
      <3>1. user' = [user EXCEPT ![u] = o] /\ worker.pc # "idle"
        BY <1>1, <2>2 DEF AddFinalizer
      <3>2. u \in Users /\ c = user[u] /\ c \in UserObject
        BY <2>2, <3>1, PassType, PassCurrent
      <3>3. o.secret = c.secret /\ o.hashed = c.hashed /\ o.state = c.state /\ o.since = c.since
        BY <3>2 DEF UserObject
      <3> HIDE DEF o
      <3>4. user'[u] = o /\ \A v \in Users \ {u} : user'[v] = user[v]
        BY <1>0, <3>1, <3>2 DEF Rest, UserMap
      <3> QED
        BY <3>2, <3>3, <3>4 DEF ObjectStep, PasswordStep, StatusStep
    <2> QED
      BY <2>1, <2>2
  <1>2. CASE EncryptPassword
    <2>1. CASE ~(Current(u, c) /\ c.secret \notin LongSecrets)
      BY <1>2, <2>1, SameObjects DEF EncryptPassword
    <2>2. CASE Current(u, c) /\ c.secret \notin LongSecrets
      <3> DEFINE o == [c EXCEPT !.hashed = TRUE]
      <3>1. Put(u, o) /\ worker.pc # "idle" /\ now' = now
        BY <1>2, <2>2 DEF EncryptPassword
      <3>2. u \in Users /\ c = user[u] /\ user[u] # NoUser
            /\ user[u] \in UserObject /\ user[u].since <= now /\ user[u].last <= now
        BY <2>2, <3>1, PassType, PassCurrent, Stored
      <3>3. o \in UserObject /\ o.secret = c.secret /\ o.hashed /\ o.state = c.state
            /\ o.since = c.since /\ o.last = c.last
        BY <3>2 DEF UserObject
      <3> HIDE DEF o
      <3> QED
        BY <3>1, <3>2, <3>3, SameFields
    <2> QED
      BY <2>1, <2>2
  <1>3. CASE SyncUserStatus
    BY <1>3, SyncObjectStep
  <1>4. CASE (\E scope \in Scopes : DeleteRoleBindings(scope)) \/ ListNamespaces \/ DeleteLoginRecords
    BY <1>4, SameObjects DEF DeleteRoleBindings, ListNamespaces, DeleteLoginRecords, apiVars
  <1>5. CASE RemoveFinalizer
    <2>1. CASE Current(u, c)
      <3>1. user' = [user EXCEPT ![u] = NoUser]
        BY <1>5, <2>1 DEF RemoveFinalizer
      <3>2. \A v \in Users : user'[v] = user[v] \/ user'[v] = NoUser
        BY <1>0, <3>1 DEF Rest, UserMap
      <3> QED
        BY <3>2 DEF ObjectStep, PasswordStep, StatusStep, Kept
    <2>2. CASE ~Current(u, c)
      BY <1>5, <2>2, SameObjects DEF RemoveFinalizer
    <2> QED
      BY <2>1, <2>2
  <1> QED
    BY <1>1, <1>2, <1>3, <1>4, <1>5 DEF UserPass

\* The login record controller changes the last login time only.
LEMMA RecordObjectStep ==
    ASSUME Inv, NEW r \in seen, UpdateUserLastLoginTime(r)
    PROVE  ObjectStep
  <1> DEFINE u == r.label
             newer == NewerLogin(r)
             o == [user[u] EXCEPT !.last = r.at]
  <1>1. r.at <= now
    BY InvRest DEF Rest
  <1>2. CASE ~newer
    BY <1>2, SameObjects DEF UpdateUserLastLoginTime
  <1>3. CASE newer
    <2>1. u \in Users /\ user[u] # NoUser /\ Put(u, o) /\ now' = now
      BY <1>3, InvRest DEF UpdateUserLastLoginTime, WriteLastLogin, Current, Rest, LoginRecords
    <2>2. user[u] \in UserObject /\ user[u].since <= now
      BY <2>1, Stored
    <2>3. r.at \in Nat
      BY InvRest DEF Rest, LoginRecords
    <2>4. o \in UserObject
      BY <2>2, <2>3 DEF UserObject
    <2>5. o.secret = user[u].secret /\ o.hashed = user[u].hashed
          /\ o.state = user[u].state /\ o.since = user[u].since /\ o.last = r.at
      BY <2>2 DEF UserObject
    <2> HIDE DEF o, newer
    <2> QED
      BY <1>1, <2>1, <2>2, <2>4, <2>5, SameFields
  <1> QED
    BY <1>2, <1>3

\* Every step changes passwords and states as ObjectStep says.
LEMMA NextObjectStep == ASSUME Inv, [Next]_vars PROVE ObjectStep
  <1>1. ASSUME NEW u \in Users, UserHandlers(u) PROVE ObjectStep
    BY <1>1, HandlersObjectStep
  <1>2. CASE UserPass
    BY <1>2, PassObjectStep
  <1>3. ASSUME NEW r \in seen, RecordPass(r) PROVE ObjectStep
    BY <1>3, RecordObjectStep DEF RecordPass
  <1>4. ASSUME \/ Tick \/ UNCHANGED vars \/ SyncRecords \/ NamespaceStep \/ Resync \/ Restart
               \/ CallFails \/ ExpireRecord \/ ExpireFails
               \/ \E u \in Users : SyncManagerUser(u) \/ SyncServerUser(u) \/ GetUser(u)
               \/ \E n \in Users : Logins(n)
               \/ \E id \in recQ : DropRecord(id)
        PROVE  ObjectStep
    <2>1. UNCHANGED user
      BY <1>4 DEF Tick, vars, apiVars, SyncRecords, NamespaceStep, CreateNamespace,
         SyncNamespaces, Resync, Restart, CallFails, ExpireRecord, ExpireFails,
         SyncManagerUser, SyncServerUser, GetUser, Logins, PasswordGrant,
         DropRecord
    <2> QED
      BY <2>1, SameObjects
  <1> QED
    BY <1>1, <1>2, <1>3, <1>4 DEF Next, NamespaceStep

\* So does every step of a behaviour.
LEMMA ObjectSteps == Spec => [][ObjectStep]_vars
  <1>1. Inv /\ [Next]_vars => [ObjectStep]_vars
    BY NextObjectStep
  <1> QED
    BY <1>1, Invariance, PTL DEF Spec

\* Whatever the interleaving, only a request changes a password or brings it
\* back in plain text.
THEOREM PasswordSafe == Spec => PasswordOnlyByRequest
  <1>1. ObjectStep => \A u \in Users : Kept(u) =>
          \/ Requested("modify")
          \/ /\ user'[u].secret = user[u].secret
             /\ user[u].hashed => user'[u].hashed
    BY DEF ObjectStep, PasswordStep
  <1> QED
    BY <1>1, ObjectSteps, PTL DEF PasswordOnlyByRequest

\* Whatever the interleaving, only an operator enables a disabled account.
THEOREM DisabledSafe == Spec => DisabledStays
  <1>1. ObjectStep => \A u \in Users : Kept(u) /\ user[u].state = "Disabled" =>
          user'[u].state = "Disabled" \/ Requested("status")
    BY DEF ObjectStep, StatusStep
  <1> QED
    BY <1>1, ObjectSteps, PTL DEF DisabledStays

\* Whatever the interleaving, a block lasts for the window.
THEOREM BlockSafe == Spec => BlockedForWindow
  <1>1. Inv /\ ObjectStep => \A u \in Users : Kept(u) /\ user[u].state = "AuthLimitExceeded" =>
          \/ user'[u].state = "AuthLimitExceeded" /\ user'[u].since >= user[u].since
          \/ worker.pc = "sync" /\ worker.user = u /\ user[u].since + Window <= now
          \/ Requested("status")
    <2> SUFFICES ASSUME Inv, ObjectStep, NEW u \in Users, Kept(u),
                        user[u].state = "AuthLimitExceeded"
                 PROVE  \/ user'[u].state = "AuthLimitExceeded" /\ user'[u].since >= user[u].since
                        \/ worker.pc = "sync" /\ worker.user = u /\ user[u].since + Window <= now
                        \/ Requested("status")
      OBVIOUS
    <2>1. user[u].since <= now /\ user[u].since \in Nat /\ now \in Nat
      BY Stored DEF Kept
    <2>2. StatusStep(u)
      BY DEF ObjectStep
    <2> QED
      BY <2>1, <2>2 DEF StatusStep
  <1> QED
    BY <1>1, ObjectSteps, Invariance, PTL DEF BlockedForWindow

-----------------------------------------------------------------------------
\* Why a finalizer that goes leaves nothing behind: a pass that may still take it
\* off runs on the object as it is stored, which is deleted, so whatever is made
\* meanwhile is late; what is older, the pass has yet to delete or has deleted.

Sweeping == worker.pc \in {"bindings", "namespaces", "records", "release"}

\* The bindings in that scope are still to be deleted: the global ones come
\* first, the namespaces are listed after them.
Ahead(scope) ==
    \/ worker.pc = "bindings" /\ (Global \in worker.todo \/ scope \in worker.todo)
    \/ worker.pc = "namespaces" /\ scope # Global

Swept ==
    Sweeping =>
        /\ worker.copy.deleting
        /\ Current(worker.user, worker.copy) =>
              /\ \A b \in bindings : b.user = worker.user /\ ~b.late => Ahead(b.scope)
              /\ \A r \in records : r.label = worker.user /\ ~r.late =>
                    worker.pc # "release"

\* What a deleted user leaves behind is late or where the list of namespaces will
\* find it.
Heard ==
    \A u \in Users : user[u] # NoUser /\ user[u].deleting =>
        \A b \in bindings : b.user = u /\ ~b.late => b.scope \in Cached \cup {Global}

\* A step leaves a user undeleted, or makes late what the list may not find.
Marks(v) ==
    user'[v] # NoUser /\ user'[v].deleting =>
        \/ user[v] # NoUser /\ user[v].deleting
        \/ \A b \in bindings' : b.user = v /\ ~b.late => b.scope \in Cached \cup {Global}

\* Any step but that which takes off a finalizer leaves an object, replaces it by
\* a newer one, or removes one without a finalizer.
Follows(v) ==
    \/ user'[v] = user[v]
    \/ user'[v] = NoUser /\ ~user[v].finalizer
    \/ user'[v] # NoUser /\ user'[v].rv = rev + 1

\* What is made in a step is late, or made for a user who is there.
News ==
    /\ \A b \in bindings' : b \in bindings \/ b.late \/ Live(b.user)
    /\ \A r \in records' : r \in records \/ r.late \/ Live(r.label)

\* A Put is such a step.
LEMMA PutFollows ==
    ASSUME Inv, NEW u \in Users, NEW o \in UserObject, Put(u, o)
    PROVE  \A v \in Users : Follows(v)
  <1>1. CASE o = user[u]
    BY <1>1 DEF Put, Follows
  <1>2. CASE o # user[u]
    <2> DEFINE p == [o EXCEPT !.rv = rev + 1]
    <2>1. user' = [user EXCEPT ![u] = p]
      BY <1>2 DEF Put
    <2>2. p.rv = rev + 1 /\ p # NoUser
      <3>1. p \in UserObject /\ p.rv = rev + 1
        BY DEF UserObject, Inv, TypeOK
      <3> QED
        BY <3>1, ValuesAssumption
    <2> HIDE DEF p
    <2>3. user'[u] = p /\ \A v \in Users \ {u} : user'[v] = user[v]
      BY <2>1 DEF Inv, TypeOK, UserMap
    <2> QED
      BY <2>2, <2>3 DEF Follows
  <1> QED
    BY <1>1, <1>2

\* So are all requests.
LEMMA HandlersFollow ==
    ASSUME Inv, NEW u \in Users, UserHandlers(u)
    PROVE  \A v \in Users : Follows(v)
  <1>0. user \in UserMap /\ rev \in Nat
    BY DEF Inv, TypeOK
  <1>1. ASSUME NEW s \in Secrets \cup {NoSecret}, NEW h \in BOOLEAN, CreateUser(u, s, h)
        PROVE  \A v \in Users : Follows(v)
    <2> DEFINE o == [ rv |-> rev + 1, finalizer |-> FALSE, deleting |-> FALSE,
                      secret |-> s, hashed |-> h,
                      state |-> "none", since |-> 0, last |-> 0 ]
    <2>1. user' = [user EXCEPT ![u] = o]
      BY <1>1 DEF CreateUser
    <2>2. o \in UserObject
      BY <1>0 DEF UserObject, States
    <2>3. o # NoUser /\ o.rv = rev + 1
      BY <2>2, ValuesAssumption
    <2> HIDE DEF o
    <2>4. user'[u] = o /\ \A v \in Users \ {u} : user'[v] = user[v]
      BY <1>0, <2>1 DEF UserMap
    <2> QED
      BY <2>3, <2>4 DEF Follows
  <1>2. ASSUME NEW s \in Secrets \cup {NoSecret}, NEW h \in BOOLEAN, ModifyPassword(u, s, h)
        PROVE  \A v \in Users : Follows(v)
    <2> DEFINE o == [user[u] EXCEPT !.secret = s, !.hashed = h]
    <2>1. user[u] # NoUser /\ Put(u, o)
      BY <1>2 DEF ModifyPassword, Current
    <2>2. o \in UserObject
      BY <2>1, Stored DEF UserObject
    <2> HIDE DEF o
    <2> QED
      BY <2>1, <2>2, PutFollows
  <1>3. CASE DeleteUser(u)
    <2>1. CASE user[u].finalizer
      <3> DEFINE o == [user[u] EXCEPT !.deleting = TRUE]
      <3>1. user[u] # NoUser /\ Put(u, o)
        BY <1>3, <2>1 DEF DeleteUser
      <3>2. o \in UserObject
        BY <3>1, Stored DEF UserObject
      <3> HIDE DEF o
      <3> QED
        BY <3>1, <3>2, PutFollows
    <2>2. CASE ~user[u].finalizer
      <3>1. user' = [user EXCEPT ![u] = NoUser]
        BY <1>3, <2>2 DEF DeleteUser
      <3>2. user'[u] = NoUser /\ \A v \in Users \ {u} : user'[v] = user[v]
        BY <1>0, <3>1 DEF UserMap
      <3> QED
        BY <2>2, <3>2 DEF Follows
    <2> QED
      BY <2>1, <2>2
  <1>4. ASSUME NEW st \in {"Active", "Disabled"}, SetState(u, st)
        PROVE  \A v \in Users : Follows(v)
    <2> DEFINE o == [user[u] EXCEPT !.state = st]
    <2>1. user[u] # NoUser /\ Put(u, o)
      BY <1>4 DEF SetState
    <2>2. o \in UserObject
      BY <2>1, Stored DEF UserObject, States
    <2> HIDE DEF o
    <2> QED
      BY <2>1, <2>2, PutFollows
  <1>5. ASSUME GrantGlobalRole(u) \/ \E ns \in Namespaces : AddMember(u, ns)
        PROVE  \A v \in Users : Follows(v)
    BY <1>5 DEF GrantGlobalRole, AddMember, Follows
  <1> QED
    BY <1>1, <1>2, <1>3, <1>4, <1>5 DEF UserHandlers

\* So are the writes of a pass before a deletion.
LEMMA PassFollows ==
    ASSUME Inv, AddFinalizer \/ EncryptPassword \/ SyncUserStatus
    PROVE  \A v \in Users : Follows(v)
  <1> DEFINE u == worker.user
             c == worker.copy
  <1>1. /\ worker.pc # "idle" /\ u \in Users /\ c \in UserObject
        /\ user \in UserMap /\ rev \in Nat /\ now \in Nat
    <2>1. worker.pc # "idle"
      BY DEF AddFinalizer, EncryptPassword, SyncUserStatus
    <2> QED
      BY <2>1, PassType DEF Inv, TypeOK
  <1>2. CASE UNCHANGED user
    BY <1>2 DEF Follows
  <1>3. CASE AddFinalizer
    <2> DEFINE o == [c EXCEPT !.finalizer = TRUE, !.rv = rev + 1]
    <2>1. CASE user' = [user EXCEPT ![u] = o]
      <3>a. rev + 1 \in Nat
        BY <1>1
      <3>1. o \in UserObject /\ o.rv = rev + 1
        BY <1>1, <3>a DEF UserObject
      <3>2. o # NoUser
        BY <3>1, ValuesAssumption
      <3> HIDE DEF o
      <3>3. user'[u] = o /\ \A v \in Users \ {u} : user'[v] = user[v]
        BY <1>1, <2>1 DEF UserMap
      <3> QED
        BY <3>1, <3>2, <3>3 DEF Follows
    <2> QED
      BY <1>2, <1>3, <2>1 DEF AddFinalizer
  <1>4. CASE EncryptPassword
    <2> DEFINE o == [c EXCEPT !.hashed = TRUE]
    <2>1. CASE Put(u, o)
      <3>1. o \in UserObject
        BY <1>1 DEF UserObject
      <3> HIDE DEF o
      <3> QED
        BY <1>1, <2>1, <3>1, PutFollows
    <2> QED
      BY <1>2, <1>4, <2>1 DEF EncryptPassword
  <1>5. ASSUME NEW st \in {"Active", "AuthLimitExceeded"}, WriteState(st)
        PROVE  \A v \in Users : Follows(v)
    <2> DEFINE o == [user[u] EXCEPT !.state = st, !.since = now, !.last = 0]
    <2>1. CASE Current(u, c)
      <3>1. Put(u, o)
        BY <1>5, <2>1 DEF WriteState
      <3>2. user[u] \in UserObject
        BY <1>1, <2>1, Stored DEF Current
      <3>3. st \in States
        BY DEF States
      <3>4. o \in UserObject
        BY <1>1, <3>2, <3>3 DEF UserObject
      <3> HIDE DEF o
      <3> QED
        BY <1>1, <3>1, <3>4, PutFollows
    <2> QED
      BY <1>2, <1>5, <2>1 DEF WriteState
  <1>6. CASE SyncUserStatus
    BY <1>2, <1>5, <1>6 DEF SyncUserStatus
  <1> QED
    BY <1>3, <1>4, <1>6

\* And the record controller's.
LEMMA RecordFollows ==
    ASSUME Inv, NEW r \in seen, UpdateUserLastLoginTime(r)
    PROVE  \A v \in Users : Follows(v)
  <1> DEFINE u == r.label
             o == [user[u] EXCEPT !.last = r.at]
  <1>1. CASE UNCHANGED user
    BY <1>1 DEF Follows
  <1>2. CASE WriteLastLogin(r)
    <2>1. u \in Users /\ user[u] # NoUser /\ Put(u, o)
      BY <1>2, InvRest DEF WriteLastLogin, Current, Rest, LoginRecords
    <2>2. r.at \in Nat /\ user[u] \in UserObject
      BY <2>1, Stored, InvRest DEF Rest, LoginRecords
    <2>3. o \in UserObject
      BY <2>2 DEF UserObject
    <2> HIDE DEF o
    <2> QED
      BY <2>1, <2>3, PutFollows
  <1> QED
    BY <1>1, <1>2 DEF UpdateUserLastLoginTime

\* Steps that leave the objects alone.
LEMMA OthersFollow ==
    ASSUME \/ Tick \/ UNCHANGED vars \/ SyncRecords \/ NamespaceStep \/ Resync \/ Restart
           \/ CallFails \/ ExpireRecord \/ ExpireFails
           \/ \E u \in Users : SyncManagerUser(u) \/ SyncServerUser(u) \/ GetUser(u)
           \/ \E n \in Users : Logins(n)
           \/ \E id \in recQ : DropRecord(id)
           \/ \E scope \in Scopes : DeleteRoleBindings(scope)
           \/ ListNamespaces \/ DeleteLoginRecords
    PROVE  \A v \in Users : Follows(v)
  <1>1. UNCHANGED user
    BY DEF Tick, vars, apiVars, SyncRecords, NamespaceStep, CreateNamespace, SyncNamespaces,
       Resync, Restart, CallFails, ExpireRecord, ExpireFails,
       SyncManagerUser, SyncServerUser, GetUser, Logins, PasswordGrant,
       DropRecord, DeleteRoleBindings, ListNamespaces, DeleteLoginRecords
  <1> QED
    BY <1>1 DEF Follows

\* So is every step but that which takes off a finalizer.
LEMMA NextFollows ==
    ASSUME Inv, [Next]_vars
    PROVE  RemoveFinalizer \/ \A v \in Users : Follows(v)
BY HandlersFollow, PassFollows, RecordFollows, OthersFollow DEF Next, NamespaceStep, UserPass,
   RecordPass

\* A new binding is of a user who is there, or late.
LEMMA BindNews ==
    ASSUME NEW u \in Users, NEW scope, Bind(u, scope), UNCHANGED records
    PROVE  News
  <1>1. ASSUME NEW b \in bindings' PROVE b \in bindings \/ b.late \/ Live(b.user)
    <2> DEFINE new == [user |-> u, scope |-> scope, late |-> ~Live(u)]
    <2>1. b \in bindings \/ b = new
      BY <1>1 DEF Bind
    <2>2. new.user = u /\ (new.late <=> ~Live(u))
      OBVIOUS
    <2> HIDE DEF new
    <2> QED
      BY <2>1, <2>2
  <1> QED
    BY <1>1 DEF News

\* So is a new record.
LEMMA RecordNews ==
    ASSUME NEW label, NEW ok, RecordLogin(label, ok), UNCHANGED bindings
    PROVE  News
  <1>1. ASSUME NEW r \in records' PROVE r \in records \/ r.late \/ Live(r.label)
    <2> DEFINE new == [ id |-> spent["login"] + 1, label |-> label, ok |-> ok, at |-> now,
                        late |-> ~Live(label) ]
    <2>1. r \in records \/ r = new
      BY <1>1 DEF RecordLogin
    <2>2. new.label = label /\ (new.late <=> ~Live(label))
      OBVIOUS
    <2> HIDE DEF new
    <2> QED
      BY <2>1, <2>2
  <1> QED
    BY <1>1 DEF News

\* All that is made is late, or made for a user who is there.
LEMMA NextNews == ASSUME Inv, [Next]_vars PROVE News
  <1>1. CASE bindings' \subseteq bindings /\ records' \subseteq records
    BY <1>1 DEF News
  <1>2. ASSUME NEW u \in Users, UserHandlers(u) PROVE News
    <2>1. ASSUME GrantGlobalRole(u) \/ \E ns \in Namespaces : AddMember(u, ns) PROVE News
      BY <1>1, <2>1, BindNews DEF GrantGlobalRole, AddMember
    <2>2. ASSUME \/ \E s \in Secrets \cup {NoSecret}, h \in BOOLEAN :
                       CreateUser(u, s, h) \/ ModifyPassword(u, s, h)
                 \/ \E st \in {"Active", "Disabled"} : SetState(u, st)
          PROVE  News
      BY <1>1, <2>2 DEF CreateUser, ModifyPassword, SetState
    <2>3. CASE DeleteUser(u)
      <3>1. CASE MissBindings(u)
        <4>1. \A b \in bindings' : b \in bindings \/ b.late
          BY <3>1, MissType DEF Inv, TypeOK
        <4> QED
          BY <2>3, <4>1 DEF DeleteUser, News
      <3> QED
        BY <1>1, <2>3, <3>1 DEF DeleteUser
    <2> QED
      BY <1>2, <2>1, <2>2, <2>3 DEF UserHandlers
  <1>3. ASSUME NEW n \in Users, Logins(n) PROVE News
    <2>1. ASSUME NEW s \in Secrets \cup {NoSecret}, PasswordGrant(n, s) PROVE News
      BY <2>1, RecordNews DEF PasswordGrant
    <2> QED
      BY <1>3, <2>1 DEF Logins
  <1>4. CASE UserPass
    BY <1>1, <1>4 DEF UserPass, AddFinalizer, EncryptPassword, SyncUserStatus,
       DeleteRoleBindings, ListNamespaces, DeleteLoginRecords, RemoveFinalizer, apiVars
  <1>5. ASSUME \/ Tick \/ UNCHANGED vars \/ SyncRecords \/ NamespaceStep \/ Resync \/ Restart
               \/ CallFails \/ ExpireRecord \/ ExpireFails
               \/ \E u \in Users : SyncManagerUser(u) \/ SyncServerUser(u) \/ GetUser(u)
               \/ \E id \in recQ : DropRecord(id)
               \/ \E r \in seen : RecordPass(r)
        PROVE  News
    BY <1>1, <1>5 DEF Tick, vars, apiVars, SyncRecords, NamespaceStep, CreateNamespace,
       SyncNamespaces, Resync, Restart, CallFails, ExpireRecord,
       ExpireFails, SyncManagerUser, SyncServerUser, GetUser, DropRecord, RecordPass,
       UpdateUserLastLoginTime
  <1> QED
    BY <1>2, <1>3, <1>4, <1>5 DEF Next, NamespaceStep

\* A pass that stays where it is: a copy that was not the stored object does not
\* become it, and nothing it has dealt with comes back but late.
LEMMA SameSwept ==
    ASSUME Inv, Swept, worker' = worker, News, \A v \in Users : Follows(v)
    PROVE  Swept'
  <1> SUFFICES ASSUME Sweeping
               PROVE  /\ worker.copy.deleting
                      /\ Current(worker.user, worker.copy)' =>
                           /\ \A b \in bindings' : b.user = worker.user /\ ~b.late => Ahead(b.scope)
                           /\ \A r \in records' : r.label = worker.user /\ ~r.late =>
                                 worker.pc # "release"
    BY DEF Swept, Sweeping, Ahead
  <1> DEFINE u == worker.user
             c == worker.copy
  <1>1. c.deleting
    BY DEF Swept
  <1>2. ASSUME user'[u] # NoUser, user'[u].rv = c.rv
        PROVE  Current(u, c) /\ ~Live(u)
    <2>1. worker.pc # "idle"
      BY DEF Sweeping
    <2>2. u \in Users /\ c \in UserObject /\ c # NoUser /\ Past(c)
      BY <2>1, PassType DEF Inv, TypeOK
    <2>3. c.rv \in Nat /\ c.rv <= rev /\ rev \in Nat
      BY <2>2 DEF Past, UserObject, Inv, TypeOK
    <2>4. user'[u] = user[u]
      BY <1>2, <2>2, <2>3 DEF Follows
    <2>5. Current(u, c)
      BY <1>2, <2>4 DEF Current
    <2>6. c = user[u]
      BY <2>1, <2>5, PassCurrent
    <2> QED
      BY <1>1, <2>5, <2>6 DEF Live
  <1>3. ASSUME Current(u, c)' PROVE Current(u, c) /\ ~Live(u)
    BY <1>2, <1>3 DEF Current
  <1> QED
    BY <1>1, <1>3 DEF Swept, News

\* The clean-up goes on.
LEMMA CleaningSwept ==
    ASSUME Inv, Swept, Heard,
           (\E scope \in Scopes : DeleteRoleBindings(scope)) \/ ListNamespaces \/ DeleteLoginRecords
    PROVE  Swept'
  <1> DEFINE u == worker.user
             c == worker.copy
  <1>1. ASSUME NEW scope \in Scopes, DeleteRoleBindings(scope) PROVE Swept'
    <2> DEFINE todo == worker.todo \ {scope}
               pc   == IF scope = Global THEN "namespaces" ELSE AfterBindings(todo)
    <2>1. /\ worker.pc = "bindings" /\ UNCHANGED <<user, records>>
          /\ bindings' = {b \in bindings : ~(b.user = u /\ b.scope = scope)}
          /\ worker'.pc = pc /\ worker'.user = u
          /\ worker'.copy = c /\ worker'.todo = todo
      BY <1>1 DEF DeleteRoleBindings, Doing
    <2>2. c.deleting /\ (Current(u, c) => \A b \in bindings : b.user = u /\ ~b.late =>
                                                Global \in worker.todo \/ b.scope \in worker.todo)
      BY <2>1 DEF Swept, Sweeping, Ahead
    <2>3. ASSUME Current(u, c), NEW b \in bindings', b.user = u, ~b.late
          PROVE  Ahead(b.scope)'
      <3>1. b \in bindings /\ b.scope # scope
        BY <2>1, <2>3
      <3>2. CASE scope = Global
        BY <2>1, <3>1, <3>2 DEF Ahead
      <3>3. CASE scope # Global
        <4>1. Global \in todo \/ b.scope \in todo
          BY <2>2, <2>3, <3>1, <3>3
        <4> QED
          BY <2>1, <3>3, <4>1 DEF Ahead, AfterBindings
      <3> QED
        BY <3>2, <3>3
    <2>4. pc # "release"
      BY DEF AfterBindings
    <2>5. Current(worker.user, worker.copy)' => Current(u, c)
      BY <2>1 DEF Current
    <2> HIDE DEF pc, todo
    <2> QED
      BY <2>1, <2>2, <2>3, <2>4, <2>5 DEF Swept
  <1>3. CASE ListNamespaces
    <2>1. /\ worker.pc = "namespaces" /\ UNCHANGED <<user, records, bindings>>
          /\ worker'.pc = AfterBindings(Cached) /\ worker'.user = u
          /\ worker'.copy = c /\ worker'.todo = Cached
      BY <1>3 DEF ListNamespaces, Doing, apiVars
    <2>2. c.deleting /\ (Current(u, c) => \A b \in bindings : b.user = u /\ ~b.late => b.scope # Global)
      BY <2>1 DEF Swept, Sweeping, Ahead
    <2>3. ASSUME Current(u, c), NEW b \in bindings', b.user = u, ~b.late
          PROVE  Ahead(b.scope)'
      <3>1. user[u] # NoUser /\ user[u].deleting /\ u \in Users
        BY <2>1, <2>2, <2>3, PassCurrent, PassType
      <3>2. b.scope \in Cached
        BY <2>1, <2>2, <2>3, <3>1 DEF Heard
      <3> QED
        BY <2>1, <3>2 DEF Ahead, AfterBindings
    <2>4. AfterBindings(Cached) # "release"
      BY DEF AfterBindings
    <2>5. Current(worker.user, worker.copy)' => Current(u, c)
      BY <2>1 DEF Current
    <2> QED
      BY <2>1, <2>2, <2>3, <2>4, <2>5 DEF Swept
  <1>2. CASE DeleteLoginRecords
    <2>1. /\ worker.pc = "records" /\ worker' = [worker EXCEPT !.pc = "release"]
          /\ UNCHANGED <<user, bindings>>
          /\ records' = {r \in records : r.label # u}
      BY <1>2 DEF DeleteLoginRecords
    <2>2. worker \in Passes
      BY <2>1, PassType
    <2>3. worker'.user = u /\ worker'.copy = c
      BY <2>1, <2>2 DEF Passes
    <2>4. Current(worker.user, worker.copy)' => Current(u, c)
      BY <2>1, <2>3 DEF Current
    <2>5. c.deleting /\ (Current(u, c) => \A b \in bindings : b.user = u => b.late)
      BY <2>1 DEF Swept, Sweeping, Ahead
    <2> QED
      BY <2>1, <2>3, <2>4, <2>5 DEF Swept
  <1> QED
    BY <1>1, <1>2, <1>3

\* A pass begins its clean-up with everything before it.
LEMMA GetUserSwept ==
    ASSUME Inv, NEW u \in Users, GetUser(u)
    PROVE  Swept'
  <1> DEFINE c == mgr[u]
  <1>1. CASE worker' = Idle
    BY <1>1 DEF Swept, Sweeping, Idle
  <1>2. CASE /\ ~c.deleting
             /\ \E pc \in PCs : /\ worker' = Doing(pc, u, c, {})
                              /\ pc \notin {"bindings", "namespaces", "records", "release"}
    BY <1>2 DEF Swept, Sweeping, Doing
  <1>3. CASE c.deleting /\ worker' = Doing("bindings", u, c, {Global})
    <2>1. /\ worker'.pc = "bindings" /\ worker'.user = u
          /\ worker'.copy = c /\ worker'.todo = {Global}
      BY <1>3 DEF Doing
    <2> QED
      BY <1>3, <2>1 DEF Swept, Ahead
  <1>4. \A k : AfterFinalizer(k) \in {"encrypt", "sync"}
    BY DEF AfterFinalizer
  <1> QED
    BY <1>1, <1>2, <1>3, <1>4 DEF GetUser, PCs

\* A Put that marks nothing.
LEMMA PutMarks ==
    ASSUME Inv, NEW u \in Users, NEW o \in UserObject, Put(u, o),
           user[u] # NoUser, o.deleting => user[u].deleting
    PROVE  \A v \in Users : Marks(v)
  <1>1. CASE o = user[u]
    BY <1>1 DEF Put, Marks
  <1>2. CASE o # user[u]
    <2> DEFINE p == [o EXCEPT !.rv = rev + 1]
    <2>1. user' = [user EXCEPT ![u] = p]
      BY <1>2 DEF Put
    <2>2. p.deleting = o.deleting
      BY DEF UserObject
    <2> HIDE DEF p
    <2>3. user'[u] = p /\ \A v \in Users \ {u} : user'[v] = user[v]
      BY <2>1 DEF Inv, TypeOK, UserMap
    <2> QED
      BY <2>2, <2>3 DEF Marks
  <1> QED
    BY <1>1, <1>2

\* Requests: only a deletion marks, and it makes late what may be missed.
LEMMA HandlersMark ==
    ASSUME Inv, NEW u \in Users, UserHandlers(u)
    PROVE  \A v \in Users : Marks(v)
  <1>0. user \in UserMap /\ bindings \subseteq Bindings
    BY DEF Inv, TypeOK
  <1>1. ASSUME NEW s \in Secrets \cup {NoSecret}, NEW h \in BOOLEAN, CreateUser(u, s, h)
        PROVE  \A v \in Users : Marks(v)
    <2>1. user'[u].deleting = FALSE /\ \A v \in Users \ {u} : user'[v] = user[v]
      BY <1>0, <1>1 DEF CreateUser, UserMap
    <2> QED
      BY <2>1 DEF Marks
  <1>2. ASSUME NEW s \in Secrets \cup {NoSecret}, NEW h \in BOOLEAN, ModifyPassword(u, s, h)
        PROVE  \A v \in Users : Marks(v)
    <2> DEFINE o == [user[u] EXCEPT !.secret = s, !.hashed = h]
    <2>1. user[u] # NoUser /\ Put(u, o)
      BY <1>2 DEF ModifyPassword, Current
    <2>2. o \in UserObject /\ o.deleting = user[u].deleting
      BY <2>1, Stored DEF UserObject
    <2> HIDE DEF o
    <2> QED
      BY <2>1, <2>2, PutMarks
  <1>3. CASE DeleteUser(u)
    <2>1. CASE user[u].finalizer
      <3>1. \A v \in Users \ {u} : user'[v] = user[v]
        BY <1>0, <1>3, <2>1 DEF DeleteUser, Put, UserMap
      <3>2. \A b \in bindings' : b.user = u /\ ~b.late => b.scope \in Cached \cup {Global}
        BY <1>0, <1>3, <2>1, MissType DEF DeleteUser
      <3> QED
        BY <3>1, <3>2 DEF Marks
    <2>2. CASE ~user[u].finalizer
      <3>1. user'[u] = NoUser /\ \A v \in Users \ {u} : user'[v] = user[v]
        BY <1>0, <1>3, <2>2 DEF DeleteUser, UserMap
      <3> QED
        BY <3>1 DEF Marks
    <2> QED
      BY <2>1, <2>2
  <1>4. ASSUME NEW st \in {"Active", "Disabled"}, SetState(u, st)
        PROVE  \A v \in Users : Marks(v)
    <2> DEFINE o == [user[u] EXCEPT !.state = st]
    <2>1. user[u] # NoUser /\ Put(u, o)
      BY <1>4 DEF SetState
    <2>2. o \in UserObject /\ o.deleting = user[u].deleting
      BY <2>1, Stored DEF UserObject, States
    <2> HIDE DEF o
    <2> QED
      BY <2>1, <2>2, PutMarks
  <1>5. ASSUME GrantGlobalRole(u) \/ \E ns \in Namespaces : AddMember(u, ns)
        PROVE  \A v \in Users : Marks(v)
    BY <1>5 DEF GrantGlobalRole, AddMember, Marks
  <1> QED
    BY <1>1, <1>2, <1>3, <1>4, <1>5 DEF UserHandlers

\* The writes of a pass mark nothing.
LEMMA PassMarks ==
    ASSUME Inv, AddFinalizer \/ EncryptPassword \/ SyncUserStatus \/ RemoveFinalizer
    PROVE  \A v \in Users : Marks(v)
  <1> DEFINE u == worker.user
             c == worker.copy
  <1>1. /\ worker.pc # "idle" /\ u \in Users /\ c \in UserObject
        /\ user \in UserMap /\ rev \in Nat /\ now \in Nat
    <2>1. worker.pc # "idle"
      BY DEF AddFinalizer, EncryptPassword, SyncUserStatus, RemoveFinalizer
    <2> QED
      BY <2>1, PassType DEF Inv, TypeOK
  <1>2. CASE UNCHANGED user
    BY <1>2 DEF Marks
  <1>3. CASE AddFinalizer
    <2> DEFINE o == [c EXCEPT !.finalizer = TRUE, !.rv = rev + 1]
    <2>1. CASE Current(u, c) /\ user' = [user EXCEPT ![u] = o]
      <3>1. o.deleting = c.deleting
        BY <1>1 DEF UserObject
      <3>2. c = user[u] /\ user[u] # NoUser
        BY <1>1, <2>1, PassCurrent
      <3> HIDE DEF o
      <3>3. user'[u] = o /\ \A v \in Users \ {u} : user'[v] = user[v]
        BY <1>1, <2>1 DEF UserMap
      <3> QED
        BY <3>1, <3>2, <3>3 DEF Marks
    <2> QED
      BY <1>2, <1>3, <2>1 DEF AddFinalizer
  <1>4. CASE EncryptPassword
    <2> DEFINE o == [c EXCEPT !.hashed = TRUE]
    <2>1. CASE Current(u, c) /\ Put(u, o)
      <3>1. o \in UserObject /\ o.deleting = c.deleting
        BY <1>1 DEF UserObject
      <3>2. c = user[u] /\ user[u] # NoUser
        BY <1>1, <2>1, PassCurrent
      <3> HIDE DEF o
      <3> QED
        BY <1>1, <2>1, <3>1, <3>2, PutMarks
    <2> QED
      BY <1>2, <1>4, <2>1 DEF EncryptPassword
  <1>5. ASSUME NEW st \in States, WriteState(st) PROVE \A v \in Users : Marks(v)
    <2> DEFINE o == [user[u] EXCEPT !.state = st, !.since = now, !.last = 0]
    <2>1. CASE Current(u, c) /\ Put(u, o)
      <3>1. user[u] \in UserObject /\ user[u] # NoUser
        BY <1>1, <2>1, Stored DEF Current
      <3>2. o \in UserObject
        BY <1>1, <3>1 DEF UserObject
      <3>3. o.deleting = user[u].deleting
        BY <3>1 DEF UserObject
      <3> HIDE DEF o
      <3> QED
        BY <1>1, <2>1, <3>1, <3>2, <3>3, PutMarks
    <2> QED
      BY <1>2, <1>5, <2>1 DEF WriteState
  <1>6. CASE SyncUserStatus
    BY <1>2, <1>5, <1>6 DEF SyncUserStatus, States
  <1>7. CASE RemoveFinalizer
    <2>1. CASE user' = [user EXCEPT ![u] = NoUser]
      <3>1. user'[u] = NoUser /\ \A v \in Users \ {u} : user'[v] = user[v]
        BY <1>1, <2>1 DEF UserMap
      <3> QED
        BY <3>1 DEF Marks
    <2> QED
      BY <1>2, <1>7, <2>1 DEF RemoveFinalizer
  <1> QED
    BY <1>3, <1>4, <1>6, <1>7

\* Nor do the record controller's.
LEMMA RecordMarks ==
    ASSUME Inv, NEW r \in seen, UpdateUserLastLoginTime(r)
    PROVE  \A v \in Users : Marks(v)
  <1> DEFINE u == r.label
             o == [user[u] EXCEPT !.last = r.at]
  <1>1. CASE UNCHANGED user
    BY <1>1 DEF Marks
  <1>2. CASE WriteLastLogin(r)
    <2>1. user[u] # NoUser /\ Put(u, o)
      BY <1>2 DEF WriteLastLogin, Current
    <2>2. r.at \in Nat /\ u \in Users
      BY InvRest DEF Rest, LoginRecords
    <2>a. user[u] \in UserObject
      BY <2>1, <2>2, Stored
    <2>3. o \in UserObject /\ o.deleting = user[u].deleting
      BY <2>2, <2>a DEF UserObject
    <2> HIDE DEF o
    <2> QED
      BY <2>1, <2>2, <2>3, PutMarks
  <1> QED
    BY <1>1, <1>2 DEF UpdateUserLastLoginTime

\* No step unlists a namespace.
LEMMA CachedGrows == ASSUME Inv, [Next]_vars PROVE Cached \subseteq Cached'
  <1>0. namespace \in [Namespaces -> NamespaceStates]
    BY DEF Inv, TypeOK
  <1>1. CASE UNCHANGED namespace
    BY <1>1 DEF Cached
  <1>2. CASE namespace' = Listed
    BY <1>0, <1>2, ListedType DEF Cached
  <1>3. ASSUME NEW ns \in Namespaces, CreateNamespace(ns) PROVE Cached \subseteq Cached'
    BY <1>0, <1>3 DEF CreateNamespace, Cached
  <1>4. ASSUME NEW u \in Users, UserHandlers(u) PROVE UNCHANGED namespace
    BY <1>4 DEF UserHandlers, CreateUser, ModifyPassword, GrantGlobalRole, AddMember, DeleteUser,
       SetState, cacheVars
  <1>5. ASSUME UserPass PROVE UNCHANGED namespace
    BY <1>5 DEF UserPass, AddFinalizer, EncryptPassword, SyncUserStatus, DeleteRoleBindings,
       ListNamespaces, DeleteLoginRecords, RemoveFinalizer, cacheVars
  <1>6. ASSUME \/ Tick \/ UNCHANGED vars \/ SyncRecords \/ Resync
               \/ CallFails \/ ExpireRecord \/ ExpireFails
               \/ \E u \in Users : SyncManagerUser(u) \/ SyncServerUser(u) \/ GetUser(u)
               \/ \E n \in Users : Logins(n)
               \/ \E id \in recQ : DropRecord(id)
               \/ \E r \in seen : RecordPass(r)
        PROVE  UNCHANGED namespace
    BY <1>6 DEF Tick, vars, cacheVars, SyncRecords, Resync, CallFails, ExpireRecord, ExpireFails,
       SyncManagerUser, SyncServerUser, GetUser, Logins, PasswordGrant, DropRecord, RecordPass,
       UpdateUserLastLoginTime
  <1> QED
    BY <1>1, <1>2, <1>3, <1>4, <1>5, <1>6 DEF Next, SyncNamespaces, Restart

\* Every step keeps within reach what a deleted user left.
LEMMA NextHeard == Inv /\ Heard /\ [Next]_vars => Heard'
  <1> SUFFICES ASSUME Inv, Heard, [Next]_vars, NEW u \in Users,
                      user'[u] # NoUser, user'[u].deleting,
                      NEW b \in bindings', b.user = u, ~b.late
               PROVE  b.scope \in Cached' \cup {Global}
    BY DEF Heard
  <1>1. ASSUME \/ Tick \/ UNCHANGED vars \/ SyncRecords \/ NamespaceStep \/ Resync \/ Restart
               \/ CallFails \/ ExpireRecord \/ ExpireFails
               \/ \E v \in Users : SyncManagerUser(v) \/ SyncServerUser(v) \/ GetUser(v)
               \/ \E n \in Users : Logins(n)
               \/ \E id \in recQ : DropRecord(id)
               \/ \E scope \in Scopes : DeleteRoleBindings(scope)
               \/ ListNamespaces \/ DeleteLoginRecords
        PROVE  Marks(u)
    <2>1. UNCHANGED user
      BY <1>1 DEF Tick, vars, apiVars, SyncRecords, NamespaceStep, CreateNamespace,
         SyncNamespaces,
         Resync, Restart, CallFails, ExpireRecord, ExpireFails,
         SyncManagerUser, SyncServerUser, GetUser, Logins, PasswordGrant,
         DropRecord, DeleteRoleBindings, ListNamespaces, DeleteLoginRecords
    <2> QED
      BY <2>1 DEF Marks
  <1>2. Marks(u)
    BY <1>1, HandlersMark, PassMarks, RecordMarks DEF Next, NamespaceStep, UserPass, RecordPass
  <1>3. CASE \A x \in bindings' : x.user = u /\ ~x.late => x.scope \in Cached \cup {Global}
    BY <1>3, CachedGrows
  <1>4. CASE user[u] # NoUser /\ user[u].deleting
    <2>1. ~Live(u)
      BY <1>4 DEF Live
    <2>2. b \in bindings
      BY <2>1, NextNews DEF News
    <2> QED
      BY <1>4, <2>2, CachedGrows DEF Heard
  <1> QED
    BY <1>2, <1>3, <1>4 DEF Marks

\* Every step keeps what a clean-up has done.
LEMMA NextSwept == Inv /\ Heard /\ Swept /\ [Next]_vars => Swept'
  <1> SUFFICES ASSUME Inv, Heard, Swept, [Next]_vars PROVE Swept'
    OBVIOUS
  <1>1. CASE worker' = worker /\ ~RemoveFinalizer
    BY <1>1, NextFollows, NextNews, SameSwept
  <1>2. CASE worker'.pc \notin {"bindings", "namespaces", "records", "release"}
    BY <1>2 DEF Swept, Sweeping
  <1>3. CASE Restart \/ CallFails \/ RemoveFinalizer \/ SyncUserStatus
    <2>1. worker' = Idle
      BY <1>3 DEF Restart, CallFails, RemoveFinalizer, SyncUserStatus, WriteState, Done, Retry
    <2> QED
      BY <1>2, <2>1 DEF Idle
  <1>4. CASE AddFinalizer
    <2>1. worker' = Idle \/ worker'.pc \in {"encrypt", "sync"}
      BY <1>4 DEF AddFinalizer, Retry, Doing, AfterFinalizer
    <2> QED
      BY <1>2, <2>1 DEF Idle
  <1>5. CASE EncryptPassword
    <2>1. worker \in Passes
      BY <1>5, PassType DEF EncryptPassword
    <2>2. worker' = Idle \/ worker'.pc = "sync"
      BY <1>5, <2>1 DEF EncryptPassword, Retry, Passes
    <2> QED
      BY <1>2, <2>2 DEF Idle
  <1>6. ASSUME NEW u \in Users, GetUser(u) PROVE Swept'
    BY <1>6, GetUserSwept
  <1>7. ASSUME (\E scope \in Scopes : DeleteRoleBindings(scope)) \/ ListNamespaces \/ DeleteLoginRecords
        PROVE  Swept'
    BY <1>7, CleaningSwept
  <1>8. ASSUME \/ Tick \/ UNCHANGED vars \/ SyncRecords \/ NamespaceStep \/ Resync
               \/ ExpireRecord \/ ExpireFails
               \/ \E u \in Users : UserHandlers(u) \/ SyncManagerUser(u) \/ SyncServerUser(u)
               \/ \E n \in Users : Logins(n)
               \/ \E id \in recQ : DropRecord(id)
               \/ \E r \in seen : RecordPass(r)
        PROVE  worker' = worker
    BY <1>8 DEF Tick, vars, SyncRecords, NamespaceStep, CreateNamespace, SyncNamespaces,
       Resync, ExpireRecord, ExpireFails,
       UserHandlers, CreateUser, ModifyPassword, GrantGlobalRole, AddMember, DeleteUser, SetState,
       SyncManagerUser, SyncServerUser, Logins, PasswordGrant,
       DropRecord, RecordPass, UpdateUserLastLoginTime
  <1> QED
    BY <1>1, <1>3, <1>4, <1>5, <1>6, <1>7, <1>8 DEF Next, NamespaceStep, UserPass

\* A user whose finalizer is taken off leaves no role binding and no login record
\* of its time, but for bindings in namespaces the manager had not heard of when
\* the user was deleted, whatever fails and whatever is made meanwhile
\* (user_controller.go Reconcile, deleteRoleBindings, deleteLoginRecords).
THEOREM ReleaseIsClean == Spec => CleanRelease
  <1> DEFINE Clean == \A u \in Users : user[u] # NoUser /\ user[u].finalizer /\ user'[u] = NoUser =>
          /\ \A b \in bindings' : b.user = u => b.late
          /\ \A r \in records' : r.label = u => r.late
  <1>1. Init => Swept /\ Heard
    BY DEF Init, Swept, Sweeping, Heard, Idle
  <1>2. Inv /\ Swept /\ [Next]_vars => Clean
    <2> SUFFICES ASSUME Inv, Swept, [Next]_vars, NEW u \in Users,
                        user[u] # NoUser, user[u].finalizer, user'[u] = NoUser
                 PROVE  /\ \A b \in bindings' : b.user = u => b.late
                        /\ \A r \in records' : r.label = u => r.late
      OBVIOUS
    <2>1. RemoveFinalizer
      BY NextFollows DEF Follows
    <2>2. worker.pc = "release" /\ UNCHANGED <<bindings, records>>
      BY <2>1 DEF RemoveFinalizer
    <2>3. worker.user = u /\ Current(worker.user, worker.copy)
      <3>1. user \in UserMap
        BY DEF Inv, TypeOK
      <3> QED
        BY <2>1, <3>1 DEF RemoveFinalizer, UserMap
    <2> QED
      BY <2>2, <2>3 DEF Swept, Sweeping, Ahead
  <1> QED
    BY <1>1, <1>2, InitInv, NextInv, NextHeard, NextSwept, PTL DEF Spec, CleanRelease

-----------------------------------------------------------------------------
\* Why failed attempts are counted: what the manager has seen of an active user
\* and could lock it with either wakes the user controller already, or holds a
\* record in the queue that is newer than the last login time, which the record
\* controller will write. That needs to know in which order records are made,
\* seen and deleted.

\* Records are numbered in the order of their times, and seen in that order.
Numbered ==
    /\ IsFiniteSet(records) /\ IsFiniteSet(seen)
    /\ now >= 1
    /\ \A r \in records \cup seen : r.id <= spent["login"] /\ r.at >= 1
    /\ \A r, s \in records \cup seen : r.id = s.id => r = s
    /\ \A r, s \in records \cup seen : r.id < s.id => r.at <= s.at
    /\ \A r \in records, s \in seen : r.id < s.id => r \in seen

\* No record that is yet to be seen is older than the last login time.
Unseen ==
    \A u \in Users : user[u] # NoUser =>
        \A r \in records \ seen : user[u].last <= r.at

\* What is gone before its time was deleted with all there was of its user.
SweptAway ==
    \A s \in seen \ records : s.at + Retention > now =>
        \A r \in records : r.label = s.label => r.at >= s.at

\* The last login time is that of a record which is there and seen, or of one
\* that was deleted with all there was of its user.
Told(u) == LET t == user[u].last IN
    user[u] # NoUser /\ t # 0 /\ t + Window > now =>
        \/ \E s \in records \cap seen : s.label = u /\ s.at = t
        \/ \A r \in records : r.label = u => r.at >= t

\* The pass of u has its status yet to look at.
Waiting(u) == worker.pc \in {"finalize", "encrypt", "sync"} /\ worker.user = u

\* A pass that will find its copy stale is followed by another one.
Awaited ==
    \A u \in Users : Waiting(u) /\ user[u] # NoUser =>
        Current(u, worker.copy) \/ mgr[u] # user[u] \/ u \in userQ

\* The status of u will be looked at.
Woken(u) == mgr[u] # user[u] \/ u \in userQ \/ Waiting(u)

\* The failed attempts that count and are still there.
Counted(u) == {r \in seen \cap records : r.label = u /\ ~r.ok /\ r.at + Window > now}

\* No other attempt on the same account fell into the second of this one.
Alone(r) == \A s \in records : s.label = r.label /\ s.at = r.at => s = r

\* Attempts that lock an active account are noticed.
Heeds(u, C) ==
    Woken(u) \/ \E r \in C : r.id \in recQ /\ user[u].last < r.at

Noticed(u) ==
    Live(u) /\ user[u].state = "Active" =>
        \A C \in SUBSET Counted(u) :
            Cardinality(C) >= MaxFail /\ (\A r \in C : Alone(r)) => Heeds(u, C)

Order == Numbered /\ Unseen /\ SweptAway /\ (\A u \in Users : Told(u))

\* What one step does to the records: an attempt adds one with the next number
\* and the time of now; any other step removes records, old ones or all of a
\* label, and may be the cache that catches up.
Grows ==
    \E r \in LoginRecords :
        /\ r.id = spent["login"] + 1 /\ r.at = now
        /\ records' = records \cup {r}
        /\ spent'["login"] = spent["login"] + 1
        /\ UNCHANGED <<now, user, seen, recQ>>

Shrinks ==
    /\ records' \subseteq records
    /\ seen' = seen \/ (seen' = records /\ records' = records)
    /\ \A s \in records \ records' :
          s.at + Retention <= now \/ \A r \in records' : r.label # s.label
    /\ now' = now \/ now' = now + 1
    /\ spent'["login"] = spent["login"]

\* What one step does to the last login time of u: the record controller sets it
\* to the time of a record it has seen, any other write clears or keeps it.
LastStep(u) ==
    \/ user'[u] = NoUser
    \/ user'[u].last = 0
    \/ user[u] # NoUser /\ user'[u].last = user[u].last
    \/ /\ \E s \in seen : s.label = u /\ s.at = user'[u].last
       /\ UNCHANGED <<now, records, seen>>

\* An object that is marked as deleted has a finalizer, or had none as it was
\* marked.
MarkStep(u) ==
    user'[u] # NoUser /\ user'[u].deleting =>
        \/ user'[u].finalizer
        \/ user[u] # NoUser /\ user[u].deleting /\ user'[u].finalizer = user[u].finalizer

\* A login attempt adds the next record.
LEMMA LoginGrows ==
    ASSUME Inv, NEW l \in Users, NEW ok \in BOOLEAN, RecordLogin(l, ok),
           UNCHANGED <<now, user, seen, recQ>>
    PROVE  Grows
  <1> DEFINE late == ~Live(l)
             new  == [ id |-> spent["login"] + 1, label |-> l, ok |-> ok, at |-> now,
                       late |-> late ]
  <1>1. now \in Nat /\ spent \in [Ops -> Nat] /\ "login" \in Ops
    BY DEF Inv, TypeOK, Ops
  <1>2. late \in BOOLEAN
    BY DEF Live
  <1>3. spent["login"] + 1 \in Nat
    BY <1>1
  <1>4. records' = records \cup {new}
    BY DEF RecordLogin
  <1>5. spent'["login"] = spent["login"] + 1
    BY <1>1 DEF RecordLogin, Spend
  <1> HIDE DEF late
  <1>6. new \in LoginRecords /\ new.id = spent["login"] + 1 /\ new.at = now
    BY <1>1, <1>2, <1>3 DEF LoginRecords
  <1> HIDE DEF new
  <1> QED
    BY <1>4, <1>5, <1>6 DEF Grows

\* The other operations leave the number of attempts alone.
LEMMA OtherSpend ==
    ASSUME Inv, NEW op \in Ops \ {"login"}, Spend(op)
    PROVE  spent'["login"] = spent["login"]
  BY DEF Inv, TypeOK, Spend, Ops

\* Every step adds the next record or removes some.
LEMMA NextOrders == ASSUME Inv, [Next]_vars PROVE Grows \/ Shrinks
  <1>0. now \in Nat
    BY DEF Inv, TypeOK
  <1>1. ASSUME NEW n \in Users, Logins(n) PROVE Grows
    <2>2. ASSUME NEW s \in Secrets \cup {NoSecret}, PasswordGrant(n, s) PROVE Grows
      <3>1. srv[n] \in UserObject
        BY <2>2 DEF PasswordGrant, Inv, TypeOK, UserMap
      <3>2. Verified(srv[n], s) \in BOOLEAN
        BY <3>1 DEF Verified, UserObject
      <3> QED
        BY <2>2, <3>2, LoginGrows DEF PasswordGrant, cacheVars, queueVars
    <2> QED
      BY <1>1, <2>2 DEF Logins
  <1>2. ASSUME UNCHANGED <<now, records, seen>>, spent'["login"] = spent["login"]
        PROVE  Shrinks
    BY <1>2 DEF Shrinks
  <1>3. ASSUME NEW u \in Users, UserHandlers(u) PROVE Shrinks
    <2>1. UNCHANGED <<now, records, seen>>
      BY <1>3 DEF UserHandlers, CreateUser, ModifyPassword, GrantGlobalRole, AddMember,
         DeleteUser,
         SetState, cacheVars
    <2>2. \E op \in Ops \ {"login"} : Spend(op)
      <3>1. {"create", "modify", "delete", "status", "bind"} \subseteq Ops \ {"login"}
        BY DEF Ops
      <3> QED
        BY <1>3, <3>1 DEF UserHandlers, CreateUser, ModifyPassword, GrantGlobalRole, AddMember,
           DeleteUser, SetState
    <2> QED
      BY <1>2, <2>1, <2>2, OtherSpend
  <1>4. CASE Resync \/ CallFails \/ ExpireFails
    <2>1. UNCHANGED <<now, records, seen>>
      BY <1>4 DEF Resync, CallFails, ExpireFails, apiVars, cacheVars
    <2>2. \E op \in Ops \ {"login"} : Spend(op)
      <3>1. {"resync", "fault"} \subseteq Ops \ {"login"}
        BY DEF Ops
      <3> QED
        BY <1>4, <3>1 DEF Resync, CallFails, ExpireFails
    <2> QED
      BY <1>2, <2>1, <2>2, OtherSpend
  <1>5. CASE Restart
    <2>1. "restart" \in Ops \ {"login"}
      BY DEF Ops
    <2>2. spent'["login"] = spent["login"]
      BY <1>5, <2>1, OtherSpend DEF Restart
    <2> QED
      BY <1>5, <2>2 DEF Restart, apiVars, Shrinks
  <1>6. CASE Tick
    BY <1>6 DEF Tick, cacheVars, Shrinks
  <1>7. CASE SyncRecords
    BY <1>7 DEF SyncRecords, apiVars, Shrinks
  <1>8. CASE ExpireRecord
    <2>1. \A s \in records \ records' : s.at + Retention <= now
      BY <1>8 DEF ExpireRecord, Old
    <2> QED
      BY <1>8, <2>1 DEF ExpireRecord, cacheVars, Shrinks
  <1>9. CASE DeleteLoginRecords
    <2>1. \A s \in records \ records' : \A r \in records' : r.label # s.label
      BY <1>9 DEF DeleteLoginRecords
    <2> QED
      BY <1>9, <2>1 DEF DeleteLoginRecords, cacheVars, Shrinks
  <1>10. ASSUME \/ AddFinalizer \/ EncryptPassword \/ SyncUserStatus \/ RemoveFinalizer
                \/ ListNamespaces \/ \E scope \in Scopes : DeleteRoleBindings(scope)
                \/ NamespaceStep
                \/ \E u \in Users : SyncManagerUser(u) \/ SyncServerUser(u) \/ GetUser(u)
                \/ \E r \in seen : RecordPass(r)
                \/ \E id \in recQ : DropRecord(id)
                \/ UNCHANGED vars
         PROVE  Shrinks
    <2>1. CASE \E ns \in Namespaces : CreateNamespace(ns)
      <3>1. "namespace" \in Ops \ {"login"}
        BY DEF Ops
      <3>2. UNCHANGED <<now, records, seen>> /\ spent'["login"] = spent["login"]
        BY <2>1, <3>1, OtherSpend DEF CreateNamespace, apiVars
      <3> QED
        BY <1>2, <3>2
    <2>2. CASE ~\E ns \in Namespaces : CreateNamespace(ns)
     <3>1. UNCHANGED <<now, records, seen, spent>>
      BY <1>10, <2>2 DEF AddFinalizer, EncryptPassword, SyncUserStatus, RemoveFinalizer,
         DeleteRoleBindings, ListNamespaces, NamespaceStep, SyncNamespaces, SyncManagerUser,
         SyncServerUser, GetUser, RecordPass,
         UpdateUserLastLoginTime, DropRecord, vars, apiVars, cacheVars
     <3> QED
      BY <1>2, <3>1
    <2> QED
      BY <2>1, <2>2
  <1> QED
    BY <1>1, <1>3, <1>4, <1>5, <1>6, <1>7, <1>8, <1>9, <1>10 DEF Next, NamespaceStep, UserPass

\* The types the arguments about the order of records rest on.
LEMMA RecordTypes ==
    ASSUME Inv
    PROVE  /\ now \in Nat /\ spent["login"] \in Nat
           /\ \A r \in records \cup seen : r \in LoginRecords /\ r.id \in Nat
                                           /\ r.at \in Nat /\ r.at <= now
           /\ \A u \in Users : user[u] # NoUser => user[u].last \in Nat /\ user[u].last <= now
  <1>1. Rest /\ "login" \in Ops
    BY InvRest DEF Ops
  <1>2. now \in Nat /\ spent["login"] \in Nat
    BY <1>1 DEF Rest
  <1>3. \A r \in records \cup seen : r \in LoginRecords /\ r.id \in Nat /\ r.at \in Nat /\ r.at <= now
    BY <1>1 DEF Rest, LoginRecords
  <1>4. \A u \in Users : user[u] # NoUser => user[u].last \in Nat /\ user[u].last <= now
    BY Stored
  <1> QED
    BY <1>2, <1>3, <1>4

\* An attempt is numbered after all that are known.
LEMMA GrowsNumbered == ASSUME Inv, Numbered, Grows PROVE Numbered'
  <1>1. PICK r \in LoginRecords :
            /\ r.id = spent["login"] + 1 /\ r.at = now
            /\ records' = records \cup {r}
            /\ spent'["login"] = spent["login"] + 1
            /\ UNCHANGED <<now, user, seen, recQ>>
    BY DEF Grows
  <1>2. IsFiniteSet(records') /\ IsFiniteSet(seen') /\ now' >= 1
    BY <1>1, FS_AddElement DEF Numbered
  <1>3. now \in Nat /\ spent["login"] \in Nat
        /\ \A s \in records \cup seen : s.id \in Nat /\ s.at \in Nat /\ s.at <= now
    BY RecordTypes
  <1>4. \A s \in records' \cup seen' : s.id <= spent'["login"] /\ s.at >= 1
    BY <1>1, <1>3 DEF Numbered
  <1>5. \A s, t \in records' \cup seen' : s.id = t.id => s = t
    BY <1>1, <1>3 DEF Numbered
  <1>6. \A s, t \in records' \cup seen' : s.id < t.id => s.at <= t.at
    BY <1>1, <1>3 DEF Numbered
  <1>7. \A s \in records', t \in seen' : s.id < t.id => s \in seen'
    BY <1>1, <1>3 DEF Numbered
  <1> QED
    BY <1>2, <1>4, <1>5, <1>6, <1>7 DEF Numbered

\* What is left of the records keeps its numbers.
LEMMA ShrinksNumbered == ASSUME Inv, Numbered, Shrinks PROVE Numbered'
  <1>1. records' \subseteq records /\ seen' \subseteq records \cup seen
        /\ (seen' = seen \/ seen' = records')
        /\ spent'["login"] = spent["login"] /\ (now' = now \/ now' = now + 1)
    BY DEF Shrinks
  <1>2. IsFiniteSet(records') /\ IsFiniteSet(seen')
    BY <1>1, FS_Subset DEF Numbered, Shrinks
  <1>3. now \in Nat
    BY RecordTypes
  <1>4. now' >= 1
    BY <1>1, <1>3 DEF Numbered
  <1>5. \A s \in records', t \in seen' : s.id < t.id => s \in seen'
    BY <1>1 DEF Numbered
  <1> QED
    BY <1>1, <1>2, <1>4, <1>5 DEF Numbered

\* A record that has not been seen is not older than one that has.
LEMMA UnseenLater ==
    ASSUME Inv, Numbered, NEW r \in records \ seen, NEW s \in seen
    PROVE  s.id < r.id /\ s.at <= r.at
  <1>1. r.id \in Nat /\ s.id \in Nat
    BY RecordTypes
  <1>2. ~(r.id < s.id) /\ r.id # s.id
    BY DEF Numbered
  <1>3. s.id < r.id
    BY <1>1, <1>2
  <1> QED
    BY <1>3 DEF Numbered

\* Nothing sets the last login time ahead of what is yet to be seen.
LEMMA UnseenStep ==
    ASSUME Inv, Numbered, Unseen, Grows \/ Shrinks, \A u \in Users : LastStep(u)
    PROVE  Unseen'
  <1> SUFFICES ASSUME NEW u \in Users, user'[u] # NoUser, NEW r \in records' \ seen'
               PROVE  user'[u].last <= r.at
    BY DEF Unseen
  <1>0. now \in Nat /\ (\A s \in records \cup seen : s.at \in Nat)
        /\ (user[u] # NoUser => user[u].last \in Nat /\ user[u].last <= now)
    BY RecordTypes
  <1>1. CASE Grows
    BY <1>0, <1>1 DEF Grows, Unseen
  <1>2. CASE Shrinks
    <2>1. r \in records \ seen
      BY <1>2 DEF Shrinks
    <2>2. CASE user'[u].last = 0
      BY <1>0, <2>1, <2>2
    <2>3. CASE user[u] # NoUser /\ user'[u].last = user[u].last
      BY <2>1, <2>3 DEF Unseen
    <2>4. CASE \E s \in seen : s.label = u /\ s.at = user'[u].last
      BY <2>1, <2>4, UnseenLater
    <2> QED
      BY <2>2, <2>3, <2>4 DEF LastStep
  <1> QED
    BY <1>1, <1>2

\* What is deleted young is deleted with all of its label.
LEMMA SweptAwayStep ==
    ASSUME Inv, SweptAway, Grows \/ Shrinks
    PROVE  SweptAway'
  <1> SUFFICES ASSUME NEW s \in seen' \ records', s.at + Retention > now',
                      NEW r \in records', r.label = s.label
               PROVE  r.at >= s.at
    BY DEF SweptAway
  <1>0. now \in Nat /\ Retention \in Nat
        /\ \A t \in records \cup seen : t.at \in Nat /\ t.at <= now
    BY RecordTypes, BoundsAssumption
  <1>1. CASE Grows
    BY <1>0, <1>1 DEF Grows, SweptAway
  <1>2. CASE Shrinks
    <2>1. s \in seen /\ r \in records /\ (now' = now \/ now' = now + 1)
      BY <1>2 DEF Shrinks
    <2>2. s.at + Retention > now
      BY <1>0, <2>1
    <2>3. s \notin records
      <3>1. ASSUME s \in records PROVE FALSE
        <4>1. s.at + Retention <= now
          BY <1>2, <3>1 DEF Shrinks
        <4> QED
          BY <1>0, <2>1, <2>2, <4>1
      <3> QED
        BY <3>1
    <2> QED
      BY <2>1, <2>2, <2>3 DEF SweptAway
  <1> QED
    BY <1>1, <1>2

\* The last login time stays that of a record which is there and seen, as long
\* as it matters: one that is within the window is not deleted for its age.
LEMMA ToldStep ==
    ASSUME Inv, Numbered, SweptAway, NEW u \in Users, Told(u), Window <= Retention,
           Grows \/ Shrinks, LastStep(u)
    PROVE  Told(u)'
  <1> DEFINE t == user'[u].last
  <1> SUFFICES ASSUME user'[u] # NoUser, t # 0, t + Window > now'
               PROVE  \/ \E s \in records' \cap seen' : s.label = u /\ s.at = t
                      \/ \A r \in records' : r.label = u => r.at >= t
    BY DEF Told
  <1>0. now \in Nat /\ Retention \in Nat /\ Window \in Nat
        /\ (\A s \in records \cup seen : s.at \in Nat /\ s.at <= now)
        /\ (user[u] # NoUser => user[u].last \in Nat /\ user[u].last <= now)
    BY RecordTypes, BoundsAssumption
  <1>1. CASE user[u] # NoUser /\ t = user[u].last
    <2>0. t \in Nat /\ t <= now
      BY <1>0, <1>1
    <2> HIDE DEF t
    <2>1. CASE Grows
      <3>1. records \subseteq records' /\ seen' = seen /\ now' = now
            /\ \A r \in records' : r \in records \/ r.at = now
        BY <2>1 DEF Grows
      <3>2. \/ \E s \in records \cap seen : s.label = u /\ s.at = t
            \/ \A r \in records : r.label = u => r.at >= t
        BY <1>1, <3>1 DEF Told
      <3> QED
        BY <2>0, <3>1, <3>2
    <2>2. CASE Shrinks
      <3>1. records' \subseteq records /\ t + Window > now
        BY <1>0, <2>0, <2>2 DEF Shrinks
      <3>2. \/ \E s \in records \cap seen : s.label = u /\ s.at = t
            \/ \A r \in records : r.label = u => r.at >= t
        BY <1>1, <3>1 DEF Told
      <3>3. ASSUME NEW s \in records \cap seen, s.label = u, s.at = t
            PROVE  \/ s \in records' \cap seen'
                   \/ \A r \in records' : r.label # u
        <4>1. ~(s.at + Retention <= now)
          BY <1>0, <2>0, <3>1, <3>3
        <4> QED
          BY <2>2, <3>3, <4>1 DEF Shrinks
      <3> QED
        BY <3>1, <3>2, <3>3
    <2> QED
      BY <2>1, <2>2
  <1>2. CASE (\E s \in seen : s.label = u /\ s.at = t) /\ UNCHANGED <<now, records, seen>>
    <2>1. PICK s \in seen : s.label = u /\ s.at = t
      BY <1>2
    <2> HIDE DEF t
    <2>2. CASE s \in records
      BY <1>2, <2>1, <2>2
    <2>3. CASE s \notin records
      <3>1. s.at + Retention > now
        BY <1>0, <1>2, <2>1
      <3> QED
        BY <1>2, <2>1, <2>3, <3>1 DEF SweptAway
    <2> QED
      BY <2>2, <2>3
  <1> QED
    BY <1>1, <1>2 DEF LastStep

\* A write to u of an object with the last login time u has, or none.
LEMMA PutLast ==
    ASSUME Inv, NEW u \in Users, NEW o \in UserObject, Put(u, o), now' = now,
           user[u] # NoUser, o.since <= now, o.last = user[u].last \/ o.last = 0,
           o.deleting => o.finalizer \/ (user[u].deleting /\ o.finalizer = user[u].finalizer)
    PROVE  \A v \in Users : LastStep(v) /\ MarkStep(v)
  <1>1. o.last <= now
    BY Stored, BoundsAssumption
  <1>2. user'[u].last = o.last /\ user'[u].deleting = o.deleting
        /\ user'[u].finalizer = o.finalizer /\ \A v \in Users \ {u} : user'[v] = user[v]
    BY <1>1, PutStores DEF Inv
  <1> QED
    BY <1>2 DEF LastStep, MarkStep

\* Objects that do not change keep their last login time.
LEMMA SameLast == ASSUME UNCHANGED user PROVE \A v \in Users : LastStep(v) /\ MarkStep(v)
  BY DEF LastStep, MarkStep

\* No request sets the last login time.
LEMMA HandlersLast ==
    ASSUME Inv, NEW u \in Users, UserHandlers(u)
    PROVE  \A v \in Users : LastStep(v) /\ MarkStep(v)
  <1>0. user \in UserMap /\ rev \in Nat
    BY DEF Inv, TypeOK
  <1>1. ASSUME NEW s \in Secrets \cup {NoSecret}, NEW h \in BOOLEAN, CreateUser(u, s, h)
        PROVE  \A v \in Users : LastStep(v) /\ MarkStep(v)
    <2> DEFINE o == [ rv |-> rev + 1, finalizer |-> FALSE, deleting |-> FALSE,
                      secret |-> s, hashed |-> h,
                      state |-> "none", since |-> 0, last |-> 0 ]
    <2>1. user' = [user EXCEPT ![u] = o] /\ o.last = 0 /\ ~o.deleting
      BY <1>1 DEF CreateUser
    <2> HIDE DEF o
    <2>2. user'[u] = o /\ \A v \in Users \ {u} : user'[v] = user[v]
      BY <1>0, <2>1 DEF UserMap
    <2> QED
      BY <2>1, <2>2 DEF LastStep, MarkStep
  <1>2. ASSUME NEW s \in Secrets \cup {NoSecret}, NEW h \in BOOLEAN, ModifyPassword(u, s, h)
        PROVE  \A v \in Users : LastStep(v) /\ MarkStep(v)
    <2> DEFINE o == [user[u] EXCEPT !.secret = s, !.hashed = h]
    <2>1. user[u] # NoUser /\ Put(u, o) /\ now' = now
      BY <1>2 DEF ModifyPassword, Current
    <2>2. user[u] \in UserObject /\ user[u].since <= now
      BY <2>1, Stored
    <2>3. o \in UserObject /\ o.last = user[u].last /\ o.since = user[u].since
          /\ o.deleting = user[u].deleting /\ o.finalizer = user[u].finalizer
      BY <2>2 DEF UserObject
    <2> HIDE DEF o
    <2> QED
      BY <2>1, <2>2, <2>3, PutLast
  <1>3. CASE DeleteUser(u)
    <2>1. CASE user[u].finalizer
      <3> DEFINE o == [user[u] EXCEPT !.deleting = TRUE]
      <3>1. user[u] # NoUser /\ Put(u, o) /\ now' = now
        BY <1>3, <2>1 DEF DeleteUser
      <3>2. user[u] \in UserObject /\ user[u].since <= now
        BY <3>1, Stored
      <3>3. o \in UserObject /\ o.last = user[u].last /\ o.since = user[u].since
            /\ o.finalizer
        BY <2>1, <3>2 DEF UserObject
      <3> HIDE DEF o
      <3> QED
        BY <3>1, <3>2, <3>3, PutLast
    <2>2. CASE ~user[u].finalizer
      <3>1. user' = [user EXCEPT ![u] = NoUser]
        BY <1>3, <2>2 DEF DeleteUser
      <3>2. user'[u] = NoUser /\ \A v \in Users \ {u} : user'[v] = user[v]
        BY <1>0, <3>1 DEF UserMap
      <3> QED
        BY <3>2 DEF LastStep, MarkStep
    <2> QED
      BY <2>1, <2>2
  <1>4. ASSUME NEW st \in {"Active", "Disabled"}, SetState(u, st)
        PROVE  \A v \in Users : LastStep(v) /\ MarkStep(v)
    <2> DEFINE o == [user[u] EXCEPT !.state = st]
    <2>1. user[u] # NoUser /\ Put(u, o) /\ now' = now
      BY <1>4 DEF SetState
    <2>2. user[u] \in UserObject /\ user[u].since <= now
      BY <2>1, Stored
    <2>3. o \in UserObject /\ o.last = user[u].last /\ o.since = user[u].since
          /\ o.deleting = user[u].deleting /\ o.finalizer = user[u].finalizer
      BY <2>2 DEF UserObject, States
    <2> HIDE DEF o
    <2> QED
      BY <2>1, <2>2, <2>3, PutLast
  <1>5. ASSUME GrantGlobalRole(u) \/ \E ns \in Namespaces : AddMember(u, ns)
        PROVE  \A v \in Users : LastStep(v) /\ MarkStep(v)
    BY <1>5, SameLast DEF GrantGlobalRole, AddMember
  <1> QED
    BY <1>1, <1>2, <1>3, <1>4, <1>5 DEF UserHandlers

\* The user controller keeps or clears it.
LEMMA PassLast ==
    ASSUME Inv, UserPass
    PROVE  \A v \in Users : LastStep(v) /\ MarkStep(v)
  <1> DEFINE u == worker.user
             c == worker.copy
  <1>0. /\ user \in UserMap /\ rev \in Nat /\ worker.pc # "idle"
        /\ u \in Users /\ c \in UserObject
    <2>1. worker.pc # "idle"
      BY DEF UserPass, AddFinalizer, EncryptPassword, SyncUserStatus, DeleteRoleBindings,
         ListNamespaces,
         DeleteLoginRecords, RemoveFinalizer
    <2> QED
      BY <2>1, PassType DEF Inv, TypeOK
  <1>1. CASE UNCHANGED user
    BY <1>1, SameLast
  <1>2. ASSUME Current(u, c)
        PROVE  c = user[u] /\ user[u] # NoUser /\ user[u] \in UserObject /\ user[u].since <= now
    BY <1>0, <1>2, PassCurrent, Stored
  <1>3. CASE AddFinalizer /\ Current(u, c)
    <2> DEFINE o == [c EXCEPT !.finalizer = TRUE, !.rv = rev + 1]
    <2>1. user' = [user EXCEPT ![u] = o]
      BY <1>3 DEF AddFinalizer
    <2>2. o.last = user[u].last /\ o.finalizer
      BY <1>2, <1>3 DEF UserObject
    <2> HIDE DEF o
    <2>3. user'[u] = o /\ \A v \in Users \ {u} : user'[v] = user[v]
      BY <1>0, <2>1 DEF UserMap
    <2> QED
      BY <1>2, <1>3, <2>2, <2>3 DEF LastStep, MarkStep
  <1>4. CASE EncryptPassword /\ Current(u, c)
    <2> DEFINE o == [c EXCEPT !.hashed = TRUE]
    <2>1. CASE Put(u, o)
      <3>1. now' = now
        BY <1>4 DEF EncryptPassword
      <3>2. o \in UserObject /\ o.last = user[u].last /\ o.since = user[u].since
            /\ o.deleting = user[u].deleting /\ o.finalizer = user[u].finalizer
        BY <1>2, <1>4 DEF UserObject
      <3> HIDE DEF o
      <3> QED
        BY <1>0, <1>2, <1>4, <2>1, <3>1, <3>2, PutLast
    <2> QED
      BY <1>1, <1>4, <2>1 DEF EncryptPassword
  <1>5. ASSUME NEW st \in {"Active", "AuthLimitExceeded"}, WriteState(st), Current(u, c), now' = now
        PROVE  \A v \in Users : LastStep(v) /\ MarkStep(v)
    <2> DEFINE o == [user[u] EXCEPT !.state = st, !.since = now, !.last = 0]
    <2>1. Put(u, o)
      BY <1>5 DEF WriteState
    <2>2. now \in Nat /\ st \in States
      BY DEF Inv, TypeOK, States
    <2>a. user[u] \in UserObject /\ now <= now
      BY <1>2, <1>5, <2>2
    <2>b. o \in UserObject
      BY <2>2, <2>a DEF UserObject
    <2>3. o \in UserObject /\ o.last = 0 /\ o.since <= now
          /\ o.deleting = user[u].deleting /\ o.finalizer = user[u].finalizer
      BY <2>a, <2>b DEF UserObject
    <2> HIDE DEF o
    <2> QED
      BY <1>0, <1>2, <1>5, <2>1, <2>3, PutLast
  <1>6. CASE SyncUserStatus /\ Current(u, c)
    BY <1>1, <1>5, <1>6 DEF SyncUserStatus
  <1>7. CASE RemoveFinalizer /\ Current(u, c)
    <2>1. user' = [user EXCEPT ![u] = NoUser]
      BY <1>7 DEF RemoveFinalizer
    <2>2. user'[u] = NoUser /\ \A v \in Users \ {u} : user'[v] = user[v]
      BY <1>0, <2>1 DEF UserMap
    <2> QED
      BY <2>2 DEF LastStep, MarkStep
  <1>8. ASSUME ~Current(u, c) PROVE UNCHANGED user
    BY <1>8 DEF UserPass, AddFinalizer, EncryptPassword, SyncUserStatus, WriteState,
       DeleteRoleBindings, ListNamespaces, DeleteLoginRecords, RemoveFinalizer, apiVars
  <1>9. ASSUME (\E scope \in Scopes : DeleteRoleBindings(scope)) \/ ListNamespaces \/ DeleteLoginRecords
        PROVE  UNCHANGED user
    BY <1>9 DEF DeleteRoleBindings, ListNamespaces, DeleteLoginRecords, apiVars
  <1> QED
    BY <1>1, <1>3, <1>4, <1>6, <1>7, <1>8, <1>9 DEF UserPass

\* The record controller sets it to the time of the record it works on.
LEMMA RecordLast ==
    ASSUME Inv, NEW r \in seen, UpdateUserLastLoginTime(r)
    PROVE  \A v \in Users : LastStep(v) /\ MarkStep(v)
  <1> DEFINE u == r.label
             o == [user[u] EXCEPT !.last = r.at]
  <1>1. CASE UNCHANGED user
    BY <1>1, SameLast
  <1>2. CASE WriteLastLogin(r)
    <2>1. u \in Users /\ user[u] # NoUser /\ Put(u, o) /\ UNCHANGED <<now, records, seen>>
      BY <1>2, InvRest DEF UpdateUserLastLoginTime, WriteLastLogin, Current, cacheVars, Rest,
         LoginRecords
    <2>2. r.at \in Nat /\ r.at <= now /\ user[u] \in UserObject /\ user[u].since <= now
      BY <2>1, Stored, InvRest DEF Rest, LoginRecords
    <2>3. o \in UserObject /\ o.last = r.at /\ o.since = user[u].since
          /\ o.deleting = user[u].deleting /\ o.finalizer = user[u].finalizer
      BY <2>2 DEF UserObject
    <2> HIDE DEF o
    <2>4. user'[u].last = r.at /\ user'[u].deleting = user[u].deleting
          /\ user'[u].finalizer = user[u].finalizer
          /\ \A v \in Users \ {u} : user'[v] = user[v]
      BY <2>1, <2>2, <2>3, PutStores DEF Inv
    <2>5. LastStep(u) /\ MarkStep(u)
      BY <2>1, <2>4 DEF LastStep, MarkStep
    <2> QED
      BY <2>4, <2>5 DEF LastStep, MarkStep
  <1> QED
    BY <1>1, <1>2 DEF UpdateUserLastLoginTime

\* Every step does one of these things to the last login times.
LEMMA NextLast == ASSUME Inv, [Next]_vars PROVE \A v \in Users : LastStep(v) /\ MarkStep(v)
  <1>1. ASSUME \/ Tick \/ UNCHANGED vars \/ SyncRecords \/ NamespaceStep \/ Resync \/ Restart
               \/ CallFails \/ ExpireRecord \/ ExpireFails
               \/ \E u \in Users : SyncManagerUser(u) \/ SyncServerUser(u) \/ GetUser(u)
               \/ \E n \in Users : Logins(n)
               \/ \E id \in recQ : DropRecord(id)
        PROVE  UNCHANGED user
    BY <1>1 DEF Tick, vars, apiVars, SyncRecords, NamespaceStep, CreateNamespace,
       SyncNamespaces, Resync, Restart, CallFails, ExpireRecord,
       ExpireFails, SyncManagerUser, SyncServerUser, GetUser, Logins, PasswordGrant, DropRecord
  <1> QED
    BY <1>1, SameLast, HandlersLast, PassLast, RecordLast DEF Next, NamespaceStep, RecordPass

\* The order of records and the last login times survive every step.
LEMMA NextOrder ==
    ASSUME Inv, Order, Window <= Retention, [Next]_vars
    PROVE  Order'
  <1>1. (Grows \/ Shrinks) /\ \A u \in Users : LastStep(u)
    BY NextOrders, NextLast
  <1>2. Numbered'
    BY <1>1, GrowsNumbered, ShrinksNumbered DEF Order
  <1>3. Unseen'
    BY <1>1, UnseenStep DEF Order
  <1>4. SweptAway'
    BY <1>1, SweptAwayStep DEF Order
  <1>5. ASSUME NEW u \in Users PROVE Told(u)'
    BY <1>1, ToldStep DEF Order
  <1> QED
    BY <1>2, <1>3, <1>4, <1>5 DEF Order

\* What the steps that are not of the user controller's pass, nor a restart,
\* leave alone.
LEMMA OthersWait ==
    ASSUME \/ Tick \/ UNCHANGED vars \/ SyncRecords \/ NamespaceStep \/ Resync
           \/ ExpireRecord \/ ExpireFails
           \/ \E u \in Users : UserHandlers(u) \/ SyncManagerUser(u) \/ SyncServerUser(u)
           \/ \E n \in Users : Logins(n)
           \/ \E id \in recQ : DropRecord(id)
           \/ \E r \in seen : RecordPass(r)
    PROVE  worker' = worker /\ userQ \subseteq userQ'
  BY DEF Tick, vars, queueVars, SyncRecords, NamespaceStep, CreateNamespace, SyncNamespaces,
     Resync, ExpireRecord, ExpireFails,
     UserHandlers, CreateUser, ModifyPassword, GrantGlobalRole, AddMember, DeleteUser, SetState,
     SyncManagerUser, SyncServerUser, Logins, PasswordGrant, DropRecord,
     RecordPass, UpdateUserLastLoginTime

\* A user who is there is queued by a restart.
LEMMA RestartQueues ==
    ASSUME NEW u \in Users, Restart, user'[u] # NoUser
    PROVE  u \in userQ' /\ worker' = Idle
  BY DEF Restart, apiVars

\* A user leaves the queue only when its pass begins, or the process dies.
LEMMA QueueStep ==
    ASSUME [Next]_vars, NEW u \in Users, u \in userQ, user'[u] # NoUser
    PROVE  u \in userQ' \/ GetUser(u)
  <1>1. CASE UserPass \/ CallFails
    BY <1>1 DEF UserPass, AddFinalizer, EncryptPassword, SyncUserStatus, WriteState,
       DeleteRoleBindings, ListNamespaces, DeleteLoginRecords, RemoveFinalizer, CallFails,
       Retry, Done, queueVars
  <1>2. ASSUME NEW v \in Users, GetUser(v), v # u PROVE u \in userQ'
    BY <1>2 DEF GetUser
  <1> QED
    BY <1>1, <1>2, OthersWait, RestartQueues DEF Next, NamespaceStep

\* What the cache of the manager learns about a user queues it.
LEMMA CacheStep ==
    ASSUME Inv, [Next]_vars, NEW u \in Users, user'[u] # NoUser, mgr'[u] # mgr[u]
    PROVE  u \in userQ'
  <1>1. ASSUME NEW v \in Users, SyncManagerUser(v) PROVE u \in userQ'
    <2>1. v = u
      BY <1>1 DEF SyncManagerUser, Inv, TypeOK, UserMap
    <2> QED
      BY <1>1, <2>1 DEF SyncManagerUser
  <1>2. ASSUME UNCHANGED mgr PROVE FALSE
    BY <1>2
  <1>3. CASE \/ UserPass \/ CallFails
    BY <1>2, <1>3 DEF UserPass, AddFinalizer, EncryptPassword, SyncUserStatus,
       DeleteRoleBindings, ListNamespaces, DeleteLoginRecords, RemoveFinalizer, CallFails,
       cacheVars
  <1>4. CASE \/ Tick \/ UNCHANGED vars \/ SyncRecords \/ NamespaceStep \/ Resync
             \/ ExpireRecord \/ ExpireFails
             \/ \E v \in Users : UserHandlers(v) \/ SyncServerUser(v) \/ GetUser(v)
             \/ \E n \in Users : Logins(n)
             \/ \E id \in recQ : DropRecord(id)
             \/ \E r \in seen : RecordPass(r)
    BY <1>2, <1>4 DEF Tick, vars, cacheVars, SyncRecords, NamespaceStep, CreateNamespace,
       SyncNamespaces, Resync, ExpireRecord, ExpireFails,
       UserHandlers, CreateUser, ModifyPassword, GrantGlobalRole, AddMember, DeleteUser, SetState,
       SyncServerUser, GetUser, Logins, PasswordGrant, DropRecord,
       RecordPass, UpdateUserLastLoginTime
  <1> QED
    BY <1>1, <1>3, <1>4, RestartQueues DEF Next, NamespaceStep

\* What is written is ahead of the cache of the manager.
LEMMA WriteWakes ==
    ASSUME Inv, [Next]_vars, NEW u \in Users, user'[u] # NoUser, user'[u] # user[u]
    PROVE  mgr'[u] # user'[u]
  <1>0. /\ user \in UserMap /\ rev \in Nat /\ (mgr[u] # NoUser => mgr[u] \in UserObject)
        /\ Past(mgr[u])
    BY DEF Inv, TypeOK, UserMap, Copies
  <1>1. ~RemoveFinalizer
    BY <1>0 DEF RemoveFinalizer, UserMap
  <1>2. user'[u] # NoUser /\ user'[u].rv = rev + 1
    BY <1>1, NextFollows DEF Follows
  <1>3. mgr' = mgr
    <2>1. CASE \/ UserPass \/ \E v \in Users : UserHandlers(v)
               \/ \E r \in seen : RecordPass(r)
      BY <2>1 DEF UserPass, AddFinalizer, EncryptPassword, SyncUserStatus,
         DeleteRoleBindings, ListNamespaces, DeleteLoginRecords, RemoveFinalizer, UserHandlers,
         CreateUser,
         ModifyPassword, GrantGlobalRole, AddMember, DeleteUser, SetState, RecordPass,
         UpdateUserLastLoginTime, cacheVars
    <2>2. CASE \/ Tick \/ UNCHANGED vars \/ SyncRecords \/ NamespaceStep \/ Resync \/ Restart
               \/ CallFails \/ ExpireRecord \/ ExpireFails
               \/ \E v \in Users : SyncManagerUser(v) \/ SyncServerUser(v) \/ GetUser(v)
               \/ \E n \in Users : Logins(n)
               \/ \E id \in recQ : DropRecord(id)
      <3>1. UNCHANGED user
        BY <2>2 DEF Tick, vars, apiVars, SyncRecords, NamespaceStep, CreateNamespace,
           SyncNamespaces, Resync, Restart, CallFails, ExpireRecord,
           ExpireFails, SyncManagerUser, SyncServerUser, GetUser, Logins, PasswordGrant,
           DropRecord
      <3> QED
        BY <3>1
    <2> QED
      BY <2>1, <2>2 DEF Next, NamespaceStep
  <1>4. mgr[u] # NoUser => mgr[u].rv <= rev /\ mgr[u].rv \in Nat
    BY <1>0 DEF Past, UserObject
  <1>5. user'[u].rv # rev /\ ~(user'[u].rv <= rev)
    BY <1>0, <1>2
  <1> QED
    BY <1>2, <1>3, <1>4, <1>5

\* A pass begins with what the cache holds.
LEMMA GetUserWaits ==
    ASSUME NEW u \in Users, GetUser(u), mgr[u] = user[u], Live(u)
    PROVE  /\ worker'.pc \in {"finalize", "encrypt", "sync"} /\ worker'.user = u
           /\ worker'.copy = user[u] /\ UNCHANGED <<user, mgr>>
  <1> DEFINE c == mgr[u]
  <1>1. c # NoUser /\ ~c.deleting
    BY DEF Live
  <1>2. AfterFinalizer(c) \in {"encrypt", "sync"}
    BY DEF AfterFinalizer
  <1>3. \E pc \in {"finalize", "encrypt", "sync"} : worker' = Doing(pc, u, c, {})
    BY <1>1, <1>2 DEF GetUser
  <1> QED
    BY <1>3 DEF GetUser, Doing, apiVars, cacheVars

\* Its copy is that of the cache.
LEMMA GetUserCopies ==
    ASSUME NEW u \in Users, GetUser(u), worker' # Idle
    PROVE  /\ worker'.copy = mgr[u] /\ worker'.user = u /\ mgr[u] # NoUser
           /\ UNCHANGED <<user, mgr>>
  BY DEF GetUser, Doing, apiVars, cacheVars

\* How the worker gets to a state in which the status is yet to be looked at.
LEMMA WaitStep ==
    ASSUME Inv, [Next]_vars, NEW u \in Users, Waiting(u)', worker' # worker
    PROVE  \/ GetUser(u)
           \/ worker'.copy = user'[u] /\ user'[u] # NoUser
           \/ EncryptPassword /\ Waiting(u) /\ Current(u, worker.copy) /\ worker'.copy = worker.copy
  <1>0. worker'.pc \in {"finalize", "encrypt", "sync"} /\ worker'.user = u
    BY DEF Waiting
  <1>1. worker' # Idle
    BY <1>0 DEF Idle
  <1>2. ASSUME NEW v \in Users, GetUser(v) PROVE GetUser(u)
    <2>1. worker'.user = v
      BY <1>1, <1>2 DEF GetUser, Doing
    <2> QED
      BY <1>0, <1>2, <2>1
  <1>3. CASE AddFinalizer
    <2> DEFINE w == worker.user
               c == [worker.copy EXCEPT !.finalizer = TRUE, !.rv = rev + 1]
    <2>1. /\ user' = [user EXCEPT ![w] = c] /\ worker' = Doing(AfterFinalizer(c), w, c, {})
      BY <1>1, <1>3 DEF AddFinalizer, Retry
    <2>2. worker.copy \in UserObject /\ w \in Users /\ rev \in Nat /\ user \in UserMap
      BY <1>3, PassType DEF AddFinalizer, Inv, TypeOK
    <2>a. rev + 1 \in Nat
      BY <2>2
    <2>3. c \in UserObject
      BY <2>2, <2>a DEF UserObject
    <2>4. c # NoUser
      BY <2>3, ValuesAssumption
    <2> HIDE DEF c
    <2>5. w = u /\ worker'.copy = c /\ user'[u] = c
      BY <1>0, <2>1, <2>2 DEF Doing, UserMap
    <2> QED
      BY <2>4, <2>5
  <1>4. CASE EncryptPassword
    <2>1. worker \in Passes /\ worker.pc = "encrypt"
      BY <1>4, PassType DEF EncryptPassword
    <2>2. worker' = [worker EXCEPT !.pc = "sync"] /\ Current(worker.user, worker.copy)
      BY <1>1, <1>4 DEF EncryptPassword, Retry
    <2>3. worker'.user = worker.user /\ worker'.copy = worker.copy
      BY <2>1, <2>2 DEF Passes
    <2> QED
      BY <1>0, <1>4, <2>1, <2>2, <2>3 DEF Waiting
  <1>5. ASSUME (\E scope \in Scopes : DeleteRoleBindings(scope)) \/ ListNamespaces \/ DeleteLoginRecords
        PROVE  FALSE
    <2>1. CASE \E scope \in Scopes : DeleteRoleBindings(scope)
      BY <1>0, <2>1 DEF DeleteRoleBindings, Doing, AfterBindings
    <2>3. CASE ListNamespaces
      BY <1>0, <2>3 DEF ListNamespaces, Doing, AfterBindings
    <2>2. CASE DeleteLoginRecords
      <3>1. worker \in Passes
        BY <2>2, PassType DEF DeleteLoginRecords
      <3> QED
        BY <1>0, <2>2, <3>1 DEF DeleteLoginRecords, Passes
    <2> QED
      BY <1>5, <2>1, <2>2, <2>3
  <1>6. ASSUME SyncUserStatus \/ RemoveFinalizer \/ CallFails \/ Restart PROVE FALSE
    BY <1>1, <1>6 DEF SyncUserStatus, WriteState, RemoveFinalizer, CallFails, Restart, Done, Retry
  <1> QED
    BY <1>2, <1>3, <1>4, <1>5, <1>6, OthersWait DEF Next, NamespaceStep, UserPass

\* A stale pass has its successor after every step.
LEMMA AwaitedStep == ASSUME Inv, Awaited, [Next]_vars PROVE Awaited'
  <1> SUFFICES ASSUME NEW u \in Users, Waiting(u)', user'[u] # NoUser
               PROVE  Current(u, worker.copy)' \/ mgr'[u] # user'[u] \/ u \in userQ'
    BY DEF Awaited
  <1>1. CASE user'[u] # user[u]
    BY <1>1, WriteWakes
  <1>2. CASE mgr'[u] # mgr[u]
    BY <1>2, CacheStep
  <1>3. CASE user'[u] = user[u] /\ mgr'[u] = mgr[u] /\ worker' = worker
    <2>1. Waiting(u) /\ user[u] # NoUser
      BY <1>3 DEF Waiting
    <2>2. ~GetUser(u)
      BY <2>1 DEF GetUser, Waiting
    <2>3. u \in userQ => u \in userQ'
      BY <2>2, QueueStep
    <2>4. Current(u, worker.copy) => Current(u, worker.copy)'
      BY <1>3 DEF Current
    <2>5. Current(u, worker.copy) \/ mgr[u] # user[u] \/ u \in userQ
      BY <2>1 DEF Awaited
    <2> QED
      BY <1>3, <2>3, <2>4, <2>5
  <1>4. CASE user'[u] = user[u] /\ mgr'[u] = mgr[u] /\ worker' # worker
    <2>0. user[u] # NoUser
      BY <1>4
    <2>1. CASE worker'.copy = user'[u]
      BY <2>0, <2>1 DEF Current
    <2>2. CASE worker'.copy = worker.copy /\ Current(u, worker.copy)
      BY <1>4, <2>2 DEF Current
    <2>3. CASE GetUser(u) /\ mgr[u] = user[u]
      <3>1. worker' # Idle
        BY DEF Waiting, Idle
      <3>2. worker'.copy = user'[u]
        BY <1>4, <2>3, <3>1, GetUserCopies
      <3> QED
        BY <2>1, <3>2
    <2>4. CASE mgr[u] # user[u]
      BY <1>4, <2>4
    <2>5. \/ GetUser(u) \/ worker'.copy = user'[u]
          \/ worker'.copy = worker.copy /\ Current(u, worker.copy)
      BY <1>4, WaitStep
    <2> QED
      BY <2>1, <2>2, <2>3, <2>4, <2>5
  <1> QED
    BY <1>1, <1>2, <1>3, <1>4

\* Whatever has woken the controller keeps it awake until it looks at the status.
LEMMA StaysWoken ==
    ASSUME Inv, [Next]_vars, NEW u \in Users, Live(u)', user'[u] = user[u], Woken(u),
           ~(SyncUserStatus /\ worker.user = u)
    PROVE  Woken(u)'
  <1>0. user'[u] # NoUser
    BY DEF Live
  <1>1. CASE mgr'[u] # mgr[u]
    BY <1>0, <1>1, CacheStep DEF Woken
  <1>2. CASE mgr'[u] = mgr[u] /\ mgr[u] # user[u]
    BY <1>2 DEF Woken
  <1>3. CASE mgr[u] = user[u] /\ u \in userQ
    <2>1. Live(u)
      BY DEF Live
    <2> QED
      BY <1>0, <1>3, <2>1, QueueStep, GetUserWaits DEF Woken, Waiting
  <1>4. CASE Waiting(u)
    <2>0. worker.pc \in {"finalize", "encrypt", "sync"} /\ worker.user = u
      BY <1>4 DEF Waiting
    <2>1. CASE AddFinalizer
      BY <2>0, <2>1 DEF AddFinalizer, Doing, AfterFinalizer, Retry, Woken, Waiting
    <2>2. CASE EncryptPassword
      <3>1. worker \in Passes
        BY <2>2, PassType DEF EncryptPassword
      <3>2. CASE worker' = [worker EXCEPT !.pc = "sync"]
        BY <2>0, <3>1, <3>2 DEF Passes, Woken, Waiting
      <3> QED
        BY <2>0, <2>2, <3>2 DEF EncryptPassword, Retry, Woken
    <2>3. CASE CallFails
      BY <2>0, <2>3 DEF CallFails, Retry, Woken
    <2>4. CASE worker' = worker
      BY <2>0, <2>4 DEF Woken, Waiting
    <2>5. CASE Restart
      BY <1>0, <2>5, RestartQueues DEF Woken
    <2>6. ~(\E v \in Users : GetUser(v)) /\ ~RemoveFinalizer /\ ~DeleteLoginRecords
          /\ ~(\E scope \in Scopes : DeleteRoleBindings(scope)) /\ ~ListNamespaces
      BY <2>0 DEF GetUser, RemoveFinalizer, DeleteLoginRecords, DeleteRoleBindings, ListNamespaces
    <2>7. ~SyncUserStatus
      BY <2>0
    <2> QED
      BY <2>1, <2>2, <2>3, <2>4, <2>5, <2>6, <2>7, OthersWait DEF Next, NamespaceStep, UserPass
  <1> QED
    BY <1>1, <1>2, <1>3, <1>4 DEF Woken

\* A pass that looks at the status of an active user with too many failures locks
\* it, or finds its copy stale and is followed by another.
LEMMA LookingLocks ==
    ASSUME Inv, Awaited, SyncUserStatus, NEW u \in Users, worker.user = u,
           Live(u)', user'[u] = user[u], user[u].state = "Active",
           Cardinality(FailedAttempts(u)) >= MaxFail
    PROVE  Woken(u)'
  <1> DEFINE c == worker.copy
  <1>0. worker.pc = "sync" /\ Live(u) /\ UNCHANGED <<now, mgr>>
    BY DEF SyncUserStatus, cacheVars, Live
  <1>1. CASE Current(u, c)
    <2>1. c = user[u] /\ user[u] # NoUser /\ user[u] \in UserObject /\ now \in Nat
      BY <1>0, <1>1, PassCurrent, Stored
    <2> DEFINE o == [user[u] EXCEPT !.state = "AuthLimitExceeded", !.since = now, !.last = 0]
    <2>2. Put(u, o)
      BY <1>1, <2>1 DEF SyncUserStatus, WriteState
    <2>3. o \in UserObject /\ o.since = now /\ o.last = 0 /\ o.state = "AuthLimitExceeded"
      BY <2>1 DEF UserObject, States
    <2>4. now <= now /\ 0 <= now
      BY <2>1
    <2> HIDE DEF o
    <2>5. user'[u].state = "AuthLimitExceeded"
      BY <1>0, <2>2, <2>3, <2>4, PutStores DEF Inv
    <2> QED
      BY <2>5
  <1>2. CASE ~Current(u, c)
    <2>1. mgr[u] # user[u] \/ u \in userQ
      BY <1>0, <1>2 DEF Awaited, Waiting, Live
    <2>2. userQ \subseteq userQ'
      BY <1>2 DEF SyncUserStatus, WriteState, Done, Retry
    <2> QED
      BY <1>0, <2>1, <2>2 DEF Woken
  <1> QED
    BY <1>1, <1>2

\* When the cache of records catches up, the attempts it learns of are queued, and
\* one of any that lock the account is newer than the last login time.
LEMMA NewsHeeded ==
    ASSUME Inv, Order, MaxFail > 1, SyncRecords, NEW u \in Users, user[u] # NoUser,
           NEW C \in SUBSET {r \in records : r.label = u /\ r.at + Window > now},
           Cardinality(C) >= MaxFail, \A r \in C : Alone(r), ~(C \subseteq seen)
    PROVE  \E r \in C : r.id \in recQ' /\ user[u].last < r.at
  <1>0. /\ now \in Nat /\ Window \in Nat /\ MaxFail \in Nat
        /\ (\A r \in records \cup seen : r.id \in Nat /\ r.at \in Nat)
        /\ user[u].last \in Nat
    BY RecordTypes, BoundsAssumption
  <1>1. \A r \in records \ seen : r.id \in recQ'
    BY DEF SyncRecords, Ids
  <1>2. PICK x \in C : x \notin seen
    OBVIOUS
  <1>3. user[u].last <= x.at /\ x \in records /\ x.label = u /\ x.at + Window > now
    BY <1>2 DEF Order, Unseen
  <1>4. CASE user[u].last # x.at
    <2>1. user[u].last < x.at
      BY <1>0, <1>3, <1>4
    <2> QED
      BY <1>1, <1>2, <1>3, <2>1
  <1>5. CASE user[u].last = x.at
    <2>1. PICK y \in C : y # x
      <3>1. ASSUME C = {x} PROVE FALSE
        <4>1. Cardinality(C) = 1
          BY <3>1, FS_Singleton
        <4> QED
          BY <4>1, <1>0
      <3> QED
        BY <1>2, <3>1
    <2>2. x.at # 0
      BY <1>3 DEF Order, Numbered
    <2>3. \/ \E s \in records \cap seen : s.label = u /\ s.at = x.at
          \/ \A r \in records : r.label = u => r.at >= x.at
      BY <1>3, <1>5, <2>2 DEF Order, Told
    <2>4. ~\E s \in records \cap seen : s.label = u /\ s.at = x.at
      BY <1>2, <1>3 DEF Alone
    <2>5. y \in records /\ y.label = u
      OBVIOUS
    <2>6. y.at >= x.at /\ y.at # x.at
      BY <1>3, <2>1, <2>3, <2>4, <2>5 DEF Alone
    <2>7. user[u].last < y.at
      BY <1>0, <1>3, <1>5, <2>5, <2>6
    <2>8. y \notin seen
      <3>1. ASSUME y \in seen PROVE FALSE
        <4>1. y.at <= x.at
          BY <1>2, <1>3, <3>1, UnseenLater DEF Order
        <4> QED
          BY <1>0, <1>3, <2>5, <2>6, <4>1
      <3> QED
        BY <3>1
    <2> QED
      BY <1>1, <2>5, <2>7, <2>8
  <1> QED
    BY <1>4, <1>5

\* What counts after a step that does not catch up with the records counted
\* before, and stood as alone.
LEMMA StillCounted ==
    ASSUME Inv, Order, Grows \/ Shrinks, seen' = seen, Window <= Retention,
           NEW u \in Users, NEW C \in SUBSET Counted(u)', \A r \in C : Alone(r)',
           C # {}
    PROVE  C \subseteq Counted(u) /\ \A r \in C : Alone(r)
  <1>0. /\ now \in Nat /\ Window \in Nat /\ Retention \in Nat /\ spent["login"] \in Nat
        /\ \A r \in records \cup seen : r.id \in Nat /\ r.at \in Nat
    BY RecordTypes, BoundsAssumption
  <1>1. \A r \in C : r \in seen /\ r \in records' /\ r.label = u /\ ~r.ok /\ r.at + Window > now'
    BY DEF Counted
  <1>2. CASE Grows
    <2>1. PICK n \in LoginRecords : n.id = spent["login"] + 1 /\ records' = records \cup {n}
      BY <1>2 DEF Grows
    <2>2. n \notin seen
      BY <1>0, <2>1 DEF Order, Numbered
    <2>3. now' = now
      BY <1>2 DEF Grows
    <2> QED
      BY <1>1, <2>1, <2>2, <2>3 DEF Counted, Alone
  <1>3. CASE Shrinks
    <2>1. records' \subseteq records /\ (now' = now \/ now' = now + 1)
      BY <1>3 DEF Shrinks
    <2>2. \A r \in C : r.at + Window > now /\ r.at \in Nat
      BY <1>0, <1>1, <2>1
    <2>3. C \subseteq Counted(u)
      BY <1>1, <2>1, <2>2 DEF Counted
    <2>4. ASSUME NEW r \in C, NEW s \in records, s.label = r.label, s.at = r.at
          PROVE  s = r
      <3>1. s \in records'
        <4>1. ASSUME s \notin records' PROVE FALSE
          <5>1. s.at + Retention <= now
            BY <1>1, <1>3, <2>4, <4>1 DEF Shrinks
          <5> QED
            BY <1>0, <2>2, <2>4, <5>1
        <4> QED
          BY <4>1
      <3> QED
        BY <2>4, <3>1 DEF Alone
    <2> QED
      BY <2>3, <2>4 DEF Alone
  <1> QED
    BY <1>2, <1>3

\* A record leaves the queue with a write of the last login time, if it is newer.
LEMMA QueuedStep ==
    ASSUME Inv, Numbered, [Next]_vars, NEW u \in Users, Live(u), mgr[u] = user[u],
           user'[u] = user[u], ~Restart,
           NEW r \in seen, r.label = u, r.id \in recQ, user[u].last < r.at
    PROVE  r.id \in recQ'
  <1>1. ASSUME NEW s \in seen, UpdateUserLastLoginTime(s), s.id = r.id PROVE FALSE
    <2> DEFINE o == [user[u] EXCEPT !.last = r.at]
    <2>1. s = r
      BY <1>1 DEF Numbered
    <2>2. NewerLogin(r)
      BY DEF NewerLogin, Live
    <2>3. Put(u, o) /\ now' = now
      BY <1>1, <2>1, <2>2 DEF UpdateUserLastLoginTime, WriteLastLogin
    <2>4. user[u] \in UserObject /\ user[u].since <= now /\ r.at \in Nat /\ r.at <= now
      BY Stored, RecordTypes DEF Live
    <2>5. o \in UserObject /\ o.last = r.at /\ o.since = user[u].since
      BY <2>4 DEF UserObject
    <2> HIDE DEF o
    <2>6. user'[u].last = r.at
      BY <2>3, <2>4, <2>5, PutStores DEF Inv
    <2>7. user[u].last \in Nat /\ user[u].last # r.at
      BY <2>4, Stored DEF Live
    <2> QED
      BY <2>6, <2>7
  <1>2. ASSUME NEW s \in seen, RecordPass(s) PROVE r.id \in recQ'
    BY <1>1, <1>2 DEF RecordPass, UpdateUserLastLoginTime
  <1>3. ASSUME NEW id \in recQ, DropRecord(id) PROVE r.id \in recQ'
    BY <1>3 DEF DropRecord, Ids
  <1>4. CASE SyncRecords \/ NamespaceStep \/ Resync \/ ExpireFails
    BY <1>4 DEF SyncRecords, NamespaceStep, CreateNamespace, SyncNamespaces, Resync,
       ExpireFails, queueVars
  <1>5. CASE \/ Tick \/ UNCHANGED vars \/ ExpireRecord \/ UserPass \/ CallFails
             \/ \E v \in Users : UserHandlers(v) \/ SyncManagerUser(v) \/ SyncServerUser(v)
                                 \/ GetUser(v)
             \/ \E n \in Users : Logins(n)
    <2>1. UNCHANGED recQ
      BY <1>5 DEF Tick, vars, queueVars, ExpireRecord, UserPass, AddFinalizer, EncryptPassword,
         SyncUserStatus, DeleteRoleBindings, ListNamespaces, DeleteLoginRecords,
         RemoveFinalizer, CallFails,
         UserHandlers, CreateUser, ModifyPassword, GrantGlobalRole, AddMember, DeleteUser,
         SetState, SyncManagerUser, SyncServerUser, GetUser, Logins, PasswordGrant
    <2> QED
      BY <2>1
  <1> QED
    BY <1>2, <1>3, <1>4, <1>5 DEF Next, NamespaceStep

\* What is noticed stays noticed until the account is locked.
LEMMA NoticedStep ==
    ASSUME Inv, Order, Awaited, NEW u \in Users, Noticed(u), [Next]_vars,
           MaxFail > 1, Window <= Retention
    PROVE  Noticed(u)'
  <1> SUFFICES ASSUME Live(u)', user'[u].state = "Active",
                      NEW C \in SUBSET Counted(u)', Cardinality(C) >= MaxFail,
                      \A r \in C : Alone(r)'
               PROVE  Woken(u)' \/ \E r \in C : r.id \in recQ' /\ user'[u].last < r.at
    BY DEF Noticed, Heeds
  <1>0. MaxFail \in Nat /\ IsFiniteSet(seen)
    BY BoundsAssumption DEF Order, Numbered
  <1>1. C # {}
    <2>1. ASSUME C = {} PROVE FALSE
      <3>1. Cardinality(C) = 0
        BY <2>1, FS_EmptySet
      <3> QED
        BY <1>0, <3>1
    <2> QED
      BY <2>1
  <1>2. CASE user'[u] # user[u]
    BY <1>2, WriteWakes DEF Woken, Live
  <1>3. CASE user'[u] = user[u] /\ Woken(u) /\ ~(SyncUserStatus /\ worker.user = u)
    BY <1>3, StaysWoken
  <1>4. CASE user'[u] = user[u] /\ Restart
    BY <1>4, RestartQueues DEF Woken, Live
  <1>5. CASE user'[u] = user[u] /\ SyncUserStatus /\ worker.user = u
    <2>1. UNCHANGED <<now, seen, records>>
      BY <1>5 DEF SyncUserStatus, cacheVars
    <2>2. C \subseteq FailedAttempts(u) /\ FailedAttempts(u) \subseteq seen
      BY <2>1 DEF Counted, FailedAttempts
    <2>3. IsFiniteSet(FailedAttempts(u))
      BY <1>0, <2>2, FS_Subset
    <2>4. Cardinality(C) <= Cardinality(FailedAttempts(u))
      BY <2>2, <2>3, FS_Subset
    <2>5. Cardinality(C) \in Nat /\ Cardinality(FailedAttempts(u)) \in Nat
      <3>1. IsFiniteSet(C)
        BY <2>2, <2>3, FS_Subset
      <3> QED
        BY <2>3, <3>1, FS_CardinalityType
    <2>6. Cardinality(FailedAttempts(u)) >= MaxFail
      BY <1>0, <2>4, <2>5
    <2> QED
      BY <1>5, <2>6, LookingLocks
  <1>6. CASE user'[u] = user[u] /\ ~Woken(u) /\ ~Restart
    <2>1. Live(u) /\ user[u].state = "Active" /\ user[u] # NoUser /\ mgr[u] = user[u]
      BY <1>6 DEF Live, Woken
    <2>2. CASE C \subseteq Counted(u) /\ \A r \in C : Alone(r)
      <3>1. PICK r \in C : r.id \in recQ /\ user[u].last < r.at
        BY <1>6, <2>1, <2>2 DEF Noticed, Heeds
      <3>2. r \in seen /\ r.label = u
        BY <2>2 DEF Counted
      <3>3. r.id \in recQ'
        BY <1>6, <2>1, <3>1, <3>2, QueuedStep DEF Order
      <3> QED
        BY <1>6, <3>1, <3>3
    <2>3. CASE seen' = seen
      BY <1>1, <2>2, <2>3, NextOrders, StillCounted
    <2>4. CASE SyncRecords
      <3>1. UNCHANGED <<now, records, user>>
        BY <2>4 DEF SyncRecords, apiVars
      <3>2. C \in SUBSET {r \in records : r.label = u /\ r.at + Window > now}
        BY <3>1 DEF Counted
      <3>3. \A r \in C : Alone(r)
        BY <3>1 DEF Alone
      <3>4. CASE C \subseteq seen
        <4>1. C \subseteq Counted(u)
          BY <3>1, <3>4 DEF Counted
        <4> QED
          BY <2>2, <3>3, <4>1
      <3>5. CASE ~(C \subseteq seen)
        BY <1>6, <2>1, <2>4, <3>2, <3>3, <3>5, NewsHeeded
      <3> QED
        BY <3>4, <3>5
    <2>5. CASE ~SyncRecords
      <3>1. seen' = seen
        BY <1>6, <2>5 DEF Next, CreateNamespace, SyncNamespaces, Tick, vars, cacheVars, Resync,
           ExpireRecord, ExpireFails, UserPass, AddFinalizer, EncryptPassword, SyncUserStatus,
           DeleteRoleBindings, ListNamespaces, DeleteLoginRecords,
           RemoveFinalizer, CallFails, UserHandlers, CreateUser, ModifyPassword, GrantGlobalRole,
           AddMember, DeleteUser, SetState, SyncManagerUser, SyncServerUser, GetUser, Logins,
           PasswordGrant, DropRecord, RecordPass, UpdateUserLastLoginTime
      <3> QED
        BY <2>3, <3>1
    <2> QED
      BY <2>4, <2>5
  <1> QED
    BY <1>2, <1>3, <1>4, <1>5, <1>6

\* All that the argument needs.
Attentive == Order /\ Awaited /\ \A u \in Users : Noticed(u)

LEMMA InitAttentive == Init => Attentive
  <1> SUFFICES ASSUME Init PROVE Attentive
    OBVIOUS
  <1>1. records = {} /\ seen = {} /\ now = 1 /\ worker = Idle
        /\ \A u \in Users : user[u] = NoUser
    BY DEF Init
  <1>2. Order
    BY <1>1, FS_EmptySet DEF Order, Numbered, Unseen, SweptAway, Told
  <1>3. Awaited /\ \A u \in Users : Noticed(u)
    BY <1>1 DEF Awaited, Noticed, Live
  <1> QED
    BY <1>2, <1>3 DEF Attentive

LEMMA NextAttentive ==
    ASSUME MaxFail > 1, Window <= Retention
    PROVE  Inv /\ Attentive /\ [Next]_vars => Attentive'
  <1> SUFFICES ASSUME Inv, Attentive, [Next]_vars PROVE Attentive'
    OBVIOUS
  <1>1. Order'
    BY NextOrder DEF Attentive
  <1>2. Awaited'
    BY AwaitedStep DEF Attentive
  <1>3. ASSUME NEW u \in Users PROVE Noticed(u)'
    BY NoticedStep DEF Attentive
  <1> QED
    BY <1>1, <1>2, <1>3 DEF Attentive

\* When all is quiet, what would lock an active account is neither awaited nor
\* queued: there is not so much of it.
LEMMA AttentiveCounts ==
    ASSUME Inv, Attentive
    PROVE  FailuresCounted
  <1> SUFFICES ASSUME NEW u \in Users, Quiet, Spaced, Live(u), user[u].state = "Active",
                      ~(Cardinality(FailedAttempts(u)) < MaxFail)
               PROVE  FALSE
    BY DEF FailuresCounted
  <1> DEFINE C == FailedAttempts(u)
  <1>1. C \subseteq seen /\ seen = records /\ C = Counted(u)
    BY DEF Quiet, Counted, FailedAttempts
  <1>2. IsFiniteSet(C)
    BY <1>1, FS_Subset DEF Attentive, Order, Numbered
  <1>3. Cardinality(C) >= MaxFail
    BY <1>2, FS_CardinalityType, BoundsAssumption
  <1>4. \A r \in C : Alone(r)
    BY <1>1 DEF Alone, Spaced
  <1>5. ~Woken(u)
    BY DEF Woken, Waiting, Quiet
  <1>6. PICK r \in C : r.id \in recQ
    BY <1>1, <1>3, <1>4, <1>5 DEF Attentive, Noticed, Heeds
  <1>7. r \in seen /\ r.label = u
    BY DEF FailedAttempts
  <1> QED
    BY <1>6, <1>7 DEF Quiet, Stuck, Live

\* Whatever the interleaving of logins, deletions, restarts and the two
\* controllers, no active account has as many recent failures as lock it once all
\* is quiet, as long as the attempts fall into different seconds: given that more
\* than one attempt locks an account (there: ten) and that a record is kept at
\* least as long as it counts (a week, ten minutes). Without the first, an
\* attempt in the second of one on a deleted user of the same name is taken for
\* seen; without the second, the record that tells two attempts of one second
\* apart may be gone while they count (user_controller.go syncUserStatus,
\* loginrecord_controller.go updateUserLastLoginTime).
THEOREM AlwaysFailuresCounted ==
    ASSUME MaxFail > 1, Window <= Retention
    PROVE  Spec => []FailuresCounted
  <1>1. Init => Attentive
    BY InitAttentive
  <1>2. Inv /\ Attentive /\ [Next]_vars => Attentive'
    BY NextAttentive
  <1>3. Inv /\ Attentive => FailuresCounted
    BY AttentiveCounts
  <1> QED
    BY <1>1, <1>2, <1>3, Invariance, PTL DEF Spec

-----------------------------------------------------------------------------
\* What a user is when there is nothing left to do for it, and why it never comes
\* to a rest before. This is what liveness rests on: while something is left to
\* do, a queue, a cache or a running pass still holds it.

\* Not on its way out, with its finalizer, its password hashed if it has one, and
\* with a state once it is.
Settled(o) ==
    /\ ~o.deleting /\ o.finalizer
    /\ o.hashed \/ o.secret = NoSecret
    /\ o.hashed => o.state # "none"

\* Something will still happen to u.
Pending(u) == mgr[u] # user[u] \/ u \in userQ \/ (worker.pc # "idle" /\ worker.user = u)

\* Whoever is not settled is not forgotten.
NoneForgotten == \A u \in Users : user[u] # NoUser /\ ~Pending(u) => Settled(user[u])

\* An object that is marked as deleted has a finalizer.
Marked == \A u \in Users : user[u] # NoUser /\ user[u].deleting => user[u].finalizer

\* What a pass has found or done by the time it is where it is.
Working ==
    LET c == worker.copy IN
    /\ worker.pc = "finalize" => ~c.deleting
    /\ worker.pc = "encrypt"  => ~c.deleting /\ c.finalizer /\ ~c.hashed
    /\ worker.pc = "sync" /\ Current(worker.user, c) =>
          ~c.deleting /\ c.finalizer /\ (c.hashed \/ c.secret = NoSecret)

\* Marks come and stay with finalizers.
LEMMA MarkedStep == ASSUME Inv, Marked, [Next]_vars PROVE Marked'
  BY NextLast DEF Marked, MarkStep

\* A copy that is not current does not become so.
LEMMA StaleStays ==
    ASSUME Inv, [Next]_vars, worker.pc # "idle", worker' = worker,
           Current(worker.user, worker.copy)'
    PROVE  Current(worker.user, worker.copy)
  <1> DEFINE u == worker.user
             c == worker.copy
  <1>1. u \in Users /\ c.rv \in Nat /\ c.rv <= rev /\ rev \in Nat
    <2>1. u \in Users /\ c \in UserObject /\ c # NoUser /\ Past(c)
      BY PassType DEF Inv, TypeOK
    <2> QED
      BY <2>1 DEF Past, UserObject, Inv, TypeOK
  <1>2. user'[u] # NoUser /\ user'[u].rv = c.rv
    BY DEF Current
  <1>3. user'[u] = user[u]
    <2>1. CASE RemoveFinalizer
      BY <2>1 DEF RemoveFinalizer, Done, Retry, Idle
    <2>2. CASE Follows(u)
      BY <1>1, <1>2, <2>2 DEF Follows
    <2> QED
      BY <1>1, <2>1, <2>2, NextFollows
  <1> QED
    BY <1>2, <1>3 DEF Current

\* A pass does its steps in order.
LEMMA WorkingStep == ASSUME Inv, Working, [Next]_vars PROVE Working'
  <1> DEFINE u == worker.user
             c == worker.copy
  <1>1. CASE worker' = worker
    <2>1. worker.pc = "sync" /\ Current(u, c)' => Current(u, c)
      BY <1>1, StaleStays
    <2>2. Current(worker.user, worker.copy)' <=> Current(u, c)'
      OBVIOUS
    <2> QED
      BY <1>1, <2>1, <2>2 DEF Working
  <1>2. CASE worker'.pc \in {"idle", "bindings", "namespaces", "records", "release"}
    BY <1>2 DEF Working
  <1>3. ASSUME NEW v \in Users, GetUser(v) PROVE Working'
    <2> DEFINE k == mgr[v]
    <2>1. CASE ~k.deleting /\ ~k.finalizer /\ worker' = Doing("finalize", v, k, {})
      BY <2>1 DEF Doing, Working
    <2>2. CASE ~k.deleting /\ k.finalizer /\ worker' = Doing(AfterFinalizer(k), v, k, {})
      <3>1. worker'.pc = AfterFinalizer(k) /\ worker'.copy = k
        BY <2>2 DEF Doing
      <3> QED
        BY <2>2, <3>1 DEF AfterFinalizer, Working
    <2>3. CASE worker' = Idle
      BY <1>2, <2>3 DEF Idle
    <2>4. CASE worker' = Doing("bindings", v, k, {Global})
      BY <1>2, <2>4 DEF Doing
    <2> QED
      BY <1>3, <2>1, <2>2, <2>3, <2>4 DEF GetUser
  <1>4. CASE AddFinalizer
    <2> DEFINE k == [c EXCEPT !.finalizer = TRUE, !.rv = rev + 1]
    <2>1. CASE worker' = Doing(AfterFinalizer(k), u, k, {})
      <3>1. c \in UserObject /\ ~c.deleting
        BY <1>4, PassType DEF AddFinalizer, Working
      <3>2. k.finalizer /\ ~k.deleting /\ k.secret = c.secret /\ k.hashed = c.hashed
            /\ c.hashed \in BOOLEAN
        BY <3>1 DEF UserObject
      <3> HIDE DEF k
      <3>3. worker'.pc = AfterFinalizer(k) /\ worker'.copy = k
        BY <2>1 DEF Doing
      <3> QED
        BY <3>2, <3>3 DEF AfterFinalizer, Working
    <2>2. CASE worker' = Idle
      BY <1>2, <2>2 DEF Idle
    <2> QED
      BY <1>4, <2>1, <2>2 DEF AddFinalizer, Retry
  <1>5. CASE EncryptPassword
    <2> DEFINE o == [c EXCEPT !.hashed = TRUE]
    <2>1. CASE worker' = Idle
      BY <1>2, <2>1 DEF Idle
    <2>2. CASE Current(u, c) /\ Put(u, o) /\ worker' = [worker EXCEPT !.pc = "sync"]
      <3>1. worker \in Passes /\ c \in UserObject /\ worker.pc = "encrypt" /\ u \in Users
        BY <1>5, PassType DEF EncryptPassword
      <3>2. worker'.pc = "sync" /\ worker'.user = u /\ worker'.copy = c
        BY <2>2, <3>1 DEF Passes
      <3>3. c = user[u] /\ user[u] # NoUser /\ ~c.hashed /\ rev \in Nat
        BY <2>2, <3>1, PassCurrent DEF Working, Inv, TypeOK
      <3>4. c.rv \in Nat /\ c.rv <= rev
        BY <3>1, <3>3 DEF Inv, TypeOK, Past, UserObject
      <3>5. o # user[u] /\ o \in UserObject
        BY <3>1, <3>3 DEF UserObject
      <3> HIDE DEF o
      <3>6. user'[u].rv = rev + 1
        <4> DEFINE p == [o EXCEPT !.rv = rev + 1]
        <4>1. user' = [user EXCEPT ![u] = p]
          BY <2>2, <3>5 DEF Put
        <4>2. p.rv = rev + 1
          BY <3>5 DEF UserObject
        <4> HIDE DEF p
        <4> QED
          BY <3>1, <4>1, <4>2 DEF Inv, TypeOK, UserMap
      <3>7. user'[u].rv # c.rv
        BY <3>3, <3>4, <3>6
      <3>8. ~Current(worker.user, worker.copy)'
        BY <3>2, <3>7 DEF Current
      <3> QED
        BY <3>2, <3>8 DEF Working
    <2> QED
      BY <1>5, <2>1, <2>2 DEF EncryptPassword, Retry
  <1>6. CASE \/ SyncUserStatus \/ RemoveFinalizer \/ CallFails \/ Restart
    <2>1. worker' = Idle
      BY <1>6 DEF SyncUserStatus, WriteState, RemoveFinalizer, CallFails, Restart, Done, Retry
    <2> QED
      BY <1>2, <2>1 DEF Idle
  <1>7. ASSUME NEW scope \in Scopes, DeleteRoleBindings(scope) PROVE Working'
    <2>1. worker'.pc \in {"bindings", "namespaces", "records"}
      BY <1>7 DEF DeleteRoleBindings, Doing, AfterBindings
    <2> QED
      BY <1>2, <2>1
  <1>9. CASE ListNamespaces
    <2>1. worker'.pc \in {"bindings", "records"}
      BY <1>9 DEF ListNamespaces, Doing, AfterBindings
    <2> QED
      BY <1>2, <2>1
  <1>8. CASE DeleteLoginRecords
    <2>1. worker \in Passes
      BY <1>8, PassType DEF DeleteLoginRecords
    <2>2. worker'.pc = "release"
      BY <1>8, <2>1 DEF DeleteLoginRecords, Passes
    <2> QED
      BY <1>2, <2>2
  <1> QED
    BY <1>1, <1>3, <1>4, <1>5, <1>6, <1>7, <1>8, <1>9, OthersWait DEF Next, NamespaceStep,
       UserPass

\* A pass that ends without a retry leaves its user settled, gone, or to another
\* pass.
LEMMA PassSettles ==
    ASSUME Inv, Awaited, Working, [Next]_vars, NEW u \in Users, worker.user = u,
           worker.pc # "idle", worker'.pc = "idle",
           user'[u] = user[u], user[u] # NoUser, ~Settled(user[u])
    PROVE  Pending(u)'
  <1> DEFINE c == worker.copy
  <1>0. u \in Users /\ user \in UserMap
    BY DEF Inv, TypeOK
  <1>1. CASE u \in userQ'
    BY <1>1 DEF Pending
  <1>2. CASE SyncUserStatus /\ Current(u, c)
    <2>1. worker.pc = "sync" /\ c = user[u] /\ c \in UserObject
      BY <1>2, PassCurrent, PassType DEF SyncUserStatus
    <2>2. c.hashed /\ c.state = "none"
      BY <1>2, <2>1 DEF Working, Settled
    <2>3. WriteState("Active")
      BY <1>2, <2>2 DEF SyncUserStatus
    <2> DEFINE o == [user[u] EXCEPT !.state = "Active", !.since = now, !.last = 0]
    <2>4. Put(u, o) /\ now' = now
      BY <1>2, <2>3 DEF WriteState, SyncUserStatus
    <2>5. now \in Nat /\ now <= now /\ 0 <= now
      BY DEF Inv, TypeOK
    <2>6. o \in UserObject /\ o.since = now /\ o.last = 0 /\ o.state = "Active"
      BY <2>1, <2>5 DEF UserObject, States
    <2> HIDE DEF o
    <2>7. user'[u].state = "Active"
      BY <1>0, <2>4, <2>5, <2>6, PutStores DEF Inv
    <2> QED
      BY <2>1, <2>2, <2>7
  <1>3. CASE SyncUserStatus /\ ~Current(u, c)
    <2>1. mgr[u] # user[u] \/ u \in userQ
      BY <1>0, <1>3 DEF SyncUserStatus, Awaited, Waiting
    <2>2. userQ \subseteq userQ' /\ mgr' = mgr
      BY <1>3 DEF SyncUserStatus, WriteState, Done, Retry, cacheVars
    <2> QED
      BY <2>1, <2>2 DEF Pending
  <1>4. CASE RemoveFinalizer
    <2>1. ~Current(u, c)
      BY <1>0, <1>4 DEF RemoveFinalizer, UserMap
    <2> QED
      BY <1>1, <1>4, <2>1 DEF RemoveFinalizer, Retry
  <1>5. CASE CallFails
    BY <1>1, <1>5 DEF CallFails, Retry
  <1>6. CASE Restart
    BY <1>0, <1>1, <1>6, RestartQueues
  <1>7. CASE AddFinalizer
    <2>1. ASSUME NEW v, NEW k PROVE Doing(AfterFinalizer(k), v, k, {}).pc # "idle"
      BY DEF Doing, AfterFinalizer
    <2> QED
      BY <1>1, <1>7, <2>1 DEF AddFinalizer, Retry
  <1>8. CASE EncryptPassword
    <2>1. worker \in Passes
      BY PassType
    <2>2. worker' # [worker EXCEPT !.pc = "sync"]
      BY <2>1 DEF Passes
    <2> QED
      BY <1>1, <1>8, <2>2 DEF EncryptPassword, Retry
  <1>9. ASSUME (\E scope \in Scopes : DeleteRoleBindings(scope)) \/ ListNamespaces \/ DeleteLoginRecords
        PROVE  FALSE
    <2>1. CASE \E scope \in Scopes : DeleteRoleBindings(scope)
      BY <2>1 DEF DeleteRoleBindings, Doing, AfterBindings
    <2>2. CASE DeleteLoginRecords
      <3>1. worker \in Passes
        BY PassType
      <3> QED
        BY <2>2, <3>1 DEF DeleteLoginRecords, Passes
    <2>3. CASE ListNamespaces
      BY <2>3 DEF ListNamespaces, Doing, AfterBindings
    <2> QED
      BY <1>9, <2>1, <2>2, <2>3
  <1>10. ~\E v \in Users : GetUser(v)
    BY DEF GetUser
  <1> QED
    BY <1>2, <1>3, <1>4, <1>5, <1>6, <1>7, <1>8, <1>9, <1>10, OthersWait DEF Next,
       NamespaceStep, UserPass

\* Until then its user stays that of the pass.
LEMMA PassGoesOn ==
    ASSUME Inv, [Next]_vars, worker.pc # "idle", worker'.pc # "idle"
    PROVE  worker'.user = worker.user
  <1>1. worker \in Passes
    BY PassType
  <1>2. CASE AddFinalizer \/ EncryptPassword
    BY <1>1, <1>2 DEF AddFinalizer, EncryptPassword, Retry, Idle, Doing, Passes
  <1>3. CASE (\E scope \in Scopes : DeleteRoleBindings(scope)) \/ ListNamespaces \/ DeleteLoginRecords
    <2>1. CASE \E scope \in Scopes : DeleteRoleBindings(scope)
      BY <2>1 DEF DeleteRoleBindings, Doing
    <2>2. CASE DeleteLoginRecords
      BY <1>1, <2>2 DEF DeleteLoginRecords, Passes
    <2>3. CASE ListNamespaces
      BY <2>3 DEF ListNamespaces, Doing
    <2> QED
      BY <1>3, <2>1, <2>2, <2>3
  <1>4. ASSUME SyncUserStatus \/ RemoveFinalizer \/ CallFails \/ Restart PROVE FALSE
    <2>1. worker' = Idle
      BY <1>4 DEF SyncUserStatus, WriteState, RemoveFinalizer, CallFails, Restart, Done, Retry
    <2> QED
      BY <2>1 DEF Idle
  <1>5. ~\E v \in Users : GetUser(v)
    BY DEF GetUser
  <1> QED
    BY <1>2, <1>3, <1>4, <1>5, OthersWait DEF Next, NamespaceStep, UserPass

\* No step forgets a user who is not settled.
LEMMA ForgottenStep ==
    ASSUME Inv, Awaited, Marked, Working, NoneForgotten, [Next]_vars
    PROVE  NoneForgotten'
  <1> SUFFICES ASSUME NEW u \in Users, user'[u] # NoUser, ~Settled(user'[u])
               PROVE  Pending(u)'
    BY DEF NoneForgotten
  <1>1. CASE user'[u] # user[u]
    BY <1>1, WriteWakes DEF Pending
  <1>2. CASE mgr'[u] # mgr[u]
    BY <1>2, CacheStep DEF Pending
  <1>3. CASE user'[u] = user[u] /\ mgr'[u] = mgr[u] /\ mgr[u] # user[u]
    BY <1>3 DEF Pending
  <1>4. CASE user'[u] = user[u] /\ mgr[u] = user[u] /\ u \in userQ
    <2>1. CASE GetUser(u)
      <3>1. mgr[u] # NoUser /\ (mgr[u].deleting => mgr[u].finalizer)
        BY <1>4 DEF Marked
      <3>2. \A k : AfterFinalizer(k) # "idle"
        BY DEF AfterFinalizer
      <3>3. worker'.pc # "idle" /\ worker'.user = u
        BY <2>1, <3>1, <3>2 DEF GetUser, Doing
      <3> QED
        BY <3>3 DEF Pending
    <2>2. CASE u \in userQ'
      BY <2>2 DEF Pending
    <2> QED
      BY <1>4, <2>1, <2>2, QueueStep
  <1>5. CASE user'[u] = user[u] /\ worker.pc # "idle" /\ worker.user = u
    <2>1. CASE worker'.pc = "idle"
      BY <1>5, <2>1, PassSettles
    <2>2. CASE worker'.pc # "idle"
      BY <1>5, <2>2, PassGoesOn DEF Pending
    <2> QED
      BY <2>1, <2>2
  <1>6. user'[u] = user[u] => Pending(u)
    BY DEF NoneForgotten
  <1> QED
    BY <1>1, <1>2, <1>3, <1>4, <1>5, <1>6 DEF Pending

\* A pass on an outdated copy of a user never is the last one: the cache has yet
\* to catch up, or the user is queued (user_controller.go Reconcile).
THEOREM StalePassFollowed == Spec => []Awaited
  <1>1. Init => Awaited
    BY DEF Init, Awaited
  <1> QED
    BY <1>1, AwaitedStep, Invariance, PTL DEF Spec

\* Whatever fails and whatever conflicts: a user who is being deleted, has no
\* finalizer, a plain password or no state although the password is hashed is in
\* the hands of a pass, in the queue, or newer than the cache. No wake-up is lost,
\* which is what EventuallyActive, EventuallyHashed and EventuallyReleased need
\* besides fairness (user_controller.go Reconcile).
THEOREM NeverForgotten == Spec => []NoneForgotten
  <1>1. Init => Awaited /\ Marked /\ Working /\ NoneForgotten
    BY DEF Init, Idle, Awaited, Marked, Working, NoneForgotten
  <1>2. Inv /\ Awaited /\ Marked /\ Working /\ NoneForgotten /\ [Next]_vars
            => (Awaited /\ Marked /\ Working /\ NoneForgotten)'
    BY AwaitedStep, MarkedStep, WorkingStep, ForgottenStep
  <1> QED
    BY <1>1, <1>2, Invariance, PTL DEF Spec

=============================================================================
