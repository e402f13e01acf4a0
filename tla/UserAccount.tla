----------------------------- MODULE UserAccount -----------------------------
(***************************************************************************)
(* The life of a user account: the User objects and LoginRecord objects of *)
(* the API server, the two controllers of ai-controller-manager that       *)
(* reconcile them (pkg/controllers/user, pkg/controllers/loginrecord), and *)
(* the handlers of ai-server that create, change, delete and authenticate  *)
(* users (pkg/middles/iam/im, pkg/middles/auth, pkg/aiapis).               *)
(*                                                                         *)
(* Both processes read through informer caches, which lag behind the API   *)
(* server, and write with optimistic concurrency: an update names the      *)
(* resourceVersion it was computed from and is refused if the object has   *)
(* changed since.                                                          *)
(***************************************************************************)
EXTENDS Integers, FiniteSets

CONSTANTS
    Users,        \* names of User objects
    Secrets,      \* passwords
    LongSecrets,  \* passwords longer than the 72 bytes bcrypt accepts
    Namespaces,   \* names of namespaces, which hold role bindings
    Global,       \* the scope of a global role binding
    NoUser,       \* no object of that name
    NoSecret,     \* the empty password
    MaxFail,      \* failed attempts that lock an account (10 in the code)
    Window,       \* how long they count, and a lock lasts (10 minutes)
    Retention,    \* age at which a login record is deleted (168 hours)
    MaxTime,      \* bound: the last tick of the clock
    Limit,        \* bound: how often each operation of Ops may happen
    ResyncPeriod  \* time between two resyncs of the manager's informers (10 h)

Ops == {"create", "modify", "delete", "status", "login", "bind", "fault",
        "restart", "resync", "namespace"}

Scopes == Namespaces \cup {Global}

States == {"none", "Active", "Disabled", "AuthLimitExceeded"}

\* A User object. Time 0 stands for a nil timestamp; the clock starts at 1.
UserObject == [ rv: Nat, finalizer: BOOLEAN, deleting: BOOLEAN,
                secret: Secrets \cup {NoSecret}, hashed: BOOLEAN,
                state: States, since: Nat, last: Nat ]

ASSUME ValuesAssumption ==
    /\ LongSecrets \subseteq Secrets
    /\ NoSecret \notin Secrets
    /\ Global \notin Namespaces
    /\ NoUser \notin UserObject

ASSUME BoundsAssumption ==
    /\ MaxFail \in Nat \ {0} /\ Window \in Nat /\ Retention \in Nat
    /\ ResyncPeriod \in Nat \ {0}
    /\ MaxTime \in Nat /\ Limit \in [Ops -> Nat]

VARIABLES
    now,       \* the clock, at the one-second grain of metav1.Time
    user,      \* [Users -> UserObject \cup {NoUser}], the API server's objects
    rev,       \* the API server's last resourceVersion
    records,   \* LoginRecord objects
    bindings,  \* role bindings labelled with a user
    mgr,       \* the manager's informer cache of users
    srv,       \* ai-server's informer cache of users
    seen,      \* the manager's informer cache of login records
    namespace, \* [Namespaces -> NamespaceStates]
    userQ,     \* the user controller's work queue
    recQ,      \* the login record controller's work queue: record ids
    worker,    \* the user controller's one worker: pc, user, local copy, todo
    expiring,  \* record the login record worker has yet to expire, 0 if idle
    granting,  \* users whose CreateUser handler has yet to bind the role
    spent      \* how often each operation happened

apiVars   == <<now, user, rev, records, bindings>>
cacheVars == <<mgr, srv, seen, namespace>>
queueVars == <<userQ, recQ>>
vars      == <<apiVars, cacheVars, queueVars, worker, expiring, granting, spent>>

LoginRecords == [ id: Nat, label: Users, ok: BOOLEAN, at: Nat, late: BOOLEAN ]
Bindings     == [ user: Users, scope: Scopes, late: BOOLEAN ]

\* A namespace is not there, or there, or in the manager's informer cache too.
NamespaceStates == {"none", "made", "cached"}

Cached == {ns \in Namespaces : namespace[ns] = "cached"}

PCs == {"idle", "finalize", "encrypt", "sync", "bindings", "namespaces", "records", "release"}

Idle == [pc |-> "idle"]

-----------------------------------------------------------------------------
(* The API server.                                                         *)

Live(u) == user[u] # NoUser /\ ~user[u].deleting

\* A write computed from copy c is accepted.
Current(u, c) == user[u] # NoUser /\ user[u].rv = c.rv

\* Stores o under a new resourceVersion; a write that changes nothing makes
\* neither a new version nor an event.
Put(u, o) ==
    IF o = user[u] THEN UNCHANGED <<user, rev>>
    ELSE /\ user' = [user EXCEPT ![u] = [o EXCEPT !.rv = rev + 1]]
         /\ rev' = rev + 1

Spend(op) == /\ spent[op] < Limit[op]
             /\ spent' = [spent EXCEPT ![op] = @ + 1]

Tick ==
    /\ now < MaxTime
    /\ now' = now + 1
    /\ UNCHANGED <<user, rev, records, bindings, cacheVars, queueVars,
                   worker, expiring, granting, spent>>

-----------------------------------------------------------------------------
(* ai-server: handlers on users.                                           *)

\* What a request may put into the password field: nothing, a plain password,
\* or a bcrypt hash of one, which isEncrypted takes for its own work.
Password(s, h) == h => s \notin LongSecrets \cup {NoSecret}

\* The handler creates the user and goes on to bind its global role.
CreateUser(u, s, h) ==
    /\ user[u] = NoUser
    /\ Spend("create")
    /\ user' = [user EXCEPT ![u] =
                 [ rv |-> rev + 1, finalizer |-> FALSE, deleting |-> FALSE,
                   secret |-> s, hashed |-> h,
                   state |-> "none", since |-> 0, last |-> 0 ]]
    /\ rev' = rev + 1
    /\ granting' = granting \cup {u}
    /\ UNCHANGED <<now, records, bindings, cacheVars, queueVars, worker, expiring>>

\* Somebody makes a namespace; it may not go again.
CreateNamespace(ns) ==
    /\ namespace[ns] = "none"
    /\ Spend("namespace")
    /\ namespace' = [namespace EXCEPT ![ns] = "made"]
    /\ UNCHANGED <<apiVars, mgr, srv, seen, queueVars, worker, expiring, granting>>

\* A new binding takes the place of the user's binding in that scope. It is
\* late if the user is on its way out, or gone, by then.
Bind(u, scope) ==
    bindings' = {b \in bindings : ~(b.user = u /\ b.scope = scope)}
                \cup {[user |-> u, scope |-> scope, late |-> ~Live(u)]}

\* The second call of CreateUser, at any later time. A binding to the same
\* role is left as it is.
GrantGlobalRole(u) ==
    /\ u \in granting
    /\ Spend("bind")
    /\ granting' = granting \ {u}
    /\ \/ Bind(u, Global)
       \/ /\ \E b \in bindings : b.user = u /\ b.scope = Global
          /\ UNCHANGED bindings
    /\ UNCHANGED <<now, user, rev, records, cacheVars, queueVars, worker,
                   expiring>>

\* Members are added by name: nothing asks whether the user exists.
AddMember(u, ns) ==
    /\ namespace[ns] # "none"
    /\ Spend("bind")
    /\ Bind(u, ns)
    /\ UNCHANGED <<now, user, rev, records, cacheVars, queueVars, worker,
                   expiring, granting>>

\* Reads the lister, replaces the password, updates; a stale copy is refused.
ModifyPassword(u, s, h) ==
    /\ srv[u] # NoUser
    /\ Current(u, srv[u])
    /\ Spend("modify")
    /\ Put(u, [user[u] EXCEPT !.secret = s, !.hashed = h])
    /\ UNCHANGED <<now, records, bindings, cacheVars, queueVars, worker,
                   expiring, granting>>

\* The user's bindings in namespaces the manager has not heard of become late.
MissBindings(u) ==
    bindings' = {IF b.user = u /\ b.scope \notin Cached \cup {Global}
                 THEN [b EXCEPT !.late = TRUE] ELSE b : b \in bindings}

\* An object with a finalizer is only marked; one without is gone at once.
DeleteUser(u) ==
    /\ user[u] # NoUser
    /\ Spend("delete")
    /\ IF user[u].finalizer
       THEN Put(u, [user[u] EXCEPT !.deleting = TRUE]) /\ MissBindings(u)
       ELSE user' = [user EXCEPT ![u] = NoUser] /\ UNCHANGED <<rev, bindings>>
    /\ UNCHANGED <<now, records, cacheVars, queueVars, worker,
                   expiring, granting>>

\* An operator disables or re-enables the account on the status subresource.
SetState(u, st) ==
    /\ user[u] # NoUser
    /\ Spend("status")
    /\ Put(u, [user[u] EXCEPT !.state = st])
    /\ UNCHANGED <<now, records, bindings, cacheVars, queueVars, worker,
                   expiring, granting>>

-----------------------------------------------------------------------------
(* ai-server: logins. The name is looked up in the lister, the state and   *)
(* the password are those of the cached object.                            *)

\* PasswordVerify.
Verified(c, s) == c.hashed /\ c.secret = s

\* Authenticate of the password authenticator, which compares passwords of active
\* users only; the empty password is incorrect whatever the user's state.
Compared(c, s) == s = NoSecret \/ c.state = "Active"

RecordLogin(label, ok) ==
    /\ Spend("login")
    /\ records' = records \cup
          {[ id |-> spent["login"] + 1, label |-> label, ok |-> ok, at |-> now,
             late |-> ~Live(label) ]}

\* POST /oauth/token with grant_type=password: a success is recorded as well as
\* an incorrect password.
PasswordGrant(u, s) ==
    /\ srv[u] # NoUser
    /\ Compared(srv[u], s)
    /\ RecordLogin(u, s # NoSecret /\ Verified(srv[u], s))
    /\ UNCHANGED <<now, user, rev, bindings, cacheVars, queueVars, worker,
                   expiring, granting>>

-----------------------------------------------------------------------------
(* ai-controller-manager: informers. A cache catches up with the API       *)
(* server, and what it learns is queued.                                   *)

SyncManagerUser(u) ==
    /\ mgr[u] # user[u]
    /\ mgr' = [mgr EXCEPT ![u] = user[u]]
    /\ userQ' = userQ \cup {u}
    /\ UNCHANGED <<apiVars, srv, seen, namespace, recQ, worker, expiring, granting, spent>>

SyncServerUser(u) ==
    /\ srv[u] # user[u]
    /\ srv' = [srv EXCEPT ![u] = user[u]]
    /\ UNCHANGED <<apiVars, mgr, seen, namespace, queueVars, worker, expiring, granting, spent>>

Ids(rs) == {r.id : r \in rs}

SyncRecords ==
    /\ seen # records
    /\ seen' = records
    /\ recQ' = recQ \cup Ids(records \ seen)
    /\ UNCHANGED <<apiVars, mgr, srv, namespace, userQ, worker, expiring, granting, spent>>

\* What the manager's informer knows of namespaces once it has caught up.
Listed == [ns \in Namespaces |-> IF namespace[ns] = "none" THEN "none" ELSE "cached"]

\* Nothing is queued for a namespace: no controller watches them.
SyncNamespaces ==
    /\ namespace # Listed
    /\ namespace' = Listed
    /\ UNCHANGED <<apiVars, mgr, srv, seen, queueVars, worker, expiring, granting, spent>>

\* Once in a ResyncPeriod the informers replay their caches.
Resync ==
    /\ (spent["resync"] + 1) * ResyncPeriod <= now
    /\ Spend("resync")
    /\ userQ' = userQ \cup {u \in Users : mgr[u] # NoUser}
    /\ recQ' = recQ \cup Ids(seen)
    /\ UNCHANGED <<apiVars, cacheVars, worker, expiring, granting>>

\* The process dies and starts again: queues and local state are lost, the
\* caches are listed afresh and everything in them is queued.
Restart ==
    /\ Spend("restart")
    /\ mgr' = user
    /\ seen' = records
    /\ namespace' = Listed
    /\ userQ' = {u \in Users : user[u] # NoUser}
    /\ recQ' = Ids(records)
    /\ worker' = Idle
    /\ expiring' = 0
    /\ UNCHANGED <<apiVars, srv, granting>>

-----------------------------------------------------------------------------
(* UserReconciler. One worker; every API call is a step, between which any *)
(* other process may write. A call that fails ends the pass and puts the   *)
(* user back into the queue.                                               *)

Doing(pc, u, c, todo) == [pc |-> pc, user |-> u, copy |-> c, todo |-> todo]

\* Mutant of AfterFinalizer: passwords of active users are taken as encrypted.
AfterFinalizerOnce(c) ==
    IF c.secret # NoSecret /\ ~c.hashed /\ c.state = "none" THEN "encrypt" ELSE "sync"

\* Where a pass on a live user goes once the finalizer is there.
AfterFinalizer(c) ==
    IF c.secret # NoSecret /\ ~c.hashed THEN "encrypt" ELSE "sync"

Done == worker' = Idle /\ UNCHANGED userQ

\* Mutant of Retry: the error is logged and not returned.
RetryNever == worker' = Idle /\ UNCHANGED userQ

Retry == /\ worker' = Idle
         /\ userQ' = userQ \cup {worker.user}

\* Get from the cache, and the choice of the first API call.
GetUser(u) ==
    LET c == mgr[u] IN
    /\ worker.pc = "idle"
    /\ u \in userQ
    /\ userQ' = userQ \ {u}
    /\ worker' = IF c = NoUser \/ (c.deleting /\ ~c.finalizer) THEN Idle
                 ELSE IF c.deleting THEN Doing("bindings", u, c, {Global})
                 ELSE IF c.finalizer THEN Doing(AfterFinalizer(c), u, c, {})
                 ELSE Doing("finalize", u, c, {})
    /\ UNCHANGED <<apiVars, cacheVars, recQ, expiring, granting, spent>>

\* The answer to the update is decoded into the local copy.
AddFinalizer ==
    LET u == worker.user
        c == [worker.copy EXCEPT !.finalizer = TRUE, !.rv = rev + 1]
    IN  /\ worker.pc = "finalize"
        /\ IF Current(u, worker.copy)
           THEN /\ user' = [user EXCEPT ![u] = c]
                /\ rev' = rev + 1
                /\ worker' = Doing(AfterFinalizer(c), u, c, {})
                /\ UNCHANGED userQ
           ELSE Retry /\ UNCHANGED <<user, rev>>
        /\ UNCHANGED <<now, records, bindings, cacheVars, recQ, expiring,
                       granting, spent>>

\* Mutant of EncryptPassword: the hash is forced in, whatever is stored.
EncryptPasswordForced ==
    LET u == worker.user IN
    /\ worker.pc = "encrypt"
    /\ IF user[u] # NoUser /\ worker.copy.secret \notin LongSecrets
       THEN /\ Put(u, [worker.copy EXCEPT !.hashed = TRUE])
            /\ worker' = [worker EXCEPT !.pc = "sync"]
            /\ UNCHANGED userQ
       ELSE Retry /\ UNCHANGED <<user, rev>>
    /\ UNCHANGED <<now, records, bindings, cacheVars, recQ, expiring, granting, spent>>

\* encryptPassword works on a deep copy: the pass goes on with the plain
\* password and the old resourceVersion.
EncryptPassword ==
    LET u == worker.user
        c == worker.copy
    IN  /\ worker.pc = "encrypt"
        /\ IF Current(u, c) /\ c.secret \notin LongSecrets
           THEN /\ Put(u, [c EXCEPT !.hashed = TRUE])
                /\ worker' = [worker EXCEPT !.pc = "sync"]
                /\ UNCHANGED userQ
           ELSE Retry /\ UNCHANGED <<user, rev>>
        /\ UNCHANGED <<now, records, bindings, cacheVars, recQ, expiring,
                       granting, spent>>

FailedAttempts(u) ==
    {r \in seen : r.label = u /\ ~r.ok /\ r.at + Window > now}

\* Mutants of WriteState: the time the state ends in place of the time it
\* began, and a status written over whatever is stored.
WriteStateUntil(st) ==
    LET u == worker.user IN
    IF Current(u, worker.copy)
    THEN Put(u, [user[u] EXCEPT !.state = st, !.since = now + Window, !.last = 0]) /\ Done
    ELSE Retry /\ UNCHANGED <<user, rev>>

WriteStateForced(st) ==
    LET u == worker.user IN
    IF user[u] # NoUser
    THEN Put(u, [user[u] EXCEPT !.state = st, !.since = now, !.last = 0]) /\ Done
    ELSE Retry /\ UNCHANGED <<user, rev>>

\* The status subresource is replaced as a whole: lastLoginTime is dropped.
WriteState(st) ==
    LET u == worker.user IN
    IF Current(u, worker.copy)
    THEN Put(u, [user[u] EXCEPT !.state = st, !.since = now, !.last = 0]) /\ Done
    ELSE Retry /\ UNCHANGED <<user, rev>>

\* Mutant of SyncUserStatus: every state but Active is left alone.
SyncUserStatusActiveOnly ==
    LET c        == worker.copy
        activate == c.hashed /\ c.state = "none"
        exceeded == Cardinality(FailedAttempts(worker.user)) >= MaxFail
    IN  /\ worker.pc = "sync"
        /\ IF c.state \in {"Disabled", "AuthLimitExceeded"} \/ ~(activate \/ exceeded)
           THEN Done /\ UNCHANGED <<user, rev>>
           ELSE WriteState(IF activate THEN "Active" ELSE "AuthLimitExceeded")
        /\ UNCHANGED <<now, records, bindings, cacheVars, recQ, expiring, granting, spent>>

\* A block is over once its second has come: time stamps are cut to the second,
\* the clock that they are compared with is not.
SyncUserStatus ==
    LET c         == worker.copy
        activate  == c.hashed /\ c.state = "none"
        unblock   == c.state = "AuthLimitExceeded" /\ c.since + Window <= now
        exceeded  == Cardinality(FailedAttempts(worker.user)) >= MaxFail
    IN  /\ worker.pc = "sync"
        /\ \/ c.state = "Disabled" /\ Done /\ UNCHANGED <<user, rev>>
           \/ /\ c.state # "Disabled"
              /\ \/ (activate \/ unblock) /\ WriteState("Active")
                 \/ ~activate /\ ~unblock /\ exceeded /\ WriteState("AuthLimitExceeded")
                 \/ ~activate /\ ~unblock /\ ~exceeded /\ Done /\ UNCHANGED <<user, rev>>
        /\ UNCHANGED <<now, records, bindings, cacheVars, recQ, expiring,
                       granting, spent>>

\* Mutant of AfterBindings: the namespaces are forgotten.
AfterGlobalBindings(todo) == "records"

\* What is left of deleteRoleBindings, or the call after it.
AfterBindings(todo) == IF todo = {} THEN "records" ELSE "bindings"

\* deleteRoleBindings: one call for the global role bindings, then one for each
\* of the namespaces listed in between.
DeleteRoleBindings(scope) ==
    LET u == worker.user IN
    /\ worker.pc = "bindings"
    /\ scope \in worker.todo
    /\ bindings' = {b \in bindings : ~(b.user = u /\ b.scope = scope)}
    /\ worker' = LET todo == worker.todo \ {scope} IN
                 Doing(IF scope = Global THEN "namespaces" ELSE AfterBindings(todo),
                       u, worker.copy, todo)
    /\ UNCHANGED <<now, user, rev, records, cacheVars, queueVars, expiring,
                   granting, spent>>

\* The List is answered from the manager's cache: a namespace that has not
\* reached it is skipped without an error.
ListNamespaces ==
    /\ worker.pc = "namespaces"
    /\ worker' = Doing(AfterBindings(Cached), worker.user, worker.copy, Cached)
    /\ UNCHANGED <<apiVars, cacheVars, queueVars, expiring, granting, spent>>

DeleteLoginRecords ==
    /\ worker.pc = "records"
    /\ records' = {r \in records : r.label # worker.user}
    /\ worker' = [worker EXCEPT !.pc = "release"]
    /\ UNCHANGED <<now, user, rev, bindings, cacheVars, queueVars, expiring,
                   granting, spent>>

\* Taking the last finalizer off a deleted object removes it.
RemoveFinalizer ==
    LET u == worker.user IN
    /\ worker.pc = "release"
    /\ IF Current(u, worker.copy)
       THEN user' = [user EXCEPT ![u] = NoUser] /\ Done
       ELSE Retry /\ UNCHANGED user
    /\ UNCHANGED <<now, rev, records, bindings, cacheVars, recQ, expiring,
                   granting, spent>>

\* Mutant of CallFails: a failed call of the clean-up is logged and forgotten.
CallFailsQuietly ==
    /\ worker.pc # "idle"
    /\ worker.pc = "sync" => worker.copy.state # "Disabled"
    /\ Spend("fault")
    /\ IF worker.copy.deleting THEN Done ELSE Retry
    /\ UNCHANGED <<apiVars, cacheVars, recQ, expiring, granting>>

\* An API call of the pass fails for a reason of its own.
CallFails ==
    /\ worker.pc # "idle"
    /\ worker.pc = "sync" => worker.copy.state # "Disabled"
    /\ Spend("fault")
    /\ Retry
    /\ UNCHANGED <<apiVars, cacheVars, recQ, expiring, granting>>

-----------------------------------------------------------------------------
(* LoginRecordController. A record whose user is not cached, or whose      *)
(* update is refused or fails, stays queued: the pass returned an error.   *)

\* Mutant of NewerLogin: only successful logins count.
NewerSuccess(r) == LET c == mgr[r.label] IN
    ~c.deleting /\ r.ok /\ (c.last = 0 \/ c.last < r.at)

\* The record is newer than the last login time of the cached user.
NewerLogin(r) == LET c == mgr[r.label] IN
    ~c.deleting /\ (c.last = 0 \/ c.last < r.at)

\* Mutant of WriteLastLogin: the cached status goes over whatever is stored.
WriteLastLoginForced(r) == LET u == r.label IN
    /\ user[u] # NoUser
    /\ Put(u, [user[u] EXCEPT !.last = r.at, !.state = mgr[u].state, !.since = mgr[u].since])

\* The update of the status computed from the cached user.
WriteLastLogin(r) == LET u == r.label IN
    /\ Current(u, mgr[u])
    /\ Put(u, [user[u] EXCEPT !.last = r.at])

\* Mutant of UpdateUserLastLoginTime: the pass ends if there was nothing to write.
UpdateUserThenStop(r) ==
    /\ expiring = 0
    /\ r.id \in recQ
    /\ mgr[r.label] # NoUser
    /\ IF NewerLogin(r) THEN WriteLastLogin(r) ELSE UNCHANGED <<user, rev>>
    /\ recQ' = recQ \ {r.id}
    /\ expiring' = IF NewerLogin(r) THEN r.id ELSE 0
    /\ UNCHANGED <<now, records, bindings, cacheVars, userQ, worker, granting, spent>>

\* Updates the user's last login time if the record is newer.
UpdateUserLastLoginTime(r) ==
    /\ expiring = 0
    /\ r.id \in recQ
    /\ mgr[r.label] # NoUser
    /\ IF NewerLogin(r) THEN WriteLastLogin(r) ELSE UNCHANGED <<user, rev>>
    /\ recQ' = recQ \ {r.id}
    /\ expiring' = r.id
    /\ UNCHANGED <<now, records, bindings, cacheVars, userQ, worker, granting, spent>>

Old(r) == r.at + Retention <= now

\* Deletes an old record; a record that is young is done with.
ExpireRecord ==
    /\ expiring # 0
    /\ records' = {r \in records : ~(r.id = expiring /\ Old(r))}
    /\ expiring' = 0
    /\ UNCHANGED <<now, user, rev, bindings, cacheVars, queueVars, worker,
                   granting, spent>>

\* The delete fails of itself, or as the record is gone: it is queued again.
\* (With the bound spent, one that is gone is done with: a pass less.)
ExpireFails ==
    /\ expiring \notin {0} \cup Ids({r \in records : ~Old(r)})
    /\ Spend("fault")
    /\ expiring' = 0
    /\ recQ' = recQ \cup {expiring}
    /\ UNCHANGED <<apiVars, cacheVars, userQ, worker, granting>>

\* The Get of a queued record that is gone from the cache.
DropRecord(id) ==
    /\ expiring = 0
    /\ id \in recQ \ Ids(seen)
    /\ recQ' = recQ \ {id}
    /\ UNCHANGED <<apiVars, cacheVars, userQ, worker, expiring, granting, spent>>

-----------------------------------------------------------------------------
(* Properties.                                                             *)

Copies(u) == {mgr[u], srv[u]} \cup
             (IF worker.pc # "idle" /\ worker.user = u THEN {worker.copy} ELSE {})

\* No object is newer than the last resourceVersion, no timestamp of it is
\* ahead of the clock.
Past(o) == o # NoUser => o.rv <= rev /\ o.since <= now /\ o.last <= now

UserMap == [Users -> UserObject \cup {NoUser}]

Passes == [ pc: PCs \ {"idle"}, user: Users, copy: UserObject, todo: SUBSET Scopes ]

\* Every variable holds a value of its type, nothing known of a user comes
\* from the future.
TypeOK ==
    /\ now \in Nat /\ rev \in Nat
    /\ user \in UserMap /\ mgr \in UserMap /\ srv \in UserMap
    /\ \A u \in Users : Past(user[u]) /\ \A c \in Copies(u) : Past(c)
    /\ records \subseteq LoginRecords /\ seen \subseteq LoginRecords
    /\ \A r \in records \cup seen : r.at <= now
    /\ bindings \subseteq Bindings
    /\ namespace \in [Namespaces -> NamespaceStates]
    /\ userQ \subseteq Users /\ granting \subseteq Users
    /\ recQ \subseteq Nat /\ expiring \in Nat
    /\ worker = Idle \/ worker \in Passes
    /\ spent \in [Ops -> Nat]

\* A copy that a cache or a running pass holds under the resourceVersion of the
\* stored object is that object: a write the API server accepts was computed
\* from what it replaces, whatever interleaving led there.
CopiesAgree ==
    \A u \in Users : \A c \in Copies(u) :
        c # NoUser /\ Current(u, c) => c = user[u]

Kept(u) == user[u] # NoUser /\ user'[u] # NoUser

Requested(op) == spent'[op] # spent[op]

\* The password of a user changes, or is turned back from a hash into plain
\* text, only by a request to change it: the controller's encryption, which
\* runs on a copy it read earlier, never undoes a newer password.
PasswordOnlyByRequest ==
    [][\A u \in Users : Kept(u) =>
          \/ Requested("modify")
          \/ /\ user'[u].secret = user[u].secret
             /\ user[u].hashed => user'[u].hashed]_vars

\* A disabled account stays disabled until an operator says otherwise: neither
\* controller, whatever stale copy it acts on, writes the state back.
DisabledStays ==
    [][\A u \in Users : Kept(u) /\ user[u].state = "Disabled" =>
          user'[u].state = "Disabled" \/ Requested("status")]_vars

\* A blocked account is released by the user controller alone, and not before
\* the window since it was blocked has passed: the login record controller,
\* which writes the same status, never brings an older state back.
BlockedForWindow ==
    [][\A u \in Users : Kept(u) /\ user[u].state = "AuthLimitExceeded" =>
          \/ user'[u].state = "AuthLimitExceeded" /\ user'[u].since >= user[u].since
          \/ worker.pc = "sync" /\ worker.user = u /\ user[u].since + Window <= now
          \/ Requested("status")]_vars

\* When the finalizer of a deleted user is taken off, no role binding and no
\* login record made while the user was there is left, although every call of
\* the clean-up may fail, the process may die between any two, and bindings
\* and records are made at any time. Left out are the bindings in a namespace
\* that had not reached the manager's cache when the user was deleted: the
\* clean-up may list the namespaces before it does, and then skips them.
CleanRelease ==
    [][\A u \in Users : user[u] # NoUser /\ user[u].finalizer /\ user'[u] = NoUser =>
          /\ \A b \in bindings' : b.user = u => b.late
          /\ \A r \in records' : r.label = u => r.late]_vars

\* The record controller cannot get past this record.
Stuck(r) == mgr[r.label] = NoUser

\* Nothing is left to do for the manager but to retry what cannot succeed.
Quiet == /\ mgr = user /\ seen = records
         /\ userQ = {} /\ worker.pc = "idle" /\ expiring = 0
         /\ \A r \in seen : r.id \in recQ => Stuck(r)

\* No two login attempts fell into one second: LastLoginTime tells them apart.
Spaced == \A r, s \in records : r.at = s.at => r = s

\* Failed attempts are counted only when an event on the user wakes the
\* controller, and the records themselves do not: it is the other controller's
\* write of LastLoginTime that does. When all is quiet, no active account has
\* as many recent failures as lock it, as long as attempts fall into different
\* seconds. (With a limit of one, an attempt in the second of one on a deleted
\* user of the same name may pass unnoticed; so may one whose predecessor of the
\* same second is gone, if records are kept shorter than they count.)
FailuresCounted ==
    \A u \in Users :
        Quiet /\ Spaced /\ Live(u) /\ user[u].state = "Active"
            => Cardinality(FailedAttempts(u)) < MaxFail

-----------------------------------------------------------------------------
Init ==
    /\ now = 1 /\ rev = 0
    /\ user = [u \in Users |-> NoUser]
    /\ mgr = user /\ srv = user
    /\ records = {} /\ bindings = {} /\ seen = {}
    /\ namespace = [ns \in Namespaces |-> "none"]
    /\ userQ = {} /\ recQ = {}
    /\ worker = Idle /\ expiring = 0
    /\ granting = {}
    /\ spent = [op \in Ops |-> 0]

UserHandlers(u) ==
    \/ \E s \in Secrets \cup {NoSecret}, h \in BOOLEAN :
          Password(s, h) /\ (CreateUser(u, s, h) \/ ModifyPassword(u, s, h))
    \/ GrantGlobalRole(u)
    \/ \E ns \in Namespaces : AddMember(u, ns)
    \/ DeleteUser(u)
    \/ \E st \in {"Active", "Disabled"} : SetState(u, st)

Logins(u) == \E s \in Secrets \cup {NoSecret} : PasswordGrant(u, s)

UserPass ==
    \/ AddFinalizer \/ EncryptPassword \/ SyncUserStatus
    \/ \E scope \in Scopes : DeleteRoleBindings(scope)
    \/ ListNamespaces \/ DeleteLoginRecords \/ RemoveFinalizer

RecordPass(r) == UpdateUserLastLoginTime(r)

Next ==
    \/ Tick
    \/ \E u \in Users : UserHandlers(u) \/ SyncManagerUser(u) \/ SyncServerUser(u) \/ GetUser(u)
                        \/ Logins(u)
    \/ \E ns \in Namespaces : CreateNamespace(ns)
    \/ SyncRecords \/ SyncNamespaces \/ Resync \/ Restart
    \/ UserPass \/ CallFails
    \/ \E r \in seen : RecordPass(r)
    \/ ExpireRecord \/ ExpireFails
    \/ \E id \in recQ : DropRecord(id)

Spec == Init /\ [][Next]_vars

\* The clock runs, watches deliver, the workers take what is queued (the
\* queues are first in, first out) and a running pass goes on.
Fairness ==
    /\ WF_vars(Tick)
    /\ \A u \in Users : /\ WF_vars(SyncManagerUser(u))
                        /\ WF_vars(SyncServerUser(u))
                        /\ SF_vars(GetUser(u))
    /\ WF_vars(SyncRecords)
    /\ WF_vars(Resync)
    /\ WF_vars(UserPass)
    /\ WF_vars(\E r \in seen : RecordPass(r))
    /\ WF_vars(ExpireRecord)
    /\ WF_vars(\E id \in recQ : DropRecord(id))

FairSpec == Spec /\ Fairness

Hashable(u) == Live(u) /\ user[u].secret \notin LongSecrets \cup {NoSecret}

\* A new user with a password that bcrypt takes gets a state, without which it
\* cannot log in, unless it is deleted or its password is changed: conflicts
\* between the finalizer, the hash and the status, each written from its own
\* copy, are retried until all three are there.
EventuallyActive ==
    \A u \in Users : Hashable(u) ~> ~Hashable(u) \/ user[u].state # "none"

\* A plain password that bcrypt takes is hashed in the end, whatever conflicts
\* the update meets.
EventuallyHashed ==
    \A u \in Users : Hashable(u) ~> ~Hashable(u) \/ user[u].hashed

\* A deleted user goes away, whatever calls of the clean-up fail.
EventuallyReleased ==
    \A u \in Users : user[u] # NoUser /\ user[u].deleting ~> ~(user[u] # NoUser /\ user[u].deleting)

\* A blocked account is released, though nothing schedules that: the events
\* that would wake the controller are all spent by then, and only the resync of
\* the informers does. Not so an account whose password was changed meanwhile
\* to one that bcrypt does not take: every pass ends with that error and never
\* comes to the status. (The clock stops at MaxTime: a block that ends later is
\* left out.)
EndsInTime(u) == /\ Live(u) /\ user[u].secret \notin LongSecrets
                 /\ user[u].state = "AuthLimitExceeded"
                 /\ user[u].since + Window < MaxTime

EventuallyUnblocked == \A u \in Users : EndsInTime(u) ~> ~EndsInTime(u)

\* A login record past its retention is deleted while its user is there: only a
\* resync brings an old record back to the controller.
Overdue(id) ==
    \E r \in records : /\ r.id = id /\ r.at + Retention < MaxTime
                       /\ Live(r.label)

EventuallyExpired == \A id \in 1..Limit["login"] : Overdue(id) ~> ~Overdue(id)

=============================================================================
