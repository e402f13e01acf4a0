# go-restful-template: specification and proofs

TLA+ models of `ai-server` and `ai-controller-manager`: user accounts and
what two controllers and a REST server do to them, the tokens the server
issues, the roles users have in a namespace, on the platform and in the
cluster, the way of a request through the server's filters and authorizers,
lists and their pages, servers that replace one another, and a health status.
TLC checks the models on small instances, TLAPS proves the most important safety
properties for all instances.

    tlc -workers 2 -config account_status.cfg MCUserAccount.tla
    tlapm UserAccount_proofs.tla

`PROJECT.json` lists components, runs, mutants, the map from definitions to
source lines, hazards, findings and theorems.

## 1. Inventory

Two programs share the Kubernetes API server as their only store.

| component | source | state | operations | modelled |
|---|---|---|---|---|
| User reconciler | `pkg/controllers/user` | User objects, work queue, informer cache | `Reconcile`: finalizer, `encryptPassword`, `syncUserStatus`, clean-up | `UserAccount` |
| LoginRecord controller | `pkg/controllers/loginrecord` | LoginRecord objects, last login time in the user's status | `Reconcile` | `UserAccount` |
| Login recorder | `pkg/middles/auth/login_recorder.go` | LoginRecord objects | `RecordLogin` | `UserAccount` |
| Password authenticator, basic auth | `pkg/middles/auth/authenticator.go`, `.../authoricators/basic` | none (reads ai-server's cache of users) | `Authenticate` | `UserAccount`, `Requests` |
| Identity management | `pkg/middles/iam/im`, user handlers of `pkg/aiapis/iam/v1` | User objects | create, modify password, update, delete | `UserAccount` |
| Token operator, JWT issuer | `pkg/middles/auth/token.go`, `.../authentication/token` | tokens in the cache | `IssueTo`, `Verify` | `Tokens` |
| In-memory cache | `pkg/client/cache` | a map with deadlines | `Set`, `Exists`, clean-up | `Tokens` |
| OAuth handlers | `pkg/aiapis/oauth` | none | password grant, refresh grant, static token | `Tokens` |
| Namespace members | `pkg/middles/iam/am`, member handlers | role bindings, creator annotation | appoint, change, remove | `Members` |
| Global and cluster bindings | `pkg/middles/iam/am`, user handlers | both kinds of bindings | replace, remove | `GlobalRoles` |
| Global role binding reconciler | `pkg/controllers/globalrolebinding` | | make platform admins cluster admins | no: no manager runs it |
| Roles | `pkg/middles/iam/am` | three kinds of roles | create or update, patch, delete | `Requests` |
| Filters, authenticators | `pkg/aiserver/aiserver.go`, `pkg/aiserver/filters`, `.../request/basictoken`, `.../authoricators` | none | the handler chain | `Requests` |
| The repository's anonymous and bearer token authenticators | `.../request/anonymous`, `.../request/bearertoken` | none | | no: nothing imports them |
| Authorizers | `.../authorization/{rbac,path,union}` | none (informer caches) | `Authorize` | `Rbac`, `Requests` |
| RequestInfo resolver | `pkg/aiserver/request` | none | `NewRequestInfo` | `RequestInfo` |
| Server run, reload | `cmd/ai-server/app/server.go`, `aiserver.go`, `config` | running servers, contexts, a channel, informers, a port | `Run`, reload, shutdown | `ServerRun` |
| List, filter, pagination | `pkg/middles/resources/v1alpha3`, `query` | none | `DefaultList`, the getters, the handlers that list | `Paging`, `Listing`, `Browsing` |
| Feature-gated reconcilers | `pkg/controllers/common` | none | `Setup` | `Health` |
| Health reconciler | `pkg/controllers/core` | the status of a Health object, a work queue | `Reconcile` | `Health` |
| WebSocket watch | `pkg/api/websocket.go` | a watch, a socket | the forwarding loop | no: has no caller |
| Identity provider registry | `.../identityprovider` | two maps | nothing calls them | no |
| Clients, informers, API types, docs, build | `pkg/client/*`, `pkg/api`, `config`, ... | none of their own | generated code, wrappers, data | informers where they are used |

**How they interact.** Handlers of ai-server create User objects and login
records, and read users from an informer cache. Each write is an event
that the manager's informers deliver later; controller-runtime queues the
object's name, and a worker takes it and reads *its* cache. Three writers share
the status of a user: the user reconciler (state), the record controller (last
login time), and an operator (disabling). Updates name a resourceVersion and are
refused if the object has moved on; deletes by label and creates are not
checked. Bindings and roles are written by handlers and controllers and read by
the authorizers of every request, each kind from a cache of its own. A change of
the configuration file makes a new server, with clients, informers and token
cache of its own, in the same process and on the same port.

**What is hard, and what makes it correct.**

- Accounts: every write is computed from a copy that may be old, in three
  places at once (cache of the manager, cache of the server, local copy of a
  running pass). A password must not come back, a disabled or blocked account
  not be enabled by such a write; the clean-up of a deleted user must be complete
  before the object goes, though any call may fail and the process may die; new
  users must get to Active through the conflicts that one pass makes with its
  own writes; blocks depend on events that another controller's write causes.
- Tokens: a token ends by its claim, by its cache entry, by the sweep, and by a
  restart, on several clocks. It must not end early, the refresh token must
  outlive the access token, and every accepted token must lead back to a password.
- Members: up to eight API calls for one request, no lock. Nobody may drop out
  and no appointment may be lost to another.

- Global roles: a binding is replaced by deletes and a create that follow from a
  stale list, by requests that may overlap.
- Requests: the order of the authenticators decides who acts, the path what is
  asked for; a decision is put together from four caches at different times. It
  must not allow what nobody granted, nor refuse what was granted all along.
- Lists: pages are slices of lists that are made anew for each request, with
  bounds computed from any numbers that a request names.
- Server run: contexts, an unbuffered channel and a port are all that goroutines
  of old and new servers share.
- Health: one chain of passes, each of which has to bring about the next.

All hazards are in `PROJECT.json` with their lines.

## 2. Modules

| module | models | lines of the code |
|---|---|---|
| `UserAccount` | the life of a user account, both controllers, the handlers | see the map |
| `MCUserAccount` | small instances of it | |
| `UserAccount_proofs` | theorems | |
| `Sessions` | what token management promises (abstract) | `TokenManagementInterface` |
| `Tokens` | operator, issuer, cache, OAuth handlers; implements `Sessions` | see the map |
| `MCTokens`, `Tokens_proofs` | instances, theorems | |
| `Members` | members of one namespace, API call by API call | see the map |
| `MCMembers`, `Members_proofs` | instances, theorems | |
| `GlobalRoles`, `MCGlobalRoles`, `GlobalRoles_proofs` | global and cluster role bindings, replaced call by call | see the map |
| `RequestInfo` | from method, path and query to scope, verb and resource | `requestinfo.go` |
| `Rbac` | what a rule, a subject, a path allows | `evaluation_helpers.go`, `rbac.go`, `path.go` |
| `Requests`, `MCRequests`, `Requests_proofs` | the handler chain, with caches that move; uses the two | see the map |
| `Paging` | pages in Go's integers | `query/types.go` |
| `Listing` | order, filters, one page; uses `Paging` | `resources/v1alpha3` |
| `Browsing`, `MCBrowsing`, `Browsing_proofs` | a client that reads page by page; uses `Listing` | handlers that list |
| `ServerRun`, `MCServerRun`, `ServerRun_proofs` | servers that replace one another | see the map |
| `Health`, `MCHealth`, `Health_proofs` | the health controller and what starts it | see the map |

Operators named `...Forced`, `...Quietly` and the like, marked "Mutant of" in
their comments, are faulty variants of the definition that follows them. No
specification uses them: putting one in place of the definition it is a mutant of makes
TLC find the property that `PROJECT.json` names with it violated.

### UserAccount

`user` holds the API server's objects (`rv` is the resourceVersion, `since` the
last transition time, `last` the last login time; 0 is a nil time), `mgr` and
`srv` the two informer caches, `records`/`seen` the login records and the
manager's cache of them, `userQ`/`recQ` the work queues, `worker` the pass of the
user reconciler, `expiring` that of the record controller between its two API
calls, `granting` the `CreateUser` requests that have yet to bind the role.

- `Reconcile` is split at its API calls: `GetUser` (read from the cache, choose
  the way), `AddFinalizer`, `EncryptPassword`, `SyncUserStatus`, or
  `DeleteRoleBindings` (global, then per namespace) with `ListNamespaces`,
  `DeleteLoginRecords`, `RemoveFinalizer`.
  `AddFinalizer` goes on with the answer of the update, `EncryptPassword` works
  on a deep copy and leaves the pass with the plain password and the old version:
  so the status update conflicts and the retry does it.
- A refused or failed call ends the pass with `Retry`; one that returns nil with
  `Done`.
- `SyncManagerUser` and `SyncRecords` are the informer, which may skip versions
  (a watch that catches up delivers what it likes late). A write that changes
  nothing makes no event (`Put`).
- `Restart` loses queues and passes and lists everything anew. A call
  whose effect took place and whose answer was lost is a `Restart` after it, or
  a conflict on the next.
- Time stamps are cut to the second, the clock they are compared with is not: "after
  the window" (`Before`) holds once the second of its end has come.
- `ExpireFails`: a delete that fails, of itself or because the record is gone,
  puts the record back. Both count as faults: by itself the second could go round
  for as long as the cache lags, with a new version each time.
- `WriteState` replaces the whole status, as the code does: the last login time
  is dropped.
- `PasswordGrant` needs the name of a user object (`DescribeUser` by name), so
  that the authenticator's look-up by e-mail address is never come to.
- `Compared`: the password authenticator compares the passwords of active users, and
  takes the empty password for a wrong one whatever the user's state; both are
  recorded. Basic credentials would be compared as well, but are never looked at
  (see Requests).
- `namespace` says which namespaces there are and which of them the manager's
  informer has. The clean-up lists them from there (`ListNamespaces`), so that
  it may skip one that was just made.
- `DeleteUser` is possible for every user; the handler also refuses one's own
  account and managers according to a cached role binding
  (`handler.go:303-325`). Any other client of the API server may delete as well.
- `Bindings` and login records carry `late`: made when the user was being
  deleted or gone. `CleanRelease` is about the others, except for bindings in
  namespaces that the manager's cache did not have when the user was deleted: the
  finalizer may go before those.
- `UpdateUser` (`im.go:58`) writes the user back as it read it, so nothing
  changes (what the caller asked for is lost); it is not an action.

### Sessions and Tokens

A token is its signed claims. `Verify` asks the JWT library (`JwtValid`) and,
unless tokens do not expire or the token is static, whether the cache holds it.
Servers have their own cache and clocks that differ by at most `Skew`
(`ClocksAssumption`). Deadlines in the cache are finer than a second, so at
equality the sweep may go either way. The cache's map is written by requests and
the sweep without a lock; the Go runtime stops the process when it notices, which
is `Restart`. A grant is two steps: the request is accepted (`PasswordGrant`,
`RefreshTokenGrant`, counted in `granted`), and later the tokens are issued
(`IssueGranted`), with time, sweeps, restarts and other requests in between. Only the
refresh grant verifies tokens in this program: the bearer authenticator, which would
also ask whether the token's user still exists, is never come to, so that
static tokens (`CreateToken`) are all issued to system:anonymous.

`Sessions` says what the code promises: a request is accepted from a user who gives
the password or holds a token that is open; each accepted request opens tokens once,
logging in closes nobody's session, and what is closed stays closed unless so opened.
The options say otherwise in two places (findings): `MultipleLogin` would end other
sessions and `AccessTokenInactivityTimeout` unused ones. `Tokens` implements it with
`open[s] = {t \in issued : Verify(s, t)}`; `SessionsPromise` is the abstract
specification, as a property of the concrete one.

### Members

`call[h]` is how far request `h` has come and what it read: `list`, `delete`,
`create` for the user and again for the old manager when a new admin is appointed,
then `annotate`. Only the last call is checked against the version read first.
A list that fails counts as an empty one (`am.go:713`). `joined`, `removing` and
`overlapped` are history: who ever had a role, whose removal was asked for,
whether two requests were in hand together. A namespace has a creator annotation
(`AddCommonAnnotations`); one without annotations is not modelled.

### GlobalRoles

`bound` are the bindings of the API server, `cached` the informer caches of
ai-server, `call[h]` how far request `h` is: `check` (`GetGlobalRoleOfUser`
of `updateGlobalRoleBinding`), `list`, `replace` for each binding listed,
`create`. A replacement stops at a binding with the role asked for; a delete of
one that is gone, like a create of one that is there, ends the request with
an error. `DeleteUserBindings` is the clean-up of `UserAccount`, which deletes global
role bindings only: a cluster role binding of a deleted user stays. Ghosts: `granted`
(what the last answer promised), `blurred` (users whose requests overlapped, or read
a cache that was behind). `CreateClusterRoleBinding` and `RemoveUserFromCluster`
have no caller but their interface. Names of roles are those with the option
`NamePrefix`, which the handlers put before them and nothing here takes off.

The reconciler of global role bindings is not modelled: `addDefaults`
(`ai-controller-manager.go:114-134`) does not set it up, so no platform admin is made
a cluster admin. Were it run, it would compare the role's name with one without the
prefix (`globalrolebinding_controller.go:38`).

### RequestInfo, Rbac and Requests

`NewRequestInfo` is a function of a request whose path is a sequence of parts. `Rbac`
says what one rule, one subject, one path allows. `Requests` moves one request through
the chain in the order of `buildHandlerChain`: request info, authentication, path
authorizer, global bindings, local ones, one visit after the other with the role read
at the visit, then the handler, the Kubernetes proxy or, for `ModifyPassword`, a
second authorization and the check of the current password, and the write. Between any
two steps bindings, roles and users change, and each of the four caches is brought up
to date by itself. One request is in hand at a time: requests share nothing but these
objects, and what another request may do to them is among the changes. `call.saw` is
history: what was to be seen in the caches since the request came, and what was to be
seen throughout. `Authenticators` are the three of the union in their order. The first
is that of Kubernetes for anonymous requests (`aiserver.go:44`), which accepts every
request: so every user is `system:anonymous`, whatever the credential, and no
credential is refused. All that is said of rights below is said of the rights of that
user. The other two are there to show that they are not asked. A Rego policy is the
set of verbs it allows; a binding to a role of an unknown kind stands for every error
of a visit.

### Paging, Listing and Browsing

`Paging` has Go's arithmetic with a width. `Listing` filters, sorts and cuts;
ascending order negates the comparison, as in the code. `Browsing` reads a list from a
cache that follows the objects: a client that names no page reads on from the first
until a page is empty or the list is read; one that names a page, which may be any
number, as may the limit, asks for that one. A page whose bounds are no slice's makes
the handler panic, and the server answers an internal error. Values of filters are
sets of names that match: what a selector means is left to the library that parses it.

### ServerRun

`run[r]` is a goroutine of `run`, from its first step (reading the shared
`s.Config` and `ictx`) over clients, discovery and the wait for informers to its
server and its return. `Reload` cancels, makes a context and spawns. A run reads the
context when it begins, not when it is spawned, as the closure does. `Receive`
takes an error from the channel; `SendOnClosed` is the panic of a send when `Run` has
returned. The viper watcher reads the file, or cannot, and sends what it
read; one change in the file may be noticed after several.

### Health

`Get`, `ListPods` and `HTTPCheck` per component, `UpdateStatus` are the calls of a pass;
`queue` has what is due and what `RequeueAfter` put off. The selectors and probes
of a pass are those of the copy it began with. `manager` is the command line
(features and gate), from which `Started` follows as in `SetupWithManager`.
A probe may hang: `http.Get` (`health_controller.go:130`) has no timeout. The model lets
such a pass go on when the endpoint's state changes. The bodies of answers are never
closed; connections are not modelled.

## 3. What is checked

Passing runs:

| run | properties | what it shows |
|---|---|---|
| `account_status` | `TypeOK`, `FailuresCounted`, `DisabledStays` | when all is quiet, no active account has as many recent failures as lock it, though the controller that counts is woken only by the other controller's write; a disabled account stays disabled |
| `account_cleanup` | `CleanRelease`, `EventuallyActive`, `EventuallyReleased` | when the finalizer goes, so have bindings and records, but for namespaces the cache did not have; users become active, deleted ones go away |
| `account_unblock` | `BlockedForWindow`, `PasswordOnlyByRequest`, `EventuallyHashed`, `EventuallyUnblocked`, `EventuallyExpired` | a block lasts its window, then the resync ends it; hashing never undoes a password change and is done in the end; old records go |
| `token_sessions` | `TypeOK`, `Renewable`, `SkewTolerated`, `EndsOnlyByTime`, `SessionsPromise`, `EventuallySwept` | tokens keep the promise of `Sessions`; only time or a restart ends one; the cache is swept |
| `members` | `TypeOK`, `NobodyLost`, `OneRoleEach`, `HandedOver` | nobody loses the role by a change of roles; one appointment follows another |
| `globalroles` | `AnswerIsTrue` | an answer that was not overtaken tells the user's one role |
| `listing` | `PanicsOnlyOnOverflow`, `PagesPartition`, `NothingSkipped`, `NothingTwice`, `DescribedAsListed` | a page panics only where offset and limit overflow; the pages are the list, each object once and in order; what comes makes nothing be skipped, what goes nothing be shown twice; a member that is listed can be described |
| `requests` | `AllowedWasGranted`, `NoLostGrant`, `PasswordChangedByRight`, `SameInWorkspace` | what is done was granted by a binding and a role seen while it was decided; what is refused was not granted all along; a password changes by right or by knowing it; the workspace prefix changes nothing but the workspace |
| `serverrun` | `OldOnesStop`, `ServesFilled`, `FailureEndsProcess`, `NewestIsServed` | replaced servers are told to stop, nobody is served from empty caches, a failure is not lost, the newest configuration comes to be served |
| `health` | `StatusOfSpec`, `EventuallyTold` | a status is written for its own spec, and comes to tell what is the case |

Two runs find a sentence of the repository not to hold.

- `members_manager`, `ManagerStaysAdmin`: a manager has to be replaced before he can
  be removed (`am.go:573`), but a removal that checked before an appointment deletes
  the new manager's binding after it.
- `requests_credentials`, `OrderDoesNotMatter`: "authenticators are unordered"
  (`aiserver.go:132`), but the first accepts everything, so that good credentials
  count for nothing and everybody is system:anonymous.

Three properties hold, and thereby say that a sentence does not:

- `EndsOnlyByTime`: "Tokens become invalid if they are not used within this temporal
  window" (`oauth_options.go:54`). Use is not recorded and plays no part; the timeout
  only lengthens the refresh token.
- `SessionsPromise`: "disable means only one user can login at the same time"
  (`autentication_options.go:64`, disabled by default). A login closes nothing; the
  option is read nowhere.
- `PanicsOnlyOnOverflow`: "make sure that pagination is valid" (`query/types.go:48`).
  Nothing is made sure of: offset or end may overflow, with a negative page or with
  positive numbers alone, and the cut of the list panics (`interface.go:94`).

### Observations

Other disagreements between the code and what is said of it, met by reading it or
in the models; none is a property of a run.

Accounts:
- "plain text password won't be kept" (`user_controller.go:141`): bcrypt refuses
  more than 72 bytes, every pass fails, the text stays, a new user is never
  activated and a blocked one never unblocked.
- "blocked for 10m" (`autentication_options.go:19`): nothing schedules the
  release; it waits for the next event or the resync, 10 hours by default.
- The clean-up of a deleted user lists namespaces from a cache
  (`user_controller.go:109`) and may leave a binding in one just made; it deletes no
  cluster role bindings.
- Old records are to be deleted (`autentication_options.go:24`): those of unknown
  users end every pass in an error before their age is looked at
  (`loginrecord_controller.go:42`).
- The controller counts to a 10 of its own and not to
  `AuthenticateRateLimiterMaxTries`, default 5 (`user_controller.go:194`,
  `autentication_options.go:39`). Failures within one second do not move
  `LastLoginTime` and wake nobody, which is why `FailuresCounted` assumes
  attempts in different seconds.
- `UpdateUser` writes back the user as it read it (`im.go:58`): what the
  caller asked for is lost, but for the global role.
- `GetUserDetail` uses a user that was not found (`handler.go:94-99`).

Tokens: an access token ends `Skew` earlier than its `expires_in` says
(`jwt.go:44,59`).

Global roles: two changes of one user's role in a row or at once, with a cache that is
behind, leave two roles or none (`am.go:327`).

Requests: `WithAuthentication` and `WithAuthorization` go on after an internal error;
non-resource requests have the empty scope, so only global bindings
apply; users authenticated by password have no groups but
`system:authenticated`, whatever their object says; `userManagement` asks for
`users/password` with the empty API group. The patch of a role starts from the
cached one, though the comment says otherwise (`am.go:380`).

Lists: the filter `aliasname` matches no user; handlers that list use the
result before they look at the error; the login records of a user come from the
getter of users when read singly; transformations work on the cached objects
themselves; `resource_test.go` asks for getters that nobody registers.

Server: a secure port without a certificate dereferences a nil TLS
configuration (`options.go`); a cluster without `autoscaling/v2beta2` ends the
process, since only missing resources are tolerated, not missing versions; a reload
ends the process when the old server still holds the port; an error that comes
after the end of `Run` is a send on a closed channel; `Shutdown` gets a context
that ends at once, so nothing is drained.

Health: a selector that is removed stays in the status; a probe without answer
blocks the only worker; each status update brings an event that brings the next
pass at once, so that the interval is not kept while a status changes; a negative
interval ends the chain of passes. The WebSocket loop spins once its channel is
closed (`websocket.go:65`).

**Bounds.** `Limit` says how often each kind of operation may happen in a run of
`UserAccount`, `MaxTime` ends the clock, `MaxRequests`, `MaxServed`, `MaxRestarts`,
`MaxFaults`, `MaxFailures`, `MaxChanges` and `MaxOthers` bound the others. The
instances have one user: no action of one user reads another's object, and queues are
sets of names, so two users interact only by keeping the worker busy.

- `account_status`: two failures and `MaxFail = 2`, since the interesting order is
  that of the second record and the pass that counted one; one status write by
  an operator; three seconds, so that two attempts fall into different ones.
- `account_cleanup`: one user's life with one binding (the global one or that in a
  namespace that is new to the manager or not), one login, one failing call and one
  restart between any two steps. Records are old at once (`Retention = 0`), so that the
  other controller deletes them as well; otherwise time plays no part.
- `account_unblock`: block, window and retention of one second, a resync after
  three, three seconds, a password change, a short and an over-long password,
  requests with a hash in place of a password: every order of block, window's end,
  change and resync.
- `token_sessions`: two servers one second apart, skew 1, ages 2 and 2, three
  requests, one restart, until the last token can have ended. Access tokens that do
  not expire (`MaxAge = 0`) are covered by the proofs only.
- `members`: three users, two roles, four requests of which three overlap, one
  failing call. Users and handlers are symmetric: no property or action names one.
- `globalroles`: two users, two handlers, three requests, any of which may be about global
  or cluster roles, and one of: a deleted user, a failing call. Two requests and one
  lag are what it takes to have two roles or none; the third shows what an answer is worth then.
- `listing`: three names, five changes before or between pages, integers of four bits
  so that offset and end overflow, 29 queries: every kind, scope, filter and order,
  pages and limits that are negative, zero or as large as may be, with both ways to a
  panic. Three objects on pages of one or two let things come and go before and behind
  the page that is read.
- `requests`, `requests_credentials`: one request out of 17 (all credentials, good and
  bad, all scopes and forms of paths), five bindings, of system:anonymous, of others
  and of groups, with what a role may hold, among them one that fails; two changes,
  each followed or not by the caches: enough for a binding to go after a role came.
- `serverrun`: three configurations, so that a third server meets two old ones; one
  failure; two attempts at discovery and one informer factory (the proofs take any
  number).
- `health`: three changes of object, pods or endpoint, one fault, five specs,
  three command lines.

**Deadlock** is not checked: with the bounds spent, or with all quiet, these
systems have nothing to do.

**Fairness** (`FairSpec`). The clock runs; a watch delivers (weak fairness on
the `Sync...` actions); a running pass goes on; the record controller works and
sweeps. `GetUser` has strong fairness: the one worker is idle again and again and
work queues are first in, first out, so a queued name gets its turn. Handlers,
logins, failing calls and restarts have none: they may never happen, or stop.
`wait.Until` calls the token clean-up for ever. Resyncs come once in
`ResyncPeriod`: weak fairness on `Resync` with its guard on the clock.
`serverrun`:
goroutines go on, the watcher notices and sends, the main loop takes
what is ready; files, failures and the signal may never come. Go's `select`
picks at random among what is ready, so no branch is owed a turn for ever; the number of
reloads is finite. `health`: caches follow, timers fire, a pass goes on but for a
probe that hangs; changes and faults have no fairness.

## 4. What is proved

For every number of users, servers, handlers and for every value of the bounds; the
assumptions are those named in the modules (`UserAccount`: `NamesAssumption`,
`ValuesAssumption`, `BoundsAssumption`; `Tokens`: `ClocksAssumption`,
`AgesAssumption`; `Members`: `RolesAssumption`, `BoundsAssumption`,
`NoBindingAssumption`; `GlobalRoles`: `RolesAssumption`, `BoundsAssumption`; `Paging`
and `Browsing`: `WidthAssumption`, `NamesAssumption` (twice as many objects as there
are still have an `int` to count them), `QueriesAssumption` (kinds that there are;
page and limit are an `int` or missing), `MaxChangesAssumption`, `PanicAssumption`;
`Requests`: `BindingsAssumption`, `CallsAssumption`; `ServerRunAssumption`;
`HealthAssumption`). One theorem has hypotheses of its own: `AlwaysFailuresCounted`.

Every invariant and action property of the passing runs is proved. Of the liveness
properties TLC checks the whole, and for those that depend on no clock the part that
needs no fairness is proved: that nothing that still has to happen is ever forgotten.

**UserAccount_proofs.** `Inv == TypeOK /\ CopiesAgree` is inductive.
`CopiesAgree` alone is not: a new version must differ from every version that a
copy holds, and that is `Past`, the part of `TypeOK` which says that nothing known is newer than
`rev`. Each step either leaves all objects alone or stores one under `rev + 1`
or removes one, while caches and passes take only what they had or what is stored
(`Stores`, `Copied`, lemma `CopiesStep`). From the invariant: `PasswordSafe`,
`DisabledSafe`, `BlockSafe`. An accepted write changes the very object its copy
shows, so the guards evaluated on the copy hold of the object. `ReleaseIsClean`
adds `Swept`: a clean-up whose copy is still the stored object has deleted all but
what is late and what it has yet to delete. It stays true since a copy that is
outdated stays so (every write stores a newer version, `Follows`), since whatever is
made for an object that is marked is late (`News`), and since the namespaces that the cache had
when the user was marked are still in it when they are listed.

`AlwaysFailuresCounted` supposes `MaxFail > 1` and `Window <= Retention` (code:
10; 10 minutes and 168 hours; run `account_status`: 2; 2 and 3 seconds). With a
limit of one, a record of a deleted user that is processed for a new one of the same
name can hide a failure in the same second; if records are kept shorter than they count,
the one that tells two attempts of one second apart may be gone. The invariant is
`Attentive == Order /\ Awaited /\ \A u : Noticed(u)`. `Noticed`: among attempts that
would lock an active account, and that share no second with others, there is one that
is queued and newer than the last login time, if the user is not about to be looked at
anyway. When that record is worked on, the last login time is written, and the
event wakes the user controller. What makes it inductive is the order in which
records are made, seen and deleted (`Order`): they are numbered in the order of their times
and seen in that order (`Numbered`), none yet to be seen is older than the last
login time (`Unseen`), what is gone before its time went with all there was of its
user (`SweptAway`), and the last login time is that of a record which is there or went
that way (`Told`). So a second attempt is always newer than the last login time or
has been counted. `Awaited` says that a pass on an outdated copy is never the last
one; it is a theorem by itself (`StalePassFollowed`).

`NeverForgotten`: whoever is being deleted, or lacks the finalizer, the hash or the
state, is newer than the cache, queued, or in the hands of a pass. Besides `Awaited`
it needs what a pass has found or done by the time it is where it is (`Working`), and that only
objects with a finalizer can be marked as deleted (`Marked`). It is what `EventuallyActive`,
`EventuallyHashed` and `EventuallyReleased` need besides fairness.

**Tokens_proofs.** `Inv` adds to `TypeOK` that static tokens do not expire, and of each cache entry
(`EntryOK`) that it ends a skew later than its token, and that an access token's
entry has that of its refresh token beside it or is of a token that has ended.
`EndsByTime`, `AlwaysRenewable`,
`SkewAlwaysTolerated` follow; `KeepsPromise` is the refinement: initial states
map to initial states, every step to `Login`, `Extend`, `Answer`,
`AnswerAnyone`, `Close` or a stutter.

**Members_proofs.** `IInv == TypeOK /\ PurposeOK`: a request that read the current version
knows the current manager (`ReadsPast`), and a request deletes only bindings of
the user whose turn it is, creating none if it is a removal (`Purpose`).
`AlwaysHandedOver` follows. `NobodyEverLost` needs `AllHeld` as well: whoever is without a
binding is in the hands of a request about to create one. `OneRoleEachHolds` adds
`AllInTurn`: a request that is alone and whose calls do not fail (`Fits`) has read
the current version, deletes a binding that is there, creates one only of a user
who has none, and moves the annotation only when the old manager is no admin any
more; an admin is the manager or the one whose appointment goes on.

**GlobalRoles_proofs.** `IInv == Shape /\ \A u \in Users \ blurred : Known(u)`. A user
is `Known` if at most one request on it is in hand, and that has its `Place`: what it
has yet to replace is all the user has, what it creates is the only one, and before
and after the promise is kept. A request on another user deletes none of the user's
bindings, since it only deletes what it listed for its own. From this
`AnswerIsAlwaysTrue`.

**Browsing_proofs.** `ValidSlice`: whatever limit and page a request names, the
bounds are those of a slice unless limit and offset are positive, the offset is within
the list and their sum overflows; then they are not. The offset may itself be the result
of a product that overflowed. What fits is left as it is (`WrapFits`) and what is wrapped
fits (`WrapInInts`). With it, `PanicsAlwaysOverflow`: for a client that reads on from the
first page neither product nor sum wraps (`Within`: it asks for at most one page behind
the end), so it meets no panic.

A sorted list has each object of a finite set once (`Sorted` is a choice; that there is
one is proved), at the place that its rank gives it, the number of objects ordered
before it. So page `p` of `n` holds the objects of ranks `(p - 1) * n` to `p * n - 1`,
for every filter, kind, order and direction. Between two pages what comes can only
raise ranks and what goes can only lower them. `IInv == Typed /\ Steady(...)` says
of a client on its way: as long as nothing came, all that it got and is still there is
ranked below what it has read (`Behind`), so no page shows it again; as long as nothing
went, all that it has not got is ranked above (`Unread`), so no page has passed it;
while neither happened what it got is in order (`Ordered`) and of what there was
(`Lasting`). None of the properties is inductive, nor any of these alone. An empty page
means that no rank is left.

**ServerRun_proofs.** `IInv == TypeOK /\ Contexts /\ Reloads /\ Future /\ Filling /\ Porting`.
`OldOnesStop` needs that every context but the newest is cancelled (`Contexts`) and that
runs to come hold none (`Future`), which needs that there are no more reloads than files that could
be read (`Reloads`). `ServesFilled` needs that a run fills its factories one by one
unless it is cancelled (`Filling`), and that the port is held by one that has got there (`Porting`).
`NewestNeverLost` is the part of `NewestIsServed` that needs no fairness: while the loop
runs, the last run has the newest context and nothing of an older configuration, or has
yet to begin, and it neither returned nor was shut down. It rests on `Newest`: a run takes
a context no older than itself, with the configuration that belongs to it,
although the closure reads both when it begins.

**Requests_proofs.** The filters of a request read four caches one after the other.
What they see is kept in `call.saw`, and `IInv` says what that is worth: `Seen`, that
it covers what the caches hold now, so that whatever is read next was seen; `Listed`,
that the bindings still to be visited were seen and concern the user; `Reasons`, that
one who is allowed has a binding and a role that were seen, and that a password about
to be changed was asked for by right or was known; `StillToCome`, that of those rights
which were there all the time and suffice, none has been passed by: its binding is
still to be visited, or is one of the namespace, which is read after the global ones.
From these: `AllowedAlwaysGranted`, `GrantNeverLost`, `PasswordAlwaysByRight`.
`AlwaysSameInWorkspace` is about `NewRequestInfo` alone: two parts put behind the
version leave group and prefix where they are (`PutIn`, `MovedPath`), cutting them off
leaves what there was, and nothing that is decided later asks for the workspace
(`MovedInTheEnd`). It holds for paths of any length.

**Health_proofs.** `IInv == Shape /\ Fresh /\ Covered`: a copy with the stored
version has the stored spec (`Fresh`), and what of that spec the pass has dealt
with is in its status (`Covered`). A status is written on a fresh copy with nothing left
to do, so it is of the object's spec and complete (`StatusAlwaysOfSpec`).
`ChainNeverBreaks` is the part of `EventuallyTold` that needs no fairness: an object with a
regular interval always has a pass under way, due or scheduled, or an event to come. A pass
on a copy of another spec cannot break the chain, since its update is refused and retried (`Fresh`).

**Only model-checked**: liveness, that is everything under fairness, since the prover
does not do `WF`, `SF` and `ENABLED`: `EventuallyActive`, `EventuallyHashed`,
`EventuallyReleased`, `EventuallyUnblocked`, `EventuallyExpired`, `EventuallySwept`,
`FailureEndsProcess`, `NewestIsServed`, `EventuallyTold`. `EventuallyUnblocked`,
`EventuallyExpired` and `EventuallySwept` rest on a clock alone (the resync, the
sweep): nothing has to be remembered until it strikes, so there is no part to prove.

## 5. What is not modelled

Wording, logging, HTTP details, conversion between API versions, the Kubernetes
API server beyond versions, finalizers and watches, bcrypt and JWT beyond what
they accept. A clean-up that runs on a cached object already gone may delete the
bindings of a user made anew under the name; the model shows it, no property is
stated, since nothing in the code says it may not. With failing calls two admins or
a manager without binding can remain in a namespace (`am.go:526`), and no property holds on
bindings then. `NeverExpire`, `Del`, `Expire`, `Get`, `Keys` of the cache and
`CreateRoleBinding`, `DeleteRoleBinding` have no caller. The WebSocket handler
and the identity providers have none either. In `ServerRun` the requests
in progress and their draining are left out, in `Requests` the audit and the
body of the proxied request, in `Listing` the text of labels and fields.
Clients, listers, fakes and deep copies are generated; API types, swagger, pprof,
version and string helpers keep no state.

## 6. Plan

All components with state that the programs use are modelled. What is left:

1. Proofs: more lemmas about operators that the runs use without stating anything of
   them: `Rbac`'s rules, the order of `Listing` against a reference definition. An
   abstract account (a state machine of one object without caches and queues) that
   `UserAccount` implements.
2. Compositions: `GlobalRoles` with `UserAccount` at the clean-up, `Tokens` with
   `ServerRun` at the reload, each of which is now one action that stands for the other module.
