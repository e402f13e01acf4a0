------------------------------- MODULE Tokens -------------------------------
(***************************************************************************)
(* Access, refresh and static tokens of ai-server: the JWT issuer          *)
(* (pkg/aiserver/authentication/token), the token operator that also keeps *)
(* what it issued in a cache (pkg/middles/auth/token.go), the in-memory    *)
(* cache with its periodic clean-up (pkg/client/cache), and the handlers   *)
(* of /oauth (pkg/aiapis/oauth).                                           *)
(*                                                                         *)
(* A token is the claims that are signed: two tokens of one user, type and *)
(* second are one. Several servers share the secret; each has a clock and  *)
(* a cache of its own.                                                     *)
(***************************************************************************)
EXTENDS Integers, FiniteSets

CONSTANTS
    Servers,     \* instances of ai-server
    Users,
    Anonymous,   \* system:anonymous, whom every request is authenticated as
    Offset,      \* [Servers -> Nat], how far a server's clock is ahead
    Skew,        \* MaximumClockSkew (10 s)
    MaxAge,      \* AccessTokenMaxAge (2 h), 0 for no expiration
    Inactivity,  \* AccessTokenInactivityTimeout (2 h)
    MaxTime,     \* bound: the last tick of the clock
    MaxRequests, \* bound: how many requests ask for tokens
    MaxRestarts  \* bound: how often servers restart

\* No two clocks differ by more than what is allowed for.
ASSUME ClocksAssumption ==
    /\ Skew \in Nat
    /\ Offset \in [Servers -> Nat]
    /\ \A s \in Servers : Offset[s] <= Skew

ASSUME AgesAssumption ==
    /\ MaxAge \in Nat /\ Inactivity \in Nat
    /\ MaxTime \in Nat /\ MaxRequests \in Nat /\ MaxRestarts \in Nat

ASSUME AnonymousAssumption == Anonymous \in Users

VARIABLES
    now,       \* the time in seconds
    issued,    \* the tokens that clients hold
    cache,     \* [Servers -> SUBSET entries], a token and its deadline
    logins,    \* [Users -> Nat], how often each gave the password
    granted,   \* [Servers -> [Users -> Nat]], requests whose user the server
               \* has established and whose tokens it has not issued yet
    requests,  \* how many requests asked for tokens
    restarts   \* how often servers restarted

vars == <<now, issued, cache, logins, granted, requests, restarts>>

Types == {"access", "refresh", "static"}

Token == [user: Users, type: Types, iat: Nat, exp: Nat]

Entry == [token: Token, until: Nat]

Clock(s) == now + Offset[s]

-----------------------------------------------------------------------------
(* jwtTokenIssuer. An exp of 0 stands for a token without one.             *)

\* Mutants of IssuedAt: the skew is forgotten, or added.
IssuedAtNow(s) == Clock(s)
IssuedAtAhead(s) == Clock(s) + Skew

\* A token is dated back, for servers whose clocks are behind.
IssuedAt(s) == Clock(s) - Skew

Jwt(s, u, type, expiresIn) ==
    [ user |-> u, type |-> type, iat |-> IssuedAt(s),
      exp |-> IF expiresIn > 0 THEN IssuedAt(s) + expiresIn ELSE 0 ]

\* What the JWT library asks of a token whose signature is good.
JwtValid(s, t) ==
    /\ t.iat <= Clock(s)
    /\ t.exp # 0 => Clock(s) <= t.exp

-----------------------------------------------------------------------------
(* inMemoryCache and tokenOperator.                                        *)

Cached(s) == {e.token : e \in cache[s]}

Store(entries, t, until) ==
    {e \in entries : e.token # t} \cup {[token |-> t, until |-> until]}

\* The cache is asked whether the token exists, not whether it is overdue.
Verify(s, t) ==
    /\ JwtValid(s, t)
    /\ MaxAge = 0 \/ t.type = "static" \/ t \in Cached(s)

\* Mutant of RefreshAge: the refresh token lives for the inactivity timeout.
RefreshAgeIdle(age, idle) == idle

RefreshAge(age, idle) == age + idle

\* Mutant of IssueTo: both tokens are cached for the age of the first.
IssueToOneAge(s, u, type, age, idle) ==
    LET access  == Jwt(s, u, type, age)
        refresh == Jwt(s, u, "refresh", RefreshAge(age, idle))
    IN  /\ issued' = issued \cup {access, refresh}
        /\ cache' = IF age = 0 THEN cache
                    ELSE [cache EXCEPT ![s] =
                            Store(Store(@, access, Clock(s) + age), refresh, Clock(s) + age)]

\* Signs an access and a refresh token, and caches them if they expire.
IssueTo(s, u, type, age, idle) ==
    LET access  == Jwt(s, u, type, age)
        refresh == Jwt(s, u, "refresh", RefreshAge(age, idle))
    IN  /\ issued' = issued \cup {access, refresh}
        /\ cache' = IF age = 0 THEN cache
                    ELSE [cache EXCEPT ![s] =
                            Store(Store(@, access, Clock(s) + age),
                                  refresh, Clock(s) + RefreshAge(age, idle))]

IssueBearer(s, u) == IssueTo(s, u, "access", MaxAge, Inactivity)

IssueStatic(s, u) == IssueTo(s, u, "static", 0, 0)

-----------------------------------------------------------------------------
(* The handlers of /oauth. The grants establish the user first and issue    *)
(* tokens afterwards; the clock, the clean-up, other requests and a restart *)
(* come in between.                                                         *)

Ask ==
    /\ requests < MaxRequests
    /\ requests' = requests + 1

\* grant_type=password, up to the answer of the password authenticator.
PasswordGrant(s, u) ==
    /\ Ask
    /\ u # Anonymous
    /\ logins' = [logins EXCEPT ![u] = @ + 1]
    /\ granted' = [granted EXCEPT ![s][u] = @ + 1]
    /\ UNCHANGED <<now, issued, cache, restarts>>

\* Mutant of RefreshTokenGrant: the issuer verifies the token, not the operator.
RefreshSignedGrant(s, t) ==
    /\ Ask
    /\ JwtValid(s, t)
    /\ granted' = [granted EXCEPT ![s][t.user] = @ + 1]
    /\ UNCHANGED <<now, issued, cache, logins, restarts>>

\* grant_type=refresh_token, up to the answer of Verify: any token will do that
\* the server accepts, of any type.
RefreshTokenGrant(s, t) ==
    /\ Ask
    /\ Verify(s, t)
    /\ granted' = [granted EXCEPT ![s][t.user] = @ + 1]
    /\ UNCHANGED <<now, issued, cache, logins, restarts>>

\* The rest of either grant. What was issued to the user before stays.
IssueGranted(s, u) ==
    /\ granted[s][u] > 0
    /\ IssueBearer(s, u)
    /\ granted' = [granted EXCEPT ![s][u] = @ - 1]
    /\ UNCHANGED <<now, logins, requests, restarts>>

\* POST /oauth/statictoken: the user is that of the request, which is
\* system:anonymous whatever the request presents.
CreateToken(s) ==
    /\ Ask
    /\ IssueStatic(s, Anonymous)
    /\ UNCHANGED <<now, logins, granted, restarts>>

-----------------------------------------------------------------------------
(* Time, the clean-up, and restarts.                                       *)

Tick ==
    /\ now < MaxTime
    /\ now' = now + 1
    /\ UNCHANGED <<issued, cache, logins, granted, requests, restarts>>

\* Mutant of CleanInvalidToken: what is not overdue goes.
CleanValidToken(s) ==
    /\ \E e \in cache[s] : e.until >= Clock(s)
    /\ cache' = [cache EXCEPT ![s] = {e \in @ : e.until < Clock(s)}]
    /\ UNCHANGED <<now, issued, logins, granted, requests, restarts>>

\* Deadlines are finer than a second: an entry whose second has come may go or
\* stay.
CleanInvalidToken(s) ==
    \E due \in SUBSET {e \in cache[s] : e.until = Clock(s)} :
        LET gone == due \cup {e \in cache[s] : e.until < Clock(s)} IN
        /\ gone # {}
        /\ cache' = [cache EXCEPT ![s] = @ \ gone]
        /\ UNCHANGED <<now, issued, logins, granted, requests, restarts>>

\* A server is started anew, or reloads its configuration: NewAPIServer makes
\* an empty cache. Requests it worked on are lost, or leave their tokens in the
\* cache that nobody asks any more.
Restart(s) ==
    /\ restarts < MaxRestarts
    /\ restarts' = restarts + 1
    /\ cache' = [cache EXCEPT ![s] = {}]
    /\ granted' = [granted EXCEPT ![s] = [u \in Users |-> 0]]
    /\ UNCHANGED <<now, issued, logins, requests>>

-----------------------------------------------------------------------------
Init ==
    /\ now = Skew + 1
    /\ issued = {}
    /\ logins = [u \in Users |-> 0]
    /\ cache = [s \in Servers |-> {}]
    /\ granted = [s \in Servers |-> [u \in Users |-> 0]]
    /\ requests = 0 /\ restarts = 0

Next ==
    \/ \E s \in Servers, u \in Users : PasswordGrant(s, u) \/ IssueGranted(s, u)
    \/ \E s \in Servers, t \in issued : RefreshTokenGrant(s, t)
    \/ \E s \in Servers : CreateToken(s) \/ CleanInvalidToken(s) \/ Restart(s)
    \/ Tick

Spec == Init /\ [][Next]_vars

\* The clock runs, and wait.Until calls the clean-up again and again.
FairSpec == Spec /\ WF_vars(Tick) /\ \A s \in Servers : WF_vars(CleanInvalidToken(s))

-----------------------------------------------------------------------------
(* Properties.                                                             *)

Issued(t) == \E s \in Servers : t.iat + Skew <= Clock(s)

\* Every variable holds a value of its type, what is cached was issued, and no
\* token was issued in the future.
TypeOK ==
    /\ now \in Nat /\ now > Skew
    /\ issued \subseteq Token
    /\ cache \in [Servers -> SUBSET Entry]
    /\ \A s \in Servers : Cached(s) \subseteq issued
    /\ \A t \in issued : Issued(t)
    /\ logins \in [Users -> Nat]
    /\ granted \in [Servers -> [Users -> Nat]]
    /\ requests \in Nat /\ restarts \in Nat

\* A server that restarts forgets; otherwise an accepted token is accepted up
\* to its last second: neither the clean-up nor a later login, a refresh or a
\* static token ends it, on any server. Nor does not using it, although the
\* options say of AccessTokenInactivityTimeout that "Tokens become invalid if
\* they are not used within this temporal window": the code only adds it to the
\* age of the refresh token.
EndsOnlyByTime ==
    [][\A s \in Servers : \A t \in issued :
          Verify(s, t) /\ ~Verify(s, t)' =>
             \/ cache'[s] = {} /\ restarts' # restarts
             \/ t.exp # 0 /\ Clock(s)' >= t.exp]_vars

\* The refresh token that came with access token t.
RefreshOf(t) == [user |-> t.user, type |-> "refresh", iat |-> t.iat, exp |-> t.exp + Inactivity]

\* As long as an access token that expires is accepted, and before its last
\* second, its refresh token is accepted by the same server: restarts and the
\* clean-up take both or the access token first.
Renewable ==
    \A s \in Servers : \A t \in issued :
        MaxAge > 0 /\ t.type = "access" /\ Verify(s, t) /\ Clock(s) < t.exp
            => Verify(s, RefreshOf(t))

\* "The maximum time difference between the system clocks of the ks-apiserver
\* that issued a JWT and the ks-apiserver that verified the JWT": a static token
\* is accepted at once by every server whose clock differs by no more.
SkewTolerated ==
    \A s \in Servers : \A t \in issued : t.type = "static" => Verify(s, t)

\* Entries do not stay in the cache for ever.
EventuallySwept ==
    \A s \in Servers : []<>(\A e \in cache[s] : e.until >= Clock(s))

S == INSTANCE Sessions WITH open <- [s \in Servers |-> {t \in issued : Verify(s, t)}]

\* The operator with its signatures, caches and clocks keeps the promise of
\* Sessions: a server opens tokens only in answer to requests it accepted, each
\* once, and it accepted them from a user who gave the password or presented a
\* token open there then; what is closed opens only so. Any number of sessions
\* of one user are open at once: the option MultipleLogin ("disable means only
\* one user can login at the same time", false by default) is read nowhere.
SessionsPromise == S!Spec

=============================================================================
