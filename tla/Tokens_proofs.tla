---------------------------- MODULE Tokens_proofs ----------------------------
(* Proofs about Tokens, for any servers, users, clocks within the skew,     *)
(* ages and bounds.                                                         *)
EXTENDS Tokens, TLAPS

\* A cache entry outlives its token by the skew; so an access token leaves the
\* cache before its refresh token, or in the second it ends.
EntryOK(s, e) ==
    /\ e.token.exp # 0 /\ e.until = e.token.exp + Skew
    /\ e.token.type = "access" =>
          RefreshOf(e.token) \in Cached(s) \/ Clock(s) >= e.token.exp

Inv ==
    /\ TypeOK
    /\ \A t \in issued : t.type = "static" => t.exp = 0
    /\ \A s \in Servers : \A e \in cache[s] : EntryOK(s, e)

\* Servers' clocks show natural numbers.
LEMMA ClockType == ASSUME now \in Nat, NEW s \in Servers
                   PROVE  Clock(s) \in Nat /\ now <= Clock(s) /\ Clock(s) <= now + Skew
  BY ClocksAssumption DEF Clock

\* What is issued is dated back far enough for every server's clock.
LEMMA NotBefore == ASSUME Inv, NEW t \in issued, NEW s \in Servers
                   PROVE  t.iat <= Clock(s)
  <1>1. now \in Nat /\ t.iat \in Nat /\ Skew \in Nat
    BY ClocksAssumption DEF Inv, TypeOK, Token
  <1>2. PICK r \in Servers : t.iat + Skew <= Clock(r)
    BY DEF Inv, TypeOK, Issued
  <1>3. Clock(r) <= now + Skew /\ now <= Clock(s) /\ Clock(r) \in Nat /\ Clock(s) \in Nat
    BY <1>1, ClockType
  <1> QED
    BY <1>1, <1>2, <1>3

\* Signed claims are a token, dated Skew before the clock of the server.
LEMMA JwtType ==
    ASSUME TypeOK, NEW s \in Servers, NEW u \in Users, NEW type \in Types, NEW d \in Nat
    PROVE  /\ Jwt(s, u, type, d) \in Token
           /\ Jwt(s, u, type, d).user = u /\ Jwt(s, u, type, d).type = type
           /\ Jwt(s, u, type, d).iat + Skew = Clock(s)
           /\ d = 0 => Jwt(s, u, type, d).exp = 0
           /\ d > 0 => /\ Jwt(s, u, type, d).exp # 0
                       /\ Jwt(s, u, type, d).exp + Skew = Clock(s) + d
  <1>1. now \in Nat /\ now > Skew /\ Skew \in Nat /\ Clock(s) \in Nat /\ now <= Clock(s)
    BY ClocksAssumption, ClockType DEF TypeOK
  <1>2. IssuedAt(s) \in Nat /\ IssuedAt(s) + Skew = Clock(s)
    BY <1>1 DEF IssuedAt
  <1> HIDE DEF IssuedAt
  <1>3. IssuedAt(s) + d \in Nat /\ (d > 0 => IssuedAt(s) + d # 0)
    BY <1>2
  <1> QED
    BY <1>1, <1>2, <1>3 DEF Jwt, Token

TokensOf(entries) == {e.token : e \in entries}

\* Storing a token adds it and keeps every other.
LEMMA StoreKeeps ==
    ASSUME NEW entries \in SUBSET Entry, NEW t \in Token, NEW until \in Nat
    PROVE  /\ Store(entries, t, until) \in SUBSET Entry
           /\ TokensOf(Store(entries, t, until)) = TokensOf(entries) \cup {t}
           /\ \A e \in Store(entries, t, until) :
                 e \in entries \/ (e.token = t /\ e.until = until)
  <1> DEFINE new == [token |-> t, until |-> until]
  <1>1. new \in Entry /\ new.token = t /\ new.until = until
    BY DEF Entry
  <1> HIDE DEF new
  <1>2. Store(entries, t, until) = {e \in entries : e.token # t} \cup {new}
    BY DEF Store, new
  <1> QED
    BY <1>1, <1>2 DEF TokensOf

\* A bearer token and a static token are issued with these ages.
Ages(type, age, idle) ==
    \/ type = "access" /\ age = MaxAge /\ idle = Inactivity
    \/ type = "static" /\ age = 0 /\ idle = 0

\* Issuing adds one access or static token and one refresh token, which the
\* cache holds, with their deadlines, if they expire.
LEMMA IssueAdds ==
    ASSUME Inv, NEW s \in Servers, NEW u \in Users, NEW type, NEW age, NEW idle,
           Ages(type, age, idle), IssueTo(s, u, type, age, idle)
    PROVE  \E x \in Token, y \in Token :
              /\ issued' = issued \cup {x, y}
              /\ x.user = u /\ y.user = u /\ x.type = type /\ y.type = "refresh"
              /\ x.iat + Skew = Clock(s) /\ y.iat + Skew = Clock(s)
              /\ type = "static" => x.exp = 0
              /\ cache' \in [Servers -> SUBSET Entry]
              /\ \A r \in Servers \ {s} : cache'[r] = cache[r]
              /\ \A e \in cache'[s] :
                    \/ e \in cache[s]
                    \/ /\ e.token \in {x, y} /\ e.token.exp # 0
                       /\ e.until = e.token.exp + Skew
                       /\ type = "access"
                       /\ RefreshOf(x) = y
              /\ \/ Cached(s)' = Cached(s)
                 \/ Cached(s)' = Cached(s) \cup {x, y}
              /\ \A e \in cache'[s] : e \in cache[s] \/ {x, y} \subseteq Cached(s)'
  <1> DEFINE x == Jwt(s, u, type, age)
             y == Jwt(s, u, "refresh", RefreshAge(age, idle))
             dx == Clock(s) + age
             dy == Clock(s) + RefreshAge(age, idle)
             once == Store(cache[s], x, dx)
             both == Store(once, y, dy)
  <1>1. age \in Nat /\ idle \in Nat /\ RefreshAge(age, idle) \in Nat /\ type \in Types
        /\ "refresh" \in Types /\ RefreshAge(age, idle) = age + idle
    BY AgesAssumption DEF Ages, RefreshAge, Types
  <1>2. TypeOK /\ now \in Nat /\ Skew \in Nat /\ Clock(s) \in Nat
    BY ClocksAssumption, ClockType DEF Inv, TypeOK
  <1>3. /\ x \in Token /\ x.user = u /\ x.type = type /\ x.iat + Skew = Clock(s)
        /\ age = 0 => x.exp = 0
        /\ age > 0 => x.exp # 0 /\ x.exp + Skew = dx
    BY <1>1, <1>2, JwtType
  <1>4. /\ y \in Token /\ y.user = u /\ y.type = "refresh" /\ y.iat + Skew = Clock(s)
        /\ age > 0 => y.exp # 0 /\ y.exp + Skew = dy
    BY <1>1, <1>2, JwtType
  <1>5. issued' = issued \cup {x, y}
        /\ (age = 0 => cache' = cache)
        /\ (age # 0 => cache' = [cache EXCEPT ![s] = both])
    BY DEF IssueTo
  <1>6. age > 0 => RefreshOf(x) = y
    <2> SUFFICES ASSUME age > 0 PROVE RefreshOf(x) = y
      OBVIOUS
    <2>1. type = "access" /\ idle = Inactivity
      BY DEF Ages
    <2>2. x = [user |-> u, type |-> type, iat |-> IssuedAt(s), exp |-> IssuedAt(s) + age]
          /\ y = [user |-> u, type |-> "refresh", iat |-> IssuedAt(s),
                  exp |-> IssuedAt(s) + (age + idle)]
      BY <1>1 DEF Jwt
    <2>3. IssuedAt(s) \in Int
      BY <1>2 DEF IssuedAt
    <2> HIDE DEF x, y
    <2>4. IssuedAt(s) + (age + idle) = (IssuedAt(s) + age) + Inactivity
      BY <1>1, <2>1, <2>3
    <2>5. RefreshOf(x) = [user |-> u, type |-> "refresh", iat |-> IssuedAt(s),
                          exp |-> (IssuedAt(s) + age) + Inactivity]
      BY <2>2 DEF RefreshOf
    <2> QED
      BY <2>2, <2>4, <2>5
  <1>7. cache \in [Servers -> SUBSET Entry] /\ dx \in Nat /\ dy \in Nat
    BY <1>1, <1>2 DEF TypeOK
  <1> HIDE DEF x, y, dx, dy
  <1>8. once \in SUBSET Entry
        /\ TokensOf(once) = TokensOf(cache[s]) \cup {x}
        /\ \A e \in once : e \in cache[s] \/ (e.token = x /\ e.until = dx)
    <2>1. cache[s] \in SUBSET Entry
      BY <1>7
    <2> QED
      BY <1>3, <1>7, <2>1, StoreKeeps
  <1> HIDE DEF once
  <1>9. both \in SUBSET Entry
        /\ TokensOf(both) = TokensOf(once) \cup {y}
        /\ \A e \in both : e \in once \/ (e.token = y /\ e.until = dy)
    BY <1>4, <1>7, <1>8, StoreKeeps
  <1> HIDE DEF both
  <1>10. /\ cache' \in [Servers -> SUBSET Entry]
         /\ \A r \in Servers \ {s} : cache'[r] = cache[r]
         /\ \A e \in cache'[s] :
               \/ e \in cache[s]
               \/ /\ e.token \in {x, y} /\ e.token.exp # 0
                  /\ e.until = e.token.exp + Skew
                  /\ type = "access"
                  /\ RefreshOf(x) = y
         /\ \/ Cached(s)' = Cached(s)
            \/ Cached(s)' = Cached(s) \cup {x, y}
         /\ \A e \in cache'[s] : e \in cache[s] \/ {x, y} \subseteq Cached(s)'
    <2>1. CASE age = 0
      BY <1>5, <1>7, <2>1 DEF Cached
    <2>2. CASE age # 0
      <3>1. cache' = [cache EXCEPT ![s] = both]
        BY <1>5, <2>2
      <3>2. cache'[s] = both /\ cache' \in [Servers -> SUBSET Entry]
            /\ \A r \in Servers \ {s} : cache'[r] = cache[r]
        BY <3>1, <1>7, <1>9
      <3>3. Cached(s)' = Cached(s) \cup {x, y}
        BY <3>2, <1>8, <1>9 DEF Cached, TokensOf
      <3>4. type = "access" /\ age > 0
        BY <1>1, <2>2 DEF Ages
      <3>5. \A e \in cache'[s] : \/ e \in cache[s]
                                 \/ e.token \in {x, y} /\ e.token.exp # 0
                                    /\ e.until = e.token.exp + Skew
        BY <3>2, <3>4, <1>3, <1>4, <1>8, <1>9
      <3> QED
        BY <1>6, <3>2, <3>3, <3>4, <3>5
    <2> QED
      BY <2>1, <2>2
  <1>11. type = "static" => x.exp = 0
    BY <1>3 DEF Ages
  <1>12. issued' = issued \cup {x, y}
    BY <1>5
  <1> QED
    BY <1>3, <1>4, <1>10, <1>11, <1>12

\* What is to be known of the counters of requests.
CountsOK == /\ logins \in [Users -> Nat] /\ granted \in [Servers -> [Users -> Nat]]
            /\ requests \in Nat /\ restarts \in Nat

\* Issuing keeps the invariant; nobody's token is refused afterwards, and the
\* tokens that are accepted only then are of the user they were issued to.
LEMMA IssueStep ==
    ASSUME Inv, NEW s \in Servers, NEW u \in Users, NEW type, NEW age, NEW idle,
           Ages(type, age, idle), IssueTo(s, u, type, age, idle),
           CountsOK', UNCHANGED <<now, restarts>>
    PROVE  /\ Inv'
           /\ \A r \in Servers : \A t \in issued : Verify(r, t) => t \in issued' /\ Verify(r, t)'
           /\ \A r \in Servers : \A t \in issued' :
                 Verify(r, t)' => t.user = u \/ (t \in issued /\ Verify(r, t))
  <1>1. PICK x \in Token, y \in Token :
              /\ issued' = issued \cup {x, y}
              /\ x.user = u /\ y.user = u /\ x.type = type /\ y.type = "refresh"
              /\ x.iat + Skew = Clock(s) /\ y.iat + Skew = Clock(s)
              /\ type = "static" => x.exp = 0
              /\ cache' \in [Servers -> SUBSET Entry]
              /\ \A r \in Servers \ {s} : cache'[r] = cache[r]
              /\ \A e \in cache'[s] :
                    \/ e \in cache[s]
                    \/ /\ e.token \in {x, y} /\ e.token.exp # 0
                       /\ e.until = e.token.exp + Skew
                       /\ type = "access"
                       /\ RefreshOf(x) = y
              /\ \/ Cached(s)' = Cached(s)
                 \/ Cached(s)' = Cached(s) \cup {x, y}
              /\ \A e \in cache'[s] : e \in cache[s] \/ {x, y} \subseteq Cached(s)'
    BY IssueAdds
  <1>2. \A r \in Servers : Clock(r)' = Clock(r)
    BY DEF Clock
  <1>3. \A r \in Servers : /\ Cached(r) \subseteq Cached(r)'
                           /\ Cached(r)' \subseteq Cached(r) \cup {x, y}
    BY <1>1 DEF Cached
  <1>4. TypeOK'
    <2>1. issued' \subseteq Token /\ \A r \in Servers : Cached(r)' \subseteq issued'
      BY <1>1, <1>3 DEF Inv, TypeOK
    <2>2. \A t \in issued' : Issued(t)'
      <3> SUFFICES ASSUME NEW t \in issued' PROVE \E r \in Servers : t.iat + Skew <= Clock(r)
        BY <1>2 DEF Issued
      <3>1. CASE t \in issued
        BY <3>1 DEF Inv, TypeOK, Issued
      <3>2. CASE t \in {x, y}
        <4>1. t.iat + Skew = Clock(s) /\ Clock(s) \in Nat
          BY <1>1, <3>2, ClockType DEF Inv, TypeOK
        <4>2. t.iat + Skew <= Clock(s)
          BY <4>1
        <4> QED
          BY <4>2
      <3> QED
        BY <1>1, <3>1, <3>2
    <2> QED
      BY <1>1, <2>1, <2>2 DEF Inv, TypeOK, CountsOK
  <1>5. \A t \in issued' : t.type = "static" => t.exp = 0
    BY <1>1 DEF Inv
  <1>6. ASSUME NEW r \in Servers, NEW e \in cache'[r] PROVE EntryOK(r, e)'
    <2>1. CASE e \in cache[r]
      BY <1>2, <1>3, <2>1 DEF Inv, EntryOK
    <2>2. CASE e \notin cache[r]
      <3>1. r = s
        BY <1>1, <2>2
      <3>2. e.token \in {x, y} /\ e.token.exp # 0 /\ e.until = e.token.exp + Skew
            /\ RefreshOf(x) = y /\ y \in Cached(r)'
        BY <1>1, <2>2, <3>1
      <3>3. e.token.type = "access" => e.token = x
        BY <1>1, <3>2
      <3> QED
        BY <3>2, <3>3 DEF EntryOK
    <2> QED
      BY <2>1, <2>2
  <1>7. Inv'
    BY <1>4, <1>5, <1>6 DEF Inv
  <1>8. \A r \in Servers : \A t : JwtValid(r, t)' <=> JwtValid(r, t)
    BY <1>2 DEF JwtValid
  <1> QED
    BY <1>1, <1>3, <1>7, <1>8 DEF Verify

\* The invariant holds before anything is issued.
LEMMA InitInv == Init => Inv
  BY ClocksAssumption DEF Init, Inv, TypeOK, Cached

\* As time passes, tokens end and none begins.
LEMMA TickStep ==
    ASSUME Inv, Tick
    PROVE  /\ Inv'
           /\ \A s \in Servers : \A t \in issued : Verify(s, t)' => Verify(s, t)
           /\ \A s \in Servers : \A t \in issued :
                 Verify(s, t) /\ ~Verify(s, t)' => t.exp # 0 /\ Clock(s)' >= t.exp
  <1>1. now \in Nat /\ now' = now + 1 /\ UNCHANGED <<issued, cache, logins, granted, requests, restarts>>
    BY DEF Tick, Inv, TypeOK
  <1>2. ASSUME NEW s \in Servers PROVE Clock(s) \in Nat /\ Clock(s)' = Clock(s) + 1
    BY <1>1, ClocksAssumption DEF Clock
  <1>3. ASSUME NEW t \in issued PROVE t.iat \in Nat /\ t.exp \in Nat /\ Issued(t)'
    <2>1. t.iat \in Nat /\ t.exp \in Nat
      BY DEF Inv, TypeOK, Token
    <2>2. PICK s \in Servers : t.iat + Skew <= Clock(s)
      BY DEF Inv, TypeOK, Issued
    <2>3. t.iat + Skew <= Clock(s)'
      BY <1>2, <2>1, <2>2, ClocksAssumption
    <2> QED
      BY <2>1, <2>3 DEF Issued
  <1>4. TypeOK'
    <2>1. now' > Skew /\ now' \in Nat
      BY <1>1, ClocksAssumption DEF Inv, TypeOK
    <2>2. \A s \in Servers : Cached(s)' = Cached(s)
      BY <1>1 DEF Cached
    <2> QED
      BY <1>1, <1>3, <2>1, <2>2 DEF Inv, TypeOK
  <1>5. ASSUME NEW s \in Servers, NEW e \in cache'[s] PROVE EntryOK(s, e)'
    <2>1. e \in cache[s] /\ e.token \in issued
      BY <1>1 DEF Inv, TypeOK, Cached
    <2>2. EntryOK(s, e) /\ Cached(s)' = Cached(s)
      BY <1>1, <2>1 DEF Inv, Cached
    <2>3. e.token.exp \in Nat
      BY <1>3, <2>1
    <2>4. Clock(s) >= e.token.exp => Clock(s)' >= e.token.exp
      BY <1>2, <2>3
    <2> QED
      BY <2>2, <2>4 DEF EntryOK
  <1>6. Inv'
    BY <1>1, <1>4, <1>5 DEF Inv
  <1>7. ASSUME NEW s \in Servers, NEW t \in issued
        PROVE  /\ JwtValid(s, t)' => JwtValid(s, t)
               /\ JwtValid(s, t) /\ ~JwtValid(s, t)' => t.exp # 0 /\ Clock(s)' >= t.exp
    <2>1. t.iat <= Clock(s)
      BY NotBefore
    <2>2. t.iat \in Nat /\ t.exp \in Nat /\ Clock(s) \in Nat /\ Clock(s)' = Clock(s) + 1
      BY <1>2, <1>3
    <2> QED
      BY <2>1, <2>2 DEF JwtValid
  <1>8. \A s \in Servers : Cached(s)' = Cached(s)
    BY <1>1 DEF Cached
  <1> QED
    BY <1>6, <1>7, <1>8 DEF Verify

\* A step that only takes entries out of the caches, and takes a refresh token
\* no earlier than its access token ends.
LEMMA DropStep ==
    ASSUME Inv, UNCHANGED <<now, issued>>, CountsOK',
           cache' \in [Servers -> SUBSET Entry],
           \A s \in Servers : cache'[s] \subseteq cache[s],
           \A s \in Servers : cache'[s] = {} \/
              \A e \in cache[s] \ cache'[s] : e.until <= Clock(s)
    PROVE  /\ Inv'
           /\ \A s \in Servers : \A t \in issued : Verify(s, t)' => Verify(s, t)
           /\ \A s \in Servers : \A t \in issued :
                 Verify(s, t) /\ ~Verify(s, t)' =>
                    cache'[s] = {} \/ (t.exp # 0 /\ Clock(s)' >= t.exp)
  <1>1. \A s \in Servers : Clock(s)' = Clock(s) /\ Cached(s)' \subseteq Cached(s)
    BY DEF Clock, Cached
  <1>2. \A s \in Servers : \A t : JwtValid(s, t)' <=> JwtValid(s, t)
    BY <1>1 DEF JwtValid
  <1>3. ASSUME NEW s \in Servers, cache'[s] # {}, NEW t \in Cached(s), t \notin Cached(s)'
        PROVE  t.exp # 0 /\ Clock(s) >= t.exp
    <2>1. PICK e \in cache[s] : e.token = t
      BY <1>3 DEF Cached
    <2>2. e \notin cache'[s]
      BY <1>3, <2>1 DEF Cached
    <2>3. e.until <= Clock(s) /\ e.until = t.exp + Skew /\ t.exp # 0
      BY <1>3, <2>1, <2>2 DEF Inv, EntryOK
    <2>4. t.exp \in Nat /\ Skew \in Nat /\ Clock(s) \in Nat
      BY <2>1, ClockType, ClocksAssumption DEF Inv, TypeOK, Entry, Token
    <2> QED
      BY <2>3, <2>4
  <1>4. ASSUME NEW s \in Servers, NEW e \in cache'[s] PROVE EntryOK(s, e)'
    <2>1. EntryOK(s, e) /\ e.token \in Token
      BY DEF Inv, TypeOK, Entry
    <2>2. CASE e.token.type = "access" /\ RefreshOf(e.token) \in Cached(s)
                                       /\ RefreshOf(e.token) \notin Cached(s)'
      <3>1. RefreshOf(e.token).exp = e.token.exp + Inactivity
        BY DEF RefreshOf
      <3>2. Clock(s) >= e.token.exp + Inactivity
        BY <1>3, <2>2, <3>1
      <3>3. Clock(s) >= e.token.exp
        BY <2>1, <3>2, AgesAssumption, ClockType DEF Token, Inv, TypeOK
      <3> QED
        BY <1>1, <2>1, <3>3 DEF EntryOK
    <2>3. CASE ~(e.token.type = "access" /\ RefreshOf(e.token) \in Cached(s)
                                         /\ RefreshOf(e.token) \notin Cached(s)')
      BY <1>1, <2>1, <2>3 DEF EntryOK
    <2> QED
      BY <2>2, <2>3
  <1>5. TypeOK'
    <2>1. \A t \in issued : Issued(t)'
      BY <1>1 DEF Inv, TypeOK, Issued
    <2> QED
      BY <1>1, <2>1 DEF Inv, TypeOK, CountsOK
  <1>6. Inv'
    BY <1>4, <1>5 DEF Inv
  <1> QED
    BY <1>1, <1>2, <1>3, <1>6 DEF Verify

\* What a step may do to the tokens that are accepted.
Kept == \A r \in Servers : \A t \in issued : Verify(r, t) => t \in issued' /\ Verify(r, t)'

Opens(u) == \A r \in Servers : \A t \in issued' :
                Verify(r, t)' => t.user = u \/ (t \in issued /\ Verify(r, t))

Closes == /\ issued' = issued
          /\ \A r \in Servers : \A t \in issued : Verify(r, t)' => Verify(r, t)

Ends == \A s \in Servers : \A t \in issued :
          Verify(s, t) /\ ~Verify(s, t)' =>
             \/ cache'[s] = {} /\ restarts' # restarts
             \/ t.exp # 0 /\ Clock(s)' >= t.exp

\* A step that issues and drops nothing.
LEMMA CountStep ==
    ASSUME Inv, UNCHANGED <<now, issued, cache>>, CountsOK'
    PROVE  Inv' /\ Kept /\ Closes
  <1>1. \A s \in Servers : Clock(s)' = Clock(s) /\ Cached(s)' = Cached(s)
    BY DEF Clock, Cached
  <1>2. \A s \in Servers : \A t : Verify(s, t)' <=> Verify(s, t)
    BY <1>1 DEF Verify, JwtValid
  <1>3. TypeOK'
    BY <1>1 DEF Inv, TypeOK, Issued, CountsOK
  <1>4. Inv'
    BY <1>1, <1>3 DEF Inv, EntryOK
  <1> QED
    BY <1>2, <1>4 DEF Kept, Closes

\* The clean-up takes entries whose deadline has come.
LEMMA CleanDrops ==
    ASSUME Inv, NEW s \in Servers, CleanInvalidToken(s)
    PROVE  /\ UNCHANGED <<now, issued, logins, granted, requests, restarts>>
           /\ cache' \in [Servers -> SUBSET Entry]
           /\ \A r \in Servers : cache'[r] \subseteq cache[r]
           /\ \A r \in Servers : \A e \in cache[r] \ cache'[r] : e.until <= Clock(r)
  <1>1. PICK due \in SUBSET {e \in cache[s] : e.until = Clock(s)} :
           cache' = [cache EXCEPT ![s] = @ \ (due \cup {e \in cache[s] : e.until < Clock(s)})]
    BY DEF CleanInvalidToken
  <1>2. cache \in [Servers -> SUBSET Entry] /\ Clock(s) \in Nat
    BY ClockType DEF Inv, TypeOK
  <1>3. \A e \in cache[s] : e.until \in Nat
    BY <1>2 DEF Entry
  <1>4. \A e \in due : e.until = Clock(s)
    OBVIOUS
  <1>5. /\ cache' \in [Servers -> SUBSET Entry]
        /\ \A r \in Servers \ {s} : cache'[r] = cache[r]
        /\ cache'[s] = cache[s] \ (due \cup {e \in cache[s] : e.until < Clock(s)})
    BY <1>1, <1>2
  <1>6. ASSUME NEW r \in Servers, NEW e \in cache[r] \ cache'[r]
        PROVE  e.until <= Clock(r)
    <2>1. r = s
      BY <1>5
    <2>2. e \in due \/ e.until < Clock(s)
      BY <1>5, <2>1
    <2>3. e.until \in Nat
      BY <1>3, <2>1
    <2> QED
      BY <1>2, <1>4, <2>1, <2>2, <2>3
  <1>7. UNCHANGED <<now, issued, logins, granted, requests, restarts>>
    BY DEF CleanInvalidToken
  <1> QED
    BY <1>5, <1>6, <1>7

\* How a step looks to the abstract specification.
LogsIn(s, u) == /\ u # Anonymous
                /\ logins' = [logins EXCEPT ![u] = @ + 1]
                /\ granted' = [granted EXCEPT ![s][u] = @ + 1]
                /\ Kept /\ Closes

Extends(s, t) == /\ Verify(s, t)
                 /\ logins' = logins
                 /\ granted' = [granted EXCEPT ![s][t.user] = @ + 1]
                 /\ Kept /\ Closes

Answers(s, u) == /\ granted[s][u] > 0
                 /\ granted' = [granted EXCEPT ![s][u] = @ - 1]
                 /\ logins' = logins
                 /\ Kept /\ Opens(u)

AnswersAnyone == /\ logins' = logins /\ granted' = granted
                 /\ Kept /\ Opens(Anonymous)

Loses == /\ logins' = logins /\ Closes
         /\ DOMAIN granted' = Servers
         /\ \A s \in Servers : granted'[s] \in {granted[s], [u \in Users |-> 0]}

\* Every step keeps the invariant, ends tokens only as EndsOnlyByTime says, and
\* is a request accepted, one answered, or an end of some sessions.
LEMMA NextStep ==
    ASSUME Inv, [Next]_vars
    PROVE  /\ Inv' /\ Ends
           /\ \/ \E s \in Servers, u \in Users : LogsIn(s, u)
              \/ \E s \in Servers, t \in issued : Extends(s, t)
              \/ \E s \in Servers, u \in Users : Answers(s, u)
              \/ AnswersAnyone
              \/ Loses
  <1>0. /\ CountsOK
        /\ \A t \in issued : t.user \in Users
        /\ DOMAIN granted = Servers
    BY DEF Inv, TypeOK, Token, CountsOK
  <1>a. Kept => Ends
    BY DEF Kept, Ends
  <1>1. ASSUME NEW s \in Servers, NEW u \in Users, PasswordGrant(s, u)
        PROVE  Inv' /\ LogsIn(s, u)
    <2>1. CountsOK' /\ UNCHANGED <<now, issued, cache>>
      BY <1>0, <1>1 DEF PasswordGrant, Ask, CountsOK
    <2> QED
      BY <1>1, <2>1, CountStep DEF PasswordGrant, LogsIn
  <1>2. ASSUME NEW s \in Servers, NEW t \in issued, RefreshTokenGrant(s, t)
        PROVE  Inv' /\ Extends(s, t)
    <2>1. CountsOK' /\ UNCHANGED <<now, issued, cache>>
      BY <1>0, <1>2 DEF RefreshTokenGrant, Ask, CountsOK
    <2> QED
      BY <1>2, <2>1, CountStep DEF RefreshTokenGrant, Extends
  <1>3. ASSUME NEW s \in Servers, NEW u \in Users, IssueGranted(s, u)
        PROVE  Inv' /\ Answers(s, u)
    <2>1. CountsOK' /\ UNCHANGED <<now, restarts>>
      BY <1>0, <1>3 DEF IssueGranted, CountsOK
    <2>2. IssueTo(s, u, "access", MaxAge, Inactivity) /\ Ages("access", MaxAge, Inactivity)
      BY <1>3 DEF IssueGranted, IssueBearer, Ages
    <2>3. Inv' /\ Kept /\ Opens(u)
      BY <2>1, <2>2, IssueStep DEF Kept, Opens
    <2> QED
      BY <1>3, <2>3 DEF IssueGranted, Answers
  <1>4. ASSUME NEW s \in Servers, CreateToken(s)
        PROVE  Inv' /\ AnswersAnyone
    <2>1. CountsOK' /\ UNCHANGED <<now, restarts>>
      BY <1>0, <1>4 DEF CreateToken, Ask, CountsOK
    <2>2. IssueTo(s, Anonymous, "static", 0, 0) /\ Ages("static", 0, 0) /\ Anonymous \in Users
      BY <1>4, AnonymousAssumption DEF CreateToken, IssueStatic, Ages
    <2>3. Inv' /\ Kept /\ Opens(Anonymous)
      BY <2>1, <2>2, IssueStep DEF Kept, Opens
    <2> QED
      BY <1>4, <2>3 DEF CreateToken, AnswersAnyone
  <1>5. ASSUME Tick PROVE Inv' /\ Ends /\ Loses
    <2>1. UNCHANGED <<issued, logins, granted>>
      BY <1>5 DEF Tick
    <2> QED
      BY <1>0, <1>5, <2>1, TickStep DEF Ends, Closes, Loses
  <1>6. ASSUME NEW s \in Servers, CleanInvalidToken(s) PROVE Inv' /\ Ends /\ Loses
    <2>1. /\ UNCHANGED <<now, issued, logins, granted, requests, restarts>>
          /\ cache' \in [Servers -> SUBSET Entry]
          /\ \A r \in Servers : cache'[r] \subseteq cache[r]
          /\ \A r \in Servers : \A e \in cache[r] \ cache'[r] : e.until <= Clock(r)
      BY <1>6, CleanDrops
    <2>2. CountsOK'
      BY <1>0, <2>1 DEF CountsOK
    <2>3. /\ Inv' /\ Closes
          /\ \A r \in Servers : \A t \in issued :
                Verify(r, t) /\ ~Verify(r, t)' =>
                    cache'[r] = {} \/ (t.exp # 0 /\ Clock(r)' >= t.exp)
      BY <2>1, <2>2, DropStep DEF Closes
    <2>4. ASSUME NEW r \in Servers, NEW t \in issued, Verify(r, t), ~Verify(r, t)'
          PROVE  t.exp # 0 /\ Clock(r)' >= t.exp
      <3>1. JwtValid(r, t)' <=> JwtValid(r, t)
        BY <2>1 DEF JwtValid, Clock
      <3>2. t \in Cached(r) /\ t \notin Cached(r)'
        BY <2>4, <3>1 DEF Verify
      <3>3. PICK e \in cache[r] : e.token = t
        BY <3>2 DEF Cached
      <3>4. e \notin cache'[r]
        BY <3>2, <3>3 DEF Cached
      <3>5. e.until <= Clock(r) /\ e.until = t.exp + Skew /\ t.exp # 0 /\ Clock(r)' = Clock(r)
        BY <2>1, <3>3, <3>4 DEF Inv, EntryOK, Clock
      <3>6. t.exp \in Nat /\ Skew \in Nat /\ Clock(r) \in Nat
        BY ClockType, ClocksAssumption DEF Inv, TypeOK, Token
      <3> QED
        BY <3>5, <3>6
    <2>5. Loses
      BY <1>0, <2>1, <2>3 DEF Loses
    <2> QED
      BY <2>3, <2>4, <2>5 DEF Ends
  <1>7. ASSUME NEW s \in Servers, Restart(s) PROVE Inv' /\ Ends /\ Loses
    <2>1. /\ UNCHANGED <<now, issued, logins, requests>>
          /\ restarts' = restarts + 1 /\ cache' = [cache EXCEPT ![s] = {}]
          /\ granted' = [granted EXCEPT ![s] = [u \in Users |-> 0]]
      BY <1>7 DEF Restart
    <2>2. restarts \in Nat /\ cache \in [Servers -> SUBSET Entry]
          /\ granted \in [Servers -> [Users -> Nat]]
      BY DEF Inv, TypeOK
    <2>3. cache' \in [Servers -> SUBSET Entry] /\ cache'[s] = {}
          /\ restarts' \in Nat /\ restarts' # restarts
      BY <2>1, <2>2
    <2>4. \A r \in Servers \ {s} : cache'[r] = cache[r]
      BY <2>1, <2>2
    <2>5. /\ \A r \in Servers : cache'[r] \subseteq cache[r]
          /\ \A r \in Servers : cache'[r] = {} \/ \A e \in cache[r] \ cache'[r] : e.until <= Clock(r)
      BY <2>3, <2>4
    <2>6. CountsOK'
      BY <1>0, <2>1, <2>2, <2>3 DEF CountsOK
    <2>7. /\ Inv' /\ Closes
          /\ \A r \in Servers : \A t \in issued :
                Verify(r, t) /\ ~Verify(r, t)' =>
                    cache'[r] = {} \/ (t.exp # 0 /\ Clock(r)' >= t.exp)
      BY <2>1, <2>3, <2>5, <2>6, DropStep DEF Closes
    <2>8. Loses
      BY <2>1, <2>2, <2>7 DEF Loses
    <2> QED
      BY <2>1, <2>3, <2>7, <2>8 DEF Ends
  <1>8. ASSUME UNCHANGED vars PROVE Inv' /\ Ends /\ Loses
    <2>1. UNCHANGED <<now, issued, cache, logins, granted, requests, restarts>>
      BY <1>8 DEF vars
    <2>2. CountsOK'
      BY <1>0, <2>1 DEF CountsOK
    <2> QED
      BY <1>0, <1>a, <2>1, <2>2, CountStep DEF Loses
  <1>9. \A s \in Servers :
           /\ \A u \in Users : /\ LogsIn(s, u) => Kept
                               /\ Answers(s, u) => Kept
           /\ \A t \in issued : Extends(s, t) => Kept
    BY DEF LogsIn, Answers, Extends
  <1>10. AnswersAnyone => Kept
    BY DEF AnswersAnyone
  <1> QED
    BY <1>a, <1>1, <1>2, <1>3, <1>4, <1>5, <1>6, <1>7, <1>8, <1>9, <1>10 DEF Next

\* The invariant holds in every state.
LEMMA Invariance == Spec => []Inv
  <1>1. Inv /\ [Next]_vars => Inv'
    BY NextStep
  <1> QED
    BY <1>1, InitInv, PTL DEF Spec

\* Types, and that no token comes from the future, in every state.
THEOREM TypeCorrect == Spec => []TypeOK
  <1>1. Inv => TypeOK
    BY DEF Inv
  <1> QED
    BY <1>1, Invariance, PTL

\* On any number of servers, restarts apart, a token is accepted until its last
\* second: the cache never forgets it earlier, whatever else is issued.
THEOREM EndsByTime == Spec => EndsOnlyByTime
  <1>1. Inv /\ [Next]_vars => [\A s \in Servers : \A t \in issued :
          Verify(s, t) /\ ~Verify(s, t)' =>
             \/ cache'[s] = {} /\ restarts' # restarts
             \/ t.exp # 0 /\ Clock(s)' >= t.exp]_vars
    BY NextStep DEF Ends
  <1> QED
    BY <1>1, Invariance, PTL DEF Spec, EndsOnlyByTime

\* Whatever restarts and clean-ups there were, who holds an access token that is
\* accepted can still refresh it.
THEOREM AlwaysRenewable == Spec => []Renewable
  <1>1. ASSUME Inv PROVE Renewable
    <2> SUFFICES ASSUME NEW s \in Servers, NEW t \in issued,
                        MaxAge > 0, t.type = "access", Verify(s, t), Clock(s) < t.exp
                 PROVE  Verify(s, RefreshOf(t))
      BY DEF Renewable
    <2>1. t \in Cached(s) /\ t.iat <= Clock(s) /\ MaxAge # 0
      BY AgesAssumption DEF Verify, JwtValid
    <2>2. PICK e \in cache[s] : e.token = t
      BY <2>1 DEF Cached
    <2>3. t.exp \in Nat /\ Clock(s) \in Nat /\ t.exp # 0
      BY <1>1, <2>2, ClockType DEF Inv, TypeOK, Token, EntryOK
    <2>4. RefreshOf(t) \in Cached(s)
      BY <1>1, <2>2, <2>3 DEF Inv, EntryOK
    <2>5. RefreshOf(t).iat = t.iat /\ RefreshOf(t).exp = t.exp + Inactivity
      BY DEF RefreshOf
    <2>6. JwtValid(s, RefreshOf(t))
      BY <2>1, <2>3, <2>5, AgesAssumption DEF JwtValid
    <2> QED
      BY <2>4, <2>6 DEF Verify
  <1> QED
    BY <1>1, Invariance, PTL

\* With clocks that differ by no more than the skew, a static token is good on
\* every server at once, and for good.
THEOREM SkewAlwaysTolerated == Spec => []SkewTolerated
  <1>1. ASSUME Inv PROVE SkewTolerated
    <2> SUFFICES ASSUME NEW s \in Servers, NEW t \in issued, t.type = "static"
                 PROVE  Verify(s, t)
      BY DEF SkewTolerated
    <2>1. t.iat <= Clock(s) /\ t.exp = 0
      BY <1>1, NotBefore DEF Inv
    <2> QED
      BY <2>1 DEF Verify, JwtValid
  <1> QED
    BY <1>1, Invariance, PTL

Open == [s \in Servers |-> {t \in issued : Verify(s, t)}]

\* Signatures, caches and clocks implement Sessions.
THEOREM KeepsPromise == Spec => SessionsPromise
  <1>1. Init => S!Init
    BY DEF Init, S!Init
  <1>2. ASSUME Inv, [Next]_vars PROVE [S!Next]_(S!vars)
    <2>0. /\ \A s \in Servers : Open[s] = {t \in issued : Verify(s, t)}
          /\ \A s \in Servers : Open'[s] = {t \in issued' : Verify(s, t)'}
          /\ DOMAIN Open' = Servers
      BY DEF Open
    <2>1. ASSUME Kept, Closes PROVE Open' = Open
      <3>1. \A s \in Servers : Open'[s] = Open[s]
        BY <2>0, <2>1 DEF Kept, Closes
      <3> QED
        BY <2>1, <3>1 DEF Open, Closes, Kept
    <2>2. ASSUME NEW u \in Users, Kept, Opens(u) PROVE S!Issue(u)
      <3>1. \A s \in Servers : Open[s] \subseteq Open'[s]
                               /\ \A t \in Open'[s] \ Open[s] : t.user = u
        BY <2>0, <2>2 DEF Kept, Opens
      <3> QED
        BY <2>0, <3>1 DEF S!Issue, Open
    <2>3. ASSUME NEW s \in Servers, NEW u \in Users, LogsIn(s, u) PROVE S!Login(s, u)
      BY <2>1, <2>3 DEF LogsIn, S!Login, S!Grant, Open
    <2>4. ASSUME NEW s \in Servers, NEW t \in issued, Extends(s, t) PROVE S!Extend(s, t.user)
      <3>1. \E v \in Open[s] : v.user = t.user
        BY <2>0, <2>4 DEF Extends
      <3> QED
        BY <2>1, <2>4, <3>1 DEF Extends, S!Extend, S!Grant, Open
    <2>5. ASSUME NEW s \in Servers, NEW u \in Users, Answers(s, u) PROVE S!Answer(s, u)
      BY <2>2, <2>5 DEF Answers, S!Answer
    <2>6. ASSUME AnswersAnyone PROVE S!AnswerAnyone
      BY <2>2, <2>6, AnonymousAssumption DEF AnswersAnyone, S!AnswerAnyone
    <2>7. ASSUME Loses PROVE S!Close
      <3>1. \A s \in Servers : Open'[s] \subseteq Open[s]
        BY <2>0, <2>7 DEF Loses, Closes
      <3> QED
        BY <2>0, <2>7, <3>1 DEF Loses, S!Close, Open
    <2>8. \A t \in issued : t.user \in Users
      BY <1>2 DEF Inv, TypeOK, Token
    <2> QED
      BY <1>2, <2>3, <2>4, <2>5, <2>6, <2>7, <2>8, NextStep DEF S!Next
  <1> QED
    BY <1>1, <1>2, Invariance, PTL DEF Spec, S!Spec, SessionsPromise

=============================================================================
