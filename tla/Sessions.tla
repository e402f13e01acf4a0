------------------------------ MODULE Sessions ------------------------------
(***************************************************************************)
(* What token management promises (TokenManagementInterface,               *)
(* pkg/middles/auth/token.go): which tokens each server accepts, and how   *)
(* that may change. Nothing is said of signatures, caches or clocks, nor   *)
(* of how many sessions a user has: any number of them.                    *)
(***************************************************************************)
EXTENDS Naturals

CONSTANTS Servers, Users,
          Anonymous   \* the user of whoever presents nothing

VARIABLES
    open,     \* the tokens each server accepts, records with a field user
    logins,   \* how often each user has given the password
    granted   \* how many requests of each user a server has accepted and not
              \* answered yet

vars == <<open, logins, granted>>

\* The server accepts a request of u for tokens.
Grant(s, u) ==
    /\ granted' = [granted EXCEPT ![s][u] = @ + 1]
    /\ UNCHANGED open

\* New tokens of u. They may be accepted elsewhere, too, and nobody's session
\* ends.
Issue(u) ==
    /\ \A s \in Servers : /\ open[s] \subseteq open'[s]
                          /\ \A t \in open'[s] \ open[s] : t.user = u
    /\ DOMAIN open' = Servers

\* u gives the password.
Login(s, u) ==
    /\ u # Anonymous
    /\ logins' = [logins EXCEPT ![u] = @ + 1]
    /\ Grant(s, u)

\* Who holds a token that s accepts can ask for more without the password.
Extend(s, u) ==
    /\ \E t \in open[s] : t.user = u
    /\ UNCHANGED logins
    /\ Grant(s, u)

\* A request that was accepted is answered, whatever became of the token it
\* presented.
Answer(s, u) ==
    /\ granted[s][u] > 0
    /\ granted' = [granted EXCEPT ![s][u] = @ - 1]
    /\ UNCHANGED logins
    /\ Issue(u)

\* Who presents nothing gets tokens of nobody.
AnswerAnyone ==
    /\ UNCHANGED <<logins, granted>>
    /\ Issue(Anonymous)

\* Time passes, a server drops what is overdue or loses what it knew and the
\* requests it worked on.
Close ==
    /\ \A s \in Servers : /\ open'[s] \subseteq open[s]
                          /\ granted'[s] \in {granted[s], [u \in Users |-> 0]}
    /\ DOMAIN open' = Servers /\ DOMAIN granted' = Servers
    /\ UNCHANGED logins

Init ==
    /\ open = [s \in Servers |-> {}]
    /\ logins = [u \in Users |-> 0]
    /\ granted = [s \in Servers |-> [u \in Users |-> 0]]

Next == \/ \E s \in Servers, u \in Users :
              Login(s, u) \/ Extend(s, u) \/ Answer(s, u)
        \/ AnswerAnyone
        \/ Close

Spec == Init /\ [][Next]_vars

=============================================================================
