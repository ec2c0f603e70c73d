---------------------------- MODULE AdminClient ----------------------------
(***************************************************************************)
(* The Admin API client (internal/keycloak/client.go), shared by all       *)
(* workers: Do sends a request with the cached token, fetches a token when *)
(* there is none with more than 30 s to live, and retries once with a new  *)
(* token when the server rejects the credentials.                          *)
(*                                                                         *)
(* Token and invalidate hold the client's mutex, Token across its HTTP     *)
(* request; the Admin API request itself runs outside it. Tokens are       *)
(* numbered in the order the server issues them.                           *)
(***************************************************************************)
EXTENDS Naturals

CONSTANTS
    Goroutines,  \* goroutines that use the client
    Free,        \* the mutex is not held
    MaxCalls,    \* bound on the calls of Do
    MaxRevoke,   \* bound on revocations and expiries at the server
    MaxFaults    \* bound on transport faults and server-side errors

ASSUME GoroutinesAssumption == Free \notin Goroutines
ASSUME BoundsAssumption == MaxCalls \in Nat /\ MaxRevoke \in Nat /\ MaxFaults \in Nat

NoToken == 0

\* How a request ends. "auth" is ErrAuth (401 and 403), "other" is an APIError or
\* a transport error.
Results == {"none", "ok", "notfound", "conflict", "auth", "other"}

VARIABLES
    stage,     \* where each worker is in Do
    attempt,   \* first or second doOnce
    lock,      \* holder of mu
    cached,    \* accessToken
    fresh,     \* has accessToken more than 30 s to live?
    granted,   \* the token in the token endpoint's answer to the lock's holder
    using,     \* the token each worker sends
    result,    \* what Do returned last
    issued,    \* number of tokens the server issued
    valid,     \* the tokens the server accepts
    refused,   \* does the server refuse the credentials themselves?
    noticed,   \* history: tokens the server had turned down when the worker
               \* dropped the cached one
    allowance  \* what callers and the environment may still do

local == <<stage, attempt, using, result, noticed>>
mutex == <<lock, cached, fresh, granted>>
books == <<issued, valid, refused>>
clientVars == <<local, mutex, books, allowance>>

Stages == {"idle", "token", "granting", "granted", "request", "invalidate"}

\* The types of the client's fields (client.go:75-82), of the callers' progress
\* and of the server's books. The server accepts only tokens it has issued.
ClientTypeOK ==
    /\ stage \in [Goroutines -> Stages] /\ attempt \in [Goroutines -> {1, 2}]
    /\ lock \in Goroutines \cup {Free}
    /\ cached \in Nat /\ fresh \in BOOLEAN /\ granted \in Nat
    /\ using \in [Goroutines -> Nat] /\ result \in [Goroutines -> Results]
    /\ issued \in Nat /\ valid \subseteq 1..issued /\ refused \in BOOLEAN
    /\ noticed \in [Goroutines -> SUBSET (1..issued)]
    /\ allowance \in [call: Nat, revoke: Nat, fault: Nat]

ClientInit ==
    /\ stage = [w \in Goroutines |-> "idle"] /\ attempt = [w \in Goroutines |-> 1]
    /\ lock = Free /\ cached = NoToken /\ fresh = FALSE /\ granted = NoToken
    /\ using = [w \in Goroutines |-> NoToken]
    /\ result = [w \in Goroutines |-> "none"]
    /\ issued = 0 /\ valid = {} /\ refused = FALSE
    /\ noticed = [w \in Goroutines |-> {}]
    /\ allowance = [call |-> MaxCalls, revoke |-> MaxRevoke, fault |-> MaxFaults]

Take(what) == allowance[what] > 0 /\ allowance' = [allowance EXCEPT ![what] = @ - 1]

-----------------------------------------------------------------------------
(* Do *)

\* doOnce is over with outcome r. ErrAuth on the first attempt, from the token
\* endpoint as well as from the Admin API, leads to the second one.
Ended(w, r) ==
    /\ IF r = "auth" /\ attempt[w] = 1
       THEN stage' = [stage EXCEPT ![w] = "invalidate"] /\ UNCHANGED result
       ELSE stage' = [stage EXCEPT ![w] = "idle"] /\ result' = [result EXCEPT ![w] = r]
    /\ UNCHANGED <<attempt, using, noticed>>

\* A worker calls Do.
Call(w) ==
    /\ stage[w] = "idle" /\ Take("call")
    /\ stage' = [stage EXCEPT ![w] = "token"] /\ attempt' = [attempt EXCEPT ![w] = 1]
    /\ result' = [result EXCEPT ![w] = "none"]
    /\ using' = [using EXCEPT ![w] = NoToken] /\ noticed' = [noticed EXCEPT ![w] = {}]
    /\ UNCHANGED <<mutex, books>>

\* Token, when the cached one will do.
TokenHit(w) ==
    /\ stage[w] = "token" /\ lock = Free
    /\ cached # NoToken /\ fresh
    /\ using' = [using EXCEPT ![w] = cached] /\ stage' = [stage EXCEPT ![w] = "request"]
    /\ UNCHANGED <<attempt, result, noticed, mutex, books, allowance>>

\* Mutant: the mutex is released before the token endpoint is asked.
TokenMissUnlocked(w) ==
    /\ stage[w] = "token" /\ lock = Free
    /\ cached = NoToken \/ ~fresh
    /\ stage' = [stage EXCEPT ![w] = "granting"]
    /\ UNCHANGED <<attempt, using, result, noticed, mutex, books, allowance>>

\* Token, when it will not: the request to the token endpoint goes out.
TokenMiss(w) ==
    /\ stage[w] = "token" /\ lock = Free
    /\ cached = NoToken \/ ~fresh
    /\ lock' = w /\ stage' = [stage EXCEPT ![w] = "granting"]
    /\ UNCHANGED <<attempt, using, result, noticed, cached, fresh, granted, books,
                   allowance>>

\* Mutant: two tokens of the server have one number.
IssueNothing(w) ==
    /\ stage[w] = "granting" /\ ~refused
    /\ valid' = valid \cup {issued + 1} /\ granted' = issued + 1
    /\ stage' = [stage EXCEPT ![w] = "granted"]
    /\ UNCHANGED <<attempt, using, result, noticed, lock, cached, fresh, issued,
                   refused, allowance>>

\* The token endpoint issues a token.
Issue(w) ==
    /\ stage[w] = "granting" /\ ~refused
    /\ issued' = issued + 1 /\ valid' = valid \cup {issued + 1}
    /\ granted' = issued + 1
    /\ stage' = [stage EXCEPT ![w] = "granted"]
    /\ UNCHANGED <<attempt, using, result, noticed, lock, cached, fresh, refused,
                   allowance>>

\* Mutant: the mutex stays locked when the token endpoint fails.
GrantFailsLocked(w) ==
    /\ stage[w] = "granting"
    /\ \/ refused /\ UNCHANGED allowance /\ Ended(w, "auth")
       \/ Take("fault") /\ Ended(w, "other")
    /\ UNCHANGED <<mutex, books>>

\* The token endpoint refuses the credentials, or fails.
GrantFails(w) ==
    /\ stage[w] = "granting"
    /\ \/ refused /\ UNCHANGED allowance /\ Ended(w, "auth")
       \/ Take("fault") /\ Ended(w, "other")
    /\ lock' = Free
    /\ UNCHANGED <<cached, fresh, granted, books>>

\* The answer arrives: the token is cached, the mutex released.
Store(w) ==
    /\ stage[w] = "granted"
    /\ cached' = granted /\ fresh' = TRUE
    /\ using' = [using EXCEPT ![w] = granted]
    /\ granted' = NoToken /\ lock' = Free
    /\ stage' = [stage EXCEPT ![w] = "request"]
    /\ UNCHANGED <<attempt, result, noticed, books, allowance>>

\* The Admin API request. A token the server does not know is a 401; a valid one
\* may still meet a 403, a 404, a 409, a 5xx, or a transport error.
Request(w) ==
    /\ stage[w] = "request"
    /\ \/ using[w] \notin valid /\ UNCHANGED allowance /\ Ended(w, "auth")
       \/ /\ using[w] \in valid /\ UNCHANGED allowance
          /\ \E r \in {"ok", "notfound", "conflict"} : Ended(w, r)
       \/ /\ Take("fault")
          /\ \E r \in {"auth", "other"} : Ended(w, r)
    /\ UNCHANGED <<mutex, books>>

\* Mutant: invalidate does not take the mutex.
InvalidateUnlocked(w) ==
    /\ stage[w] = "invalidate"
    /\ cached' = NoToken /\ fresh' = FALSE
    /\ noticed' = [noticed EXCEPT ![w] = 1..issued \ valid]
    /\ stage' = [stage EXCEPT ![w] = "token"] /\ attempt' = [attempt EXCEPT ![w] = 2]
    /\ UNCHANGED <<using, result, lock, granted, books, allowance>>

\* invalidate, and on to the second attempt. The cached token is dropped, be it
\* the one that was turned down or a newer one.
Invalidate(w) ==
    /\ stage[w] = "invalidate" /\ lock = Free
    /\ cached' = NoToken /\ fresh' = FALSE
    /\ noticed' = [noticed EXCEPT ![w] = 1..issued \ valid]
    /\ stage' = [stage EXCEPT ![w] = "token"] /\ attempt' = [attempt EXCEPT ![w] = 2]
    /\ UNCHANGED <<using, result, lock, granted, books, allowance>>

-----------------------------------------------------------------------------
(* The server and time *)

\* Tokens are revoked (or the session that issued them ends).
Revoke ==
    /\ Take("revoke") /\ \E gone \in SUBSET valid : gone # {} /\ valid' = valid \ gone
    /\ UNCHANGED <<local, mutex, issued, refused>>

\* The cached token comes within 30 s of its expiry.
Age ==
    /\ fresh /\ lock = Free /\ Take("revoke")
    /\ fresh' = FALSE
    /\ UNCHANGED <<local, lock, cached, granted, books>>

\* The account's credentials stop working, or work again.
CredentialsChange ==
    /\ refused \/ allowance.revoke > 0
    /\ allowance' = IF refused THEN allowance ELSE [allowance EXCEPT !.revoke = @ - 1]
    /\ refused' = ~refused
    /\ UNCHANGED <<local, mutex, issued, valid>>

Step(w) ==
    \/ TokenHit(w) \/ TokenMiss(w) \/ Issue(w) \/ GrantFails(w) \/ Store(w)
    \/ Request(w) \/ Invalidate(w)

ClientNext ==
    \/ \E w \in Goroutines : Call(w) \/ Step(w)
    \/ Revoke \/ Age \/ CredentialsChange

ClientSpec == ClientInit /\ [][ClientNext]_clientVars

\* Goroutines run, HTTP requests end (the client has a 30 s timeout), and Go's
\* mutex does not starve a waiter.
FairClientSpec == ClientSpec /\ \A w \in Goroutines : SF_clientVars(Step(w))

-----------------------------------------------------------------------------
(* Properties *)

\* Who is inside Token holds the mutex, and only they: at most one token request
\* is under way, and the answer kept in granted is the holder's (client.go:104).
OneGrantAtATime ==
    \A w \in Goroutines : stage[w] \in {"granting", "granted"} <=> lock = w

\* "The cached token may have been revoked server-side: refresh once"
\* (client.go:187): the token of the second attempt is none that the server had
\* already turned down by then, even if another worker asked for it before the
\* revocation and caches it after. So one revocation never surfaces as ErrAuth.
SecondTokenIsNew ==
    \A w \in Goroutines :
        stage[w] = "request" /\ attempt[w] = 2 => using[w] \notin noticed[w]

\* Every call of Do returns: nobody keeps the mutex, whatever fails.
CallsReturn == \A w \in Goroutines : stage[w] # "idle" ~> stage[w] = "idle"

=============================================================================
