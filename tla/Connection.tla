----------------------------- MODULE Connection -----------------------------
(***************************************************************************)
(* One KeycloakConnection: the provider that caches an Admin API client    *)
(* for it (internal/keycloak/provider.go), shared by all reconcilers, and  *)
(* the controller that validates it and keeps its Ready condition and its  *)
(* connection_up gauge (keycloakconnection_controller.go).                 *)
(*                                                                         *)
(* Both read the connection and its credentials Secret from informer       *)
(* caches. Only the connection is watched: a changed Secret starts no pass *)
(* of the controller. Provider.For releases its mutex between the lookup   *)
(* and the insertion, so each of its critical sections is a step here. A   *)
(* client keeps the token it was granted (internal/keycloak/client.go), so *)
(* that it may go on being served with credentials that have changed.      *)
(***************************************************************************)
EXTENDS Naturals

CONSTANTS
    None,        \* no connection, Secret, client or answer
    Workers,     \* resource reconcilers, which call Provider.For
    Ctl,         \* the connection controller's worker, which calls it too
    Creds,       \* credentials
    Ids,         \* what tells clients in memory apart, one for each caller and one more
    Loads        \* which reconcilers call, and a bound on edits of the connection,
                 \* the Secret and the account, failing calls and restarts, together

ASSUME ConnectionAssumption ==
    /\ Ctl \notin Workers
    /\ None \notin Creds
    /\ Loads \subseteq [callers: SUBSET Workers, events: Nat]

Callers == Workers \cup {Ctl}

\* What the Ready condition says; Succeeded comes with or without a version.
Reasons == {"None", "Connected", "ConnectedNoVersion", "ConnectionUnavailable",
            "Retrying"}
Up == {"Connected", "ConnectedNoVersion"}

Cond == [reason: Reasons, gen: Nat]
NoCond == [reason |-> "None", gen |-> 0]
Conn == [ver: Nat, gen: Nat, ready: Cond]
Secret == [ver: Nat, cred: Creds \cup {None}]   \* None: a key is missing
Client == [id: Ids, conn: Nat, secret: Nat, cred: Creds]
Base == [gen: Nat, ready: Cond]

ASSUME NoneAssumption == None \notin Conn \cup Secret \cup Client \cup Base

VARIABLES
    connVer,     \* the last resourceVersions that the API server handed out
    secretVer,
    conn,        \* the connection in the API server
    secret,      \* its credentials Secret
    connSeen,    \* the informers' copies
    secretSeen,
    account,     \* the credentials that the Keycloak server accepts
    byName,      \* the provider's cached client for the connection
    tokens,      \* the clients that have a token with more than 30 s left
    pc,          \* the next step of each caller
    readConn,    \* the version of the connection that the caller's For read, or 0
    readSecret,  \* the Secret that it read
    client,      \* the client that the caller's last For returned, or None
    obj,         \* the controller's copy of the connection (its MergeFrom base)
    verdict,     \* what the controller is about to write
    queued, timer,
    gauge,       \* connection_up
    events

kube == <<connVer, secretVer, conn, secret>>
seen == <<connSeen, secretSeen>>
clients == <<byName, tokens>>
calls == <<pc, readConn, readSecret, client>>
ctl == <<obj, verdict>>
queue == <<queued, timer>>
vars == <<kube, seen, account, clients, calls, ctl, queue, gauge, events>>

PCs == {"idle", "conn", "secret", "lookup", "insert", "returned", "token",
        "info", "patch"}

\* Versions, generations and copies are well formed; in particular a cached
\* client always has credentials.
TypeOK ==
    /\ connVer \in Nat /\ secretVer \in Nat
    /\ conn \in Conn \cup {None} /\ connSeen \in Conn \cup {None}
    /\ secret \in Secret \cup {None} /\ secretSeen \in Secret \cup {None}
    /\ account \in Creds
    /\ byName \in Client \cup {None} /\ tokens \in SUBSET Client
    /\ pc \in [Callers -> PCs]
    /\ readConn \in [Callers -> Nat]
    /\ readSecret \in [Callers -> Secret \cup {None}]
    /\ client \in [Callers -> Client \cup {None}]
    /\ obj \in Base \cup {None} /\ verdict \in Reasons
    /\ queued \in BOOLEAN /\ timer \in BOOLEAN
    /\ gauge \in {"absent", "up", "down"}
    /\ events \in Nat

\* A reconciler of the set W may call For at any time, the controller when it has
\* work.
Idle(W) == [w \in Callers |-> IF w \in W THEN "conn" ELSE "idle"]

\* The operator starts where a new connection and its Secret are waiting, whose
\* credentials the server accepts or not.
Init ==
    /\ connVer = 1 /\ secretVer = 1
    /\ account \in Creds
    /\ conn = [ver |-> 1, gen |-> 1, ready |-> NoCond]
    /\ secret = [ver |-> 1, cred |-> CHOOSE c \in Creds : TRUE]
    /\ connSeen = conn /\ secretSeen = secret
    /\ byName = None /\ tokens = {}
    /\ readConn = [w \in Callers |-> 0]
    /\ readSecret = [w \in Callers |-> None]
    /\ client = [w \in Callers |-> None]
    /\ obj = None /\ verdict = "None"
    /\ queued = TRUE /\ timer = FALSE
    /\ gauge = "absent"
    /\ \E load \in Loads : pc = Idle(load.callers) /\ events = load.events

Event == events > 0 /\ events' = events - 1

-----------------------------------------------------------------------------
(* Provider.For *)

\* For returns c to w, or an error: the controller goes on to request a token,
\* or to report that the connection is unavailable.
Returned(w, c) ==
    /\ client' = [client EXCEPT ![w] = c]
    /\ pc' = [pc EXCEPT ![w] = IF w # Ctl THEN "returned"
                               ELSE IF c = None THEN "patch" ELSE "token"]
    /\ verdict' = IF w = Ctl THEN "ConnectionUnavailable" ELSE verdict

\* The clients that the cache or a caller refers to. Another one is gone, and so is
\* its token.
Live == ({byName} \cup {client[w] : w \in Callers}) \ {None}

Collect == tokens' = tokens \cap Live'

\* A caller's variables go out of scope.
Forget(w) ==
    /\ readConn' = [readConn EXCEPT ![w] = 0]
    /\ readSecret' = [readSecret EXCEPT ![w] = None]
    /\ client' = [client EXCEPT ![w] = None]

\* The pass of a resource reconciler ends; another one will call For.
Release(w) ==
    /\ w # Ctl /\ pc[w] = "returned"
    /\ pc' = [pc EXCEPT ![w] = "conn"] /\ Forget(w)
    /\ UNCHANGED byName /\ Collect
    /\ UNCHANGED <<kube, seen, account, ctl, queue, gauge, events>>

\* The connection is read. If it is gone its client is dropped.
ReadConn(w) ==
    /\ pc[w] = "conn"
    /\ IF connSeen = None
       THEN Returned(w, None) /\ byName' = None /\ UNCHANGED readConn
       ELSE /\ readConn' = [readConn EXCEPT ![w] = connSeen.ver]
            /\ pc' = [pc EXCEPT ![w] = "secret"]
            /\ UNCHANGED <<client, byName, verdict>>
    /\ Collect
    /\ UNCHANGED <<kube, seen, account, readSecret, obj, queue, gauge,
                   events>>

\* The Secret is read.
ReadSecret(w) ==
    /\ pc[w] = "secret"
    /\ readSecret' = [readSecret EXCEPT ![w] = secretSeen]
    /\ IF secretSeen = None THEN Returned(w, None)
       ELSE pc' = [pc EXCEPT ![w] = "lookup"] /\ UNCHANGED <<client, verdict>>
    /\ UNCHANGED <<kube, seen, account, clients, readConn, obj, queue, gauge, events>>

\* Mutant: only the connection's version is compared.
LookupByConn(w) ==
    /\ pc[w] = "lookup"
    /\ IF byName # None /\ byName.conn = readConn[w]
       THEN Returned(w, byName)
       ELSE IF readSecret[w].cred = None THEN Returned(w, None)
       ELSE pc' = [pc EXCEPT ![w] = "insert"] /\ UNCHANGED <<client, verdict>>
    /\ UNCHANGED <<kube, seen, account, clients, readConn, readSecret, obj, queue,
                   gauge, events>>

\* Mutant: a client is built from a Secret that lacks a key.
LookupNoKeys(w) ==
    /\ pc[w] = "lookup"
    /\ IF byName # None /\ byName.conn = readConn[w]
                        /\ byName.secret = readSecret[w].ver
       THEN Returned(w, byName)
       ELSE pc' = [pc EXCEPT ![w] = "insert"] /\ UNCHANGED <<client, verdict>>
    /\ UNCHANGED <<kube, seen, account, clients, readConn, readSecret, obj, queue,
                   gauge, events>>

\* The cached client is used if both versions match. If not, and if the Secret
\* has all the keys, a new one is built.
Lookup(w) ==
    /\ pc[w] = "lookup"
    /\ IF byName # None /\ byName.conn = readConn[w]
                        /\ byName.secret = readSecret[w].ver
       THEN Returned(w, byName)
       ELSE IF readSecret[w].cred = None THEN Returned(w, None)
       ELSE pc' = [pc EXCEPT ![w] = "insert"] /\ UNCHANGED <<client, verdict>>
    /\ UNCHANGED <<kube, seen, account, clients, readConn, readSecret, obj, queue,
                   gauge, events>>

\* The new client, which has no token yet, replaces whatever is cached by now.
Insert(w) ==
    LET free == Ids \ {c.id : c \in Live}
        new == [id |-> CHOOSE i \in free : TRUE, conn |-> readConn[w],
                secret |-> readSecret[w].ver, cred |-> readSecret[w].cred]
    IN  /\ pc[w] = "insert" /\ free # {}
        /\ byName' = new /\ Returned(w, new)
        /\ tokens' = (tokens \cap Live') \ {new}
        /\ UNCHANGED <<kube, seen, account, readConn, readSecret, obj, queue, gauge,
                       events>>

\* A call of For that has begun.
Complete(w) == ReadSecret(w) \/ Lookup(w) \/ Insert(w)

For(w) == ReadConn(w) \/ Complete(w)

-----------------------------------------------------------------------------
(* The connection controller *)

\* Reconcile starts. A connection that is gone ends it.
Start ==
    /\ pc[Ctl] = "idle" /\ queued
    /\ queued' = FALSE
    /\ obj' = IF connSeen = None THEN None
              ELSE [gen |-> connSeen.gen, ready |-> connSeen.ready]
    /\ pc' = [pc EXCEPT ![Ctl] = IF connSeen = None THEN @ ELSE "conn"]
    /\ UNCHANGED <<kube, seen, account, clients, readConn, readSecret, client,
                   verdict, timer, gauge, events>>

\* kc.Token: the token that the client has, or else one that is granted, refused, or
\* not to be had.
Token ==
    LET c == client[Ctl]
    IN  /\ pc[Ctl] = "token"
        /\ \/ /\ c \in tokens \/ c.cred = account
              /\ tokens' = tokens \cup {c} /\ UNCHANGED <<events, verdict>>
              /\ pc' = [pc EXCEPT ![Ctl] = "info"]
           \/ /\ c \notin tokens /\ c.cred # account /\ UNCHANGED <<tokens, events>>
              /\ verdict' = "ConnectionUnavailable"
              /\ pc' = [pc EXCEPT ![Ctl] = "patch"]
           \/ /\ c \notin tokens /\ Event /\ verdict' = "Retrying" /\ UNCHANGED tokens
              /\ pc' = [pc EXCEPT ![Ctl] = "patch"]
        /\ UNCHANGED <<kube, seen, account, byName, readConn, readSecret, client,
                       obj, queue, gauge>>

\* kc.ServerInfo is best-effort; the gauge goes up either way. A token that has lapsed
\* is asked for again; one that was granted for other credentials is honoured, or
\* refused and dropped.
ServerInfo ==
    LET c == client[Ctl]
    IN  /\ pc[Ctl] = "info"
        /\ \/ /\ c \in tokens \/ c.cred = account
              /\ tokens' = tokens \cup {c} /\ verdict' = "Connected" /\ UNCHANGED events
           \/ /\ c.cred # account
              /\ tokens' = tokens \ {c} /\ verdict' = "ConnectedNoVersion"
              /\ UNCHANGED events
           \/ /\ Event /\ verdict' = "ConnectedNoVersion"
              /\ tokens' = tokens \/ (c.cred = account /\ tokens' = tokens \cup {c})
        /\ gauge' = "up"
        /\ pc' = [pc EXCEPT ![Ctl] = "patch"]
        /\ UNCHANGED <<kube, seen, account, byName, readConn, readSecret, client,
                       obj, queue>>

\* The merge patch from the base obj: nothing is written if the condition is the
\* one that was read, or the one that is there, or if the connection is gone.
MergeStatus(c) ==
    IF conn = None \/ c = obj.ready \/ c = conn.ready THEN UNCHANGED <<connVer, conn>>
    ELSE /\ connVer' = connVer + 1
         /\ conn' = [conn EXCEPT !.ver = connVer', !.ready = c]

\* Mutant: a pass that succeeds asks for no other.
RequeueFailed(failed) ==
    IF failed /\ verdict \in Up THEN queued' = TRUE /\ UNCHANGED timer
    ELSE timer' = (timer \/ verdict \notin Up) /\ UNCHANGED queued

\* What Reconcile returns. A failing patch matters only when there is success to
\* report: the error is returned, and the pass is retried.
Requeue(failed) ==
    IF failed /\ verdict \in Up THEN queued' = TRUE /\ UNCHANGED timer
    ELSE timer' = TRUE /\ UNCHANGED queued

\* The status is patched, and the pass ends.
PatchStatus ==
    /\ pc[Ctl] = "patch"
    /\ \/ /\ UNCHANGED events /\ Requeue(FALSE)
          /\ MergeStatus([reason |-> verdict, gen |-> obj.gen])
       \/ Event /\ UNCHANGED <<connVer, conn>> /\ Requeue(TRUE)
    /\ gauge' = IF verdict \in Up THEN gauge ELSE "down"
    /\ pc' = [pc EXCEPT ![Ctl] = "idle"]
    /\ obj' = None /\ verdict' = "None" /\ Forget(Ctl)
    /\ UNCHANGED byName /\ Collect
    /\ UNCHANGED <<secretVer, secret, seen, account>>

-----------------------------------------------------------------------------
(* The cluster and the server *)

\* A reconciler's request has its client ask for a token, if it has none.
Use(w) ==
    /\ w # Ctl /\ pc[w] = "returned" /\ client[w] # None
    /\ client[w].cred = account
    /\ tokens' = tokens \cup {client[w]}
    /\ UNCHANGED <<kube, seen, account, byName, calls, ctl, queue, gauge, events>>

\* A token comes to its last 30 seconds, or is refused and dropped.
Lapses(c) ==
    /\ c \in tokens
    /\ tokens' = tokens \ {c}
    /\ UNCHANGED <<kube, seen, account, byName, calls, ctl, queue, gauge, events>>

\* The informers deliver; the connection's event queues a pass.
DeliverConn ==
    /\ connSeen # conn
    /\ connSeen' = conn /\ queued' = TRUE
    /\ UNCHANGED <<kube, secretSeen, account, clients, calls, ctl, timer, gauge,
                   events>>

DeliverSecret ==
    /\ secretSeen # secret
    /\ secretSeen' = secret
    /\ UNCHANGED <<kube, connSeen, account, clients, calls, ctl, queue, gauge,
                   events>>

\* RequeueAfter: 5 minutes, or 30 seconds after a failure.
TimerFires ==
    /\ timer
    /\ timer' = FALSE /\ queued' = TRUE
    /\ UNCHANGED <<kube, seen, account, clients, calls, ctl, gauge, events>>

\* A user creates, edits or deletes the connection.
UserConn ==
    /\ Event
    /\ \/ /\ conn = None /\ connVer' = connVer + 1
          /\ conn' = [ver |-> connVer', gen |-> 1, ready |-> NoCond]
       \/ /\ conn # None /\ connVer' = connVer + 1
          /\ conn' = [conn EXCEPT !.ver = connVer', !.gen = @ + 1]
       \/ conn # None /\ conn' = None /\ UNCHANGED connVer
    /\ UNCHANGED <<secretVer, secret, seen, account, clients, calls, ctl, queue, gauge>>

\* A user writes the Secret, with all its keys or not, or deletes it.
UserSecret ==
    /\ Event
    /\ \/ /\ secretVer' = secretVer + 1
          /\ \E c \in Creds \cup {None} : secret' = [ver |-> secretVer', cred |-> c]
       \/ secret # None /\ secret' = None /\ UNCHANGED secretVer
    /\ UNCHANGED <<connVer, conn, seen, account, clients, calls, ctl, queue, gauge>>

\* The account's credentials are changed on the server.
AccountChanges ==
    /\ Event /\ \E c \in Creds \ {account} : account' = c
    /\ UNCHANGED <<kube, seen, clients, calls, ctl, queue, gauge>>

\* The operator restarts: the clients, the gauge and the queue are in memory.
Restart ==
    /\ Event
    /\ byName' = None /\ tokens' = {} /\ gauge' = "absent"
    /\ pc' = Idle({w \in Workers : pc[w] # "idle"})
    /\ readConn' = [w \in Callers |-> 0]
    /\ readSecret' = [w \in Callers |-> None]
    /\ client' = [w \in Callers |-> None]
    /\ obj' = None /\ verdict' = "None"
    /\ connSeen' = conn /\ secretSeen' = secret
    /\ queued' = (conn # None) /\ timer' = FALSE
    /\ UNCHANGED <<kube, account>>

Controller == Start \/ For(Ctl) \/ Token \/ ServerInfo \/ PatchStatus

Next ==
    \/ Controller
    \/ \E w \in Workers : For(w) \/ Use(w) \/ Release(w)
    \/ \E c \in tokens : Lapses(c)
    \/ DeliverConn \/ DeliverSecret \/ TimerFires
    \/ Restart \/ UserConn \/ UserSecret \/ AccountChanges

Spec == Init /\ [][Next]_vars

\* The controller's worker, the informers and the timers keep going, and a call
\* of For that has begun ends. No reconciler has to begin one. A token lapses.
FairSpec ==
    /\ Spec
    /\ WF_vars(Controller)
    /\ \A w \in Workers : WF_vars(Complete(w))
    /\ WF_vars(DeliverConn) /\ WF_vars(DeliverSecret) /\ WF_vars(TimerFires)
    /\ WF_vars(Lapses(byName))

-----------------------------------------------------------------------------
(* Properties *)

\* The provider caches clients "until the connection or its credentials change"
\* (provider.go:40): For never hands out a client of another connection version
\* or of other credentials than the ones it read, whoever inserts in between.
ClientMatchesRead ==
    \A w \in Callers : client[w] # None =>
        /\ client[w].conn = readConn[w]
        /\ readSecret[w] # None
        /\ client[w].secret = readSecret[w].ver /\ client[w].cred = readSecret[w].cred

\* The connection is there and its credentials work.
Working ==
    conn # None /\ secret # None /\ secret.cred = account

\* The Ready condition of the current generation and the gauge tell whether the
\* credentials work.
Truth == IF Working THEN "Connected" ELSE "ConnectionUnavailable"

Told ==
    /\ conn.ready = [reason |-> Truth, gen |-> conn.gen]
    /\ (gauge = "up") = Working

\* The caches show the connection's generation and the Secret as they are, the cached
\* client has no token for other credentials than the account's, and what a pass of
\* the controller under way has found out is true.
UpToDate ==
    /\ conn # None /\ connSeen # None /\ connSeen.gen = conn.gen /\ secretSeen = secret
    /\ byName \in tokens => byName.cred = account
    /\ pc[Ctl] # "idle" => obj.gen = conn.gen
    /\ pc[Ctl] \in {"lookup", "insert"} => readSecret[Ctl] = secret
    /\ pc[Ctl] \in {"token", "info"} => secret # None /\ client[Ctl].cred = secret.cred
    /\ pc[Ctl] = "token" /\ client[Ctl] \in tokens => Working
    /\ pc[Ctl] = "info" => Working
    /\ pc[Ctl] = "patch" => verdict = Truth /\ (Working => gauge = "up")

\* Once edits and failures stop, the Ready condition and the gauge tell the truth:
\* the Secret is not watched, and a token outlives the credentials it was granted
\* for; the periodic revalidation has to notice (keycloakconnection_controller.go:39).
ReportsTruth == <>[](conn # None => UpToDate /\ Told)

=============================================================================
