---------------------------- MODULE OutputSecret ----------------------------
(***************************************************************************)
(* spec.secretOutput of a Client: after every apply the operator fetches   *)
(* the client secret from Keycloak and stores it in a Kubernetes Secret it *)
(* owns. The Secret is read through a cache that lags and written under    *)
(* its resourceVersion. Users keep Secrets of their own in the namespace,  *)
(* touch the operator's, change spec.secretOutput and recreate the Client; *)
(* the garbage collector removes what a former Client owned.               *)
(***************************************************************************)
EXTENDS Naturals

CONSTANTS
    None,
    Names,      \* of Secrets in the Client's namespace
    Keys,       \* of the entries of a Secret
    Values,     \* of the client secret
    Mine,       \* a value only the user writes
    MaxUser,    \* what users do
    MaxServer,  \* how often Keycloak rotates the client secret
    MaxFault    \* calls that fail, and names lost

ASSUME OutputAssumption ==
    /\ MaxUser \in Nat /\ MaxServer \in Nat /\ MaxFault \in Nat
    /\ Mine \notin Values
    /\ Names # {} /\ Keys # {} /\ Values # {}

Outs == [name: Names, key: Keys]

\* The controller reference of a Secret: a Client's uid, or 0 for none.
Secret == [owner: 0..(MaxUser + 1), data: [Keys -> {None, Mine} \cup Values]]

\* The Client, as far as the output is concerned.
ClientType == [uid: 1..(MaxUser + 1), out: {None} \cup Outs,
               reported: {None} \cup Names]

ASSUME NoneAssumption == None \notin Outs \cup Secret \cup ClientType \cup Values

VARIABLES
    cr,         \* the Client
    crSeen,     \* the cache's copy of it
    secrets,    \* the Secrets
    seen,       \* the cache's copies of them
    fresh,      \* which copies carry the current resourceVersion
    value,      \* the client secret in Keycloak
    pc,         \* where the pass is
    obj,        \* the Client the pass works on
    fetched,    \* the client secret it fetched
    got,        \* the Secret it read
    gotCur,     \* got carries the current resourceVersion
    budget

kube == <<cr, crSeen, secrets, seen, fresh>>
copy == <<obj, fetched, got, gotCur>>
vars == <<kube, value, pc, copy, budget>>

\* The Client's, the Secrets' and the pass's records are well formed, and a copy
\* that carries the current resourceVersion equals what it copies.
TypeOK ==
    /\ cr \in ClientType /\ crSeen \in ClientType
    /\ secrets \in [Names -> {None} \cup Secret]
    /\ seen \in [Names -> {None} \cup Secret]
    /\ fresh \in [Names -> BOOLEAN]
    /\ \A n \in Names : fresh[n] => seen[n] = secrets[n]
    /\ value \in Values /\ pc \in {"idle", "fetch", "read", "write", "report"}
    /\ obj \in {None} \cup ClientType /\ fetched \in {None} \cup Values
    /\ got \in {None} \cup Secret /\ gotCur \in BOOLEAN
    /\ (gotCur => got = secrets[obj.out.name])
    /\ budget \in [user: 0..MaxUser, server: 0..MaxServer, fault: 0..MaxFault]

\* No Secret yet. Which output is configured and which value the client secret
\* has does not matter.
Init ==
    /\ cr \in [uid: {1}, out: {None, CHOOSE o \in Outs : TRUE}, reported: {None}]
    /\ crSeen = cr
    /\ secrets = [n \in Names |-> None] /\ seen = secrets
    /\ fresh = [n \in Names |-> TRUE]
    /\ value = (CHOOSE v \in Values : TRUE) /\ pc = "idle"
    /\ obj = None /\ fetched = None /\ got = None /\ gotCur = FALSE
    /\ budget = [user |-> MaxUser, server |-> MaxServer, fault |-> MaxFault]

Spend(who) == budget[who] > 0 /\ budget' = [budget EXCEPT ![who] = @ - 1]
NoFault == UNCHANGED budget

\* The API server holds secret under the name n from now on.
Store(n, secret) ==
    /\ secrets' = [secrets EXCEPT ![n] = secret]
    /\ fresh' = [fresh EXCEPT ![n] = FALSE]
    /\ UNCHANGED seen

\* ensureOutputSecret returns, and what it held in memory is gone.
Return == fetched' = None /\ got' = None /\ gotCur' = FALSE

\* The pass is over.
End == pc' = "idle" /\ obj' = None /\ Return

-----------------------------------------------------------------------------
(* A pass *)

\* The apply is done, PostApply begins. Without secretOutput it writes nothing.
Start ==
    /\ pc = "idle" /\ crSeen.out # None
    /\ obj' = crSeen /\ pc' = "fetch"
    /\ UNCHANGED <<kube, value, fetched, got, gotCur, budget>>

\* GetClientSecret.
Fetch ==
    /\ pc = "fetch"
    /\ \/ /\ NoFault /\ fetched' = value /\ pc' = "read"
          /\ UNCHANGED <<obj, got, gotCur>>
       \/ Spend("fault") /\ End
    /\ UNCHANGED <<kube, value>>

\* Mutant: a Secret of the right name is the operator's.
OwnedByName(secret) == TRUE

\* ensureOutputSecret compares the uid of the controller reference.
Owned(secret) == secret.owner = obj.uid

\* Mutant: an existing Secret is never left alone.
UpToDateNever(secret) == FALSE

\* The Secret holds the value already.
UpToDate(secret) == secret.data[obj.out.key] = fetched

\* Mutant: the Update carries no resourceVersion.
CurrentAlways(n) == TRUE

\* The Update of the copy read now would carry the current resourceVersion.
Current(n) == fresh[n]

\* The Secret under the output's name is read from the cache. One the Client
\* does not own ends the pass, one that holds the value is left alone.
EnsureRead ==
    LET n == obj.out.name
        s == seen[n]
        Write == /\ pc' = "write" /\ got' = s /\ gotCur' = Current(n)
                 /\ UNCHANGED <<obj, fetched>>
    IN  /\ pc = "read"
        /\ \/ s # None /\ ~Owned(s) /\ End
           \/ /\ s # None /\ Owned(s) /\ UpToDate(s)
              /\ pc' = "report" /\ Return /\ UNCHANGED obj
           \/ s # None /\ Owned(s) /\ ~UpToDate(s) /\ Write
           \/ s = None /\ Write
        /\ UNCHANGED <<kube, value, budget>>

\* What the pass writes: a new Secret, or the one it read with one entry set.
Written ==
    IF got = None
    THEN [owner |-> obj.uid,
          data |-> [k \in Keys |-> IF k = obj.out.key THEN fetched ELSE None]]
    ELSE [got EXCEPT !.data[obj.out.key] = fetched]

\* Create is refused when the Secret exists, Update when it changed since. A
\* call that fails may have taken effect.
EnsureWrite ==
    LET n == obj.out.name
        Accepted == IF got = None THEN secrets[n] = None ELSE gotCur
    IN  /\ pc = "write"
        /\ \/ /\ NoFault /\ Accepted /\ Store(n, Written) /\ pc' = "report"
              /\ Return /\ UNCHANGED obj
           \/ NoFault /\ ~Accepted /\ UNCHANGED <<secrets, seen, fresh>> /\ End
           \/ Spend("fault") /\ Accepted /\ Store(n, Written) /\ End
           \/ Spend("fault") /\ UNCHANGED <<secrets, seen, fresh>> /\ End
        /\ UNCHANGED <<cr, crSeen, value>>

\* Mutant: status.secretName is set once.
ReportNameOnce ==
    /\ pc = "report" /\ End
    /\ cr' = IF obj.reported = None THEN [cr EXCEPT !.reported = obj.out.name] ELSE cr
    /\ UNCHANGED <<crSeen, secrets, seen, fresh, value, budget>>

\* status.secretName is set in memory and reaches the API server with the
\* status patch if it differs from what the pass started with. The patch may
\* fail, and the answer to the annotation's patch may have taken the name back.
ReportName ==
    /\ pc = "report" /\ End
    /\ \/ /\ NoFault
          /\ cr' = IF obj.reported = obj.out.name THEN cr
                   ELSE [cr EXCEPT !.reported = obj.out.name]
       \/ Spend("fault") /\ UNCHANGED cr
    /\ UNCHANGED <<crSeen, secrets, seen, fresh, value>>

-----------------------------------------------------------------------------
(* The cache *)

DeliverClient ==
    /\ crSeen # cr /\ crSeen' = cr
    /\ UNCHANGED <<cr, secrets, seen, fresh, value, pc, copy, budget>>

DeliverSecret(n) ==
    /\ ~fresh[n]
    /\ seen' = [seen EXCEPT ![n] = secrets[n]]
    /\ fresh' = [fresh EXCEPT ![n] = TRUE]
    /\ UNCHANGED <<cr, crSeen, secrets, value, pc, copy, budget>>

-----------------------------------------------------------------------------
(* Everyone else *)

\* Someone else than the pass stores secret under n.
StoreBehind(n, secret) ==
    /\ Store(n, secret)
    /\ gotCur' = (gotCur /\ obj.out.name # n)
    /\ UNCHANGED <<cr, crSeen, value, pc, obj, fetched, got>>

\* A user edits spec.secretOutput.
UserOut(out) ==
    /\ Spend("user") /\ out # cr.out
    /\ cr' = [cr EXCEPT !.out = out]
    /\ UNCHANGED <<crSeen, secrets, seen, fresh, value, pc, copy>>

\* The Client is deleted and created again. The worker itself releases the
\* finalizer, so no pass is under way, and the next one sees the new Client.
UserRecreate ==
    /\ Spend("user") /\ pc = "idle"
    /\ cr' = [cr EXCEPT !.uid = @ + 1, !.reported = None] /\ crSeen' = cr'
    /\ UNCHANGED <<secrets, seen, fresh, value, pc, copy>>

\* A user creates a Secret of their own, ...
UserSecret(n, k) ==
    /\ Spend("user") /\ secrets[n] = None
    /\ StoreBehind(n, [owner |-> 0,
                       data |-> [x \in Keys |-> IF x = k THEN Mine ELSE None]])

\* ... sets an entry of a Secret, ...
UserEntry(n, k) ==
    /\ Spend("user") /\ secrets[n] # None /\ secrets[n].data[k] # Mine
    /\ StoreBehind(n, [secrets[n] EXCEPT !.data[k] = Mine])

\* ... or deletes one.
UserRemoves(n) ==
    /\ Spend("user") /\ secrets[n] # None
    /\ StoreBehind(n, None)

\* The garbage collector removes the Secrets of a Client that is gone.
Collect(n) ==
    /\ secrets[n] # None /\ secrets[n].owner \notin {0, cr.uid}
    /\ StoreBehind(n, None)
    /\ UNCHANGED budget

\* Keycloak regenerates the client secret.
Rotate(v) ==
    /\ Spend("server") /\ v # value /\ value' = v
    /\ UNCHANGED <<kube, pc, copy>>

-----------------------------------------------------------------------------
Ensure == Start \/ Fetch \/ EnsureRead \/ EnsureWrite \/ ReportName

User ==
    \/ \E out \in {None} \cup Outs : UserOut(out)
    \/ UserRecreate
    \/ \E n \in Names :
          UserRemoves(n) \/ \E k \in Keys : UserSecret(n, k) \/ UserEntry(n, k)

Next ==
    \/ Ensure \/ DeliverClient \/ User
    \/ \E n \in Names : DeliverSecret(n) \/ Collect(n)
    \/ \E v \in Values : Rotate(v)

Spec == Init /\ [][Next]_vars

\* Passes recur (resync on success, backoff on error), watches deliver, and the
\* garbage collector runs.
FairSpec ==
    /\ Spec /\ WF_vars(Ensure) /\ WF_vars(DeliverClient)
    /\ \A n \in Names : WF_vars(DeliverSecret(n)) /\ WF_vars(Collect(n))

-----------------------------------------------------------------------------
(* Properties *)

\* The step is a write of the operator's.
Writes == pc = "write" /\ pc' # "write" /\ secrets' # secrets

\* ensureOutputSecret never touches a Secret the Client does not own at the
\* moment of the write, however old the copy it judged by.
ForeignKept ==
    [][Writes => \A n \in Names : (secrets[n] # None /\ secrets[n] # secrets'[n])
                                      => secrets[n].owner = cr.uid]_vars

\* A write sets the exported entry and loses no other: an entry somebody added
\* between the read and the Update survives.
EntriesKept ==
    [][Writes => \A n \in Names, k \in Keys :
                     (secrets[n] # None /\ <<n, k>> # <<obj.out.name, obj.out.key>>)
                         => secrets'[n].data[k] = secrets[n].data[k]]_vars

\* The Secret secretOutput names is the Client's and holds the client secret that
\* Keycloak has, status.secretName names it, the caches show all that, and what a
\* pass under way holds agrees.
InPlace ==
    LET n == cr.out.name
        s == secrets[n]
    IN  /\ cr.out # None /\ cr.reported = n /\ crSeen = cr
        /\ s # None /\ s.owner = cr.uid /\ s.data[cr.out.key] = value /\ fresh[n]
        /\ pc # "write" /\ (pc # "idle" => obj = cr) /\ (pc = "read" => fetched = value)

\* Once everyone else is done, the export is in place for good, unless a user's own
\* Secret has the name: the value arrives, and status.secretName comes to name the
\* Secret whatever it named before, although a merge patch against a stale copy
\* carries it.
Exported ==
    LET s == secrets[cr.out.name] IN
    <>[](cr.out # None => s # None /\ (s.owner = 0 \/ InPlace))

\* While nobody interferes and no call fails, an export that is in place stays so:
\* passes, deliveries and the garbage collector write neither the Secret nor the
\* Client.
InPlaceKept ==
    [][InPlace /\ budget' = budget
           => /\ InPlace' /\ cr' = cr /\ value' = value
              /\ secrets'[cr.out.name] = secrets[cr.out.name]]_vars

\* The Secret is written only when the value differs: in the end the operator
\* writes no more, though its passes go on.
Settles == <>[](pc # "write")
=============================================================================
