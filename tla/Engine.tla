------------------------------- MODULE Engine -------------------------------
(***************************************************************************)
(* The reconciliation engine (internal/controller/engine.go) driving one   *)
(* custom resource against one Keycloak server.                            *)
(*                                                                         *)
(* A pass of Engine.Reconcile is a sequence of calls: to the informer      *)
(* cache, to the Kubernetes API and to the Keycloak Admin API. Every call  *)
(* is one step of this module, so that users, server administrators,       *)
(* informer deliveries, faults and operator restarts interleave with it.   *)
(*                                                                         *)
(* A resourceVersion is only ever compared for equality with another one.  *)
(* The comparisons are kept, the numbers are not: a copy of the object is  *)
(* "current" while nothing changed the object since the copy was taken.    *)
(***************************************************************************)
EXTENDS Naturals, Drivers

CONSTANTS
    None,           \* the absent object, resource, annotation or field
    Garbled,        \* a last-applied annotation that is not JSON
    Keys,           \* natural keys on the server (realm name, clientId, alias, ...)
    Vals,           \* values of the one representation field that is modelled
    Zero,           \* the zero value a removed field is reset to (zeroFor)
    Specs,          \* the specs a user may declare
    AllowChoices,   \* may the allow-protected annotation be absent, present?
    AnnEdits,       \* what users do to the last-applied annotation
    ProtectedKeys,  \* ProtectedRealmNames
    Driver,         \* the kind's driver
    Budgets         \* bounds on what users do to the object (how often, and with
                    \* which specs), on what administrators do to the server, and
                    \* on failing calls, outages and restarts

SpecType == [key: Keys, val: Vals \cup {None},
             adoption: {"CreateOnly", "Adopt", "FailIfExists"},
             deletion: {"Delete", "Orphan"}]

BudgetType == [user: Nat, specs: SUBSET Specs, admin: Nat, fault: Nat]

ASSUME ConstantsAssumption ==
    /\ Zero \in Vals
    /\ None \notin Vals \cup Keys
    /\ Specs \subseteq SpecType
    /\ AllowChoices \subseteq BOOLEAN
    /\ AnnEdits \subseteq {"keep", "drop", "garble"}
    /\ ProtectedKeys \subseteq Keys
    /\ Driver \in KindType
    /\ Budgets \subseteq BudgetType

HasMarker == Driver.marker
ByID == Driver.byID

-----------------------------------------------------------------------------
(* Data *)

\* Condition reasons. The reason Succeeded comes with one of two messages, which
\* are part of what is written: "Corrected" and "Matches" stand for the two.
Success == {"Corrected", "Matches"}
Failure == {"ConnectionUnavailable", "ProtectedRealm", "SecretMissing",
            "AlreadyExists", "Retrying", "Failed"}

\* A status condition, with the generation it says it observed.
Cond == [reason: Success \cup Failure \cup {"None"}, gen: Nat]
NoCond == [reason |-> "None", gen |-> 0]

\* The status subresource: two conditions and the top-level observedGeneration.
Status == [ready: Cond, synced: Cond, obsGen: Nat]
NoStatus == [ready |-> NoCond, synced |-> NoCond, obsGen |-> 0]

\* What the last-applied annotation records: the representation fields.
Rep == [key: Keys, val: Vals \cup {None}]
RepOf(spec) == [key |-> spec.key, val |-> spec.val]

\* The custom resource as the API server stores it.
Object == [spec: Specs, allow: BOOLEAN, gen: Nat, deleting: BOOLEAN,
           fin: BOOLEAN, ann: Rep \cup {None, Garbled}, status: Status]

\* A server-side resource: the modelled field, what PostApply enforces beside
\* it, the managed marker, and (history) who brought it under whose control.
Resource == [val: Vals, sub: Vals \cup {None}, marked: BOOLEAN,
             own: {"operator", "foreign"}]

ASSUME NoneAssumption ==
    /\ None \notin Object \cup Resource \cup Rep
    /\ Garbled \notin Rep \cup {None}

\* What a pass will report: condition reason, whether Synced is written after
\* Ready, and what Reconcile returns.
Verdict == [reason: Success \cup Failure, both: BOOLEAN,
            res: {"done", "after", "error"}]
NoVerdict == [reason |-> "Retrying", both |-> FALSE, res |-> "error"]

PCs == {"idle", "conn", "find", "delete", "release", "addfin", "get", "prepare",
        "create", "reget", "existing", "update", "post", "annotate", "ready",
        "synced", "end"}

VARIABLES
    api,        \* the object in the API server, or None
    cache,      \* the informer's copy of it
    cacheCur,   \* is the informer's copy current?
    remote,     \* the Keycloak server: natural key -> resource or None
    pc,         \* the next call of the pass in progress
    obj,        \* the pass's working copy of the object
    base,       \* the status at the start of the pass (the MergeFrom base)
    objCur,     \* is obj's resourceVersion the API server's?
    baseCur,    \* is base's resourceVersion the API server's?
    locked,     \* do obj and base differ in resourceVersion?
    got,        \* the remote representation the pass last read
    idLive,     \* does the resource the pass resolved still exist?
    changed,    \* has the pass created or updated the resource?
    verdict,    \* what the pass is about to report
    queued,     \* is the object in the work queue?
    timer,      \* is a RequeueAfter pending?
    connUp,     \* do the KeycloakConnection and its Secret resolve?
    secretUp,   \* do the inbound Secrets of the spec resolve?
    budget,     \* what the environment may still do
    enforced    \* history: the generations and specs that passes enforced in full

kube == <<api, cache, cacheCur>>
copy == <<obj, base, objCur, baseCur, locked>>
read == <<got, idLive, changed>>
queue == <<queued, timer>>
env == <<connUp, secretUp>>
vars == <<kube, remote, pc, copy, read, verdict, queue, env, budget, enforced>>

KubeType ==
    /\ api \in Object \cup {None}
    /\ cache \in Object \cup {None}
    /\ cacheCur \in BOOLEAN

ServerType == remote \in [Keys -> Resource \cup {None}]

PassType ==
    /\ pc \in PCs
    /\ obj \in Object \cup {None} /\ base \in Status
    /\ pc # "idle" => obj # None
    /\ objCur \in BOOLEAN /\ baseCur \in BOOLEAN /\ locked \in BOOLEAN
    /\ got \in Resource \cup {None} /\ idLive \in BOOLEAN /\ changed \in BOOLEAN
    /\ pc \in {"existing", "update"} => got # None
    /\ verdict \in Verdict

QueueType == queued \in BOOLEAN /\ timer \in BOOLEAN

EnvType ==
    /\ connUp \in BOOLEAN /\ secretUp \in BOOLEAN
    /\ budget \in BudgetType

HistoryType == enforced \subseteq [gen: Nat, rep: Rep]

\* What a pass holds is an object whenever it runs, what it compares is a
\* resource whenever it compares, and everything stored is well formed
\* (engine.go:107-315).
TypeOK ==
    KubeType /\ ServerType /\ PassType /\ QueueType /\ EnvType /\ HistoryType

Init ==
    /\ api = None /\ cache = None /\ cacheCur = TRUE
    /\ remote = [k \in Keys |-> None]
    /\ pc = "idle"
    /\ obj = None /\ base = NoStatus
    /\ objCur = FALSE /\ baseCur = FALSE /\ locked = FALSE
    /\ got = None /\ idLive = FALSE /\ changed = FALSE
    /\ verdict = NoVerdict
    /\ queued = FALSE /\ timer = FALSE
    /\ connUp = TRUE /\ secretUp = TRUE
    /\ budget \in Budgets
    /\ enforced = {}

-----------------------------------------------------------------------------
(* The payload *)

\* Does the last-applied annotation record a representation?
Recorded(o) == o.ann \notin {None, Garbled}

\* EffectivePayload on the modelled field: the spec's value; the zero value if
\* the spec dropped a field that last-applied records; None if not in the payload.
Want(o) ==
    CASE o.spec.val # None -> o.spec.val
      [] o.spec.val = None /\ Recorded(o) /\ o.ann.val # None -> Zero
      [] OTHER -> None

\* PayloadDiffers: only fields of the payload count, the marker is one of them.
Differs(r, o) ==
    \/ Want(o) # None /\ r.val # Want(o)
    \/ HasMarker /\ ~r.marked

\* MergePayload: the representation that was read, overlaid with the payload.
Merged(r, o) ==
    [r EXCEPT !.val = IF Want(o) = None THEN @ ELSE Want(o),
              !.marked = @ \/ HasMarker,
              !.own = "operator"]

\* What Create leaves on the server: the payload, defaults for the rest.
Created(o) ==
    [val |-> IF Want(o) = None THEN Zero ELSE Want(o), sub |-> None,
     marked |-> HasMarker, own |-> "operator"]

\* Does PostApply call the server, and does it enforce something there?
Posts(o) ==
    Driver.post \in {"reads", "exact"} \/ (Driver.post = "declared" /\ o.spec.val # None)
Enforces(o) == Posts(o) /\ (Driver.post = "exact" \/ o.spec.val # None)

\* Protected: a protected name without the allow-protected annotation.
Protected(o) == Driver.guarded /\ o.spec.key \in ProtectedKeys /\ ~o.allow

\* Mutant: the marker on the server is not looked at.
ManagedByAnnotation(r, o) == o.ann # None

\* IsManaged(remote), or a last-applied annotation from an earlier pass.
Managed(r, o) == r.marked \/ o.ann # None

-----------------------------------------------------------------------------
(* Calls and their outcomes *)

\* A call fails in transport; the operator cannot tell whether it took effect.
Fault == budget.fault > 0 /\ budget' = [budget EXCEPT !.fault = @ - 1]
NoFault == UNCHANGED budget

\* What users and administrators do is bounded likewise.
SpendUser == budget.user > 0 /\ budget' = [budget EXCEPT !.user = @ - 1]
SpendAdmin == budget.admin > 0 /\ budget' = [budget EXCEPT !.admin = @ - 1]

\* The API server holds o from now on. Writing what is there already changes
\* no resourceVersion and notifies nobody.
Store(o) ==
    /\ api' = o
    /\ cacheCur' = (cacheCur /\ o = api)
    /\ UNCHANGED cache

\* Someone else than the pass stores o.
StoreBehind(o) ==
    /\ Store(o)
    /\ objCur' = (objCur /\ o = api)
    /\ baseCur' = (baseCur /\ o = api)
    /\ UNCHANGED <<obj, base, locked>>

\* The client decodes the API server's answer a into the object in place: what
\* the answer does not mention keeps its value in memory.
Decoded(o, a) ==
    LET bare == a.status.ready = NoCond /\ a.status.synced = NoCond IN
    [a EXCEPT !.status.ready = IF bare THEN o.status.ready ELSE @,
              !.status.synced = IF bare THEN o.status.synced ELSE @,
              !.status.obsGen = IF @ = 0 THEN o.status.obsGen ELSE @]

\* The pass patched the object to a; o was the object in memory.
Patched(o, a) ==
    /\ Store(a)
    /\ obj' = Decoded(o, a)
    /\ objCur' = TRUE
    /\ baseCur' = (baseCur /\ a = api)
    /\ locked' = ~(baseCur /\ a = api)
    /\ UNCHANGED base

\* Mutant: the conditions are patched only when Ready changes.
MergeStatusReady(a, o) ==
    LET conds == o.status.ready # base.ready IN
    [a EXCEPT !.status.ready = IF conds THEN o.status.ready ELSE @,
              !.status.synced = IF conds THEN o.status.synced ELSE @,
              !.status.obsGen = IF o.status.obsGen # base.obsGen
                                THEN o.status.obsGen ELSE @]

\* Status().Patch with MergeFrom(base): the fields of o.status that differ from
\* base. The two conditions are one list, replaced as a whole.
MergeStatus(a, o) ==
    LET conds == <<o.status.ready, o.status.synced>> # <<base.ready, base.synced>> IN
    [a EXCEPT !.status.ready = IF conds THEN o.status.ready ELSE @,
              !.status.synced = IF conds THEN o.status.synced ELSE @,
              !.status.obsGen = IF o.status.obsGen # base.obsGen
                                THEN o.status.obsGen ELSE @]

\* patchStatus with the object o in memory. Once obj and base differ in
\* resourceVersion the patch carries it, and a stale one is refused. An error is
\* logged and otherwise ignored.
PatchStatus(o) ==
    \/ /\ NoFault
       /\ api # None /\ (locked => objCur)
       /\ Patched(o, MergeStatus(api, o))
    \/ /\ NoFault
       /\ api = None \/ (locked /\ ~objCur)
       /\ obj' = o
       /\ UNCHANGED <<kube, base, objCur, baseCur, locked>>
    \/ /\ Fault
       /\ obj' = o
       /\ UNCHANGED <<kube, base, objCur, baseCur, locked>>

\* The pass is over, and what it held in memory is gone.
Forget ==
    /\ pc' = "idle"
    /\ obj' = None /\ base' = NoStatus
    /\ objCur' = FALSE /\ baseCur' = FALSE /\ locked' = FALSE
    /\ got' = None /\ idLive' = FALSE /\ changed' = FALSE
    /\ verdict' = NoVerdict

\* Reconcile returns: an error re-queues with backoff, RequeueAfter arms a timer.
Return(res) ==
    /\ queued' = (queued \/ res = "error")
    /\ timer' = (timer \/ res = "after")
    /\ Forget

\* The pass ends with an error and reports nothing.
GiveUp == Return("error") /\ UNCHANGED kube

\* Update replaces the object by o and the pass returns. A stale resourceVersion
\* is a conflict; a call that fails may have taken effect.
UpdateObject(o, res) ==
    \/ NoFault /\ objCur /\ Store(o) /\ Return(res)
    \/ NoFault /\ ~objCur /\ GiveUp
    \/ Fault /\ objCur /\ Store(o) /\ Return("error")
    \/ Fault /\ GiveUp

\* The pass goes on to the call at p, having written nothing.
Goto(p) ==
    /\ pc' = p
    /\ UNCHANGED <<kube, copy, verdict, queue>>

\* The pass is over but for its status: Ready, and Synced if both.
Report(reason, both, res) ==
    /\ verdict' = [reason |-> reason, both |-> both, res |-> res]
    /\ pc' = "ready"
    /\ UNCHANGED <<kube, copy, queue>>

-----------------------------------------------------------------------------
(* A pass *)

\* Mutant: an Orphan deletion waits for the connection too.
StartNoOrphan ==
    /\ pc = "idle" /\ queued
    /\ queued' = FALSE
    /\ IF cache = None
       THEN UNCHANGED <<pc, copy>>
       ELSE /\ obj' = cache /\ base' = cache.status
            /\ objCur' = cacheCur /\ baseCur' = cacheCur /\ locked' = FALSE
            /\ pc' = "conn"
    /\ UNCHANGED <<kube, remote, read, verdict, timer, env, budget, enforced>>

\* The controller takes the object from the queue, reads it from the informer
\* cache, and Reconcile starts. An Orphan deletion needs no connection.
Start ==
    /\ pc = "idle" /\ queued
    /\ queued' = FALSE
    /\ IF cache = None
       THEN UNCHANGED <<pc, copy>>
       ELSE /\ obj' = cache /\ base' = cache.status
            /\ objCur' = cacheCur /\ baseCur' = cacheCur /\ locked' = FALSE
            /\ pc' = IF cache.deleting /\ cache.spec.deletion = "Orphan"
                     THEN "release" ELSE "conn"
    /\ UNCHANGED <<kube, remote, read, verdict, timer, env, budget, enforced>>

\* Mutant: the finalizer is not awaited before the server is touched.
ConnectNoFinalizer ==
    /\ pc = "conn"
    /\ \/ ~connUp /\ Report("ConnectionUnavailable", TRUE, "after")
       \/ connUp /\ obj.deleting /\ Goto(IF ByID THEN "find" ELSE "delete")
       \/ connUp /\ ~obj.deleting /\ Goto("get")
    /\ UNCHANGED <<remote, read, env, budget, enforced>>

\* Provider.For, then the checks that need no further call; the last of them is
\* whether EffectivePayload can read the annotation.
Connect ==
    /\ pc = "conn"
    /\ \/ ~connUp /\ Report("ConnectionUnavailable", TRUE, "after")
       \/ /\ connUp /\ obj.deleting
          /\ Goto(IF ByID THEN "find" ELSE "delete")
       \/ connUp /\ ~obj.deleting /\ ~obj.fin /\ Goto("addfin")
       \/ /\ connUp /\ ~obj.deleting /\ obj.fin /\ Protected(obj)
          /\ Report("ProtectedRealm", TRUE, "done")
       \/ /\ connUp /\ ~obj.deleting /\ obj.fin /\ ~Protected(obj)
          /\ obj.ann = Garbled /\ Report("Failed", TRUE, "done")
       \/ /\ connUp /\ ~obj.deleting /\ obj.fin /\ ~Protected(obj)
          /\ obj.ann # Garbled /\ Goto("get")
    /\ UNCHANGED <<remote, read, env, budget, enforced>>

\* Mutant: a lookup that failed counts as one that found nothing.
FindForDeleteUnchecked ==
    /\ pc = "find"
    /\ \/ /\ NoFault /\ remote[obj.spec.key] # None
          /\ idLive' = TRUE /\ Goto("delete") /\ UNCHANGED <<got, changed>>
       \/ /\ Fault \/ (NoFault /\ remote[obj.spec.key] = None)
          /\ Goto("release") /\ UNCHANGED read
    /\ UNCHANGED <<remote, env, enforced>>

\* Driver.Delete of an id-addressed kind first resolves the id.
FindForDelete ==
    /\ pc = "find"
    /\ \/ /\ NoFault /\ remote[obj.spec.key] # None
          /\ idLive' = TRUE /\ Goto("delete") /\ UNCHANGED <<got, changed>>
       \/ /\ NoFault /\ remote[obj.spec.key] = None
          /\ Goto("release") /\ UNCHANGED read
       \/ Fault /\ GiveUp
    /\ UNCHANGED <<remote, env, enforced>>

\* Mutant: a failed DELETE request is ignored.
DeleteRemoteUnchecked ==
    /\ pc = "delete"
    /\ \/ NoFault /\ remote' = [remote EXCEPT ![obj.spec.key] = None]
       \/ Fault /\ UNCHANGED remote
    /\ Goto("release")
    /\ UNCHANGED <<read, env, enforced>>

\* The DELETE request. A 404 counts as deleted.
DeleteRemote ==
    LET k == obj.spec.key
        Gone == remote' = [remote EXCEPT ![k] = IF ByID /\ ~idLive THEN @ ELSE None]
    IN  /\ pc = "delete"
        /\ \/ NoFault /\ Gone /\ Goto("release") /\ UNCHANGED read
           \/ Fault /\ (Gone \/ UNCHANGED remote) /\ GiveUp
        /\ UNCHANGED <<env, enforced>>

\* RemoveFinalizer and Update. With its last finalizer gone, the API server
\* drops the object.
ReleaseFinalizer ==
    /\ pc = "release"
    /\ UpdateObject(None, "done")
    /\ UNCHANGED <<remote, env, enforced>>

\* AddFinalizer and Update, back in a second.
AddFinalizer ==
    /\ pc = "addfin"
    /\ UpdateObject([obj EXCEPT !.fin = TRUE], "after")
    /\ UNCHANGED <<remote, env, enforced>>

\* Driver.Get found the resource.
Fetched ==
    /\ remote[obj.spec.key] # None
    /\ got' = remote[obj.spec.key] /\ idLive' = TRUE
    /\ UNCHANGED changed

\* Mutant: a missing resource is taken for an existing one.
GetRemoteUnchecked ==
    /\ pc = "get"
    /\ NoFault /\ Goto("existing")
    /\ got' = remote[obj.spec.key] /\ idLive' = TRUE
    /\ UNCHANGED <<changed, remote, env, enforced>>

\* Driver.Get.
GetRemote ==
    /\ pc = "get"
    /\ \/ /\ NoFault /\ remote[obj.spec.key] = None
          /\ Goto("prepare") /\ UNCHANGED read
       \/ NoFault /\ Fetched /\ Goto("existing")
       \/ Fault /\ Report("Retrying", TRUE, "error") /\ UNCHANGED read
    /\ UNCHANGED <<remote, env, enforced>>

\* handleCreate up to the request: PreparePayload reads the inbound Secrets.
PrepareCreate ==
    /\ pc = "prepare"
    /\ \/ secretUp /\ Goto("create")
       \/ ~secretUp /\ Report("SecretMissing", TRUE, "after")
    /\ UNCHANGED <<remote, read, env, budget, enforced>>

\* The create request. A 409 means that someone else was faster.
CreateRemote ==
    LET k == obj.spec.key
        Take == remote[k] = None /\ remote' = [remote EXCEPT ![k] = Created(obj)]
    IN  /\ pc = "create"
        /\ \/ /\ NoFault /\ Take /\ Goto("reget")
              /\ changed' = TRUE /\ UNCHANGED <<got, idLive>>
           \/ /\ NoFault /\ remote[k] # None
              /\ Report("AlreadyExists", TRUE, "done")
              /\ UNCHANGED <<remote, read>>
           \/ /\ Fault /\ (Take \/ UNCHANGED remote)
              /\ Report("Retrying", TRUE, "error") /\ UNCHANGED read
        /\ UNCHANGED <<env, enforced>>

\* The created resource is read back. Failing here writes Ready only.
ReGetRemote ==
    /\ pc = "reget"
    /\ \/ NoFault /\ Fetched /\ Goto("post")
       \/ /\ NoFault /\ remote[obj.spec.key] = None
          /\ Report("Retrying", FALSE, "error") /\ UNCHANGED read
       \/ Fault /\ Report("Retrying", FALSE, "error") /\ UNCHANGED read
    /\ UNCHANGED <<remote, env, enforced>>

\* handleExisting up to its first request: the adoption policy, then
\* PreparePayload, then the comparison.
Existing ==
    LET adoption == obj.spec.adoption
        adopting == ~Managed(got, obj) /\ adoption = "Adopt"
        accepted == adoption # "FailIfExists" /\ (Managed(got, obj) \/ adopting)
    IN  /\ pc = "existing"
        /\ \/ ~accepted /\ Report("AlreadyExists", TRUE, "done")
           \/ accepted /\ ~secretUp /\ Report("SecretMissing", TRUE, "after")
           \/ /\ accepted /\ secretUp
              /\ Goto(IF adopting \/ Differs(got, obj) THEN "update" ELSE "post")
        /\ UNCHANGED <<remote, read, env, budget, enforced>>

\* Mutant: the kind is addressed by name although it has an id.
ReachableByName == remote[obj.spec.key] # None

\* Does a request that addresses the resource the pass resolved reach one? By
\* id, it misses a resource that was replaced since; by name, it hits it.
Reachable == IF ByID THEN idLive ELSE remote[obj.spec.key] # None

\* The update request puts the merged representation. The server refuses it with a
\* 409 where an administrator has given away what it asks for.
UpdateRemote ==
    LET k == obj.spec.key
        Put == Reachable /\ remote' = [remote EXCEPT ![k] =
                                     [Merged(got, obj) EXCEPT !.sub = remote[k].sub]]
    IN  /\ pc = "update"
        /\ \/ /\ NoFault /\ Put /\ Goto("post")
              /\ changed' = TRUE /\ UNCHANGED <<got, idLive>>
           \/ /\ NoFault /\ ~Reachable /\ Report("Retrying", TRUE, "error")
              /\ UNCHANGED <<remote, read>>
           \/ /\ SpendAdmin /\ Report("AlreadyExists", TRUE, "done")
              /\ UNCHANGED <<remote, read>>
           \/ /\ Fault /\ (Put \/ UNCHANGED remote)
              /\ Report("Retrying", TRUE, "error") /\ UNCHANGED read
        /\ UNCHANGED <<env, enforced>>

\* PostApply, and finalize up to its first request. PostApply addresses the
\* resource the pass read; a failing call may leave its work undone or done.
PostApply ==
    LET k == obj.spec.key
        differs == Enforces(obj) /\ remote[k].sub # obj.spec.val
        Enforce == remote' = IF Enforces(obj)
                             THEN [remote EXCEPT ![k].sub = obj.spec.val] ELSE remote
    IN  /\ pc = "post"
        /\ \/ /\ NoFault /\ (Posts(obj) => Reachable) /\ Enforce
              /\ enforced' = enforced \cup {[gen |-> obj.gen, rep |-> RepOf(obj.spec)]}
              /\ obj' = [obj EXCEPT !.status.obsGen = obj.gen]
              /\ verdict' = [reason |-> IF changed \/ differs THEN "Corrected"
                                        ELSE "Matches",
                             both |-> TRUE, res |-> "after"]
              /\ pc' = IF obj.ann # RepOf(obj.spec) THEN "annotate" ELSE "ready"
              /\ UNCHANGED <<kube, base, objCur, baseCur, locked, queue>>
           \/ /\ NoFault /\ Posts(obj) /\ ~Reachable /\ Report("Failed", TRUE, "after")
              /\ UNCHANGED <<remote, enforced>>
           \/ /\ Fault /\ Posts(obj) /\ ((Reachable /\ Enforce) \/ UNCHANGED remote)
              /\ Report("Failed", TRUE, "after") /\ UNCHANGED enforced
        /\ UNCHANGED <<read, env>>

\* finalize records the applied representation in the annotation; the answer
\* brings the object up to date, concurrent edits of the spec included.
Annotate ==
    LET a == [api EXCEPT !.ann = RepOf(obj.spec)]
    IN  /\ pc = "annotate"
        /\ \/ /\ NoFault /\ api # None /\ Patched(obj, a)
              /\ pc' = "ready"
              /\ UNCHANGED <<read, verdict, queue>>
           \/ NoFault /\ api = None /\ GiveUp
           \/ Fault /\ GiveUp
           \/ Fault /\ api # None /\ Store(a) /\ Return("error")
        /\ UNCHANGED <<remote, env, enforced>>

\* Mutant: writing a condition also moves the top-level observedGeneration.
WriteReadyObserving ==
    /\ pc = "ready"
    /\ PatchStatus([obj EXCEPT !.status.ready =
                        [reason |-> verdict.reason, gen |-> obj.gen],
                        !.status.obsGen = obj.gen])
    /\ pc' = IF verdict.both THEN "synced" ELSE "end"
    /\ UNCHANGED <<remote, read, verdict, queue, env, enforced>>

\* Mutant: the list of conditions is built anew.
WriteReadyAlone ==
    /\ pc = "ready"
    /\ PatchStatus([obj EXCEPT !.status.ready =
                        [reason |-> verdict.reason, gen |-> obj.gen],
                        !.status.synced = NoCond])
    /\ pc' = IF verdict.both THEN "synced" ELSE "end"
    /\ UNCHANGED <<remote, read, verdict, queue, env, enforced>>

\* setCondition(Ready): the generation is that of the object in memory.
WriteReady ==
    /\ pc = "ready"
    /\ PatchStatus([obj EXCEPT !.status.ready =
                        [reason |-> verdict.reason, gen |-> obj.gen]])
    /\ pc' = IF verdict.both THEN "synced" ELSE "end"
    /\ UNCHANGED <<remote, read, verdict, queue, env, enforced>>

\* setCondition(Synced).
WriteSynced ==
    /\ pc = "synced"
    /\ PatchStatus([obj EXCEPT !.status.synced =
                        [reason |-> verdict.reason, gen |-> obj.gen]])
    /\ pc' = "end"
    /\ UNCHANGED <<remote, read, verdict, queue, env, enforced>>

\* Reconcile returns.
Finish ==
    /\ pc = "end"
    /\ Return(verdict.res)
    /\ UNCHANGED <<kube, remote, env, budget, enforced>>

-----------------------------------------------------------------------------
(* Around the pass *)

worker == <<pc, copy, read, verdict>>

\* The informer delivers the current object; no predicate filters the event.
Deliver ==
    /\ ~cacheCur
    /\ cache' = api /\ cacheCur' = TRUE
    /\ queued' = TRUE
    /\ UNCHANGED <<api, remote, worker, timer, env, budget, enforced>>

\* A pending RequeueAfter expires. During a pass it has no effect before the
\* pass ends, and is taken then.
TimerFires ==
    /\ timer /\ pc = "idle"
    /\ timer' = FALSE /\ queued' = TRUE
    /\ UNCHANGED <<kube, remote, worker, env, budget, enforced>>

\* The informer's own resync, hours apart, queues the object again, likewise.
InformerResync ==
    /\ cache # None /\ ~queued /\ pc = "idle"
    /\ queued' = TRUE
    /\ UNCHANGED <<kube, remote, worker, timer, env, budget, enforced>>

\* The operator restarts: the pass, the queue and the timers are lost; the new
\* informer lists the object and queues it.
Restart ==
    /\ Fault
    /\ cache' = api /\ cacheCur' = TRUE /\ UNCHANGED api
    /\ queued' = (api # None) /\ timer' = FALSE
    /\ Forget
    /\ UNCHANGED <<remote, env, enforced>>

\* A user creates the custom resource.
UserCreate(spec, allow) ==
    /\ api = None /\ spec \in budget.specs /\ SpendUser
    /\ StoreBehind([spec |-> spec, allow |-> allow, gen |-> 1, deleting |-> FALSE,
                    fin |-> FALSE, ann |-> None, status |-> NoStatus])
    /\ enforced' = {}
    /\ UNCHANGED <<remote, pc, read, verdict, queue, env>>

\* The object with its spec, which starts a new generation, or its annotations
\* edited, which does not.
Edited(spec, allow, edit) ==
    [api EXCEPT !.spec = spec, !.allow = allow,
                !.ann = CASE edit = "keep" -> @
                          [] edit = "drop" -> None
                          [] edit = "garble" -> Garbled,
                !.gen = IF spec # api.spec THEN @ + 1 ELSE @]

\* A user edits the object.
UserEdit(spec, allow, edit) ==
    /\ api # None /\ spec \in budget.specs /\ SpendUser
    /\ Edited(spec, allow, edit) # api
    /\ StoreBehind(Edited(spec, allow, edit))
    /\ UNCHANGED <<remote, pc, read, verdict, queue, env, enforced>>

\* A user deletes it: with the finalizer the object stays, marked (and the API
\* server starts a new generation); without, it is gone.
UserDelete ==
    /\ api # None /\ ~api.deleting /\ SpendUser
    /\ StoreBehind(IF api.fin THEN [api EXCEPT !.deleting = TRUE, !.gen = @ + 1]
                   ELSE None)
    /\ UNCHANGED <<remote, pc, read, verdict, queue, env, enforced>>

\* Someone creates a resource on the server, out of band.
AdminCreate(k, v) ==
    /\ remote[k] = None /\ SpendAdmin
    /\ remote' = [remote EXCEPT ![k] = [val |-> v, sub |-> None, marked |-> FALSE,
                                        own |-> "foreign"]]
    /\ UNCHANGED <<kube, worker, queue, env, enforced>>

\* Someone changes one.
AdminEdit(k, v) ==
    /\ remote[k] # None /\ remote[k].val # v /\ SpendAdmin
    /\ remote' = [remote EXCEPT ![k].val = v]
    /\ UNCHANGED <<kube, worker, queue, env, enforced>>

\* Someone deletes one.
AdminDelete(k) ==
    /\ remote[k] # None /\ SpendAdmin
    /\ remote' = [remote EXCEPT ![k] = None]
    /\ idLive' = (idLive /\ obj # None /\ obj.spec.key # k)
    /\ UNCHANGED <<kube, pc, copy, got, changed, verdict, queue, env, enforced>>

\* The connection disappears, or comes back.
ConnectionChanges ==
    /\ \/ connUp /\ Fault
       \/ ~connUp /\ NoFault
    /\ connUp' = ~connUp
    /\ UNCHANGED <<kube, remote, worker, queue, secretUp, enforced>>

\* An inbound Secret that PreparePayload reads disappears, or comes back.
SecretChanges ==
    /\ Driver.secrets
    /\ \/ secretUp /\ Fault
       \/ ~secretUp /\ NoFault
    /\ secretUp' = ~secretUp
    /\ UNCHANGED <<kube, remote, worker, queue, connUp, enforced>>

-----------------------------------------------------------------------------
(* The specification *)

Pass ==
    \/ Start \/ Connect \/ FindForDelete \/ DeleteRemote \/ ReleaseFinalizer
    \/ AddFinalizer \/ GetRemote \/ PrepareCreate \/ CreateRemote \/ ReGetRemote
    \/ Existing \/ UpdateRemote \/ PostApply \/ Annotate \/ WriteReady
    \/ WriteSynced \/ Finish

Environment ==
    \/ Restart
    \/ InformerResync
    \/ \E s \in Specs, a \in AllowChoices : UserCreate(s, a)
    \/ \E s \in Specs, a \in AllowChoices, e \in AnnEdits : UserEdit(s, a, e)
    \/ UserDelete
    \/ \E k \in Keys : AdminDelete(k)
    \/ \E k \in Keys, v \in Vals : AdminCreate(k, v) \/ AdminEdit(k, v)
    \/ ConnectionChanges
    \/ SecretChanges

Next == Pass \/ Deliver \/ TimerFires \/ Environment

Spec == Init /\ [][Next]_vars

\* The worker and the informer keep running, a timer expires, and the informer's
\* resync comes round. Nobody has to edit, fail, or repair anything.
Fairness ==
    /\ WF_vars(Pass) /\ WF_vars(Deliver)
    /\ WF_vars(TimerFires) /\ WF_vars(InformerResync)

FairSpec == Spec /\ Fairness

=============================================================================
