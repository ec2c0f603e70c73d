-------------------------- MODULE EngineProperties --------------------------
(***************************************************************************)
(* What the reconciliation engine promises: the safety invariants, the     *)
(* action properties and the liveness properties checked of module Engine. *)
(***************************************************************************)
EXTENDS Engine

\* The calls a pass makes on the server on behalf of an object it manages.
Serving == {"get", "prepare", "create", "reget", "existing", "update", "post",
            "annotate"}

\* "Every CR carries a finalizer until the server-side outcome is settled, so
\* deletion never races" (docs/design.md): while a pass works on the server, the
\* object it works for is still there and still held by the finalizer, however
\* stale the informer cache was when the pass began (engine.go:149-160).
DeletionNeverRaces == pc \in Serving => api # None /\ api.fin

\* A resource the operator created or adopted under the Delete policy is still
\* held by its object: once the object is gone, so is the resource, whatever
\* failed or crashed on the way (handleDeletion deletes first, releases after).
\* For objects that keep their key and the Delete policy.
NoLeak ==
    \A k \in Keys : remote[k] # None /\ remote[k].own = "operator" =>
        api # None /\ api.fin /\ api.spec.key = k

\* Bringing a foreign resource under the operator's control takes the Adopt
\* policy or a last-applied annotation; losing the race against somebody who
\* recreates the resource does not do it (handleExisting, engine.go:259-291).
TakeoverNeedsConsent ==
    [][\A k \in Keys :
          /\ remote[k] # None /\ remote[k].own = "foreign"
          /\ remote'[k] # None /\ remote'[k].own = "operator"
          => obj.spec.adoption = "Adopt" \/ obj.ann # None]_vars

\* "Resources previously created or adopted by the operator are resumed"
\* (common.go:65-67): a pass that refuses an existing resource as foreign never
\* refuses one that the operator itself created or adopted.
NeverDisowns ==
    [][pc = "existing" /\ verdict'.reason = "AlreadyExists" /\ pc' = "ready"
          => got.own = "foreign" \/ obj.spec.adoption = "FailIfExists"]_vars

\* status.observedGeneration names a generation whose spec some pass enforced in
\* full, and the last-applied annotation a representation that was enforced:
\* neither runs ahead of the server (finalize, engine.go:319-335).
RecordsOnlyEnforced ==
    api # None =>
        /\ api.status.obsGen # 0 => \E e \in enforced : e.gen = api.status.obsGen
        /\ Recorded(api) => \E e \in enforced : e.rep = api.ann

-----------------------------------------------------------------------------
(* Liveness *)

\* Nothing keeps the operator from managing the object.
Manageable ==
    /\ connUp /\ secretUp
    /\ api # None /\ ~api.deleting /\ ~Protected(api) /\ api.ann # Garbled
    /\ api.spec.adoption # "FailIfExists"
    /\ LET r == remote[api.spec.key] IN
       r = None \/ r.own = "operator" \/ api.spec.adoption = "Adopt"

Says(cond) == cond.reason \in Success /\ cond.gen = api.gen

\* The server matches the spec, and the object says so.
Converged ==
    /\ LET r == remote[api.spec.key] IN
       /\ r # None /\ ~Differs(r, api)
       /\ Enforces(api) => r.sub = api.spec.val
    /\ api.ann = RepOf(api.spec)
    /\ Says(api.status.ready) /\ Says(api.status.synced)
    /\ api.status.obsGen = api.gen

\* A pass over the object, as it is, goes through to the end.
Servable ==
    /\ connUp /\ secretUp
    /\ api # None /\ ~api.deleting /\ api.fin /\ ~Protected(api) /\ api.ann # Garbled
    /\ api.spec.adoption # "FailIfExists"

\* At rest: the object says that nothing had to be corrected, the informer has
\* seen it, and a pass under way works on it as it is.
AtRest ==
    /\ Servable /\ Converged
    /\ api.status.ready.reason = "Matches" /\ api.status.synced.reason = "Matches"
    /\ cacheCur /\ cache = api /\ ~changed
    /\ pc \in {"idle", "conn", "get", "existing", "post", "ready", "synced", "end"}
    /\ pc # "idle" => /\ obj = api /\ base = api.status
                      /\ objCur /\ baseCur /\ ~locked
    /\ pc \in {"existing", "post"} => got = remote[api.spec.key] /\ idLive
    /\ pc \in {"ready", "synced"} =>
          verdict = [reason |-> "Matches", both |-> TRUE, res |-> "after"]

\* Once users, administrators, faults and restarts stop, the server matches the
\* spec for good, the status says so for the current generation, and the operator
\* is at rest: lost conflicts, stale caches and half-written status heal
\* (engine.go:107-346).
Converges == <>[](Manageable => AtRest)

\* Deletion completes: an Orphan deletion even without a connection, a Delete
\* deletion unless the connection stays away (engine.go:126-151).
DeletionCompletes ==
    []<>(\/ api = None \/ ~api.deleting
         \/ ~connUp /\ api.spec.deletion = "Delete")

\* The operator does not feed itself: although each of its own writes to the
\* object queues another pass (no predicate is installed), passes eventually
\* stop writing, to the object and to the server.
GoesQuiet == <>[][api' = api /\ remote' = remote]_vars

-----------------------------------------------------------------------------
(* What the documentation says and the code does not do *)

\* CreateOnly "never touches foreign resources" (docs/design.md:75): a pass does
\* not delete a resource that the operator neither created nor adopted.
ForeignNeverDeleted ==
    [][\A k \in Keys :
          remote[k] # None /\ remote[k].own = "foreign" /\ remote'[k] = None
          => pc' = pc \/ pc # "delete"]_vars

=============================================================================
