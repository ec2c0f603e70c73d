--------------------------- MODULE LifecycleProofs ---------------------------
(***************************************************************************)
(* The engine implements Lifecycle, for any number of keys, values and     *)
(* specs, and any number of edits, faults and restarts: the key and the    *)
(* policies of the object may be edited at any time.                       *)
(***************************************************************************)
EXTENDS EngineLifecycle, EngineProofs

\* The provers tried on a step that names none, in this order.
USE SMT, Zenon, SMTT(20), Z3T(20), SMTT(60)

\* Is it being deleted?
Deleting(o) == o # None /\ o.deleting

\* A copy of an object whose Delete deletion has completed: a pass that starts
\* from it runs the deletion again.
Gone(o) == Deleting(o) /\ o.spec.deletion = "Delete" /\ ~Deleting(api)

\* A pass that takes the finalizer off under the Delete policy, and one that
\* repeats a deletion, have nothing of the operator's left to delete; and nothing
\* is served from a copy older than a completed deletion.
DeletionInv ==
    /\ Deleting(api) => api.fin
    /\ pc \in {"conn", "find", "delete"} /\ obj.deleting => obj.spec.deletion = "Delete"
    /\ pc = "release" /\ obj.spec.deletion = "Delete" => ~Owns(obj.spec.key)
    /\ pc = "delete" /\ ByID /\ ~idLive => ~Owns(obj.spec.key)
    /\ Gone(cache) => ~Owns(cache.spec.key)
    /\ pc \in {"conn", "find", "delete"} /\ Gone(obj) => ~Owns(obj.spec.key)
    /\ pc \in Serving /\ Deleting(cache) => Deleting(api)
    /\ pc = "conn" /\ ~obj.deleting /\ Deleting(cache) => Deleting(api)

\* Initially there is nothing.
LEMMA InitDeletion == Init => DeletionInv
  BY DEF Init, DeletionInv, Deleting, Gone, Serving

-----------------------------------------------------------------------------
(* What the steps of the engine do to what is seen of the object *)

\* Patches and failing calls leave what users see of the object alone.
LEMMA PatchSeen ==
    ASSUME TypeOK, Annotate \/ WriteReady \/ WriteSynced
    PROVE  /\ Seen(api)' = Seen(api)
           /\ api = None => api' = None
           /\ api # None => api' # None /\ api'.deleting = api.deleting
                            /\ api'.fin = api.fin
<1>1. ASSUME NEW o \in Object, api # None, api' = o, o.spec = api.spec, o.fin = api.fin,
             o.deleting = api.deleting
      PROVE  /\ Seen(api)' = Seen(api)
             /\ api' # None /\ api'.deleting = api.deleting /\ api'.fin = api.fin
  BY <1>1, NoneAssumption DEF Seen
<1>2. ASSUME UNCHANGED api PROVE Seen(api)' = Seen(api)
  BY <1>2 DEF Seen
<1>3. api # None => api \in Object
  BY DEF TypeOK, KubeType
<1>4. CASE Annotate
  <2> DEFINE a == [api EXCEPT !.ann = RepOf(obj.spec)]
  <2>1. ASSUME api # None
        PROVE  a \in Object /\ a.spec = api.spec /\ a.fin = api.fin
               /\ a.deleting = api.deleting
    BY Zenon, <1>3, <1>4, <2>1, ObjectFields DEF Annotate, TypeOK, PassType, Object
  <2>2. CASE api # None /\ api' = a
    BY Zenon, <1>1, <2>1, <2>2
  <2>3. CASE UNCHANGED api
    BY <1>2, <2>3
  <2> QED
    BY Zenon, <1>4, <2>2, <2>3 DEF Annotate, Patched, Store, GiveUp, kube
<1>5. ASSUME NEW o \in Object, PatchStatus(o)
      PROVE  /\ Seen(api)' = Seen(api)
             /\ api = None => api' = None
             /\ api # None => api' # None /\ api'.deleting = api.deleting
                              /\ api'.fin = api.fin
  <2> DEFINE m == MergeStatus(api, o)
  <2>1. ASSUME api # None
        PROVE  m \in Object /\ m.spec = api.spec /\ m.fin = api.fin
               /\ m.deleting = api.deleting
    <3>1. m \in Object
      BY <1>3, <2>1, MergeStatusTyped DEF TypeOK
    <3> QED
      BY Zenon, <1>3, <2>1, <3>1 DEF MergeStatus, Object
  <2>2. CASE api # None /\ api' = m
    BY <1>1, <2>1, <2>2
  <2>3. CASE UNCHANGED api
    BY <1>2, <2>3
  <2> QED
    BY Zenon, <1>5, <2>2, <2>3 DEF PatchStatus, Patched, Store, kube
<1>6. CASE WriteReady \/ WriteSynced
  <2> DEFINE c == [reason |-> verdict.reason, gen |-> obj.gen]
  <2>1. obj \in Object
    BY <1>6 DEF WriteReady, WriteSynced, TypeOK, PassType
  <2>2. c \in Cond
    BY <2>1, ObjectFields DEF Cond, TypeOK, PassType, Verdict
  <2> QED
    BY <1>5, <1>6, <2>1, <2>2, ConditionTyped DEF WriteReady, WriteSynced
<1> QED
  BY <1>4, <1>6

-----------------------------------------------------------------------------
(* The invariant *)

\* The places of a pass of which DeletionInv says nothing.
Elsewhere == {"idle", "addfin", "ready", "synced", "end"}

\* The keys of the copies are keys.
LEMMA CopyKeys ==
    ASSUME TypeOK
    PROVE  /\ pc # "idle" => obj \in Object /\ obj # None /\ obj.spec.key \in Keys
           /\ cache # None => cache \in Object /\ cache.spec.key \in Keys
           /\ api # None => api \in Object /\ api.spec.key \in Keys
<1>1. pc # "idle" => obj \in Object /\ obj # None
  BY DEF TypeOK, PassType
<1>2. cache # None => cache \in Object
  BY DEF TypeOK, KubeType
<1>3. api # None => api \in Object
  BY DEF TypeOK, KubeType
<1> QED
  BY <1>1, <1>2, <1>3, ObjectFields

\* Every step keeps DeletionInv.
LEMMA StepDeletion ==
    ASSUME TypeOK, RaceInv, DeletionInv, [Next]_vars
    PROVE  DeletionInv'
\* A step that leaves the object and the informer's copy alone, and after which
\* the pass is elsewhere.
<1>ElsewhereDeletion.
      ASSUME UNCHANGED <<api, cache>>,
             \A k \in Keys : Owns(k)' => Owns(k),
             pc' \in Elsewhere
      PROVE  DeletionInv'
  <2> USE <1>ElsewhereDeletion
  <2>1. Gone(cache)' => ~Owns(cache.spec.key)'
    BY ZenonT(30), CopyKeys DEF DeletionInv, Gone, Deleting
  <2> QED
    BY ZenonT(30), <2>1 DEF DeletionInv, Deleting, Gone, Serving, Elsewhere
\* A step of someone else than the pass that leaves the copies alone, and gives
\* the operator nothing.
<1>AsideDeletion.
      ASSUME UNCHANGED <<cache, obj, pc>>,
             \A k \in Keys : Owns(k)' => Owns(k),
             Deleting(api) => Deleting(api)', Deleting(api)' => api'.fin,
             idLive' = idLive \/ ~Owns(obj.spec.key)'
      PROVE  DeletionInv'
  <2> USE <1>AsideDeletion
  <2>1. Gone(cache)' => ~Owns(cache.spec.key)'
    BY CopyKeys DEF DeletionInv, Gone, Deleting
  <2>2. pc \in {"conn", "find", "delete"} /\ Gone(obj)' => ~Owns(obj.spec.key)'
    BY CopyKeys DEF DeletionInv, Gone, Deleting
  <2>3. pc = "release" /\ obj.spec.deletion = "Delete" => ~Owns(obj.spec.key)'
    BY ZenonT(30), CopyKeys DEF DeletionInv
  <2>4. pc = "delete" /\ ByID /\ ~idLive' => ~Owns(obj.spec.key)'
    BY CopyKeys DEF DeletionInv
  <2>5. pc \in Serving /\ Deleting(cache) => Deleting(api)'
    BY DEF DeletionInv
  <2>6. pc = "conn" /\ ~obj.deleting /\ Deleting(cache) => Deleting(api)'
    BY DEF DeletionInv
  <2>7. pc \in {"conn", "find", "delete"} /\ obj.deleting => obj.spec.deletion = "Delete"
    BY DEF DeletionInv
  <2> HIDE DEF Gone
  <2>8. Deleting(cache)' = Deleting(cache)
    BY DEF Deleting
  <2> QED
    BY ZenonT(30), <2>1, <2>2, <2>3, <2>4, <2>5, <2>6, <2>7, <2>8 DEF DeletionInv
\* A step of a pass that serves, or begins to, for an object not being deleted.
<1>ServingDeletion.
      ASSUME UNCHANGED <<api, cache>>,
             \/ pc \in Serving
             \/ pc = "conn" /\ ~obj.deleting,
             pc' \in Serving \cup Elsewhere
      PROVE  DeletionInv'
  <2> USE <1>ServingDeletion
  <2>1. Deleting(cache) => Deleting(api)
    BY DEF DeletionInv
  <2>2. ~Gone(cache)' /\ (Deleting(cache)' => Deleting(api)')
    BY <2>1 DEF Gone, Deleting
  <2>3. pc' \notin {"conn", "find", "delete", "release"}
    BY DEF Serving, Elsewhere
  <2>4. Deleting(api)' => api'.fin
    BY DEF DeletionInv, Deleting
  <2> QED
    BY <2>2, <2>3, <2>4 DEF DeletionInv
\* Every step of a pass keeps DeletionInv.
<1>PassDeletion.
      ASSUME Pass
      PROVE  DeletionInv'
  <2> USE <1>PassDeletion
  <2>1. CASE Start
    <3>1. CASE cache = None
      BY Zenon, <2>1, <3>1, <1>ElsewhereDeletion DEF Start, Elsewhere, kube, Owns
    <3>2. CASE cache # None
      <4>1. /\ UNCHANGED <<api, cache, remote>> /\ obj' = cache
            /\ pc' = IF cache.deleting /\ cache.spec.deletion = "Orphan"
                     THEN "release" ELSE "conn"
        BY Zenon, <2>1, <3>2 DEF Start, kube
      <4>2. cache.spec.deletion \in {"Delete", "Orphan"}
        BY <3>2, CopyKeys, ConstantsAssumption DEF Object, SpecType
      <4> QED
        BY ZenonT(30), <3>2, <4>1, <4>2 DEF DeletionInv, Gone, Deleting, Serving, Owns
    <3> QED
      BY <3>1, <3>2
  <2>2. CASE Connect
    <3>1. UNCHANGED <<api, cache, obj, remote, idLive>>
      BY <2>2 DEF Connect, Goto, Report, kube, copy, read
    <3>2. CASE pc' \in {"find", "delete"}
      <4>1. pc = "conn" /\ obj.deleting /\ (pc' = "delete" => ~ByID)
        BY <2>2, <3>2 DEF Connect, Goto, Report
      <4> QED
        BY Zenon, <3>1, <3>2, <4>1 DEF DeletionInv, Gone, Deleting, Serving, Owns
    <3>3. CASE pc' = "get"
      <4>1. pc = "conn" /\ ~obj.deleting
        BY <2>2, <3>3 DEF Connect, Goto, Report
      <4> QED
        BY <3>1, <3>3, <4>1, <1>ServingDeletion DEF Serving
    <3>4. CASE pc' \in Elsewhere
      BY <3>1, <3>4, <1>ElsewhereDeletion DEF Owns
    <3> QED
      BY <2>2, <3>2, <3>3, <3>4 DEF Connect, Goto, Report, Elsewhere
  <2>3. CASE FindForDelete
    <3>1. UNCHANGED <<api, cache, remote>>
      BY <2>3 DEF FindForDelete, Goto, GiveUp, kube
    <3>2. CASE pc' = "idle"
      BY Zenon, <3>1, <3>2, <1>ElsewhereDeletion DEF Elsewhere, Owns
    <3>3. CASE pc' = "delete" /\ idLive' /\ UNCHANGED obj
      BY Zenon, <2>3, <3>1, <3>3 DEF FindForDelete, DeletionInv, Gone, Deleting, Serving,
         Owns
    <3>4. CASE pc' = "release" /\ remote[obj.spec.key] = None /\ UNCHANGED obj
      BY Zenon, <2>3, <3>1, <3>4
         DEF FindForDelete, DeletionInv, Gone, Deleting, Serving, Owns
    <3> QED
      BY Zenon, <2>3, <3>2, <3>3, <3>4 DEF FindForDelete, Goto, GiveUp, Return, Forget, copy
  <2>4. CASE DeleteRemote
    <3> DEFINE k == obj.spec.key
    <3>1. UNCHANGED <<api, cache>> /\ pc' \in {"release", "idle"} /\ pc = "delete"
      BY <2>4 DEF DeleteRemote, Goto, GiveUp, Return, Forget, kube
    <3>2. \A j \in Keys : Owns(j)' => Owns(j)
      BY <2>4 DEF DeleteRemote, Owns, TypeOK, ServerType
    <3>3. CASE pc' = "idle"
      BY <3>1, <3>2, <3>3, <1>ElsewhereDeletion DEF Elsewhere
    <3>4. CASE pc' = "release"
      <4>1. /\ UNCHANGED obj
            /\ remote' = [remote EXCEPT ![k] = IF ByID /\ ~idLive THEN @ ELSE None]
        BY <2>4, <3>4 DEF DeleteRemote, Goto, GiveUp, Return, Forget, copy
      <4>2. k \in Keys
        BY <3>1, CopyKeys
      <4>3. ~Owns(k)'
        BY ZenonT(30), <3>1, <4>1, <4>2 DEF DeletionInv, Owns, TypeOK, ServerType
      <4>4. Gone(cache)' => ~Owns(cache.spec.key)'
        BY <3>1, <3>2, CopyKeys DEF DeletionInv, Gone, Deleting
      <4>5. Deleting(api)' => api'.fin
        BY <3>1 DEF DeletionInv, Deleting
      <4> QED
        BY <3>1, <3>4, <4>1, <4>3, <4>4, <4>5 DEF DeletionInv, Serving
    <3> QED
      BY <3>1, <3>3, <3>4
  <2>5. CASE ReleaseFinalizer
    <3>1. CASE UNCHANGED kube
      BY Zenon, <2>5, <3>1, <1>ElsewhereDeletion DEF ReleaseFinalizer, UpdateObject, GiveUp,
         Return,
         Forget, Elsewhere, Owns, kube
    <3>2. CASE objCur /\ Store(None) /\ Forget
      <4>1. /\ cache = obj /\ UNCHANGED <<cache, remote>> /\ api' = None /\ pc' = "idle"
            /\ pc = "release"
        BY <2>5, <3>2 DEF ReleaseFinalizer, RaceInv, Store, Forget
      <4> QED
        BY <4>1 DEF DeletionInv, Gone, Deleting, Serving, Owns
    <3> QED
      BY Zenon, <2>5, <3>1, <3>2 DEF ReleaseFinalizer, UpdateObject, GiveUp, Return
  <2>6. CASE AddFinalizer
    <3> DEFINE o == [obj EXCEPT !.fin = TRUE]
    <3>1. CASE UNCHANGED kube
      BY <2>6, <3>1, <1>ElsewhereDeletion DEF AddFinalizer, UpdateObject, GiveUp, Return,
         Forget, Elsewhere, Owns, kube
    <3>2. CASE objCur /\ Store(o) /\ Forget
      <4>1. /\ cache = api /\ api = obj /\ ~obj.deleting /\ api # None
            /\ UNCHANGED <<cache, remote>> /\ api' = o /\ pc' = "idle"
        BY <2>6, <3>2, CopyKeys DEF AddFinalizer, RaceInv, Store, Forget
      <4>2. o.deleting = obj.deleting
        BY <4>1, CopyKeys DEF Object
      <4> QED
        BY <4>1, <4>2 DEF DeletionInv, Gone, Deleting, Serving
    <3> QED
      BY <2>6, <3>1, <3>2 DEF AddFinalizer, UpdateObject, GiveUp, Return
  <2>7. CASE GetRemote \/ PrepareCreate \/ CreateRemote \/ ReGetRemote \/ Existing
             \/ UpdateRemote
    <3>1. UNCHANGED <<api, cache>> /\ pc \in Serving /\ pc' \in Serving \cup Elsewhere
      <4>1. UNCHANGED <<api, cache>>
        BY Zenon, <2>7 DEF GetRemote, PrepareCreate, CreateRemote, ReGetRemote, Existing,
           UpdateRemote, Goto, Report, kube
      <4>2. pc \in Serving
        BY Zenon, <2>7 DEF GetRemote, PrepareCreate, CreateRemote, ReGetRemote, Existing,
           UpdateRemote, Serving
      <4>3. pc' \in Serving \cup Elsewhere
        BY <2>7 DEF GetRemote, PrepareCreate, CreateRemote, ReGetRemote, Existing,
           UpdateRemote, Goto, Report, Serving, Elsewhere
      <4> QED
        BY <4>1, <4>2, <4>3
    <3> QED
      BY <3>1, <1>ServingDeletion
  <2>8. CASE PostApply
    <3>1. UNCHANGED <<api, cache>> /\ pc \in Serving /\ pc' \in Serving \cup Elsewhere
      BY Zenon, <2>8 DEF PostApply, Report, kube, Serving, Elsewhere
    <3> QED
      BY <3>1, <1>ServingDeletion
  <2>9. CASE Annotate \/ WriteReady \/ WriteSynced
    <3>1. UNCHANGED <<cache, remote>> /\ pc' \in Elsewhere
      BY <2>9 DEF Annotate, WriteReady, WriteSynced, PatchStatus, Patched, Store, GiveUp,
         Return, Forget, Elsewhere, kube
    <3>2. Deleting(api)' = Deleting(api) /\ (Deleting(api)' => api'.fin)
      BY Zenon, <2>9, PatchSeen DEF Deleting, DeletionInv
    <3> QED
      BY ZenonT(40), <3>1, <3>2 DEF DeletionInv, Gone, Deleting, Serving, Elsewhere, Owns
  <2>10. CASE Finish
    BY <2>10, <1>ElsewhereDeletion DEF Finish, Return, Forget, Elsewhere, Owns, kube
  <2> QED
    BY <2>1, <2>2, <2>3, <2>4, <2>5, <2>6, <2>7, <2>8, <2>9, <2>10 DEF Pass
<1>1. CASE Deliver
  <2>1. /\ UNCHANGED <<api, remote, pc, obj, idLive>> /\ cache' = api
    BY Zenon, <1>1 DEF Deliver, worker, copy, read
  <2> QED
    BY Zenon, <2>1 DEF DeletionInv, Gone, Deleting, Owns
<1>2. CASE Restart
  <2>1. /\ UNCHANGED <<api, remote>> /\ cache' = api /\ pc' = "idle"
    BY ZenonT(30), <1>2 DEF Restart, Forget
  <2> QED
    BY <2>1 DEF DeletionInv, Gone, Deleting, Owns, Serving
<1>3. CASE TimerFires \/ InformerResync \/ ConnectionChanges \/ SecretChanges
           \/ UNCHANGED vars
  <2>1. UNCHANGED <<api, cache, remote, pc, obj, idLive>>
    BY Zenon, <1>3 DEF TimerFires, InformerResync, ConnectionChanges, SecretChanges, vars,
       kube, worker, copy, read
  <2> QED
    BY Zenon, <2>1, <1>AsideDeletion DEF DeletionInv, Deleting, Owns
<1>4. ASSUME NEW s \in Specs, NEW w \in AllowChoices, UserCreate(s, w)
      PROVE  DeletionInv'
  <2>1. UNCHANGED <<cache, obj, pc, remote, idLive>> /\ api = None
    BY <1>4 DEF UserCreate, StoreBehind, Store, read
  <2>2. api'.deleting = FALSE
    BY <1>4 DEF UserCreate, StoreBehind, Store
  <2> QED
    BY <2>1, <2>2, <1>AsideDeletion DEF Deleting, Owns
<1>5. ASSUME NEW s \in Specs, NEW w \in AllowChoices, NEW n \in AnnEdits,
             UserEdit(s, w, n)
      PROVE  DeletionInv'
  <2>1. UNCHANGED <<cache, obj, pc, remote, idLive>> /\ api # None
    BY <1>5 DEF UserEdit, StoreBehind, Store, read
  <2>2. api' # None /\ api'.fin = api.fin /\ api'.deleting = api.deleting
    <3>1. api' = Edited(s, w, n)
      BY <1>5 DEF UserEdit, StoreBehind, Store
    <3> QED
      BY <3>1, <2>1, EditedTyped, NoneAssumption
  <2>3. /\ Deleting(api) => Deleting(api)'
        /\ Deleting(api)' => api'.fin
    BY <2>1, <2>2 DEF Deleting, DeletionInv
  <2> QED
    BY <2>1, <2>3, <1>AsideDeletion DEF Owns
<1>6. CASE UserDelete
  <2>1. UNCHANGED <<cache, obj, pc, remote, idLive>> /\ api \in Object /\ ~api.deleting
    BY <1>6, CopyKeys DEF UserDelete, StoreBehind, Store, read
  <2>2. api' = None \/ api'.fin
    BY <1>6, <2>1 DEF UserDelete, StoreBehind, Store, Object
  <2>3. /\ Deleting(api) => Deleting(api)'
        /\ Deleting(api)' => api'.fin
    BY ZenonT(30), <2>1, <2>2 DEF Deleting
  <2> QED
    BY <2>1, <2>3, <1>AsideDeletion DEF Owns
<1>7. ASSUME NEW k \in Keys, NEW v \in Vals, AdminCreate(k, v) \/ AdminEdit(k, v)
      PROVE  DeletionInv'
  <2>1. UNCHANGED <<api, cache, obj, pc, idLive>>
    BY <1>7 DEF AdminCreate, AdminEdit, kube, worker, copy, read
  <2>2. \A j \in Keys : Owns(j)' => Owns(j)
    BY <1>7 DEF AdminCreate, AdminEdit, Owns, TypeOK, ServerType, Resource
  <2> QED
    BY Zenon, <2>1, <2>2, <1>AsideDeletion DEF DeletionInv, Deleting
<1>8. ASSUME NEW k \in Keys, AdminDelete(k) PROVE DeletionInv'
  <2>1. UNCHANGED <<api, cache, obj, pc>>
    BY <1>8 DEF AdminDelete, kube, copy
  <2>2. \A j \in Keys : Owns(j)' => Owns(j)
    BY <1>8 DEF AdminDelete, Owns, TypeOK, ServerType
  <2>3. ~Owns(k)'
    BY ZenonT(30), <1>8 DEF AdminDelete, Owns, TypeOK, ServerType
  <2>4. CASE obj # None
    <3>1. idLive' = idLive \/ obj.spec.key = k
      BY <1>8, <2>4 DEF AdminDelete, TypeOK, PassType
    <3> QED
      BY Zenon, <2>1, <2>2, <2>3, <3>1, <1>AsideDeletion DEF DeletionInv, Deleting
  <2>5. CASE obj = None
    <3>1. pc' \in Elsewhere
      BY <2>1, <2>5 DEF TypeOK, PassType, Elsewhere
    <3> QED
      BY <2>1, <2>2, <3>1, <1>ElsewhereDeletion
  <2> QED
    BY <2>4, <2>5
<1> QED
  BY Zenon, <1>1, <1>2, <1>3, <1>4, <1>5, <1>6, <1>7, <1>8, <1>PassDeletion,
     ConstantsAssumption
     DEF Next, Environment

-----------------------------------------------------------------------------
(* The refinement *)

\* The server as Lifecycle sees it.
Server == [k \in Keys |-> Control(remote[k])]

\* Initially there is nothing to see.
LEMMA InitLife == Init => Life!Init
<1> SUFFICES ASSUME Init PROVE Life!Init
  OBVIOUS
<1>1. Seen(api) = None
  BY DEF Init, Seen
<1>2. [k \in Keys |-> Control(remote[k])] = [k \in Keys |-> "none"]
  BY DEF Init, Control
<1>3. budget.user \in Nat /\ budget.admin \in Nat
  BY ConstantsAssumption DEF Init, BudgetType
<1> QED
  BY <1>1, <1>2, <1>3 DEF Life!Init

\* Every step of the engine is a step of Lifecycle, or is not seen.
LEMMA StepLife ==
    ASSUME TypeOK, IdResolves, RaceInv, DeletionInv, [Next]_vars
    PROVE  [Life!Next]_(Life!vars)
\* A call that fails costs users and administrators nothing.
<1>FaultFree.
      ASSUME Fault \/ NoFault
      PROVE  budget'.user = budget.user /\ budget'.admin = budget.admin
  BY <1>FaultFree DEF Fault, NoFault, TypeOK, EnvType, BudgetType
\* A step that users and administrators do not see.
<1>Unseen.
      ASSUME Seen(api)' = Seen(api), Server' = Server,
             budget'.user = budget.user, budget'.admin = budget.admin
      PROVE  UNCHANGED Life!vars
  BY <1>Unseen DEF Life!vars, Server
\* What is seen of an object.
<1>SeenFields.
      ASSUME NEW o \in Object
      PROVE  /\ Seen(o) \in Life!View /\ Seen(o) # None
             /\ Seen(o).held = o.fin /\ Seen(o).deleting = o.deleting
             /\ Seen(o).key = o.spec.key /\ Seen(o).deletion = o.spec.deletion
  <2> USE <1>SeenFields
  <2> DEFINE v == [key |-> o.spec.key, deletion |-> o.spec.deletion, held |-> o.fin,
                   deleting |-> o.deleting]
  <2>1. Seen(o) = v
    BY NoneAssumption DEF Seen
  <2>2. o.spec \in SpecType /\ o.fin \in BOOLEAN /\ o.deleting \in BOOLEAN
    BY ConstantsAssumption DEF Object
  <2>3. v \in Life!View
    BY <2>2 DEF SpecType, Life!View, Life!Policies
  <2> QED
    BY <2>1, <2>3, ViewAssumption
\* Views that agree but for one field.
<1>ViewEdited.
      ASSUME NEW v \in Life!View, NEW u \in Life!View
      PROVE  /\ /\ u.key = v.key /\ u.deletion = v.deletion
                /\ u.held = TRUE /\ u.deleting = v.deleting
                => u = [v EXCEPT !.held = TRUE]
             /\ /\ u.key = v.key /\ u.deletion = v.deletion
                /\ u.held = v.held /\ u.deleting = TRUE
                => u = [v EXCEPT !.deleting = TRUE]
             /\ u.held = v.held /\ u.deleting = v.deleting
                => u = [v EXCEPT !.key = u.key, !.deletion = u.deletion]
  BY Zenon, <1>ViewEdited DEF Life!View
\* What is created or updated under a key becomes the operator's.
<1>Served.
      ASSUME NEW k \in Keys, NEW r \in Resource, r.own = "operator",
             remote' = [remote EXCEPT ![k] = r]
      PROVE  Server' = [Server EXCEPT ![k] = "ours"]
  <2> USE <1>Served
  <2>1. \A j \in Keys : remote'[j] = IF j = k THEN r ELSE remote[j]
    BY DEF TypeOK, ServerType
  <2>2. Control(r) = "ours"
    BY NoneAssumption DEF Control
  <2>3. \A j \in Keys : Control(remote[j])' = IF j = k THEN "ours" ELSE Control(remote[j])
    BY Zenon, <2>1, <2>2 DEF Control
  <2> QED
    BY Zenon, <2>3 DEF Server
\* What a step takes off the server is nobody's.
<1>Destroyed.
      ASSUME NEW k \in Keys, remote' = [remote EXCEPT ![k] = None]
      PROVE  Server' = [Server EXCEPT ![k] = "none"]
  <2> USE <1>Destroyed
  <2>1. \A j \in Keys : remote'[j] = IF j = k THEN None ELSE remote[j]
    BY DEF TypeOK, ServerType
  <2>2. \A j \in Keys : Control(remote[j])' = IF j = k THEN "none" ELSE Control(remote[j])
    BY Zenon, <2>1 DEF Control
  <2> QED
    BY Zenon, <2>2 DEF Server
\* A step of a pass is a step of the operator or is not seen; an Update that the
\* server refuses for the state an administrator gave it is the administrator's.
<1>PassLife.
      ASSUME Pass
      PROVE  Life!Operator \/ Life!Administrator \/ UNCHANGED Life!vars
  <2> USE <1>PassLife
  <2>1. CASE \/ Start \/ Connect \/ FindForDelete \/ GetRemote \/ PrepareCreate
             \/ ReGetRemote \/ Existing \/ Finish
    <3>1. UNCHANGED <<api, remote>>
      BY Zenon, <2>1 DEF Start, Connect, FindForDelete, GetRemote, PrepareCreate,
         ReGetRemote, Existing, Finish, Goto, Report, GiveUp, kube
    <3>2. Fault \/ NoFault
      BY Zenon, <2>1 DEF Start, Connect, FindForDelete, GetRemote, PrepareCreate,
         ReGetRemote, Existing, Finish, NoFault
    <3> QED
      BY <3>1, <3>2, <1>FaultFree, <1>Unseen DEF Seen, Server
  <2>2. CASE PostApply
    <3> DEFINE k == obj.spec.key
    <3>1. UNCHANGED api /\ (Fault \/ NoFault)
      BY Zenon, <2>2 DEF PostApply, Report, kube
    <3>2. CASE UNCHANGED remote
      BY <3>1, <3>2, <1>FaultFree, <1>Unseen DEF Seen, Server
    <3>3. CASE Reachable /\ remote' = [remote EXCEPT ![k].sub = obj.spec.val]
      <4>1. k \in Keys /\ remote[k] \in Resource
        BY <2>2, <3>3, CopyKeys DEF PostApply, Reachable, IdResolves, TypeOK, ServerType
      <4>2. \A j \in Keys : /\ j # k => remote'[j] = remote[j]
                            /\ remote'[k] = [remote[k] EXCEPT !.sub = obj.spec.val]
        BY <3>3, <4>1 DEF TypeOK, ServerType
      <4>3. remote'[k] # None /\ remote'[k].own = remote[k].own
        <5>1. obj.spec.val \in Vals \cup {None}
          BY <2>2, CopyKeys, ObjectFields DEF PostApply
        <5>2. [remote[k] EXCEPT !.sub = obj.spec.val] \in Resource
          BY <4>1, <5>1 DEF Resource
        <5> QED
          BY <4>1, <4>2, <5>2, NoneAssumption DEF Resource
      <4>4. \A j \in Keys : Control(remote[j])' = Control(remote[j])
        BY Zenon, <4>1, <4>2, <4>3, NoneAssumption DEF Control
      <4> QED
        BY ZenonT(40), <3>1, <4>4, <1>FaultFree, <1>Unseen DEF Seen, Server
    <3> QED
      BY Zenon, <2>2, <3>2, <3>3 DEF PostApply, Enforces
  <2>3. CASE Annotate \/ WriteReady \/ WriteSynced
    <3>1. UNCHANGED remote /\ (Fault \/ NoFault)
      BY Zenon, <2>3 DEF Annotate, WriteReady, WriteSynced, PatchStatus
    <3> QED
      BY <2>3, <3>1, PatchSeen, <1>FaultFree, <1>Unseen DEF Server
  <2>4. CASE DeleteRemote
    <3> DEFINE k == obj.spec.key
    <3>1. UNCHANGED api /\ (Fault \/ NoFault) /\ k \in Keys /\ pc = "delete"
      BY <2>4, CopyKeys DEF DeleteRemote, Goto, GiveUp, kube
    <3>2. CASE UNCHANGED remote
      BY <3>1, <3>2, <1>FaultFree, <1>Unseen DEF Seen, Server
    <3>3. CASE remote' = [remote EXCEPT ![k] = None]
      <4>1. Server' = [Server EXCEPT ![k] = "none"]
        BY Zenon, <3>1, <3>3, <1>Destroyed
      <4>2. CASE remote[k] = None
        <5>1. Server' = Server
          BY Zenon, <3>1, <4>1, <4>2 DEF Server, Control
        <5> QED
          BY <3>1, <5>1, <1>FaultFree, <1>Unseen DEF Seen
      <4>3. CASE remote[k] # None /\ remote[k].own # "operator"
        <5>1. Server[k] = "foreign"
          BY <3>1, <4>3 DEF Server, Control
        <5>2. Life!Destroy(k)
          BY ZenonT(40), <3>1, <4>1, <5>1 DEF Life!Destroy, Server, Seen
        <5> QED
          BY <3>1, <5>2, <1>FaultFree DEF Life!Operator
      <4>4. CASE Owns(k)
        <5>1. Deleting(api) /\ api.fin
          BY <3>1, <4>4, CopyKeys DEF DeletionInv, RaceInv, Gone, Deleting
        <5>2. Seen(api) # None /\ Seen(api).held /\ Seen(api).deleting
          BY <5>1, CopyKeys, <1>SeenFields DEF Deleting
        <5>3. Life!Destroy(k)
          BY Zenon, <3>1, <4>1, <5>2 DEF Life!Destroy, Server, Seen
        <5> QED
          BY <3>1, <5>3, <1>FaultFree DEF Life!Operator
      <4> QED
        BY <4>2, <4>3, <4>4 DEF Owns
    <3> QED
      BY <2>4, <3>1, <3>2, <3>3 DEF DeleteRemote, TypeOK, ServerType
  <2>5. CASE ReleaseFinalizer
    <3>1. UNCHANGED remote /\ (Fault \/ NoFault) /\ pc = "release"
      BY <2>5 DEF ReleaseFinalizer, UpdateObject
    <3>2. CASE UNCHANGED kube
      BY <3>1, <3>2, <1>FaultFree, <1>Unseen DEF Seen, Server, kube
    <3>3. CASE objCur /\ Store(None)
      <4>1. api = obj /\ api' = None /\ api # None /\ api.deleting /\ api.fin
        BY <3>1, <3>3, CopyKeys DEF RaceInv, DeletionInv, Deleting, Store
      <4>2. /\ Seen(api) # None /\ Seen(api).held /\ Seen(api).deleting
            /\ Seen(api).key = api.spec.key /\ Seen(api).deletion = api.spec.deletion
        BY ZenonT(40), <4>1, CopyKeys, <1>SeenFields
      <4>3. Seen(api).deletion = "Delete" => Server[Seen(api).key] # "ours"
        BY Zenon, <3>1, <4>1, <4>2, CopyKeys DEF DeletionInv, Owns, Server, Control
      <4>4. Seen(api)' = None
        BY <4>1 DEF Seen
      <4>5. Life!Release
        BY <3>1, <4>2, <4>3, <4>4 DEF Life!Release, Server
      <4> QED
        BY ZenonT(40), <3>1, <4>5, <1>FaultFree DEF Life!Operator
    <3> QED
      BY <2>5, <3>2, <3>3 DEF ReleaseFinalizer, UpdateObject, GiveUp
  <2>6. CASE AddFinalizer
    <3> DEFINE o == [obj EXCEPT !.fin = TRUE]
    <3>1. UNCHANGED remote /\ (Fault \/ NoFault) /\ pc = "addfin"
      BY <2>6 DEF AddFinalizer, UpdateObject
    <3>2. CASE UNCHANGED kube
      BY Zenon, <3>1, <3>2, <1>FaultFree, <1>Unseen DEF Seen, Server, kube
    <3>3. CASE objCur /\ Store(o)
      <4>1. api = obj /\ api' = o /\ api \in Object /\ ~api.deleting /\ ~api.fin
        BY <3>1, <3>3, CopyKeys DEF RaceInv, Store
      <4>2. o \in Object /\ o.fin = TRUE /\ o.spec = api.spec /\ o.deleting = api.deleting
        BY Zenon, <4>1 DEF Object
      <4>3. api # None /\ o # None
        BY Zenon, <4>1, <4>2, NoneAssumption
      <4>4. Seen(api)' = [Seen(api) EXCEPT !.held = TRUE]
        <5>1. Seen(api) \in Life!View /\ Seen(o) \in Life!View
          BY <4>1, <4>2, <1>SeenFields
        <5>2. /\ Seen(o).key = Seen(api).key /\ Seen(o).deletion = Seen(api).deletion
              /\ Seen(o).held = TRUE /\ Seen(o).deleting = Seen(api).deleting
          BY ZenonT(40), <4>1, <4>2, <1>SeenFields
        <5>3. Seen(api)' = Seen(o)
          BY <4>1 DEF Seen
        <5> QED
          BY Zenon, <5>1, <5>2, <5>3, <1>ViewEdited
      <4>5. Life!Hold
        BY <3>1, <4>1, <4>3, <4>4, <1>SeenFields DEF Life!Hold
      <4> QED
        BY <3>1, <4>5, <1>FaultFree DEF Life!Operator
    <3> QED
      BY <2>6, <3>2, <3>3 DEF AddFinalizer, UpdateObject, GiveUp
  <2>7. CASE CreateRemote \/ UpdateRemote
    <3> DEFINE k == obj.spec.key
    <3>1. /\ UNCHANGED api /\ pc \in {"create", "update"}
          /\ k \in Keys /\ obj \in Object
      BY Zenon, <2>7, CopyKeys DEF CreateRemote, UpdateRemote, Goto, Report, kube
    <3>2. CASE UNCHANGED remote /\ (Fault \/ NoFault)
      BY Zenon, <3>1, <3>2, <1>FaultFree, <1>Unseen DEF Seen, Server
    <3>3. ASSUME NEW r \in Resource, r.own = "operator", remote' = [remote EXCEPT ![k] = r],
                 Fault \/ NoFault
          PROVE  Life!Operator
      <4>1. Server' = [Server EXCEPT ![k] = "ours"]
        BY ZenonT(40), <3>1, <3>3, <1>Served
      <4>2. Held(api)
        BY <3>1 DEF RaceInv, Serving, Live
      <4>3. Seen(api) # None /\ Seen(api).held
        BY Zenon, <4>2, CopyKeys, <1>SeenFields DEF Held
      <4>4. Life!Serve(k)
        BY <3>1, <4>1, <4>3 DEF Life!Serve, Server, Seen
      <4> QED
        BY <3>1, <3>3, <4>4, <1>FaultFree DEF Life!Operator
    <3>4. CASE CreateRemote
      <4>1. Created(obj) \in Resource /\ Created(obj).own = "operator"
        BY <3>1, PayloadTyped DEF Created
      <4> QED
        BY Zenon, <3>2, <3>3, <3>4, <4>1 DEF CreateRemote
    <3>5. CASE UpdateRemote
      <4> DEFINE put == [Merged(got, obj) EXCEPT !.sub = remote[k].sub]
      <4>1. Reachable => put \in Resource /\ put.own = "operator"
        <5>1. got \in Resource /\ Merged(got, obj) \in Resource
          BY <3>1, <3>5, PayloadTyped DEF UpdateRemote, TypeOK, PassType
        <5>2. Merged(got, obj).own = "operator"
          BY Zenon, <5>1 DEF Merged, Resource
        <5>3. Reachable => remote[k] \in Resource
          BY <3>1, <3>5 DEF UpdateRemote, Reachable, IdResolves, TypeOK, ServerType
        <5> QED
          BY <5>1, <5>2, <5>3 DEF Resource
      <4>2. CASE Reachable /\ remote' = [remote EXCEPT ![k] = put] /\ (Fault \/ NoFault)
        BY Zenon, <3>3, <4>1, <4>2
      <4>3. CASE SpendAdmin /\ UNCHANGED remote
        <5>1. /\ budget.admin > 0 /\ budget'.admin = budget.admin - 1
              /\ budget'.user = budget.user
          BY <4>3 DEF SpendAdmin, TypeOK, EnvType, BudgetType
        <5>2. Seen(api)' = Seen(api) /\ Server' = Server
          BY Zenon, <3>1, <4>3 DEF Seen, Server
        <5> QED
          BY Zenon, <5>1, <5>2 DEF Life!Administrator, Server
      <4> QED
        BY Zenon, <3>2, <3>5, <4>2, <4>3 DEF UpdateRemote
    <3> QED
      BY <2>7, <3>4, <3>5
  <2> QED
    BY <2>1, <2>2, <2>3, <2>4, <2>5, <2>6, <2>7 DEF Pass
\* A step of a user is a step of a user.
<1>UserLife.
      ASSUME \/ UserDelete
             \/ \E s \in Specs, w \in AllowChoices : UserCreate(s, w)
             \/ \E s \in Specs, w \in AllowChoices, n \in AnnEdits : UserEdit(s, w, n)
      PROVE  Life!User
  <2> USE <1>UserLife
  <2>1. /\ budget.user > 0 /\ budget'.user = budget.user - 1
        /\ budget'.admin = budget.admin
    BY ZenonT(40) DEF UserDelete, UserCreate, UserEdit, SpendUser, TypeOK, EnvType,
       BudgetType
  <2>2. UNCHANGED remote
    BY Zenon DEF UserDelete, UserCreate, UserEdit
  <2>3. Server' = Server
    BY <2>2 DEF Server
  <2>4. api # None => api \in Object
    BY Zenon, CopyKeys
  <2>5. ASSUME NEW s \in Specs, NEW w \in AllowChoices, UserCreate(s, w) PROVE Life!User
    <3> DEFINE new == [spec |-> s, allow |-> w, gen |-> 1, deleting |-> FALSE,
                       fin |-> FALSE, ann |-> None, status |-> NoStatus]
    <3>1. api = None /\ api' = new
      BY <2>5 DEF UserCreate, StoreBehind, Store
    <3>2. new \in Object
      BY Zenon, NewTyped
    <3>3. Seen(api) = None
      BY <3>1 DEF Seen
    <3>4. Seen(api)' = [key |-> s.key, deletion |-> s.deletion, held |-> FALSE,
                        deleting |-> FALSE]
      BY Zenon, <3>1, <3>2, NoneAssumption DEF Seen
    <3>5. s.key \in Keys /\ s.deletion \in Life!Policies
      BY ConstantsAssumption DEF SpecType, Life!Policies
    <3>6. Life!Declare(s.key, s.deletion)
      BY ZenonT(40), <3>3, <3>4 DEF Life!Declare
    <3> QED
      BY Zenon, <2>1, <2>3, <3>5, <3>6 DEF Life!User, Server
  <2>6. ASSUME NEW s \in Specs, NEW w \in AllowChoices, NEW n \in AnnEdits,
               UserEdit(s, w, n)
        PROVE  Life!User
    <3> DEFINE o == Edited(s, w, n)
    <3>1. api # None /\ api' = o
      BY Zenon, <2>6 DEF UserEdit, StoreBehind, Store
    <3>2. o \in Object /\ o.spec = s /\ o.fin = api.fin /\ o.deleting = api.deleting
      BY ZenonT(40), <3>1, EditedTyped
    <3>3. Seen(api) \in Life!View /\ Seen(o) \in Life!View /\ Seen(api) # None
      BY Zenon, <2>4, <3>1, <3>2, <1>SeenFields
    <3>4. /\ Seen(o).held = Seen(api).held /\ Seen(o).deleting = Seen(api).deleting
          /\ Seen(o).key = s.key /\ Seen(o).deletion = s.deletion
      BY Zenon, <2>4, <3>1, <3>2, <1>SeenFields
    <3>5. Seen(api)' = Seen(o)
      BY Zenon, <3>1 DEF Seen
    <3>6. Seen(api)' = [Seen(api) EXCEPT !.key = s.key, !.deletion = s.deletion]
      BY ZenonT(40), <3>3, <3>4, <3>5, <1>ViewEdited
    <3>7. s.key \in Keys /\ s.deletion \in Life!Policies
      BY ConstantsAssumption DEF SpecType, Life!Policies
    <3>8. Life!Edit(s.key, s.deletion)
      BY <3>3, <3>6 DEF Life!Edit
    <3> QED
      BY Zenon, <2>1, <2>3, <3>7, <3>8 DEF Life!User, Server
  <2>7. CASE UserDelete
    <3> DEFINE o == [api EXCEPT !.deleting = TRUE, !.gen = @ + 1]
    <3>1. /\ api \in Object /\ ~api.deleting
          /\ api' = IF api.fin THEN o ELSE None
      BY <2>4, <2>7 DEF UserDelete, StoreBehind, Store
    <3>2. Seen(api) \in Life!View /\ Seen(api) # None /\ ~Seen(api).deleting
          /\ Seen(api).held = api.fin
      BY <3>1, <1>SeenFields
    <3>3. CASE ~api.fin
      <4>1. Seen(api)' = None
        BY <3>1, <3>3 DEF Seen
      <4>2. Life!Remove
        BY <3>2, <3>3, <4>1 DEF Life!Remove
      <4> QED
        BY <2>1, <2>3, <4>2 DEF Life!User, Server
    <3>4. CASE api.fin
      <4>1. api.gen + 1 \in Nat
        BY <3>1 DEF Object
      <4>2. o \in Object /\ o.spec = api.spec /\ o.fin = api.fin /\ o.deleting = TRUE
        BY Zenon, <3>1, <4>1 DEF Object
      <4>3. /\ Seen(o) \in Life!View
            /\ Seen(o).key = Seen(api).key /\ Seen(o).deletion = Seen(api).deletion
            /\ Seen(o).held = Seen(api).held /\ Seen(o).deleting = TRUE
        BY ZenonT(40), <3>1, <4>2, <1>SeenFields
      <4>4. Seen(api)' = Seen(o)
        BY <3>1, <3>4 DEF Seen
      <4>5. Seen(api)' = [Seen(api) EXCEPT !.deleting = TRUE]
        BY Zenon, <3>2, <4>3, <4>4, <1>ViewEdited
      <4>6. Life!Remove
        BY <3>2, <3>4, <4>5 DEF Life!Remove
      <4> QED
        BY <2>1, <2>3, <4>6 DEF Life!User, Server
    <3> QED
      BY <3>3, <3>4
  <2> QED
    BY <2>5, <2>6, <2>7
\* A step of an administrator is a step of an administrator.
<1>AdminLife.
      ASSUME NEW k \in Keys, NEW v \in Vals,
             AdminCreate(k, v) \/ AdminEdit(k, v) \/ AdminDelete(k)
      PROVE  Life!Administrator
  <2> USE <1>AdminLife
  <2>1. /\ budget.admin > 0 /\ budget'.admin = budget.admin - 1
        /\ budget'.user = budget.user
    BY DEF AdminCreate, AdminEdit, AdminDelete, SpendAdmin, TypeOK, EnvType, BudgetType
  <2>2. Seen(api)' = Seen(api)
    BY DEF AdminCreate, AdminEdit, AdminDelete, Seen, kube
  <2>3. CASE AdminCreate(k, v)
    <3> DEFINE r == [val |-> v, sub |-> None, marked |-> FALSE, own |-> "foreign"]
    <3>1. Server[k] = "none"
      BY Zenon, <2>3 DEF AdminCreate, Server, Control
    <3>2. r \in Resource
      BY DEF Resource
    <3>3. \A j \in Keys : remote'[j] = IF j = k THEN r ELSE remote[j]
      BY <2>3 DEF AdminCreate, TypeOK, ServerType
    <3>4. Control(r) = "foreign"
      BY Zenon, <3>2, NoneAssumption DEF Control
    <3>5. \A j \in Keys :
            Control(remote[j])' = IF j = k THEN "foreign" ELSE Control(remote[j])
      BY Zenon, <3>3, <3>4 DEF Control
    <3>6. Server' = [Server EXCEPT ![k] = "foreign"]
      BY ZenonT(30), <3>5 DEF Server
    <3> QED
      BY Zenon, <2>1, <2>2, <3>1, <3>6 DEF Life!Administrator, Server
  <2>4. CASE AdminEdit(k, v)
    <3>1. remote[k] \in Resource
      BY <2>4 DEF AdminEdit, TypeOK, ServerType
    <3>2. /\ [remote[k] EXCEPT !.val = v] \in Resource
          /\ [remote[k] EXCEPT !.val = v].own = remote[k].own
      BY Zenon, <3>1 DEF Resource
    <3>3. \A j \in Keys : remote'[j] = IF j = k THEN [remote[k] EXCEPT !.val = v]
                                      ELSE remote[j]
      BY <2>4 DEF AdminEdit, TypeOK, ServerType
    <3>4. \A j \in Keys : Control(remote[j])' = Control(remote[j])
      BY ZenonT(40), <3>1, <3>2, <3>3, NoneAssumption DEF Control
    <3>5. Server' = Server
      BY <3>4 DEF Server
    <3> QED
      BY Zenon, <2>1, <2>2, <3>5 DEF Life!Administrator, Server
  <2>5. CASE AdminDelete(k)
    <3>1. Server[k] # "none"
      BY Zenon, <2>5 DEF AdminDelete, Server, Control
    <3>2. Server' = [Server EXCEPT ![k] = "none"]
      BY Zenon, <2>5, <1>Destroyed DEF AdminDelete
    <3> QED
      BY ZenonT(40), <2>1, <2>2, <3>1, <3>2 DEF Life!Administrator, Server
  <2> QED
    BY <2>3, <2>4, <2>5
<1>1. CASE \/ Deliver \/ TimerFires \/ Restart \/ InformerResync \/ ConnectionChanges
           \/ SecretChanges \/ UNCHANGED vars
  <2>1. UNCHANGED <<api, remote>>
    BY Zenon, <1>1 DEF Deliver, TimerFires, Restart, InformerResync, ConnectionChanges,
       SecretChanges, vars, kube
  <2>2. Fault \/ NoFault
    BY <1>1 DEF Deliver, TimerFires, Restart, InformerResync, ConnectionChanges,
       SecretChanges, vars, NoFault
  <2> QED
    BY Zenon, <2>1, <2>2, <1>FaultFree, <1>Unseen DEF Seen, Server
<1>2. CASE Pass
  BY <1>2, <1>PassLife DEF Life!Next
<1>3. CASE \/ UserDelete
           \/ \E s \in Specs, w \in AllowChoices : UserCreate(s, w)
           \/ \E s \in Specs, w \in AllowChoices, n \in AnnEdits : UserEdit(s, w, n)
  BY <1>3, <1>UserLife DEF Life!Next
<1>4. ASSUME NEW k \in Keys, NEW v \in Vals,
             AdminCreate(k, v) \/ AdminEdit(k, v) \/ AdminDelete(k)
      PROVE  Life!Next
  BY <1>4, <1>AdminLife DEF Life!Next
<1> QED
  BY <1>1, <1>2, <1>3, <1>4, ConstantsAssumption DEF Next, Environment

\* Seen from outside the engine is Lifecycle, whatever the specs: it serves only
\* objects it holds, destroys what is its own only while the object is being
\* deleted, and lets go of it only when a Delete deletion has taken effect
\* (Reconcile and handleDeletion, engine.go:107-359).
THEOREM LifecycleImplemented == Spec => ImplementsLifecycle
<1> DEFINE Inv == TypeOK /\ IdResolves /\ RaceInv /\ DeletionInv
<1>1. Init => Inv
  BY InitTyped, InitRace, InitDeletion DEF Init, IdResolves
<1>2. Inv /\ [Next]_vars => Inv'
  BY Zenon, StepTyped, StepResolves, StepRace, StepDeletion
<1>3. Inv /\ [Next]_vars => [Life!Next]_(Life!vars)
  BY Zenon, StepLife
<1> HIDE DEF Inv
<1> QED
  BY <1>1, <1>2, <1>3, InitLife, PTL DEF Spec, ImplementsLifecycle, Life!Spec

==============================================================================
