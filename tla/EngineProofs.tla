---------------------------- MODULE EngineProofs ----------------------------
(***************************************************************************)
(* Theorems about the reconciliation engine, for any number of keys,       *)
(* values and specs, and any number of edits, faults and restarts: what    *)
(* it never does, that one undisturbed pass is enough, and that it stays   *)
(* at rest.                                                                *)
(***************************************************************************)
EXTENDS EngineProperties, TLAPS

\* The provers tried on a step that names none, in this order.
USE SMT, Zenon, SMTT(20), Z3T(20), SMTT(60)

-----------------------------------------------------------------------------
(* Type correctness *)

\* The initial state is well typed.
LEMMA InitTyped == Init => TypeOK
<1> SUFFICES ASSUME Init PROVE TypeOK
  OBVIOUS
<1>1. KubeType /\ ServerType /\ QueueType
  BY Zenon DEF Init, KubeType, ServerType, QueueType
<1>2. PassType
  <2>1. base \in Status
    BY DEF Init, NoStatus, Status, NoCond, Cond
  <2>2. verdict \in Verdict
    BY DEF Init, NoVerdict, Verdict, Failure
  <2> QED
    BY Zenon, <2>1, <2>2 DEF Init, PassType, PCs
<1>3. EnvType
  BY ConstantsAssumption DEF Init, EnvType, BudgetType
<1>4. HistoryType
  BY DEF Init, HistoryType
<1> QED
  BY <1>1, <1>2, <1>3, <1>4 DEF TypeOK

\* Writing a condition keeps an object an object.
LEMMA ConditionTyped ==
    ASSUME NEW o \in Object, NEW c \in Cond
    PROVE  /\ [o EXCEPT !.status.ready = c] \in Object
           /\ [o EXCEPT !.status.synced = c] \in Object
  BY DEF Object, Status

\* So does merging the status of one object into another.
LEMMA MergeStatusTyped ==
    ASSUME PassType, NEW o \in Object, NEW a \in Object
    PROVE  MergeStatus(a, o) \in Object
  BY Zenon DEF MergeStatus, Object, Status, PassType

\* The fields of an object have their types.
LEMMA ObjectFields ==
    ASSUME NEW o \in Object
    PROVE  /\ o.spec \in Specs /\ o.spec.key \in Keys
           /\ o.spec.val \in Vals \cup {None}
           /\ o.gen \in Nat /\ o.status \in Status
           /\ RepOf(o.spec) \in Rep
  BY ConstantsAssumption DEF Object, SpecType, Rep, RepOf

\* What Create and Update leave on the server are resources.
LEMMA PayloadTyped ==
    ASSUME NEW o \in Object
    PROVE  /\ Created(o) \in Resource
           /\ \A r \in Resource : Merged(r, o) \in Resource
<1>1. Want(o) \in Vals \cup {None}
  BY ObjectFields, ConstantsAssumption DEF Want, Recorded
<1> QED
  BY Zenon, <1>1, ConstantsAssumption DEF Created, Merged, Resource, HasMarker, KindType

-----------------------------------------------------------------------------

\* While a pass may still use the id it resolved, an id that is live belongs to
\* the resource under the object's key.
IdResolves ==
    /\ idLive /\ pc \in {"delete", "existing", "update", "post"}
          => remote[obj.spec.key] # None
    /\ pc \in {"idle", "conn"} => ~idLive

\* What a user creates is an object.
LEMMA NewTyped ==
    ASSUME NEW s \in Specs, NEW w \in AllowChoices
    PROVE  [spec |-> s, allow |-> w, gen |-> 1, deleting |-> FALSE,
            fin |-> FALSE, ann |-> None, status |-> NoStatus] \in Object
  BY ConstantsAssumption DEF Object, NoStatus, Status, NoCond, Cond

\* So is what an edit makes of one; it leaves the finalizer, the deletion and the
\* status alone, and the annotation unless it drops or garbles it.
LEMMA EditedTyped ==
    ASSUME TypeOK, api # None, NEW s \in Specs, NEW w \in AllowChoices,
           NEW e \in AnnEdits
    PROVE  /\ Edited(s, w, e) \in Object
           /\ Edited(s, w, e).spec = s
           /\ Edited(s, w, e).fin = api.fin
           /\ Edited(s, w, e).deleting = api.deleting
           /\ Edited(s, w, e).status = api.status
           /\ Edited(s, w, e).ann \in {api.ann, None, Garbled}
<1> DEFINE g == IF s # api.spec THEN api.gen + 1 ELSE api.gen
           n == CASE e = "keep" -> api.ann
                  [] e = "drop" -> None
                  [] e = "garble" -> Garbled
<1>1. api \in Object
  BY DEF TypeOK, KubeType
<1>2. g \in Nat /\ w \in BOOLEAN
  BY <1>1, ConstantsAssumption DEF Object
<1>3. n \in {api.ann, None, Garbled} /\ n \in Rep \cup {None, Garbled}
  BY <1>1, ConstantsAssumption DEF Object
<1>4. Edited(s, w, e) = [api EXCEPT !.spec = s, !.allow = w, !.ann = n, !.gen = g]
  BY Zenon DEF Edited
<1> HIDE DEF g, n
<1> QED
  BY Zenon, <1>1, <1>2, <1>3, <1>4 DEF Object

\* Every step keeps the types.
LEMMA StepTyped == TypeOK /\ IdResolves /\ [Next]_vars => TypeOK'
\* So does decoding an answer of the API server into it.
<1>DecodedTyped.
      ASSUME NEW o \in Object, NEW a \in Object
      PROVE  Decoded(o, a) \in Object
  BY Zenon, <1>DecodedTyped DEF Decoded, Object, Status, NoCond
\* A call succeeds or fails, and the budget keeps its type.
<1>FaultTyped.
      ASSUME EnvType, Fault \/ SpendAdmin \/ NoFault, UNCHANGED env
      PROVE  EnvType'
  BY <1>FaultTyped DEF EnvType, BudgetType, Fault, SpendAdmin, NoFault, env
\* The API server stores an object, or nothing.
<1>StoreTyped.
      ASSUME KubeType, NEW o \in Object \cup {None}, Store(o)
      PROVE  KubeType'
  BY <1>StoreTyped DEF KubeType, Store
\* A pass that is over left nothing behind.
<1>ForgetTyped. Forget => PassType'
  <2> SUFFICES ASSUME Forget PROVE PassType'
    OBVIOUS
  <2>1. NoStatus \in Status
    BY DEF NoStatus, Status, NoCond, Cond
  <2>2. NoVerdict \in Verdict
    BY DEF NoVerdict, Verdict, Failure
  <2> QED
    BY Zenon, <2>1, <2>2 DEF Forget, PassType, PCs
\* A pass returns.
<1>ReturnTyped.
      ASSUME TypeOK, NEW res \in {"done", "after", "error"}, Return(res)
      PROVE  PassType' /\ QueueType'
  BY <1>ReturnTyped, <1>ForgetTyped DEF Return, TypeOK, QueueType
\* A pass goes on to its next call.
<1>GotoTyped.
      ASSUME TypeOK, pc # "idle", NEW p \in PCs \ {"existing", "update"}, Goto(p),
             got' \in Resource \cup {None}, idLive' \in BOOLEAN, changed' \in BOOLEAN
      PROVE  KubeType' /\ PassType' /\ QueueType'
  BY <1>GotoTyped DEF Goto, TypeOK, KubeType, PassType, QueueType, kube, copy, queue
\* A pass is about to report.
<1>ReportTyped.
      ASSUME TypeOK, pc # "idle", NEW r \in Success \cup Failure, NEW b \in BOOLEAN,
             NEW res \in {"done", "after", "error"}, Report(r, b, res), UNCHANGED read
      PROVE  KubeType' /\ PassType' /\ QueueType'
  BY <1>ReportTyped DEF Report, TypeOK, KubeType, PassType, QueueType, Verdict, PCs, kube,
     copy,
         queue, read
\* The answer of a patch replaces the object in memory.
<1>PatchedTyped.
      ASSUME TypeOK, NEW o \in Object, NEW a \in Object, Patched(o, a),
             UNCHANGED <<read, verdict>>, pc' \in PCs \ {"existing", "update"}
      PROVE  KubeType' /\ PassType'
  <2> USE <1>PatchedTyped
  <2>1. KubeType'
    BY <1>StoreTyped DEF Patched, TypeOK
  <2>2. obj' \in Object /\ obj' # None
    BY <1>DecodedTyped, NoneAssumption DEF Patched
  <2>3. PassType'
    BY <2>2 DEF Patched, TypeOK, PassType, read
  <2> QED
    BY <2>1, <2>3
\* So does a status patch, which may also fail.
<1>PatchStatusTyped.
      ASSUME TypeOK, NEW o \in Object, PatchStatus(o),
             UNCHANGED <<read, verdict, env>>, pc' \in PCs \ {"existing", "update"}
      PROVE  KubeType' /\ PassType' /\ EnvType'
  <2> USE <1>PatchStatusTyped
  <2>1. EnvType'
    BY <1>FaultTyped DEF PatchStatus, TypeOK
  <2>2. CASE api # None /\ Patched(o, MergeStatus(api, o))
    <3>1. MergeStatus(api, o) \in Object
      BY <2>2, MergeStatusTyped DEF TypeOK, KubeType
    <3> QED
      BY <2>1, <2>2, <3>1, <1>PatchedTyped
  <2>3. CASE obj' = o /\ UNCHANGED <<kube, base, objCur, baseCur, locked>>
    BY <2>1, <2>3, NoneAssumption DEF TypeOK, KubeType, PassType, kube, read
  <2> QED
    BY <2>2, <2>3 DEF PatchStatus
\* Update replaces the object and ends the pass.
<1>UpdateObjectTyped.
      ASSUME TypeOK, NEW o \in Object \cup {None}, NEW res \in {"done", "after"},
             UpdateObject(o, res), UNCHANGED <<remote, env, enforced>>
      PROVE  TypeOK'
  <2> USE <1>UpdateObjectTyped
  <2>1. EnvType'
    BY <1>FaultTyped DEF UpdateObject, TypeOK
  <2>2. KubeType'
    BY <1>StoreTyped DEF UpdateObject, GiveUp, TypeOK, KubeType, kube
  <2>3. PICK r \in {"done", "after", "error"} : Return(r)
    BY DEF UpdateObject, GiveUp
  <2> QED
    BY <2>1, <2>2, <2>3, <1>ReturnTyped DEF TypeOK, ServerType, HistoryType
\* Every step of a pass keeps the types.
<1>PassTyped. TypeOK /\ IdResolves /\ Pass => TypeOK'
  <2> SUFFICES ASSUME TypeOK, IdResolves, Pass PROVE TypeOK'
    OBVIOUS
  <2>obj. pc # "idle" => obj \in Object /\ obj.spec.key \in Keys
    BY ObjectFields DEF TypeOK, PassType
  <2>1. ASSUME Start PROVE TypeOK'
    <3>1. PassType'
      BY ZenonT(40), <2>1, ObjectFields
         DEF Start, TypeOK, KubeType, PassType, PCs, copy, read
    <3> QED
      BY Zenon, <2>1, <3>1 DEF Start, TypeOK, KubeType, ServerType, QueueType, EnvType,
         HistoryType, kube, env
  <2>2. ASSUME Connect PROVE TypeOK'
    <3>1. KubeType' /\ PassType' /\ QueueType'
      BY Zenon, <2>2, <1>GotoTyped, <1>ReportTyped
         DEF Connect, TypeOK, PassType, PCs, Failure, read
    <3> QED
      BY <2>2, <3>1 DEF Connect, TypeOK, ServerType, EnvType, HistoryType, env
  <2>3. ASSUME FindForDelete PROVE TypeOK'
    <3>1. KubeType' /\ PassType' /\ QueueType' /\ HistoryType'
      BY ZenonT(40), <2>3, <1>GotoTyped, <1>ReturnTyped
         DEF FindForDelete, GiveUp, TypeOK, KubeType, PassType, HistoryType, PCs, read, kube
    <3>2. EnvType'
      BY <2>3, <1>FaultTyped DEF FindForDelete, TypeOK
    <3> QED
      BY <2>3, <3>1, <3>2 DEF FindForDelete, TypeOK, ServerType
  <2>4. ASSUME DeleteRemote PROVE TypeOK'
    <3>1. KubeType' /\ PassType' /\ QueueType' /\ HistoryType'
      BY <2>4, <1>GotoTyped, <1>ReturnTyped
         DEF DeleteRemote, GiveUp, TypeOK, KubeType, PassType, HistoryType, PCs, read, kube
    <3>2. EnvType'
      BY <2>4, <1>FaultTyped DEF DeleteRemote, TypeOK
    <3>3. ServerType'
      BY <2>4, <2>obj, ObjectFields DEF DeleteRemote, TypeOK, ServerType
    <3> QED
      BY <3>1, <3>2, <3>3 DEF TypeOK
  <2>5. ASSUME ReleaseFinalizer PROVE TypeOK'
    BY <2>5, <1>UpdateObjectTyped DEF ReleaseFinalizer
  <2>6. ASSUME AddFinalizer PROVE TypeOK'
    <3>1. [obj EXCEPT !.fin = TRUE] \in Object
      BY Zenon, <2>6, <2>obj DEF AddFinalizer, Object
    <3> QED
      BY <2>6, <3>1, <1>UpdateObjectTyped DEF AddFinalizer
  <2>7. ASSUME GetRemote PROVE TypeOK'
    <3>1. EnvType'
      BY Zenon, <2>7, <1>FaultTyped DEF GetRemote, TypeOK
    <3>2. CASE Goto("existing") /\ Fetched
      <4>1. got' \in Resource /\ got' # None
        BY <2>7, <3>2, <2>obj, ObjectFields, NoneAssumption
           DEF Fetched, GetRemote, TypeOK, ServerType
      <4>2. PassType'
        BY <2>7, <3>2, <4>1 DEF GetRemote, Fetched, Goto, TypeOK, PassType, PCs, copy
      <4> QED
        BY <2>7, <3>1, <3>2, <4>2 DEF GetRemote, Goto, TypeOK, KubeType, ServerType,
           QueueType, HistoryType, kube, queue
    <3>3. CASE ~(Goto("existing") /\ Fetched)
      <4>1. KubeType' /\ PassType' /\ QueueType'
        BY Zenon, <2>7, <3>3, <1>GotoTyped, <1>ReportTyped
           DEF GetRemote, TypeOK, PassType, PCs, Failure, read
      <4> QED
        BY <2>7, <3>1, <4>1 DEF GetRemote, TypeOK, ServerType, HistoryType
    <3> QED
      BY <3>2, <3>3
  <2>8. ASSUME PrepareCreate PROVE TypeOK'
    <3>1. KubeType' /\ PassType' /\ QueueType'
      BY Zenon, <2>8, <1>GotoTyped, <1>ReportTyped
         DEF PrepareCreate, TypeOK, PassType, PCs, Failure, read
    <3> QED
      BY <2>8, <3>1 DEF PrepareCreate, TypeOK, ServerType, EnvType, HistoryType, env
  <2>9. ASSUME CreateRemote PROVE TypeOK'
    <3>1. KubeType' /\ PassType' /\ QueueType'
      BY Zenon, <2>9, <1>GotoTyped, <1>ReportTyped
         DEF CreateRemote, TypeOK, PassType, PCs, Failure, read
    <3>2. EnvType'
      BY Zenon, <2>9, <1>FaultTyped DEF CreateRemote, TypeOK
    <3>3. ServerType'
      BY Zenon, <2>9, <2>obj, ObjectFields, PayloadTyped DEF CreateRemote, TypeOK,
         ServerType
    <3> QED
      BY <2>9, <3>1, <3>2, <3>3 DEF CreateRemote, TypeOK, HistoryType
  <2>10. ASSUME ReGetRemote PROVE TypeOK'
    <3>1. Fetched =>
            got' \in Resource \cup {None} /\ idLive' \in BOOLEAN /\ changed' \in BOOLEAN
      BY <2>10, <2>obj, ObjectFields DEF ReGetRemote, Fetched, TypeOK, ServerType,
         PassType
    <3>2. KubeType' /\ PassType' /\ QueueType'
      BY Zenon, <2>10, <3>1, <1>GotoTyped, <1>ReportTyped
         DEF ReGetRemote, TypeOK, PassType, PCs, Failure, read
    <3>3. EnvType'
      BY ZenonT(40), <2>10, <1>FaultTyped DEF ReGetRemote, TypeOK
    <3> QED
      BY <2>10, <3>2, <3>3 DEF ReGetRemote, TypeOK, ServerType, HistoryType
  <2>11. ASSUME Existing PROVE TypeOK'
    <3>1. CASE Goto("update")
      <4>1. PassType'
        BY Zenon, <2>11, <3>1 DEF Existing, Goto, TypeOK, PassType, PCs, copy, read
      <4> QED
        BY <2>11, <3>1, <4>1 DEF Existing, Goto, TypeOK, KubeType, ServerType, QueueType,
           EnvType, HistoryType, kube, queue, env
    <3>2. CASE ~Goto("update")
      <4>1. KubeType' /\ PassType' /\ QueueType'
        BY Zenon, <2>11, <3>2, <1>GotoTyped, <1>ReportTyped
           DEF Existing, TypeOK, PassType, PCs, Failure, read
      <4> QED
        BY <2>11, <4>1 DEF Existing, TypeOK, ServerType, EnvType,
           HistoryType, env
    <3> QED
      BY <3>1, <3>2
  <2>12. ASSUME UpdateRemote PROVE TypeOK'
    <3>1. KubeType' /\ PassType' /\ QueueType'
      BY Zenon, <2>12, <1>GotoTyped, <1>ReportTyped
         DEF UpdateRemote, TypeOK, PassType, PCs, Failure, read
    <3>2. EnvType'
      BY Zenon, <2>12, <1>FaultTyped DEF UpdateRemote, TypeOK
    <3>3. ServerType'
      <4> DEFINE k == obj.spec.key
                 put == [Merged(got, obj) EXCEPT !.sub = remote[k].sub]
      <4>1. k \in Keys /\ Merged(got, obj) \in Resource
        BY <2>12, <2>obj, ObjectFields, PayloadTyped DEF UpdateRemote, TypeOK, PassType
      <4>2. CASE UNCHANGED remote
        BY <4>2 DEF TypeOK, ServerType
      <4>3. CASE remote[k] = None
        BY Zenon, <2>12, <4>1, <4>3 DEF UpdateRemote, Reachable, TypeOK, ServerType,
           PassType, IdResolves
      <4>4. CASE remote[k] # None /\ remote' = [remote EXCEPT ![k] = put]
        <5>1. put \in Resource
          BY <4>1, <4>4 DEF TypeOK, ServerType, Resource
        <5> QED
          BY <4>1, <4>4, <5>1 DEF TypeOK, ServerType
      <4> QED
        BY Zenon, <2>12, <4>2, <4>3, <4>4 DEF UpdateRemote
    <3> QED
      BY <2>12, <3>1, <3>2, <3>3 DEF UpdateRemote, TypeOK, HistoryType
  <2>13. ASSUME PostApply PROVE TypeOK'
    <3> DEFINE k == obj.spec.key
               entry == [gen |-> obj.gen, rep |-> RepOf(obj.spec)]
               o == [obj EXCEPT !.status.obsGen = obj.gen]
    <3>1. EnvType'
      BY Zenon, <2>13, <1>FaultTyped DEF PostApply, TypeOK
    <3>2. ServerType'
      <4>1. CASE UNCHANGED remote
        BY <4>1 DEF TypeOK, ServerType
      <4>2. CASE Reachable /\ remote' = [remote EXCEPT ![k].sub = obj.spec.val]
        <5>1. k \in Keys /\ obj.spec.val \in Vals \cup {None} /\ remote[k] \in Resource
          BY <2>13, <4>2, <2>obj, ObjectFields
             DEF PostApply, Reachable, IdResolves, TypeOK, ServerType
        <5>2. [remote[k] EXCEPT !.sub = obj.spec.val] \in Resource
          BY <5>1 DEF Resource
        <5> QED
          BY Zenon, <4>2, <5>1, <5>2 DEF TypeOK, ServerType
      <4> QED
        BY Zenon, <2>13, <4>1, <4>2 DEF PostApply, Enforces
    <3>3. CASE enforced' = enforced \cup {entry} /\ obj' = o
               /\ UNCHANGED <<kube, base, objCur, baseCur, locked, queue>>
               /\ pc' \in {"annotate", "ready"}
               /\ verdict' = [reason |-> IF changed \/ (Enforces(obj)
                                                        /\ remote[k].sub # obj.spec.val)
                                         THEN "Corrected" ELSE "Matches",
                              both |-> TRUE, res |-> "after"]
      <4>1. entry \in [gen: Nat, rep: Rep]
        BY <2>13, <2>obj, ObjectFields DEF PostApply
      <4>2. o \in Object /\ o # None
        BY <2>13, <2>obj, NoneAssumption DEF PostApply, Object, Status
      <4>3. verdict' \in Verdict
        BY <3>3 DEF Verdict, Success
      <4>4. PassType'
        BY <2>13, <3>3, <4>2, <4>3 DEF PostApply, TypeOK, PassType, PCs, read
      <4> QED
        BY <3>1, <3>2, <3>3, <4>1, <4>4
           DEF TypeOK, KubeType, QueueType, HistoryType, kube, queue
    <3>4. CASE UNCHANGED enforced /\ Report("Failed", TRUE, "after")
      <4>1. KubeType' /\ PassType' /\ QueueType'
        BY Zenon, <2>13, <3>4, <1>ReportTyped DEF PostApply, TypeOK, PassType, Failure
      <4> QED
        BY <3>1, <3>2, <3>4, <4>1 DEF TypeOK, HistoryType
    <3> QED
      BY Zenon, <2>13, <3>3, <3>4 DEF PostApply
  <2>14. ASSUME Annotate PROVE TypeOK'
    <3> DEFINE a == [api EXCEPT !.ann = RepOf(obj.spec)]
    <3>1. api # None => a \in Object
      BY <2>14, <2>obj, ObjectFields DEF Annotate, TypeOK, KubeType, Object
    <3>2. EnvType'
      BY <2>14, <1>FaultTyped DEF Annotate, TypeOK
    <3>3. CASE api # None /\ Patched(obj, a) /\ pc' = "ready"
               /\ UNCHANGED <<read, verdict, queue>>
      <4>1. KubeType' /\ PassType'
        BY <2>14, <2>obj, <3>1, <3>3, <1>PatchedTyped DEF Annotate, PCs
      <4> QED
        BY <2>14, <3>2, <3>3, <4>1
           DEF Annotate, TypeOK, ServerType, QueueType, HistoryType, queue
    <3>4. CASE Return("error") /\ (UNCHANGED kube \/ (api # None /\ Store(a)))
      <4>1. KubeType'
        BY <3>1, <3>4, <1>StoreTyped DEF TypeOK, KubeType, kube
      <4> QED
        BY <2>14, <3>2, <3>4, <4>1, <1>ReturnTyped
           DEF Annotate, TypeOK, ServerType, HistoryType
    <3> QED
      BY <2>14, <3>3, <3>4 DEF Annotate, GiveUp
  <2>15. ASSUME WriteReady \/ WriteSynced PROVE TypeOK'
    <3> DEFINE c == [reason |-> verdict.reason, gen |-> obj.gen]
    <3>1. c \in Cond
      BY <2>15, <2>obj, ObjectFields DEF WriteReady, WriteSynced, Cond, TypeOK,
         PassType, Verdict
    <3>2. KubeType' /\ PassType' /\ EnvType'
      BY <2>15, <2>obj, <3>1, ConditionTyped, <1>PatchStatusTyped DEF WriteReady,
         WriteSynced, PCs
    <3> QED
      BY <2>15, <3>2 DEF WriteReady, WriteSynced, TypeOK, ServerType, QueueType,
         HistoryType, queue
  <2>16. ASSUME Finish PROVE TypeOK'
    <3>1. verdict.res \in {"done", "after", "error"}
      BY DEF TypeOK, PassType, Verdict
    <3> QED
      BY <2>16, <3>1, <1>ReturnTyped
         DEF Finish, TypeOK, KubeType, ServerType, EnvType, HistoryType, kube, env
  <2> QED
    BY <2>1, <2>2, <2>3, <2>4, <2>5, <2>6, <2>7, <2>8, <2>9, <2>10, <2>11, <2>12,
       <2>13, <2>14, <2>15, <2>16 DEF Pass
\* Someone else than the pass stores an object; the pass keeps what it holds.
<1>StoreBehindTyped.
      ASSUME TypeOK, NEW o \in Object \cup {None}, StoreBehind(o),
             UNCHANGED <<pc, read, verdict>>
      PROVE  KubeType' /\ PassType'
  <2> USE <1>StoreBehindTyped
  <2>1. KubeType'
    BY <1>StoreTyped DEF StoreBehind, TypeOK
  <2>2. PassType'
    BY DEF StoreBehind, TypeOK, PassType, read
  <2> QED
    BY <2>1, <2>2
\* Every step of the environment keeps the types.
<1>EnvironmentTyped. TypeOK /\ Environment => TypeOK'
  <2> SUFFICES ASSUME TypeOK, Environment PROVE TypeOK'
    OBVIOUS
  <2> USE DEF TypeOK
  <2>1. ASSUME Restart PROVE TypeOK'
    <3>1. EnvType'
      BY <2>1, <1>FaultTyped DEF Restart
    <3>2. KubeType' /\ ServerType' /\ QueueType' /\ HistoryType'
      BY Zenon, <2>1 DEF Restart, KubeType, ServerType, QueueType, HistoryType
    <3> QED
      BY <2>1, <3>1, <3>2, <1>ForgetTyped DEF Restart
  <2>2. ASSUME InformerResync \/ ConnectionChanges \/ SecretChanges PROVE TypeOK'
    <3>1. QueueType'
      BY Zenon, <2>2 DEF InformerResync, ConnectionChanges, SecretChanges, QueueType,
         queue
    <3>2. budget' \in BudgetType
      BY <2>2 DEF InformerResync, ConnectionChanges, SecretChanges, Fault, NoFault,
         EnvType, BudgetType
    <3>3. connUp' \in BOOLEAN /\ secretUp' \in BOOLEAN
      BY Zenon, <2>2 DEF InformerResync, ConnectionChanges, SecretChanges, EnvType, env
    <3>4. EnvType'
      BY <3>2, <3>3 DEF EnvType
    <3> QED
      BY <2>2, <3>1, <3>4 DEF InformerResync, ConnectionChanges, SecretChanges, KubeType,
         ServerType, PassType, HistoryType, kube, worker, copy, read
  <2>3. ASSUME NEW s \in Specs, NEW w \in AllowChoices,
               UserCreate(s, w) \/ \E e \in AnnEdits : UserEdit(s, w, e)
        PROVE  TypeOK'
    <3>1. EnvType' /\ QueueType'
      BY <2>3 DEF UserCreate, UserEdit, SpendUser, EnvType, BudgetType, env,
         QueueType, queue
    <3>2. PICK o \in Object \cup {None} : StoreBehind(o)
      BY <2>3, NewTyped, EditedTyped DEF UserCreate, UserEdit
    <3>3. KubeType' /\ PassType'
      BY <2>3, <3>2, <1>StoreBehindTyped DEF UserCreate, UserEdit
    <3> QED
      BY <2>3, <3>1, <3>3 DEF UserCreate, UserEdit, ServerType, HistoryType
  <2>4. ASSUME UserDelete PROVE TypeOK'
    <3>1. EnvType' /\ QueueType'
      BY <2>4 DEF UserDelete, SpendUser, EnvType, BudgetType, QueueType, env, queue
    <3>2. [api EXCEPT !.deleting = TRUE, !.gen = @ + 1] \in Object
      <4>1. api \in Object
        BY <2>4 DEF UserDelete, KubeType
      <4>2. api.gen + 1 \in Nat
        BY <4>1 DEF Object
      <4> QED
        BY Zenon, <4>1, <4>2 DEF Object
    <3>3. KubeType' /\ PassType'
      BY <2>4, <3>2, <1>StoreBehindTyped DEF UserDelete
    <3> QED
      BY <2>4, <3>1, <3>3 DEF UserDelete, ServerType, HistoryType
  <2>5. ASSUME NEW k \in Keys, NEW v \in Vals,
               AdminCreate(k, v) \/ AdminEdit(k, v) \/ AdminDelete(k)
        PROVE  TypeOK'
    <3>1. EnvType' /\ QueueType'
      BY <2>5 DEF AdminCreate, AdminEdit, AdminDelete, SpendAdmin, EnvType, BudgetType,
         QueueType, env, queue
    <3>2. ServerType'
      <4>1. [val |-> v, sub |-> None, marked |-> FALSE, own |-> "foreign"] \in Resource
        BY DEF Resource
      <4>2. remote[k] # None => [remote[k] EXCEPT !.val = v] \in Resource
        BY DEF ServerType, Resource
      <4> QED
        BY Zenon, <2>5, <4>1, <4>2 DEF AdminCreate, AdminEdit, AdminDelete, ServerType
    <3>3. PassType'
      BY ZenonT(60), <2>5 DEF AdminCreate, AdminEdit, AdminDelete, PassType, worker, copy, read
    <3> QED
      BY <2>5, <3>1, <3>2, <3>3 DEF AdminCreate, AdminEdit, AdminDelete, KubeType,
         HistoryType, kube
  <2> QED
    BY <2>1, <2>2, <2>3, <2>4, <2>5, ConstantsAssumption DEF Environment
<1> SUFFICES ASSUME TypeOK, IdResolves, [Next]_vars PROVE TypeOK'
  OBVIOUS
<1>1. ASSUME Deliver \/ TimerFires PROVE TypeOK'
  <2>1. KubeType' /\ QueueType'
    BY Zenon, <1>1 DEF Deliver, TimerFires, TypeOK, KubeType, QueueType, kube
  <2>2. ServerType' /\ EnvType' /\ HistoryType'
    BY <1>1 DEF Deliver, TimerFires, TypeOK, ServerType, EnvType, HistoryType, env
  <2>3. PassType'
    BY <1>1 DEF Deliver, TimerFires, TypeOK, PassType, worker, copy, read
  <2> QED
    BY <2>1, <2>2, <2>3 DEF TypeOK
<1>2. ASSUME UNCHANGED vars PROVE TypeOK'
  BY <1>2 DEF vars, TypeOK, KubeType, ServerType, PassType, QueueType, EnvType,
     HistoryType, kube, copy, read, queue, env
<1> QED
  BY <1>1, <1>2, <1>PassTyped, <1>EnvironmentTyped DEF Next

\* A live id keeps belonging to the resource under the object's key.
LEMMA StepResolves == TypeOK /\ IdResolves /\ [Next]_vars => IdResolves'
<1> SUFFICES ASSUME TypeOK, IdResolves, [Next]_vars PROVE IdResolves'
  OBVIOUS
<1>1. ASSUME UNCHANGED <<obj, idLive, pc, remote>> PROVE IdResolves'
  BY <1>1 DEF IdResolves
<1>2. ASSUME \/ Start \/ Connect \/ FindForDelete \/ DeleteRemote \/ ReleaseFinalizer
             \/ AddFinalizer \/ GetRemote \/ PrepareCreate \/ CreateRemote
             \/ ReGetRemote \/ Existing
      PROVE  IdResolves'
  <2>1. ASSUME Start \/ Connect PROVE IdResolves'
    BY <2>1 DEF Start, Connect, Goto, Report, IdResolves, copy, read
  <2>2. ASSUME FindForDelete \/ DeleteRemote PROVE IdResolves'
    BY Zenon, <2>2 DEF FindForDelete, DeleteRemote, Goto, GiveUp, Return, Forget,
       IdResolves,
       copy, read
  <2>3. ASSUME ReleaseFinalizer \/ AddFinalizer PROVE IdResolves'
    BY Zenon, <2>3 DEF ReleaseFinalizer, AddFinalizer, UpdateObject, GiveUp, Return,
       Forget,
       IdResolves
  <2>4. ASSUME GetRemote \/ ReGetRemote PROVE IdResolves'
    BY ZenonT(30), <2>4 DEF GetRemote, ReGetRemote, Fetched, Goto, Report, IdResolves,
       copy, read
  <2>5. ASSUME PrepareCreate \/ CreateRemote \/ Existing PROVE IdResolves'
    BY <2>5 DEF PrepareCreate, CreateRemote, Existing, Goto, Report,
       IdResolves, copy, read
  <2> QED
    BY Zenon, <1>2, <2>1, <2>2, <2>3, <2>4, <2>5
<1>3. ASSUME PostApply \/ Annotate \/ WriteReady \/ WriteSynced \/ Finish \/ Restart
      PROVE  IdResolves'
  BY <1>3 DEF PostApply, Annotate, WriteReady, WriteSynced, Finish, Restart, Report,
     GiveUp, Return, Forget, IdResolves
<1>4. ASSUME UpdateRemote PROVE IdResolves'
  <2>1. obj \in Object /\ obj.spec.key \in Keys /\ Merged(got, obj) \in Resource
    BY <1>4, ObjectFields, PayloadTyped DEF UpdateRemote, TypeOK, PassType
  <2>2. Reachable => [Merged(got, obj) EXCEPT !.sub = remote[obj.spec.key].sub] # None
    <3>1. Reachable => remote[obj.spec.key] \in Resource
      BY <1>4, <2>1 DEF UpdateRemote, Reachable, IdResolves, TypeOK, ServerType
    <3> QED
      BY <2>1, <3>1, NoneAssumption DEF Resource
  <2> QED
    BY <1>4, <2>1, <2>2 DEF UpdateRemote, Goto, Report, IdResolves, TypeOK,
       ServerType, copy, read
<1>5. ASSUME NEW k \in Keys, NEW v \in Vals, AdminCreate(k, v) \/ AdminEdit(k, v)
      PROVE  IdResolves'
  <2>1. \A j \in Keys : remote[j] # None => remote'[j] # None
    BY <1>5, NoneAssumption DEF AdminCreate, AdminEdit, TypeOK, ServerType, Resource
  <2>2. pc # "idle" => obj.spec.key \in Keys
    BY ObjectFields DEF TypeOK, PassType
  <2> QED
    BY <1>5, <2>1, <2>2 DEF AdminCreate, AdminEdit, IdResolves, worker, copy, read
<1>6. ASSUME NEW k \in Keys, AdminDelete(k) PROVE IdResolves'
  <2>1. pc # "idle" => obj.spec.key \in Keys
    BY ObjectFields DEF TypeOK, PassType
  <2>2. \A j \in Keys : j # k => remote'[j] = remote[j]
    BY <1>6 DEF AdminDelete, TypeOK, ServerType
  <2> QED
    BY Zenon, <1>6, <2>1, <2>2 DEF AdminDelete, IdResolves, copy
<1>7. ASSUME \/ InformerResync \/ ConnectionChanges \/ SecretChanges \/ UserDelete
             \/ Deliver \/ TimerFires \/ UNCHANGED vars
             \/ \E s \in Specs, w \in AllowChoices :
                   UserCreate(s, w) \/ \E e \in AnnEdits : UserEdit(s, w, e)
      PROVE  IdResolves'
  <2>1. UNCHANGED <<obj, idLive, pc, remote>>
    BY ZenonT(40), <1>7 DEF InformerResync, ConnectionChanges, SecretChanges,
       UserDelete, Deliver, TimerFires, UserCreate, UserEdit, StoreBehind, vars,
       worker, copy, read
  <2> QED
    BY <1>1, <2>1
<1> QED
  BY <1>2, <1>3, <1>4, <1>5, <1>6, <1>7, ConstantsAssumption
     DEF Next, Pass, Environment

\* Every variable always has its type: no record the API server, the pass or the
\* server holds is ever malformed, and a pass that handles an existing resource
\* has read one (Reconcile, engine.go:107-204).
THEOREM TypeCorrect == Spec => []TypeOK
<1>1. Init => IdResolves
  BY DEF Init, IdResolves
<1>2. TypeOK /\ IdResolves /\ [Next]_vars => (TypeOK /\ IdResolves)'
  BY StepTyped, StepResolves
<1> QED
  BY <1>1, <1>2, InitTyped, PTL DEF Spec

-----------------------------------------------------------------------------
(* Deletion never races *)

\* Held by the finalizer; held and not being deleted.
Held(o) == o # None /\ o.fin
Live(o) == Held(o) /\ ~o.deleting

\* A stale copy of the object may say that it is live when it is being deleted,
\* but not when it is gone: only a pass takes the finalizer off, and only when
\* the informer's copy, which the pass started from, is current.
RaceInv ==
    /\ cacheCur => cache = api
    /\ pc \in {"conn", "find", "delete", "release", "addfin"} /\ objCur
          => cacheCur /\ obj = api
    /\ Live(cache) => Held(api)
    /\ Live(obj) => Held(api)
    /\ pc \in Serving => Live(obj)
    /\ pc \in {"find", "delete", "release"} => obj.deleting
    /\ pc = "addfin" => ~obj.fin /\ ~obj.deleting

\* Initially there is no object.
LEMMA InitRace == Init => RaceInv
  BY DEF Init, RaceInv, Live, Held, Serving

\* Every step keeps RaceInv.
LEMMA StepRace == TypeOK /\ RaceInv /\ [Next]_vars => RaceInv'
\* Storing an object that is held, over one that may be, keeps the copies honest.
<1>StoreRace.
      ASSUME RaceInv, NEW o \in Object, Held(api) => Held(o), Store(o)
      PROVE  /\ cacheCur' => cache' = api'
             /\ Live(cache') => Held(api')
             /\ Held(api) => Held(api')
  BY Zenon, <1>StoreRace DEF RaceInv, Store, Live, Held
\* A step that leaves the object and its copies alone.
<1>QuietRace.
      ASSUME RaceInv, UNCHANGED <<kube, copy>>,
             \/ pc' = pc
             \/ pc \in {"conn", "find", "delete"} /\ obj.deleting
                /\ pc' \in {"find", "delete", "release"}
             \/ pc = "conn" /\ ~obj.deleting /\ ~obj.fin /\ pc' = "addfin"
             \/ Live(obj) /\ pc' \in Serving
             \/ pc' \in {"ready", "synced", "end"}
      PROVE  RaceInv'
  BY <1>QuietRace DEF RaceInv, kube, copy, Live, Held, Serving
\* A pass is over and left the object alone.
<1>ForgetRace. ASSUME RaceInv, UNCHANGED kube, Forget PROVE RaceInv'
  BY <1>ForgetRace DEF RaceInv, kube, Forget, Live, Held, Serving
\* A patch by a pass that holds the object, or does not need it.
<1>PatchedRace.
      ASSUME RaceInv, NEW o \in Object, NEW a \in Object, api \in Object,
             a.fin = api.fin, Patched(o, a), pc' \in {"ready", "synced", "end"}
      PROVE  RaceInv'
  <2> USE <1>PatchedRace
  <2>1. Held(api) => Held(a)
    BY NoneAssumption DEF Held
  <2>2. /\ cacheCur' => cache' = api'
        /\ Live(cache') => Held(api')
    BY <2>1, <1>StoreRace DEF Patched
  <2>3. obj'.fin = a.fin
    BY DEF Patched, Decoded, Object
  <2>4. Live(obj') => Held(api')
    BY Zenon, <2>3, NoneAssumption DEF Patched, Store, Live, Held
  <2> QED
    BY <2>2, <2>4 DEF RaceInv, Serving
\* Every step of a pass keeps RaceInv.
<1>PassRace. TypeOK /\ RaceInv /\ Pass => RaceInv'
  <2> SUFFICES ASSUME TypeOK, RaceInv, Pass PROVE RaceInv'
    OBVIOUS
  <2>obj. pc # "idle" => obj \in Object /\ obj # None
    BY Zenon DEF TypeOK, PassType
  <2>1. ASSUME Start PROVE RaceInv'
    BY Zenon, <2>1 DEF Start, RaceInv, Live, Held, Serving, kube, copy
  <2>2. ASSUME Connect \/ FindForDelete \/ DeleteRemote PROVE RaceInv'
    <3>1. obj # None
      BY Zenon, <2>2, <2>obj DEF Connect, FindForDelete, DeleteRemote
    <3>2. pc \in {"find", "delete"} => obj.deleting
      BY Zenon DEF RaceInv
    <3> QED
      BY <2>2, <3>1, <3>2, <1>QuietRace, <1>ForgetRace
         DEF Connect, FindForDelete, DeleteRemote,
         Goto, Report, GiveUp, Return, Live, Held, Serving
  <2>3. ASSUME GetRemote \/ PrepareCreate \/ CreateRemote \/ ReGetRemote \/ Existing
               \/ UpdateRemote \/ Finish
        PROVE  RaceInv'
    <3>1. pc \in Serving => Live(obj)
      BY DEF RaceInv
    <3> QED
      BY <2>3, <3>1, <1>QuietRace, <1>ForgetRace DEF GetRemote, PrepareCreate, CreateRemote,
         ReGetRemote, Existing, UpdateRemote, Finish, Goto, Report, Return, Serving
  <2>4. ASSUME ReleaseFinalizer PROVE RaceInv'
    <3>1. CASE UNCHANGED kube /\ Forget
      BY <3>1, <1>ForgetRace
    <3>2. CASE objCur /\ Store(None) /\ Forget
      <4>1. cache = api /\ ~Live(cache) /\ api # None
        BY <2>4, <3>2, <2>obj DEF ReleaseFinalizer, RaceInv, Live
      <4> QED
        BY Zenon, <3>2, <4>1 DEF RaceInv, Store, Forget, Live, Held, Serving
    <3> QED
      BY <2>4, <3>1, <3>2 DEF ReleaseFinalizer, UpdateObject, GiveUp, Return
  <2>5. ASSUME AddFinalizer PROVE RaceInv'
    <3> DEFINE o == [obj EXCEPT !.fin = TRUE]
    <3>1. CASE UNCHANGED kube /\ Forget
      BY <3>1, <1>ForgetRace
    <3>2. CASE objCur /\ Store(o) /\ Forget
      <4>1. cache = api /\ api = obj /\ ~Live(cache) /\ o # None
        BY Zenon, <2>5, <3>2, <2>obj, NoneAssumption DEF AddFinalizer, RaceInv, Live,
           Held, Object
      <4> QED
        BY Zenon, <3>2, <4>1 DEF RaceInv, Store, Forget, Live, Held, Serving
    <3> QED
      BY <2>5, <3>1, <3>2 DEF AddFinalizer, UpdateObject, GiveUp, Return
  <2>6. ASSUME PostApply PROVE RaceInv'
    <3>1. CASE Report("Failed", TRUE, "after")
      BY <3>1, <1>QuietRace DEF Report
    <3>2. CASE obj' = [obj EXCEPT !.status.obsGen = obj.gen] /\ UNCHANGED kube
               /\ pc' \in {"annotate", "ready"}
      <4>1. Live(obj) /\ Live(obj')
        BY <2>6, <2>obj, <3>2, NoneAssumption
           DEF PostApply, RaceInv, Serving, Live, Held, Object, Status
      <4> QED
        BY <3>2, <4>1 DEF RaceInv, kube, Live, Held, Serving
    <3> QED
      BY Zenon, <2>6, <3>1, <3>2 DEF PostApply
  <2>7. ASSUME Annotate PROVE RaceInv'
    <3> DEFINE a == [api EXCEPT !.ann = RepOf(obj.spec)]
    <3>1. api # None => api \in Object /\ a \in Object /\ a.fin = api.fin
      BY <2>7, <2>obj, ObjectFields DEF Annotate, TypeOK, KubeType, Object
    <3>2. CASE api # None /\ Patched(obj, a) /\ pc' = "ready"
      BY ZenonT(40), <2>7, <2>obj, <3>1, <3>2, <1>PatchedRace DEF Annotate
    <3>3. CASE UNCHANGED kube /\ Forget
      BY <3>3, <1>ForgetRace
    <3>4. CASE api # None /\ Store(a) /\ Forget
      <4>1. Held(api) => Held(a)
        BY <3>1, <3>4, NoneAssumption DEF Held
      <4>2. /\ cacheCur' => cache' = api'
            /\ Live(cache') => Held(api')
        BY Zenon, <3>1, <3>4, <4>1, <1>StoreRace
      <4> QED
        BY <3>4, <4>2 DEF RaceInv, Forget, Live, Held, Serving
    <3> QED
      BY <2>7, <3>2, <3>3, <3>4 DEF Annotate, GiveUp, Return
  <2>8. ASSUME NEW o \in Object, o.fin = obj.fin, o.deleting = obj.deleting, obj # None,
               PatchStatus(o), pc' \in {"ready", "synced", "end"}
        PROVE  RaceInv'
    <3>1. CASE api # None /\ Patched(o, MergeStatus(api, o))
      <4>1. api \in Object /\ MergeStatus(api, o) \in Object
        BY <3>1, MergeStatusTyped DEF TypeOK, KubeType
      <4>2. MergeStatus(api, o).fin = api.fin
        BY ZenonT(40), <4>1 DEF MergeStatus, Object
      <4> QED
        BY <2>8, <3>1, <4>1, <4>2, <1>PatchedRace
    <3>2. CASE obj' = o /\ UNCHANGED kube
      BY <2>8, <3>2 DEF RaceInv, kube, Live, Held, Serving
    <3> QED
      BY <2>8, <3>1, <3>2 DEF PatchStatus
  <2>9. ASSUME WriteReady \/ WriteSynced PROVE RaceInv'
    <3> DEFINE c == [reason |-> verdict.reason, gen |-> obj.gen]
    <3>1. c \in Cond
      BY <2>9, <2>obj, ObjectFields DEF WriteReady, WriteSynced, Cond, TypeOK,
         PassType, Verdict
    <3>2. /\ [obj EXCEPT !.status.ready = c] \in Object
          /\ [obj EXCEPT !.status.synced = c] \in Object
          /\ obj # None
      BY <2>9, <2>obj, <3>1, ConditionTyped DEF WriteReady, WriteSynced
    <3>3. /\ [obj EXCEPT !.status.ready = c].fin = obj.fin
          /\ [obj EXCEPT !.status.ready = c].deleting = obj.deleting
          /\ [obj EXCEPT !.status.synced = c].fin = obj.fin
          /\ [obj EXCEPT !.status.synced = c].deleting = obj.deleting
      BY <2>9, <2>obj DEF WriteReady, WriteSynced, Object
    <3> QED
      BY Zenon, <2>8, <2>9, <3>2, <3>3 DEF WriteReady, WriteSynced
  <2> QED
    BY <2>1, <2>2, <2>3, <2>4, <2>5, <2>6, <2>7, <2>9 DEF Pass
<1> SUFFICES ASSUME TypeOK, RaceInv, [Next]_vars PROVE RaceInv'
  OBVIOUS
<1>1. ASSUME UNCHANGED <<kube, copy, pc>> PROVE RaceInv'
  BY Zenon, <1>1, <1>QuietRace
<1>2. ASSUME Deliver PROVE RaceInv'
  BY Zenon, <1>2 DEF Deliver, RaceInv, Live, Held, Serving, worker, copy
<1>3. ASSUME Restart PROVE RaceInv'
  BY <1>3 DEF Restart, Forget, RaceInv, Live, Held, Serving
<1>4. ASSUME NEW o \in Object \cup {None}, StoreBehind(o), UNCHANGED pc,
             Held(api) => Held(o)
      PROVE  RaceInv'
  BY Zenon, <1>4 DEF StoreBehind, Store, RaceInv, Live, Held, Serving
<1>5. ASSUME NEW s \in Specs, NEW w \in AllowChoices,
             UserCreate(s, w) \/ \E e \in AnnEdits : UserEdit(s, w, e)
      PROVE  RaceInv'
  <2>1. CASE UserCreate(s, w)
    BY <1>4, <2>1, NewTyped DEF UserCreate, Held
  <2>2. ASSUME NEW e \in AnnEdits, UserEdit(s, w, e) PROVE RaceInv'
    <3>1. /\ Edited(s, w, e) \in Object
          /\ Edited(s, w, e).fin = api.fin
      BY <2>2, EditedTyped DEF UserEdit
    <3>2. Held(api) => Held(Edited(s, w, e))
      BY <3>1, NoneAssumption DEF Held
    <3> QED
      BY <1>4, <2>2, <3>1, <3>2 DEF UserEdit
  <2> QED
    BY <1>5, <2>1, <2>2
<1>6. ASSUME UserDelete PROVE RaceInv'
  <2> DEFINE marked == [api EXCEPT !.deleting = TRUE, !.gen = @ + 1]
  <2>1. api \in Object
    BY <1>6 DEF UserDelete, TypeOK, KubeType
  <2>2. api.gen + 1 \in Nat
    BY <2>1 DEF Object
  <2>3. marked \in Object /\ marked.fin = api.fin
    BY ZenonT(40), <2>1, <2>2 DEF Object
  <2>4. api.fin => Held(marked)
    BY <2>3, NoneAssumption DEF Held
  <2> QED
    BY Zenon, <1>4, <1>6, <2>3, <2>4 DEF UserDelete, Held
<1>7. ASSUME NEW k \in Keys, NEW v \in Vals,
             AdminCreate(k, v) \/ AdminEdit(k, v) \/ AdminDelete(k)
      PROVE  RaceInv'
  BY <1>1, <1>7 DEF AdminCreate, AdminEdit, AdminDelete, worker
<1>8. ASSUME InformerResync \/ ConnectionChanges \/ SecretChanges \/ TimerFires
             \/ UNCHANGED vars
      PROVE  RaceInv'
  BY <1>1, <1>8 DEF InformerResync, ConnectionChanges, SecretChanges, TimerFires, vars,
     worker
<1> QED
  BY <1>2, <1>3, <1>5, <1>6, <1>7, <1>8, <1>PassRace, ConstantsAssumption
     DEF Next, Environment

\* Whatever the informer, users, faults and restarts do, a pass that works on the
\* server works for an object that is there and held by the finalizer
\* (engine.go:149-160): deletion never completes behind its back.
THEOREM NoDeletionRace == Spec => []DeletionNeverRaces
<1>1. Init => IdResolves
  BY DEF Init, IdResolves
<1>2. TypeOK /\ IdResolves /\ RaceInv /\ [Next]_vars => (TypeOK /\ IdResolves /\ RaceInv)'
  BY StepTyped, StepResolves, StepRace
<1>3. RaceInv => DeletionNeverRaces
  BY DEF RaceInv, DeletionNeverRaces, Held
<1> QED
  BY <1>1, <1>2, <1>3, InitTyped, InitRace, PTL DEF Spec

-----------------------------------------------------------------------------
(* Records do not run ahead of the server *)

Observed(gen) == \E e \in enforced : e.gen = gen
EnforcedRep(rep) == \E e \in enforced : e.rep = rep

\* What object o records was enforced.
Truthful(o) ==
    /\ o.status.obsGen # 0 => o.fin /\ Observed(o.status.obsGen)
    /\ Recorded(o) => EnforcedRep(o.ann)

\* A generation that a pass is about to record was enforced, for an object that is
\* held and so is not replaced by another of its name meanwhile.
RecordInv ==
    /\ api # None => Truthful(api)
    /\ obj # None /\ obj.status.obsGen # base.obsGen =>
          Held(api) /\ Observed(obj.status.obsGen)
    /\ pc = "annotate" => EnforcedRep(RepOf(obj.spec))

\* Initially nothing is recorded.
LEMMA InitRecord == Init => RecordInv
  BY DEF Init, RecordInv

\* Every step keeps RecordInv. A new object forgets what was enforced for the old
\* one, and no pass still has something of the old one to record.
LEMMA StepRecord == TypeOK /\ RaceInv /\ RecordInv /\ [Next]_vars => RecordInv'
\* A pass is over, or begins, and left the object alone.
<1>ForgetRecord.
      ASSUME RecordInv, UNCHANGED <<api, enforced>>, Forget
      PROVE  RecordInv'
  BY <1>ForgetRecord DEF RecordInv, Truthful, Observed, EnforcedRep, Recorded, Forget
\* A step that leaves the object and its copy alone.
<1>QuietRecord.
      ASSUME RecordInv, UNCHANGED <<api, obj, base, enforced>>, pc' = pc \/ pc' # "annotate"
      PROVE  RecordInv'
  BY Zenon, <1>QuietRecord DEF RecordInv, Truthful, Observed, EnforcedRep, Recorded, Held
\* A pass stores a truthful object and is over.
<1>StoreRecord.
      ASSUME NEW o \in Object, Truthful(o), api' = o, UNCHANGED enforced, Forget
      PROVE  RecordInv'
  BY Zenon, <1>StoreRecord DEF RecordInv, Truthful, Observed, EnforcedRep, Recorded, Forget
\* The object with a new annotation, or with the status of the copy merged into
\* it, is truthful.
<1>PatchedRecord.
      ASSUME RecordInv, NEW o \in Object, NEW a \in Object, api \in Object, obj \in Object,
             o.status.obsGen = obj.status.obsGen, a.fin = api.fin, Truthful(a),
             Patched(o, a), UNCHANGED enforced, pc' # "annotate"
      PROVE  RecordInv'
  <2> USE <1>PatchedRecord
  <2>1. api' = a /\ base' = base /\ obj' = Decoded(o, a)
    BY DEF Patched, Store
  <2>2. Truthful(a)'
    BY DEF Truthful, Observed, EnforcedRep, Recorded
  <2>3. obj'.status.obsGen = IF a.status.obsGen = 0 THEN o.status.obsGen
                             ELSE a.status.obsGen
    BY ZenonT(40), <2>1 DEF Decoded, Object, Status
  <2>4. a # None /\ api # None /\ obj # None
    BY NoneAssumption
  <2>5. ASSUME obj'.status.obsGen # base.obsGen
        PROVE  Held(a) /\ Observed(obj'.status.obsGen)
    <3>1. CASE a.status.obsGen = 0
      BY <2>3, <2>4, <2>5, <3>1 DEF RecordInv, Held
    <3>2. CASE a.status.obsGen # 0
      BY <2>3, <2>4, <3>2 DEF Truthful, Held
    <3> QED
      BY <3>1, <3>2
  <2>6. obj' # None /\ obj'.status.obsGen # base'.obsGen =>
          Held(api') /\ \E e \in enforced' : e.gen = obj'.status.obsGen
    BY Zenon, <2>1, <2>5 DEF Observed
  <2> QED
    BY <2>1, <2>2, <2>6 DEF RecordInv, Observed, Truthful, Held
\* Merging the status of the copy into the object.
<1>MergeRecord.
      ASSUME RecordInv, PassType, NEW o \in Object, api \in Object, obj \in Object,
             o.status.obsGen = obj.status.obsGen
      PROVE  Truthful(MergeStatus(api, o)) /\ MergeStatus(api, o).fin = api.fin
  <2> USE <1>MergeRecord
  <2> DEFINE a == MergeStatus(api, o)
  <2>1. /\ a.fin = api.fin /\ a.ann = api.ann
        /\ a.status.obsGen = IF o.status.obsGen # base.obsGen THEN o.status.obsGen
                             ELSE api.status.obsGen
    BY ZenonT(40) DEF MergeStatus, Object, Status
  <2>2. api # None /\ obj # None
    BY NoneAssumption
  <2>3. Recorded(a) => EnforcedRep(a.ann)
    BY <2>1, <2>2 DEF RecordInv, Truthful, Recorded
  <2>4. a.status.obsGen # 0 => a.fin /\ Observed(a.status.obsGen)
    BY <2>1, <2>2 DEF RecordInv, Truthful, Held
  <2> QED
    BY <2>1, <2>3, <2>4 DEF Truthful
\* Every step of a pass keeps RecordInv.
<1>PassRecord. TypeOK /\ RaceInv /\ RecordInv /\ Pass => RecordInv'
  <2> SUFFICES ASSUME TypeOK, RaceInv, RecordInv, Pass PROVE RecordInv'
    OBVIOUS
  <2>obj. pc # "idle" => obj \in Object /\ obj # None
    BY Zenon DEF TypeOK, PassType
  <2>api. api # None => api \in Object
    BY DEF TypeOK, KubeType
  <2>1. ASSUME Start PROVE RecordInv'
    BY <2>1 DEF Start, RecordInv, Truthful, Observed, EnforcedRep, Recorded, kube, copy
  <2>2. ASSUME Connect \/ FindForDelete \/ DeleteRemote \/ GetRemote \/ PrepareCreate
               \/ CreateRemote \/ ReGetRemote \/ Existing \/ UpdateRemote \/ Finish
        PROVE  RecordInv'
    <3>1. UNCHANGED <<api, enforced>>
      BY ZenonT(40), <2>2 DEF Connect, FindForDelete, DeleteRemote, GetRemote,
         PrepareCreate, CreateRemote, ReGetRemote, Existing, UpdateRemote, Finish, Goto,
         Report, GiveUp, kube
    <3>2. Forget \/ (UNCHANGED <<obj, base>> /\ pc' # "annotate")
      BY Zenon, <2>2 DEF Connect, FindForDelete, DeleteRemote, GetRemote, PrepareCreate,
         CreateRemote, ReGetRemote, Existing, UpdateRemote, Finish, Goto, Report, GiveUp,
         Return, copy
    <3> QED
      BY <3>1, <3>2, <1>ForgetRecord, <1>QuietRecord
  <2>3. ASSUME ReleaseFinalizer PROVE RecordInv'
    <3>1. CASE UNCHANGED kube /\ Forget
      BY <2>3, <3>1, <1>ForgetRecord DEF ReleaseFinalizer, kube
    <3>2. CASE Store(None) /\ Forget
      BY Zenon, <3>2 DEF RecordInv, Store, Forget
    <3> QED
      BY <2>3, <3>1, <3>2 DEF ReleaseFinalizer, UpdateObject, GiveUp, Return
  <2>4. ASSUME AddFinalizer PROVE RecordInv'
    <3> DEFINE o == [obj EXCEPT !.fin = TRUE]
    <3>1. CASE UNCHANGED kube /\ Forget
      BY <2>4, <3>1, <1>ForgetRecord DEF AddFinalizer, kube
    <3>2. CASE objCur /\ Store(o) /\ Forget
      <4>1. obj = api /\ obj \in Object /\ obj # None
        BY <2>4, <3>2, <2>obj DEF AddFinalizer, RaceInv
      <4>2. o \in Object /\ o.fin /\ o.ann = api.ann /\ o.status = api.status
        BY Zenon, <4>1 DEF Object
      <4>3. Truthful(o)
        BY <4>1, <4>2 DEF RecordInv, Truthful, Recorded
      <4> QED
        BY <2>4, <3>2, <4>2, <4>3, <1>StoreRecord DEF AddFinalizer, Store
    <3> QED
      BY <2>4, <3>1, <3>2 DEF AddFinalizer, UpdateObject, GiveUp, Return
  <2>5. ASSUME PostApply PROVE RecordInv'
    <3>1. CASE Report("Failed", TRUE, "after") /\ UNCHANGED enforced
      BY <3>1, <1>QuietRecord DEF Report, kube, copy
    <3>2. CASE /\ obj' = [obj EXCEPT !.status.obsGen = obj.gen] /\ UNCHANGED <<api, base>>
               /\ enforced' = enforced \cup {[gen |-> obj.gen, rep |-> RepOf(obj.spec)]}
      <4>1. Held(api) /\ obj \in Object /\ obj # None
        BY <2>5, <2>obj DEF PostApply, RaceInv, Serving
      <4>2. obj'.status.obsGen = obj.gen /\ obj'.spec = obj.spec
        BY <3>2, <4>1 DEF Object, Status
      <4>3. [gen |-> obj.gen, rep |-> RepOf(obj.spec)] \in enforced'
        BY <3>2
      <4>4. /\ \E e \in enforced' : e.gen = obj'.status.obsGen
            /\ \E e \in enforced' : e.rep = RepOf(obj'.spec)
        BY <4>2, <4>3
      <4> QED
        BY <3>2, <4>1, <4>4 DEF RecordInv, Truthful, Observed, EnforcedRep, Recorded, Held
    <3> QED
      BY Zenon, <2>5, <3>1, <3>2 DEF PostApply, kube
  <2>6. ASSUME Annotate PROVE RecordInv'
    <3> DEFINE a == [api EXCEPT !.ann = RepOf(obj.spec)]
    <3>1. obj \in Object /\ UNCHANGED enforced /\ EnforcedRep(RepOf(obj.spec))
      BY <2>6, <2>obj DEF Annotate, RecordInv
    <3>2. ASSUME api # None
          PROVE  a \in Object /\ a.fin = api.fin /\ Truthful(a)
      <4>1. /\ a \in Object /\ a.fin = api.fin /\ a.status = api.status
            /\ a.ann = RepOf(obj.spec)
        BY <2>api, <3>1, <3>2, ObjectFields DEF Object
      <4> QED
        BY <3>1, <3>2, <4>1 DEF RecordInv, Truthful
    <3>3. CASE api # None /\ Patched(obj, a) /\ pc' = "ready"
      BY Zenon, <2>api, <3>1, <3>2, <3>3, <1>PatchedRecord
    <3>4. CASE UNCHANGED kube /\ Forget
      BY <3>1, <3>4, <1>ForgetRecord DEF kube
    <3>5. CASE api # None /\ Store(a) /\ Forget
      BY <3>1, <3>2, <3>5, <1>StoreRecord DEF Store
    <3> QED
      BY <2>6, <3>3, <3>4, <3>5 DEF Annotate, GiveUp, Return
  <2>7. ASSUME NEW o \in Object, o.status.obsGen = obj.status.obsGen, obj \in Object,
               PatchStatus(o), UNCHANGED enforced, pc' # "annotate"
        PROVE  RecordInv'
    <3>1. CASE api # None /\ Patched(o, MergeStatus(api, o))
      <4>1. api \in Object /\ MergeStatus(api, o) \in Object
        BY <2>api, <3>1, MergeStatusTyped DEF TypeOK
      <4>2. Truthful(MergeStatus(api, o)) /\ MergeStatus(api, o).fin = api.fin
        BY Zenon, <2>7, <4>1, <1>MergeRecord DEF TypeOK
      <4> QED
        BY <2>7, <3>1, <4>1, <4>2, <1>PatchedRecord
    <3>2. CASE obj' = o /\ UNCHANGED <<api, base>>
      BY <2>7, <3>2, NoneAssumption
         DEF RecordInv, Truthful, Observed, EnforcedRep, Recorded, Held
    <3> QED
      BY <2>7, <3>1, <3>2 DEF PatchStatus, kube
  <2>8. ASSUME WriteReady \/ WriteSynced PROVE RecordInv'
    <3> DEFINE c == [reason |-> verdict.reason, gen |-> obj.gen]
    <3>1. c \in Cond /\ obj \in Object
      BY <2>8, <2>obj, ObjectFields DEF WriteReady, WriteSynced, Cond, TypeOK,
         PassType, Verdict
    <3>2. /\ [obj EXCEPT !.status.ready = c] \in Object
          /\ [obj EXCEPT !.status.synced = c] \in Object
      BY <3>1, ConditionTyped
    <3>3. /\ [obj EXCEPT !.status.ready = c].status.obsGen = obj.status.obsGen
          /\ [obj EXCEPT !.status.synced = c].status.obsGen = obj.status.obsGen
      BY <3>1 DEF Object, Status
    <3>4. pc' # "annotate" /\ UNCHANGED enforced
      BY <2>8 DEF WriteReady, WriteSynced
    <3> QED
      BY Zenon, <2>7, <2>8, <3>1, <3>2, <3>3, <3>4 DEF WriteReady, WriteSynced
  <2> QED
    BY <2>1, <2>2, <2>3, <2>4, <2>5, <2>6, <2>8 DEF Pass
<1> SUFFICES ASSUME TypeOK, RaceInv, RecordInv, [Next]_vars PROVE RecordInv'
  OBVIOUS
<1>1. ASSUME UNCHANGED <<api, obj, base, pc, enforced>> PROVE RecordInv'
  BY Zenon, <1>1, <1>QuietRecord
<1>2. ASSUME Deliver \/ TimerFires \/ InformerResync \/ ConnectionChanges \/ SecretChanges
             \/ UNCHANGED vars
      PROVE  RecordInv'
  BY <1>1, <1>2 DEF Deliver, TimerFires, InformerResync, ConnectionChanges,
     SecretChanges, vars, worker, copy, kube
<1>3. ASSUME Restart PROVE RecordInv'
  BY <1>3, <1>ForgetRecord DEF Restart
<1>4. ASSUME NEW k \in Keys, NEW v \in Vals,
             AdminCreate(k, v) \/ AdminEdit(k, v) \/ AdminDelete(k)
      PROVE  RecordInv'
  BY <1>1, <1>4 DEF AdminCreate, AdminEdit, AdminDelete, worker, copy, kube
<1>5. ASSUME NEW s \in Specs, NEW w \in AllowChoices, UserCreate(s, w)
      PROVE  RecordInv'
  <2>1. ~Held(api) /\ pc # "annotate"
    BY <1>5 DEF UserCreate, RaceInv, Serving, Held
  <2>2. /\ UNCHANGED <<obj, base, pc>>
        /\ api'.status.obsGen = 0 /\ api'.ann = None
    BY <1>5 DEF UserCreate, StoreBehind, Store, NoStatus
  <2> QED
    BY ZenonT(60), <2>1, <2>2 DEF RecordInv, Truthful, Recorded
<1>6. ASSUME NEW o \in Object, Truthful(o), Held(api) => o.fin, StoreBehind(o),
             UNCHANGED <<pc, enforced>>
      PROVE  RecordInv'
  <2>1. api' = o /\ UNCHANGED <<obj, base>> /\ o # None
    BY Zenon, <1>6, NoneAssumption DEF StoreBehind, Store
  <2> QED
    BY <1>6, <2>1 DEF RecordInv, Truthful, Observed, EnforcedRep, Recorded, Held
<1>7. ASSUME NEW s \in Specs, NEW w \in AllowChoices, NEW e \in AnnEdits,
             UserEdit(s, w, e)
      PROVE  RecordInv'
  <2>1. api \in Object /\ api # None
    BY <1>7 DEF UserEdit, TypeOK, KubeType
  <2>2. /\ Edited(s, w, e) \in Object /\ Edited(s, w, e).fin = api.fin
        /\ Edited(s, w, e).status = api.status
        /\ Edited(s, w, e).ann \in {api.ann, None, Garbled}
    BY <1>7, <2>1, EditedTyped
  <2>3. Truthful(Edited(s, w, e))
    BY <2>1, <2>2 DEF RecordInv, Truthful, Recorded
  <2> QED
    BY ZenonT(60), <1>6, <1>7, <2>2, <2>3 DEF UserEdit, Held
<1>8. ASSUME UserDelete PROVE RecordInv'
  <2> DEFINE marked == [api EXCEPT !.deleting = TRUE, !.gen = @ + 1]
  <2>1. api \in Object /\ api # None
    BY <1>8 DEF UserDelete, TypeOK, KubeType
  <2>2. api.gen + 1 \in Nat
    BY <2>1 DEF Object
  <2>3. /\ marked \in Object /\ marked.fin = api.fin
        /\ marked.status = api.status /\ marked.ann = api.ann
    BY ZenonT(40), <2>1, <2>2 DEF Object
  <2>4. Truthful(marked)
    BY <2>1, <2>3 DEF RecordInv, Truthful, Recorded
  <2>5. CASE api.fin
    BY Zenon, <1>6, <1>8, <2>3, <2>4, <2>5 DEF UserDelete, Held
  <2>6. CASE ~api.fin
    <3>1. api' = None /\ ~Held(api) /\ UNCHANGED <<obj, base, pc>>
      BY <1>8, <2>6 DEF UserDelete, StoreBehind, Store, Held
    <3>2. pc # "annotate"
      BY <3>1 DEF RaceInv, Serving
    <3> QED
      BY <3>1, <3>2 DEF RecordInv
  <2> QED
    BY <2>5, <2>6
<1> QED
  BY <1>2, <1>3, <1>4, <1>5, <1>7, <1>8, <1>PassRecord, ConstantsAssumption
     DEF Next, Environment

\* For every kind, set of specs and keys, whatever caches, users, faults and
\* restarts do: observedGeneration and the last-applied annotation record only
\* what some pass enforced in full for this very object (finalize,
\* engine.go:319-335).
THEOREM NothingRecordedEarly == Spec => []RecordsOnlyEnforced
<1> DEFINE IInv == TypeOK /\ IdResolves /\ RaceInv /\ RecordInv
<1>1. Init => IInv
  BY InitTyped, InitRace, InitRecord DEF Init, IdResolves
<1>2. IInv /\ [Next]_vars => IInv'
  BY StepTyped, StepResolves, StepRace, StepRecord
<1>3. IInv => RecordsOnlyEnforced
  BY Zenon DEF RecordInv, RecordsOnlyEnforced, Truthful, Observed, EnforcedRep
<1> QED
  BY <1>1, <1>2, <1>3, PTL DEF Spec

-----------------------------------------------------------------------------
(* Whose resource it is *)

\* The marker tells the operator's resources, if the kind has one.
Told(r) ==
    /\ r.own = "foreign" => ~r.marked
    /\ HasMarker /\ r.own = "operator" => r.marked

\* What a pass read is still what is there while the id it resolved is live, and
\* a pass updates what it adopts or takes for managed.
OwnInv ==
    /\ \A k \in Keys : remote[k] # None => Told(remote[k])
    /\ got # None => Told(got)
    /\ pc \in {"existing", "update"} /\ idLive =>
          remote[obj.spec.key] # None /\ remote[obj.spec.key].own = got.own
    /\ pc = "update" => obj.spec.adoption = "Adopt" \/ Managed(got, obj)

LEMMA InitOwn == Init => OwnInv
  BY DEF Init, OwnInv

\* PostApply works beside the representation: whose a resource is does not change.
LEMMA PostKeepsOwn ==
    ASSUME TypeOK, IdResolves, PostApply, NEW k \in Keys
    PROVE  \/ remote'[k] = remote[k]
           \/ /\ remote[k] # None /\ remote'[k].own = remote[k].own
              /\ remote'[k].marked = remote[k].marked
<1>1. pc = "post" /\ remote \in [Keys -> Resource \cup {None}]
  BY DEF PostApply, TypeOK, ServerType
<1>2. \/ UNCHANGED remote
      \/ Reachable /\ remote' = [remote EXCEPT ![obj.spec.key].sub = obj.spec.val]
  BY Zenon DEF PostApply, Enforces
<1>3. Reachable => remote[obj.spec.key] # None
  BY <1>1 DEF Reachable, IdResolves
<1>4. CASE k = obj.spec.key /\ Reachable
            /\ remote' = [remote EXCEPT ![obj.spec.key].sub = obj.spec.val]
  <2>1. remote[k] \in Resource /\ remote[k] # None
    BY <1>1, <1>3, <1>4
  <2>2. remote'[k] = [remote[k] EXCEPT !.sub = obj.spec.val]
    BY <1>1, <1>4
  <2> QED
    BY <2>1, <2>2 DEF Resource
<1> QED
  BY <1>1, <1>2, <1>4

LEMMA StepOwn == TypeOK /\ IdResolves /\ OwnInv /\ [Next]_vars => OwnInv'
\* A step that leaves the server alone, and what the pass read of it.
<1>QuietOwn.
      ASSUME OwnInv, UNCHANGED <<remote, got>>,
             \/ UNCHANGED <<obj, pc, idLive>>
             \/ pc' \notin {"existing", "update"}
      PROVE  OwnInv'
  BY <1>QuietOwn DEF OwnInv, Told, Managed
\* A step that changes the server, and leaves the pass neither comparing nor
\* updating, with what it read.
<1>ServerOwn.
      ASSUME OwnInv, UNCHANGED got, pc' \notin {"existing", "update"},
             \A k \in Keys : remote'[k] # None => Told(remote'[k])
      PROVE  OwnInv'
  BY Zenon, <1>ServerOwn DEF OwnInv, Told
\* A pass is over.
<1>ForgetOwn.
      ASSUME OwnInv, Forget, \A k \in Keys : remote'[k] # None => Told(remote'[k])
      PROVE  OwnInv'
  BY <1>ForgetOwn DEF OwnInv, Told, Forget
\* What an Update leaves on the server can be told.
<1>MergedTold.
      ASSUME NEW o \in Object, NEW r \in Resource, NEW sub
      PROVE  Told([Merged(r, o) EXCEPT !.sub = sub])
  <2> USE <1>MergedTold
  <2>1. /\ [Merged(r, o) EXCEPT !.sub = sub].own = "operator"
        /\ [Merged(r, o) EXCEPT !.sub = sub].marked = (r.marked \/ HasMarker)
    BY DEF Merged, Resource
  <2> QED
    BY Zenon, <2>1 DEF Told
<1>PassOwn. TypeOK /\ IdResolves /\ OwnInv /\ Pass => OwnInv'
  <2> SUFFICES ASSUME TypeOK, IdResolves, OwnInv, Pass PROVE OwnInv'
    OBVIOUS
  <2>obj. pc # "idle" => obj \in Object /\ obj # None /\ obj.spec.key \in Keys
    BY Zenon, ObjectFields DEF TypeOK, PassType
  <2>rem. remote \in [Keys -> Resource \cup {None}]
    BY DEF TypeOK, ServerType
  <2>told. \A k \in Keys : remote[k] # None => Told(remote[k])
    BY DEF OwnInv
  <2>1. ASSUME Start \/ Connect \/ FindForDelete \/ ReleaseFinalizer \/ AddFinalizer
               \/ PrepareCreate \/ Annotate \/ WriteReady \/ WriteSynced \/ Finish
        PROVE  OwnInv'
    <3>1. UNCHANGED remote
      BY ZenonT(40), <2>1 DEF Start, Connect, FindForDelete, ReleaseFinalizer, AddFinalizer,
         PrepareCreate, Annotate, WriteReady, WriteSynced, Finish
    <3>2. \/ Forget
          \/ /\ UNCHANGED got
             /\ UNCHANGED <<obj, pc, idLive>> \/ pc' \notin {"existing", "update"}
      BY Zenon, <2>1 DEF Start, Connect, FindForDelete, ReleaseFinalizer, AddFinalizer,
         PrepareCreate, Annotate, WriteReady, WriteSynced, Finish, Goto, Report, GiveUp,
         Return, UpdateObject, read, copy
    <3> QED
      BY <2>told, <3>1, <3>2, <1>QuietOwn, <1>ForgetOwn
  <2>2. ASSUME DeleteRemote PROVE OwnInv'
    <3>1. \A k \in Keys : remote'[k] \in {remote[k], None}
      BY <2>2, <2>rem DEF DeleteRemote
    <3>2. \A k \in Keys : remote'[k] # None => Told(remote'[k])
      BY <2>told, <3>1
    <3>3. Forget \/ (UNCHANGED got /\ pc' \notin {"existing", "update"})
      BY Zenon, <2>2 DEF DeleteRemote, Goto, GiveUp, Return, read
    <3> QED
      BY <3>2, <3>3, <1>ServerOwn, <1>ForgetOwn
  <2>3. ASSUME GetRemote \/ ReGetRemote PROVE OwnInv'
    <3>1. UNCHANGED <<remote>> /\ pc # "idle"
      BY ZenonT(40), <2>3 DEF GetRemote, ReGetRemote
    <3>2. CASE Fetched /\ UNCHANGED obj /\ pc' # "update"
      BY <2>obj, <2>told, <3>1, <3>2 DEF Fetched, OwnInv, Told
    <3>3. CASE UNCHANGED got /\ pc' \notin {"existing", "update"}
      BY <3>1, <3>3, <1>QuietOwn
    <3> QED
      BY <2>3, <3>2, <3>3 DEF GetRemote, ReGetRemote, Goto, Report, read, copy
  <2>4. ASSUME CreateRemote PROVE OwnInv'
    <3>1. \A k \in Keys : remote'[k] \in {remote[k], Created(obj)}
      BY ZenonT(40), <2>4, <2>rem DEF CreateRemote
    <3>2. \A k \in Keys : remote'[k] # None => Told(remote'[k])
      BY <2>told, <3>1 DEF Created, Told
    <3>3. UNCHANGED got /\ pc' \notin {"existing", "update"}
      BY Zenon, <2>4 DEF CreateRemote, Goto, Report, read
    <3> QED
      BY <3>2, <3>3, <1>ServerOwn
  <2>5. ASSUME Existing PROVE OwnInv'
    <3>1. UNCHANGED <<remote, got, idLive, obj>> /\ pc = "existing"
      BY <2>5 DEF Existing, Goto, Report, read, copy
    <3>2. pc' = "update" => obj.spec.adoption = "Adopt" \/ Managed(got, obj)
      BY Zenon, <2>5 DEF Existing, Goto, Report
    <3> QED
      BY Zenon, <3>1, <3>2 DEF OwnInv, Told, Managed
  <2>6. ASSUME UpdateRemote PROVE OwnInv'
    <3> DEFINE put == [Merged(got, obj) EXCEPT !.sub = remote[obj.spec.key].sub]
    <3>1. \A k \in Keys : remote'[k] \in {remote[k], put}
      BY Zenon, <2>6, <2>rem DEF UpdateRemote
    <3>2. Told(put)
      BY Zenon, <2>6, <2>obj, <1>MergedTold DEF UpdateRemote, TypeOK, PassType
    <3>3. \A k \in Keys : remote'[k] # None => Told(remote'[k])
      BY <2>told, <3>1, <3>2
    <3>4. UNCHANGED got /\ pc' \notin {"existing", "update"}
      BY <2>6 DEF UpdateRemote, Goto, Report, read
    <3> QED
      BY <3>3, <3>4, <1>ServerOwn
  <2>7. ASSUME PostApply PROVE OwnInv'
    <3>1. \A k \in Keys : remote'[k] # None => Told(remote'[k])
      BY <2>7, <2>told, PostKeepsOwn DEF Told
    <3>2. UNCHANGED got /\ pc' \notin {"existing", "update"}
      BY <2>7 DEF PostApply, Report, read
    <3> QED
      BY <3>1, <3>2, <1>ServerOwn
  <2> QED
    BY <2>1, <2>2, <2>3, <2>4, <2>5, <2>6, <2>7 DEF Pass
<1> SUFFICES ASSUME TypeOK, IdResolves, OwnInv, [Next]_vars PROVE OwnInv'
  OBVIOUS
<1>rem. remote \in [Keys -> Resource \cup {None}]
  BY DEF TypeOK, ServerType
<1>told. \A k \in Keys : remote[k] # None => Told(remote[k])
  BY DEF OwnInv
<1>1. ASSUME UNCHANGED <<remote, got, obj, pc, idLive>> PROVE OwnInv'
  BY <1>1, <1>QuietOwn
<1>2. ASSUME \/ Deliver \/ TimerFires \/ InformerResync \/ ConnectionChanges
             \/ SecretChanges \/ UserDelete \/ UNCHANGED vars
             \/ \E s \in Specs, a \in AllowChoices : UserCreate(s, a)
             \/ \E s \in Specs, a \in AllowChoices, e \in AnnEdits : UserEdit(s, a, e)
      PROVE  OwnInv'
  BY ZenonT(40), <1>1, <1>2 DEF Deliver, TimerFires, InformerResync, ConnectionChanges,
     SecretChanges, UserDelete, UserCreate, UserEdit, StoreBehind, vars, worker, copy,
     read
<1>3. ASSUME Restart PROVE OwnInv'
  BY <1>3, <1>told, <1>ForgetOwn DEF Restart
<1>4. ASSUME NEW k \in Keys, NEW v \in Vals, AdminCreate(k, v) \/ AdminEdit(k, v)
      PROVE  OwnInv'
  <2>1. UNCHANGED <<got, obj, pc, idLive>>
    BY <1>4 DEF AdminCreate, AdminEdit, worker, copy, read
  <2>2. \A j \in Keys : j # k => remote'[j] = remote[j]
    BY <1>4, <1>rem DEF AdminCreate, AdminEdit
  <2>3. CASE AdminCreate(k, v)
    <3>1. remote[k] = None /\ remote'[k].own = "foreign" /\ ~remote'[k].marked
      BY <1>rem, <2>3 DEF AdminCreate
    <3>2. \A j \in Keys : remote'[j] # None => Told(remote'[j])
      BY <1>told, <2>2, <3>1 DEF Told
    <3>3. pc \in {"existing", "update"} => obj.spec.key \in Keys
      BY Zenon, ObjectFields DEF TypeOK, PassType
    <3> QED
      BY <2>1, <2>2, <3>1, <3>2, <3>3 DEF OwnInv, Told, Managed
  <2>4. CASE AdminEdit(k, v)
    <3>1. /\ remote[k] # None /\ remote'[k] # None /\ remote'[k].own = remote[k].own
          /\ remote'[k].marked = remote[k].marked
      <4>1. remote[k] \in Resource /\ remote'[k] = [remote[k] EXCEPT !.val = v]
        BY <1>rem, <2>4 DEF AdminEdit
      <4>2. remote'[k] \in Resource
        BY <4>1 DEF Resource
      <4> QED
        BY <4>1, <4>2, NoneAssumption DEF Resource
    <3>2. \A j \in Keys : remote'[j] # None => Told(remote'[j])
      BY Zenon, <1>told, <2>2, <3>1 DEF Told
    <3>3. pc \in {"existing", "update"} => obj.spec.key \in Keys
      BY ObjectFields DEF TypeOK, PassType
    <3> QED
      BY <2>1, <2>2, <3>1, <3>2, <3>3 DEF OwnInv, Told, Managed
  <2> QED
    BY <1>4, <2>3, <2>4
<1>5. ASSUME NEW k \in Keys, AdminDelete(k) PROVE OwnInv'
  <2>1. UNCHANGED <<got, obj, pc>> /\ (idLive' => idLive /\ obj.spec.key # k)
    BY Zenon, <1>5 DEF AdminDelete, copy
  <2>2. \A j \in Keys : remote'[j] = IF j = k THEN None ELSE remote[j]
    BY <1>5, <1>rem DEF AdminDelete
  <2>3. \A j \in Keys : remote'[j] # None => Told(remote'[j])
    BY <1>told, <2>2
  <2>4. pc \in {"existing", "update"} => obj.spec.key \in Keys
    BY ObjectFields DEF TypeOK, PassType
  <2> QED
    BY <2>1, <2>2, <2>3, <2>4 DEF OwnInv, Told, Managed
<1> QED
  BY <1>2, <1>3, <1>4, <1>5, <1>PassOwn, ConstantsAssumption DEF Next, Environment

\* For a kind with a marker, whatever fails or crashes in between: a pass that
\* refuses a resource as foreign refuses none that the operator itself created or
\* adopted (handleExisting, engine.go:259-273).
THEOREM MarkerNeverDisowns ==
    ASSUME HasMarker
    PROVE  Spec => NeverDisowns
<1> DEFINE IInv == TypeOK /\ IdResolves /\ OwnInv
           Refuses == /\ pc = "existing" /\ verdict'.reason = "AlreadyExists"
                      /\ pc' = "ready"
<1>1. Init => IInv
  BY InitTyped, InitOwn DEF Init, IdResolves
<1>2. IInv /\ [Next]_vars => IInv'
  BY StepTyped, StepResolves, StepOwn
<1>3. ASSUME IInv, [Next]_vars, Refuses
      PROVE  got.own = "foreign" \/ obj.spec.adoption = "FailIfExists"
  <2>1. Existing
    <3>1. Pass
      BY Zenon, <1>3 DEF Next, Deliver, TimerFires, Environment, Restart, Forget,
         InformerResync, UserCreate, UserEdit, UserDelete, AdminCreate, AdminEdit,
         AdminDelete, ConnectionChanges, SecretChanges, worker, vars
    <3> QED
      BY ZenonT(40), <1>3, <3>1 DEF Pass, Start, Connect, FindForDelete, DeleteRemote,
         ReleaseFinalizer, AddFinalizer, GetRemote, PrepareCreate, CreateRemote,
         ReGetRemote, UpdateRemote, PostApply, Annotate, WriteReady, WriteSynced, Finish
  <2>2. got \in Resource /\ got # None /\ Told(got)
    BY Zenon, <1>3 DEF TypeOK, PassType, OwnInv
  <2>3. CASE Report("SecretMissing", TRUE, "after")
    BY <1>3, <2>3 DEF Report
  <2>4. CASE obj.spec.adoption = "FailIfExists" \/ ~Managed(got, obj)
    BY <2>2, <2>4 DEF Managed, Told, Resource
  <2>5. Goto("update") \/ Goto("post") => pc' # "ready"
    BY DEF Goto
  <2> QED
    BY Zenon, <1>3, <2>1, <2>3, <2>4, <2>5 DEF Existing
<1>4. IInv /\ [Next]_vars =>
        [Refuses => got.own = "foreign" \/ obj.spec.adoption = "FailIfExists"]_vars
  BY <1>3
<1> QED
  BY <1>1, <1>2, <1>4, PTL DEF Spec, NeverDisowns

\* For a kind addressed by id, whoever recreates the resource in between: a pass
\* brings a foreign resource under the operator's control only with the Adopt
\* policy or a last-applied annotation (handleExisting, engine.go:259-291).
THEOREM ConsentById ==
    ASSUME ByID
    PROVE  Spec => TakeoverNeedsConsent
<1> DEFINE IInv == TypeOK /\ IdResolves /\ OwnInv
           Taken(k) == /\ remote[k] # None /\ remote[k].own = "foreign"
                       /\ remote'[k] # None /\ remote'[k].own = "operator"
<1>1. Init => IInv
  BY InitTyped, InitOwn DEF Init, IdResolves
<1>2. IInv /\ [Next]_vars => IInv'
  BY StepTyped, StepResolves, StepOwn
<1>3. ASSUME IInv, [Next]_vars, NEW k \in Keys, Taken(k)
      PROVE  obj.spec.adoption = "Adopt" \/ obj.ann # None
  <2>1. remote \in [Keys -> Resource \cup {None}] /\ remote'[k] # remote[k]
    BY <1>3 DEF TypeOK, ServerType
  <2>2. ~\E j \in Keys : AdminDelete(j)
    BY <1>3, <2>1 DEF AdminDelete
  <2>3. ~\E j \in Keys, v \in Vals : AdminCreate(j, v) \/ AdminEdit(j, v)
    BY <1>3, <2>1 DEF AdminCreate, AdminEdit, Resource
  <2>4. ~PostApply
    BY <1>3, PostKeepsOwn
  <2>5. ~DeleteRemote /\ ~CreateRemote
    BY Zenon, <1>3, <2>1 DEF DeleteRemote, CreateRemote
  <2>6. UpdateRemote
    BY ZenonT(40), <1>3, <2>1, <2>2, <2>3, <2>4, <2>5
       DEF Next, Deliver, TimerFires, Environment, Restart, InformerResync, UserCreate,
           UserEdit, UserDelete, ConnectionChanges, SecretChanges, vars, Pass, Start,
           Connect, FindForDelete, ReleaseFinalizer, AddFinalizer, GetRemote,
           PrepareCreate, ReGetRemote, Existing, Annotate, WriteReady, WriteSynced, Finish
  <2>7. k = obj.spec.key /\ idLive /\ pc = "update"
    BY ZenonT(40), <2>1, <2>6 DEF UpdateRemote, Reachable
  <2>8. got.own = "foreign" /\ got # None
    BY Zenon, <1>3, <2>7 DEF OwnInv, TypeOK, PassType
  <2> QED
    BY <1>3, <2>7, <2>8 DEF OwnInv, Told, Managed
<1>4. IInv /\ [Next]_vars =>
        [\A k \in Keys : Taken(k) => obj.spec.adoption = "Adopt" \/ obj.ann # None]_vars
  BY <1>3
<1> QED
  BY <1>1, <1>2, <1>4, PTL DEF Spec, TakeoverNeedsConsent

-----------------------------------------------------------------------------
(* Nothing is left behind *)

\* Every spec is about one key, under the Delete policy.
OneKeyDeleted(key) == \A s \in Specs : s.key = key /\ s.deletion = "Delete"

\* Does the operator own the resource under k?
Owns(k) == remote[k] # None /\ remote[k].own = "operator"

\* What the operator owns is held; a pass that takes the finalizer off has seen
\* to it that there is nothing left.
LeakInv ==
    \A k \in Keys :
        /\ Owns(k) => Held(api) /\ api.spec.key = k
        /\ pc = "release" => ~Owns(k)
        /\ pc = "delete" /\ ByID /\ ~idLive => ~Owns(k)

\* Initially the server is empty.
LEMMA InitLeak == Init => LeakInv
  BY DEF Init, LeakInv, Owns

\* Every step keeps LeakInv.
LEMMA StepLeak ==
    ASSUME NEW key, OneKeyDeleted(key),
           TypeOK, TypeOK', IdResolves, RaceInv, LeakInv, [Next]_vars
    PROVE  LeakInv'
\* A step that gives the operator nothing new, and leaves the object held.
<1>QuietLeak.
      ASSUME \A k \in Keys : Owns(k)' => Owns(k),
             Held(api) => Held(api'),
             pc' \in {"release", "delete"} => pc' = pc /\ UNCHANGED idLive
      PROVE  LeakInv'
  <2> USE <1>QuietLeak
  <2>1. ASSUME NEW k \in Keys, Owns(k)' PROVE Held(api') /\ api'.spec.key = k
    <3>1. Held(api) /\ api.spec.key = k
      BY <2>1 DEF LeakInv
    <3>2. api \in Object /\ api' \in Object
      BY <3>1 DEF Held, TypeOK, KubeType
    <3>3. api.spec.key = key /\ api'.spec.key = key
      BY <3>2 DEF Object, OneKeyDeleted
    <3> QED
      BY <3>1, <3>3
  <2>2. ASSUME NEW k \in Keys, pc' = "release" PROVE ~Owns(k)'
    BY <2>2 DEF LeakInv
  <2>3. ASSUME NEW k \in Keys, pc' = "delete", ByID, ~idLive' PROVE ~Owns(k)'
    BY <2>3 DEF LeakInv
  <2> QED
    BY <2>1, <2>2, <2>3 DEF LeakInv
\* Patches and edits leave the finalizer alone.
<1>HeldKept.
      ASSUME Held(api),
             \/ Annotate \/ WriteReady \/ WriteSynced \/ UserDelete
             \/ \E s \in Specs, w \in AllowChoices, e \in AnnEdits : UserEdit(s, w, e)
      PROVE  Held(api')
  <2> USE <1>HeldKept
  <2>1. api \in Object /\ api.fin
    BY DEF Held, TypeOK, KubeType
  <2>2. ASSUME NEW o \in Object, api' = o, o.fin = api.fin PROVE Held(api')
    BY <2>1, <2>2, NoneAssumption DEF Held
  <2>3. ASSUME UNCHANGED api PROVE Held(api')
    BY <2>3 DEF Held
  <2>4. CASE Annotate
    <3> DEFINE a == [api EXCEPT !.ann = RepOf(obj.spec)]
    <3>1. a \in Object /\ a.fin = api.fin
      BY Zenon, <2>1, <2>4, ObjectFields DEF Annotate, TypeOK, PassType, Object
    <3> QED
      BY Zenon, <2>2, <2>3, <2>4, <3>1 DEF Annotate, Patched, Store, GiveUp, kube
  <2>5. ASSUME NEW o \in Object, PatchStatus(o) PROVE Held(api')
    <3>1. MergeStatus(api, o) \in Object
      BY <2>1, MergeStatusTyped DEF TypeOK
    <3>2. MergeStatus(api, o).fin = api.fin
      BY Zenon, <2>1 DEF MergeStatus, Object
    <3> QED
      BY <2>2, <2>3, <2>5, <3>1, <3>2 DEF PatchStatus, Patched, Store, kube
  <2>6. CASE WriteReady \/ WriteSynced
    <3> DEFINE c == [reason |-> verdict.reason, gen |-> obj.gen]
    <3>1. obj \in Object
      BY Zenon, <2>6 DEF WriteReady, WriteSynced, TypeOK, PassType
    <3>2. c \in Cond
      BY <3>1, ObjectFields DEF Cond, TypeOK, PassType, Verdict
    <3> QED
      BY Zenon, <2>5, <2>6, <3>1, <3>2, ConditionTyped DEF WriteReady, WriteSynced
  <2>7. CASE UserDelete
    <3> DEFINE marked == [api EXCEPT !.deleting = TRUE, !.gen = @ + 1]
    <3>1. api.gen + 1 \in Nat
      BY <2>1 DEF Object
    <3>2. marked \in Object /\ marked.fin = api.fin
      BY Zenon, <2>1, <3>1 DEF Object
    <3> QED
      BY Zenon, <2>1, <2>2, <2>7, <3>2 DEF UserDelete, StoreBehind, Store
  <2>8. ASSUME NEW s \in Specs, NEW w \in AllowChoices, NEW e \in AnnEdits,
               UserEdit(s, w, e)
        PROVE  Held(api')
    <3>1. Edited(s, w, e) \in Object /\ Edited(s, w, e).fin = api.fin
      BY ZenonT(40), <2>8, EditedTyped DEF UserEdit
    <3> QED
      BY Zenon, <2>2, <2>8, <3>1 DEF UserEdit, StoreBehind, Store
  <2> QED
    BY <2>4, <2>6, <2>7, <2>8
<1>obj. pc # "idle" => obj \in Object /\ obj.spec.key = key /\ key \in Keys
        /\ obj.spec.deletion = "Delete"
  BY ObjectFields DEF OneKeyDeleted, TypeOK, PassType
<1>own. \A k \in Keys : Owns(k) => k = key
  BY Zenon DEF LeakInv, OneKeyDeleted, Held, TypeOK, KubeType, Object
<1>1. ASSUME UNCHANGED <<api, remote, idLive>>, pc' \in {"release", "delete"} => pc' = pc
      PROVE  LeakInv'
  BY Zenon, <1>1 DEF LeakInv, Owns, Held
<1>2. ASSUME Start PROVE LeakInv'
  <2>1. cache # None => cache.spec.deletion = "Delete"
    BY DEF OneKeyDeleted, TypeOK, KubeType, Object
  <2> QED
    BY <1>1, <1>2, <2>1 DEF Start, kube, read
<1>3. ASSUME Connect PROVE LeakInv'
  BY ZenonT(40), <1>3 DEF Connect, Goto, Report, LeakInv, Owns, Held, kube, read
<1>4. ASSUME FindForDelete PROVE LeakInv'
  <2>1. pc' = "release" => ~Owns(key)
    BY ZenonT(40), <1>4, <1>obj DEF FindForDelete, Goto, GiveUp, Return, Forget, Owns
  <2>2. pc' = "delete" => idLive'
    BY ZenonT(40), <1>4 DEF FindForDelete, Goto, GiveUp, Return, Forget
  <2>3. UNCHANGED <<api, remote>>
    BY <1>4 DEF FindForDelete, Goto, GiveUp, kube
  <2> QED
    BY <1>own, <2>1, <2>2, <2>3 DEF LeakInv, Owns, Held
<1>5. ASSUME DeleteRemote PROVE LeakInv'
  <2>1. UNCHANGED api /\ pc' \in {"release", "idle"}
    BY <1>5 DEF DeleteRemote, Goto, GiveUp, Return, Forget, kube
  <2>2. \A k \in Keys : Owns(k)' => Owns(k)
    BY ZenonT(40), <1>5 DEF DeleteRemote, Owns, TypeOK, ServerType
  <2>3. pc' = "release" => ~Owns(key)'
    <3> pc = "delete" /\ key \in Keys
      BY <1>5, <1>obj DEF DeleteRemote
    <3>1. ByID => idLive \/ ~Owns(key)
      BY Zenon DEF LeakInv
    <3>2. ASSUME pc' = "release"
          PROVE  remote' = [remote EXCEPT ![key] = IF ByID /\ ~idLive THEN @ ELSE None]
      BY <1>5, <1>obj, <3>2 DEF DeleteRemote, GiveUp, Return, Forget
    <3> QED
      BY <1>obj, <3>1, <3>2 DEF Owns, TypeOK, ServerType
  <2> QED
    BY <1>own, <2>1, <2>2, <2>3 DEF LeakInv, Held
<1>6. ASSUME ReleaseFinalizer PROVE LeakInv'
  BY Zenon, <1>6 DEF ReleaseFinalizer, UpdateObject, GiveUp, Return, Forget, LeakInv,
     Owns
<1>7. ASSUME AddFinalizer PROVE LeakInv'
  <2>1. Held(api) => Held(api')
    BY <1>7, <1>obj, NoneAssumption DEF AddFinalizer, UpdateObject, GiveUp,
       Store, RaceInv, Held, kube
  <2> QED
    BY <1>7, <2>1, <1>QuietLeak DEF AddFinalizer, UpdateObject, GiveUp, Return, Forget,
       Owns
<1>8. ASSUME GetRemote \/ PrepareCreate \/ ReGetRemote \/ Existing \/ Finish
      PROVE  LeakInv'
  BY ZenonT(40), <1>8, <1>QuietLeak DEF GetRemote, PrepareCreate, ReGetRemote, Existing,
     Finish, Goto, Report, Return, Forget, Owns, Held, kube
<1>9. ASSUME CreateRemote \/ UpdateRemote \/ PostApply PROVE LeakInv'
  <2>1. Held(api) /\ UNCHANGED api /\ pc' \notin {"release", "delete"}
    <3>1. pc \in {"create", "update", "post"}
      BY Zenon, <1>9 DEF CreateRemote, UpdateRemote, PostApply
    <3>2. Held(api)
      BY ZenonT(40), <3>1 DEF RaceInv, Serving, Live
    <3>3. UNCHANGED api /\ pc' \notin {"release", "delete"}
      BY <1>9 DEF CreateRemote, UpdateRemote, PostApply, Goto, Report, kube
    <3> QED
      BY <3>2, <3>3
  <2>2. api.spec.key = key
    BY Zenon, <2>1 DEF OneKeyDeleted, Held, TypeOK, KubeType, Object
  <2>3. \A k \in Keys : k # key => remote'[k] = remote[k]
    <3>1. CASE CreateRemote
      BY Zenon, <3>1, <1>obj DEF CreateRemote, TypeOK, ServerType
    <3>2. CASE UpdateRemote
      BY Zenon, <3>2, <1>obj DEF UpdateRemote, TypeOK, ServerType
    <3>3. CASE PostApply
      BY Zenon, <3>3, <1>obj DEF PostApply, TypeOK, ServerType
    <3> QED
      BY <1>9, <3>1, <3>2, <3>3
  <2> QED
    BY ZenonT(40), <1>own, <2>1, <2>2, <2>3 DEF LeakInv, Owns
<1>10. ASSUME Annotate \/ WriteReady \/ WriteSynced PROVE LeakInv'
  <2>1. Held(api) => Held(api')
    BY <1>10, <1>HeldKept
  <2>2. UNCHANGED remote /\ pc' \notin {"release", "delete"}
    BY Zenon, <1>10 DEF Annotate, WriteReady, WriteSynced, GiveUp, Return, Forget
  <2> QED
    BY <2>1, <2>2, <1>QuietLeak DEF Owns
<1>11. ASSUME Restart \/ Deliver \/ TimerFires \/ InformerResync \/ ConnectionChanges
              \/ SecretChanges \/ UNCHANGED vars
       PROVE  LeakInv'
  <2>1. UNCHANGED <<api, remote>>
    BY Zenon, <1>11 DEF Restart, Deliver, TimerFires, InformerResync, ConnectionChanges,
       SecretChanges, vars, kube
  <2>2. pc' = "idle" \/ UNCHANGED <<pc, idLive>>
    BY Zenon, <1>11 DEF Restart, Forget, Deliver, TimerFires, InformerResync,
       ConnectionChanges, SecretChanges, vars, worker, read
  <2> QED
    BY Zenon, <2>1, <2>2, <1>QuietLeak DEF Owns
<1>12. ASSUME \/ UserDelete
              \/ \E s \in Specs, w \in AllowChoices : UserCreate(s, w)
              \/ \E s \in Specs, w \in AllowChoices, e \in AnnEdits : UserEdit(s, w, e)
       PROVE  LeakInv'
  <2>1. Held(api) => Held(api')
    BY Zenon, <1>12, <1>HeldKept DEF UserCreate, Held
  <2>2. UNCHANGED <<remote, pc, idLive>>
    BY Zenon, <1>12 DEF UserDelete, UserCreate, UserEdit, read
  <2> QED
    BY <2>1, <2>2, <1>QuietLeak DEF Owns
<1>13. ASSUME NEW k \in Keys, NEW v \in Vals, AdminCreate(k, v) \/ AdminEdit(k, v)
       PROVE  LeakInv'
  <2>1. \A j \in Keys : Owns(j)' => Owns(j)
    BY <1>13 DEF AdminCreate, AdminEdit, Owns, TypeOK, ServerType, Resource
  <2> QED
    BY <1>13, <2>1, <1>QuietLeak DEF AdminCreate, AdminEdit, kube, worker, read
<1>14. ASSUME NEW k \in Keys, AdminDelete(k) PROVE LeakInv'
  <2>1. \A j \in Keys : Owns(j)' => Owns(j)
    BY <1>14 DEF AdminDelete, Owns, TypeOK, ServerType
  <2>2. ~Owns(k)'
    BY Zenon, <1>14 DEF AdminDelete, Owns, TypeOK, ServerType
  <2>3. UNCHANGED <<api, pc>>
    BY Zenon, <1>14 DEF AdminDelete, kube
  <2>4. pc = "delete" /\ idLive /\ ~idLive' => k = key
    BY Zenon, <1>14, <1>obj DEF AdminDelete, TypeOK, PassType
  <2> QED
    BY ZenonT(40), <1>14, <1>own, <2>1, <2>2, <2>3, <2>4 DEF LeakInv, Held, TypeOK,
       PassType
<1> QED
  BY Zenon, <1>2, <1>3, <1>4, <1>5, <1>6, <1>7, <1>8, <1>9, <1>10, <1>11, <1>12,
     <1>13,
     <1>14, ConstantsAssumption DEF Next, Pass, Environment

\* For a custom resource that keeps its key and its Delete policy, nothing the
\* operator created or adopted outlives it, whatever fails, crashes or is done to
\* the server meanwhile (handleDeletion, engine.go:348-359).
THEOREM NothingLeaks ==
    ASSUME NEW key \in Keys, OneKeyDeleted(key)
    PROVE  Spec => []NoLeak
<1> DEFINE Inv == TypeOK /\ IdResolves /\ RaceInv /\ LeakInv
<1>1. Init => Inv
  BY InitTyped, InitRace, InitLeak DEF Init, IdResolves
<1>2. Inv /\ [Next]_vars => Inv'
  BY Zenon, StepTyped, StepResolves, StepRace, StepLeak
<1>3. Inv => NoLeak
  BY Zenon DEF LeakInv, NoLeak, Owns, Held
<1> HIDE DEF Inv
<1> QED
  BY <1>1, <1>2, <1>3, PTL DEF Spec

-----------------------------------------------------------------------------
(* Writing the status *)

\* Writing every field of a status is writing the status.
LEMMA StatusFields ==
    ASSUME NEW a \in Object, NEW o \in Object, o = [a EXCEPT !.status = o.status]
    PROVE  [a EXCEPT !.status.ready = o.status.ready, !.status.synced = o.status.synced,
                     !.status.obsGen = o.status.obsGen] = o
<1> DEFINE whole == [a.status EXCEPT !.ready = o.status.ready, !.synced = o.status.synced,
                                     !.obsGen = o.status.obsGen]
           m == [a EXCEPT !.status.ready = o.status.ready, !.status.synced = o.status.synced,
                          !.status.obsGen = o.status.obsGen]
<1>1. o.status \in Status /\ a.status \in Status
  BY DEF Object
<1>2. whole = o.status
  BY Zenon, <1>1 DEF Status
<1>3. m.status = whole /\ m = [a EXCEPT !.status = m.status]
  BY <1>1 DEF Object
<1> QED
  BY <1>2, <1>3, Zenon

\* A patch that leaves out what equals the status the pass began with is whole if
\* that still is the status.
LEMMA MergesWhole ==
    ASSUME NEW a \in Object, NEW o \in Object,
           o.status.ready = base.ready /\ o.status.synced = base.synced
              => o.status.ready = a.status.ready /\ o.status.synced = a.status.synced,
           o.status.obsGen = base.obsGen => o.status.obsGen = a.status.obsGen
    PROVE  MergeStatus(a, o) =
              [a EXCEPT !.status.ready = o.status.ready, !.status.synced = o.status.synced,
                        !.status.obsGen = o.status.obsGen]
<1> DEFINE conds == <<o.status.ready, o.status.synced>> # <<base.ready, base.synced>>
           R == IF conds THEN o.status.ready ELSE a.status.ready
           S == IF conds THEN o.status.synced ELSE a.status.synced
           G == IF o.status.obsGen # base.obsGen THEN o.status.obsGen ELSE a.status.obsGen
<1>1. o.status \in Status /\ a.status \in Status
  BY DEF Object
<1>2. R = o.status.ready /\ S = o.status.synced /\ G = o.status.obsGen
  OBVIOUS
<1> HIDE DEF conds
<1>3. MergeStatus(a, o) =
        [a EXCEPT !.status.ready = R, !.status.synced = S, !.status.obsGen = G]
  BY <1>1 DEF MergeStatus, conds, Object, Status
<1> QED
  BY Zenon, <1>2, <1>3

\* An answer that is what is in memory changes nothing there.
LEMMA DecodedSame ==
    ASSUME NEW o \in Object
    PROVE  Decoded(o, o) = o
<1> DEFINE bare == o.status.ready = NoCond /\ o.status.synced = NoCond
           R == IF bare THEN o.status.ready ELSE o.status.ready
           S == IF bare THEN o.status.synced ELSE o.status.synced
           G == IF o.status.obsGen = 0 THEN o.status.obsGen ELSE o.status.obsGen
<1>1. o.status \in Status
  BY DEF Object
<1>2. R = o.status.ready /\ S = o.status.synced /\ G = o.status.obsGen
  OBVIOUS
<1> HIDE DEF bare
<1>3. Decoded(o, o) = [o EXCEPT !.status.ready = R, !.status.synced = S, !.status.obsGen = G]
  BY <1>1 DEF Decoded, bare, Object, Status
<1>4. o = [o EXCEPT !.status = o.status]
  BY DEF Object
<1>5. [o EXCEPT !.status.ready = o.status.ready, !.status.synced = o.status.synced,
                !.status.obsGen = o.status.obsGen] = o
  BY Zenon, <1>4, StatusFields
<1> QED
  BY <1>2, <1>3, <1>5

-----------------------------------------------------------------------------
(* One undisturbed pass *)

\* The operator manages what is under the key, may adopt it, or create it.
Acceptable(r) == r = None \/ Managed(r, api) \/ api.spec.adoption = "Adopt"

\* A pass begins, with a current copy.
Begins ==
    /\ Servable /\ Acceptable(remote[api.spec.key])
    /\ pc = "conn" /\ obj = api /\ base = api.status /\ objCur /\ ~changed

\* Nobody interferes until the pass is over.
Alone == Next /\ budget' = budget /\ ~Finish

\* The server matches the spec, the annotation records it and both conditions say
\* so for the current generation.
Applied ==
    /\ LET r == remote[api.spec.key] IN
       /\ r # None /\ ~Differs(r, api)
       /\ Enforces(api) => r.sub = api.spec.val
    /\ api.ann = RepOf(api.spec)
    /\ Says(api.status.ready) /\ Says(api.status.synced)

\* What the pass knows of the object ...
CopyInv ==
    /\ objCur /\ obj = [api EXCEPT !.status = obj.status]
    /\ pc \in {"conn", "get", "prepare", "create", "reget", "existing", "update", "post"}
          => obj = api /\ base = api.status
    /\ pc \in {"annotate", "ready"} =>
          /\ base = api.status
          /\ obj.status.ready = base.ready /\ obj.status.synced = base.synced
    /\ pc \in {"annotate", "ready", "synced"} => verdict.reason \in Success /\ verdict.both
    /\ pc = "synced" => obj = api /\ api.status.synced = base.synced /\ Says(api.status.ready)
    /\ pc = "end" => obj = api /\ Says(api.status.ready) /\ Says(api.status.synced)
    /\ pc \in {"ready", "synced", "end"} => api.ann = RepOf(api.spec)

\* ... and of the server, call by call.
ServerInv ==
    LET r == remote[api.spec.key] IN
    /\ pc \in {"conn", "get", "existing"} => Acceptable(r)
    /\ pc \in {"prepare", "create"} => r = None
    /\ pc \in {"existing", "update"} => r # None /\ got = r /\ idLive
    /\ pc \in {"reget", "post", "annotate", "ready", "synced", "end"}
          => r # None /\ ~Differs(r, api)
    /\ pc = "post" => idLive
    /\ pc \in {"annotate", "ready", "synced", "end"} =>
          (Enforces(api) => r.sub = api.spec.val)

PassInv ==
    /\ Servable
    /\ pc \in {"conn", "get", "prepare", "create", "reget", "existing", "update", "post",
               "annotate", "ready", "synced", "end"}
    /\ CopyInv /\ ServerInv

\* A pass that begins so satisfies the invariant.
LEMMA BeginsPass == Begins /\ TypeOK => PassInv
<1> SUFFICES ASSUME Begins, TypeOK PROVE PassInv
  OBVIOUS
<1>1. api \in Object /\ obj = api
  BY DEF Begins, Servable, TypeOK, KubeType
<1>2. obj = [api EXCEPT !.status = obj.status]
  BY <1>1 DEF Object
<1> QED
  BY <1>1, <1>2 DEF Begins, PassInv, CopyInv, ServerInv

\* A patch of all that differs from what the pass began with leaves the object in
\* the API server as it is in memory.
LEMMA WholePatch ==
    ASSUME TypeOK, api # None, objCur, ~Fault, NEW o \in Object,
           o = [api EXCEPT !.status = o.status],
           o.status.ready = base.ready /\ o.status.synced = base.synced
              => o.status.ready = api.status.ready /\ o.status.synced = api.status.synced,
           o.status.obsGen = base.obsGen => o.status.obsGen = api.status.obsGen,
           PatchStatus(o)
    PROVE  api' = o /\ obj' = o /\ objCur' /\ base' = base
<1>1. MergeStatus(api, o) = o
  <2>1. api \in Object
    BY DEF TypeOK, KubeType
  <2> DEFINE m == [api EXCEPT !.status.ready = o.status.ready,
                              !.status.synced = o.status.synced,
                              !.status.obsGen = o.status.obsGen]
  <2>2. MergeStatus(api, o) = m
    BY ZenonT(30), <2>1, MergesWhole
  <2>3. m = o
    BY <2>1, StatusFields
  <2> HIDE DEF m
  <2> QED
    BY <2>2, <2>3
<1>2. Patched(o, o)
  BY Zenon, <1>1 DEF PatchStatus
<1> QED
  BY <1>2, DecodedSame DEF Patched, Store


\* The two conditions are written whole, and nothing else with them.
LEMMA ReadyWritten ==
    ASSUME TypeOK, PassInv, ~Fault, WriteReady
    PROVE  LET c == [reason |-> verdict.reason, gen |-> api.gen]
               o == [obj EXCEPT !.status.ready = c]
           IN  /\ o \in Object /\ o = [api EXCEPT !.status = o.status]
               /\ o.status.ready = c /\ o.status.synced = obj.status.synced
               /\ o.status.obsGen = obj.status.obsGen
               /\ api' = o /\ obj' = o /\ objCur' /\ base' = base
<1> DEFINE c == [reason |-> verdict.reason, gen |-> api.gen]
           o == [obj EXCEPT !.status.ready = c]
<1>1. /\ objCur /\ obj = [api EXCEPT !.status = obj.status] /\ base = api.status
      /\ obj.status.ready = base.ready /\ obj.status.synced = base.synced
      /\ verdict.reason \in Success /\ pc = "ready"
      /\ api # None /\ api \in Object /\ obj \in Object
  BY DEF PassInv, CopyInv, WriteReady, Servable, TypeOK, KubeType, PassType
<1>2. obj.gen = api.gen /\ api.gen \in Nat
  BY <1>1 DEF Object
<1>3. c \in Cond
  BY <1>1, <1>2 DEF Cond
<1>4. /\ o \in Object /\ o.status.ready = c /\ o.status.synced = obj.status.synced
      /\ o.status.obsGen = obj.status.obsGen
      /\ o = [obj EXCEPT !.status = o.status]
  BY <1>1, <1>3 DEF Object, Status
<1>5. PatchStatus(o)
  BY <1>2 DEF WriteReady
<1> HIDE DEF o
<1>6. o = [api EXCEPT !.status = o.status]
  BY <1>1, <1>4 DEF Object
<1>7. api' = o /\ obj' = o /\ objCur' /\ base' = base
  BY <1>1, <1>4, <1>5, <1>6, WholePatch
<1> QED
  BY <1>4, <1>6, <1>7 DEF o

LEMMA SyncedWritten ==
    ASSUME TypeOK, PassInv, ~Fault, WriteSynced
    PROVE  LET c == [reason |-> verdict.reason, gen |-> api.gen]
               o == [obj EXCEPT !.status.synced = c]
           IN  /\ o \in Object /\ o = [api EXCEPT !.status = o.status]
               /\ o.status.synced = c /\ o.status.ready = obj.status.ready
               /\ o.status.obsGen = obj.status.obsGen
               /\ api' = o /\ obj' = o /\ objCur' /\ base' = base
<1> DEFINE c == [reason |-> verdict.reason, gen |-> api.gen]
           o == [obj EXCEPT !.status.synced = c]
<1>1. /\ objCur /\ obj = api /\ api.status.synced = base.synced
      /\ verdict.reason \in Success /\ pc = "synced"
      /\ api # None /\ api \in Object
  BY DEF PassInv, CopyInv, WriteSynced, Servable, TypeOK, KubeType
<1>2. api.gen \in Nat
  BY <1>1 DEF Object
<1>3. c \in Cond
  BY <1>1, <1>2 DEF Cond
<1>4. /\ o \in Object /\ o.status.synced = c /\ o.status.ready = obj.status.ready
      /\ o.status.obsGen = obj.status.obsGen
      /\ o = [obj EXCEPT !.status = o.status]
  BY <1>1, <1>3 DEF Object, Status
<1>5. PatchStatus(o)
  BY <1>1 DEF WriteSynced
<1> HIDE DEF o
<1>6. api' = o /\ obj' = o /\ objCur' /\ base' = base
  BY <1>1, <1>4, <1>5, WholePatch
<1> QED
  BY <1>1, <1>4, <1>6 DEF o

\* Each step keeps what the pass knows.
LEMMA StepPass ==
    ASSUME TypeOK, PassInv, Alone
    PROVE  PassInv'
\* What a step that leaves the object and the environment alone keeps.
<1>PassFrame.
      ASSUME UNCHANGED <<api, env>>
      PROVE  Servable' /\ \A r : Acceptable(r)' <=> Acceptable(r)
  BY <1>PassFrame DEF PassInv, Servable, Acceptable, Protected, Managed, env
\* An answer with the conditions that are in memory brings no others.
<1>DecodedConditions.
      ASSUME NEW o \in Object, NEW a \in Object,
             o.status.ready = a.status.ready, o.status.synced = a.status.synced
      PROVE  LET d == Decoded(o, a) IN
             /\ d = [a EXCEPT !.status = d.status]
             /\ d.status.ready = a.status.ready /\ d.status.synced = a.status.synced
  <2> USE <1>DecodedConditions
  <2> DEFINE bare == a.status.ready = NoCond /\ a.status.synced = NoCond
             R == IF bare THEN o.status.ready ELSE a.status.ready
             S == IF bare THEN o.status.synced ELSE a.status.synced
             G == IF a.status.obsGen = 0 THEN o.status.obsGen ELSE a.status.obsGen
             m == [a EXCEPT !.status.ready = R, !.status.synced = S, !.status.obsGen = G]
  <2>1. a.status \in Status
    BY DEF Object
  <2>2. R = a.status.ready /\ S = a.status.synced
    OBVIOUS
  <2> HIDE DEF bare
  <2>3. Decoded(o, a) = m
    BY <2>1 DEF Decoded, bare, Object, Status
  <2> HIDE DEF R, S, G
  <2>4. m = [a EXCEPT !.status = m.status] /\ m.status.ready = R /\ m.status.synced = S
    BY Zenon, <2>1 DEF Object, Status
  <2> HIDE DEF m
  <2> QED
    BY <2>2, <2>3, <2>4
\* What Create and Update leave on the server does not differ from the payload.
<1>PayloadStored.
      ASSUME NEW o \in Object, NEW r \in Resource, NEW sub
      PROVE  ~Differs(Created(o), o) /\ ~Differs([Merged(r, o) EXCEPT !.sub = sub], o)
  <2> USE <1>PayloadStored
  <2>1. \A w, x, y, z : [val |-> w, sub |-> x, marked |-> y, own |-> z].val = w
    OBVIOUS
  <2>2. ~Differs(Created(o), o)
    BY DEF Differs, Created
  <2>3. ~Differs([Merged(r, o) EXCEPT !.sub = sub], o)
    BY Zenon DEF Differs, Merged, Resource
  <2> QED
    BY <2>2, <2>3
\* Recording the spec in the annotation makes no new difference.
<1>AnnotatedSame.
      ASSUME NEW o \in Object, NEW r, ~Differs(r, o)
      PROVE  ~Differs(r, [o EXCEPT !.ann = RepOf(o.spec)])
  <2> USE <1>AnnotatedSame
  <2> DEFINE a == [o EXCEPT !.ann = RepOf(o.spec)]
  <2>1. a.spec = o.spec /\ a.ann = RepOf(o.spec)
    BY DEF Object
  <2>2. o.spec.val = None => Want(a) = None
    BY <2>1 DEF Want, Recorded, RepOf
  <2>3. o.spec.val # None => Want(a) = Want(o)
    BY <2>1 DEF Want
  <2> QED
    BY <2>2, <2>3 DEF Differs
<1> DEFINE k == api.spec.key
<1>1. /\ ~Fault /\ ~SpendAdmin
      /\ pc # "idle" /\ pc # "release" /\ pc # "delete" /\ pc # "find" /\ pc # "addfin"
  BY DEF TypeOK, EnvType, BudgetType, Fault, SpendAdmin, Alone, PassInv
<1>2. /\ api # None /\ api \in Object /\ api.fin /\ ~api.deleting
      /\ connUp /\ secretUp /\ ~Protected(api) /\ api.ann # Garbled
      /\ api.spec.adoption # "FailIfExists"
      /\ obj \in Object /\ obj # None /\ k \in Keys
      /\ remote \in [Keys -> Resource \cup {None}]
  BY <1>1, ObjectFields DEF TypeOK, KubeType, PassType, ServerType, PassInv, Servable
<1>3. CASE Connect
  <2>1. obj = api /\ base = api.status /\ objCur /\ Acceptable(remote[k])
    BY <1>3 DEF PassInv, CopyInv, ServerInv, Connect
  <2>2. UNCHANGED <<kube, copy, remote, env>> /\ pc' = "get"
    BY Zenon, <1>2, <1>3, <2>1 DEF Connect, Goto, Report
  <2> QED
    BY <2>1, <2>2, <1>PassFrame DEF PassInv, CopyInv, ServerInv, kube, copy
<1>4. CASE GetRemote
  <2>1. obj = api /\ base = api.status /\ objCur /\ Acceptable(remote[k])
    BY <1>4 DEF PassInv, CopyInv, ServerInv, GetRemote
  <2>2. /\ UNCHANGED <<kube, copy, remote, env>>
        /\ \/ pc' = "prepare" /\ remote[k] = None
           \/ pc' = "existing" /\ remote[k] # None /\ got' = remote[k] /\ idLive'
    BY Zenon, <1>1, <1>4, <2>1 DEF GetRemote, Goto, Fetched
  <2> QED
    BY <2>1, <2>2, <1>PassFrame DEF PassInv, CopyInv, ServerInv, kube, copy
<1>5. CASE PrepareCreate
  <2>1. obj = api /\ base = api.status /\ objCur /\ remote[k] = None
    BY <1>5 DEF PassInv, CopyInv, ServerInv, PrepareCreate
  <2>2. UNCHANGED <<kube, copy, remote, env>> /\ pc' = "create"
    BY <1>2, <1>5 DEF PrepareCreate, Goto
  <2> QED
    BY <2>1, <2>2, <1>PassFrame DEF PassInv, CopyInv, ServerInv, kube, copy
<1>6. CASE CreateRemote
  <2>1. obj = api /\ base = api.status /\ objCur /\ remote[k] = None
    BY <1>6 DEF PassInv, CopyInv, ServerInv, CreateRemote
  <2>2. /\ UNCHANGED <<kube, copy, env>> /\ pc' = "reget"
        /\ remote' = [remote EXCEPT ![k] = Created(api)]
    BY Zenon, <1>1, <1>6, <2>1 DEF CreateRemote, Goto
  <2>3. remote'[k] # None /\ ~Differs(remote'[k], api)
    <3>1. Created(api) \in Resource /\ remote'[k] = Created(api)
      BY <1>2, <2>2, PayloadTyped
    <3> QED
      BY Zenon, <1>2, <3>1, <1>PayloadStored, NoneAssumption
  <2>4. api' = api /\ (~Differs(remote[k], api))'
    BY <2>2, <2>3 DEF Differs, Want, Recorded, kube
  <2> QED
    BY <2>1, <2>2, <2>3, <2>4, <1>PassFrame DEF PassInv, CopyInv, ServerInv, kube, copy
<1>7. CASE ReGetRemote
  <2>1. /\ obj = api /\ base = api.status /\ objCur /\ remote[k] # None
        /\ ~Differs(remote[k], api)
    BY <1>7 DEF PassInv, CopyInv, ServerInv, ReGetRemote
  <2>2. UNCHANGED <<kube, copy, remote, env>> /\ pc' = "post" /\ idLive'
    BY Zenon, <1>1, <1>7, <2>1 DEF ReGetRemote, Goto, Fetched
  <2>3. (~Differs(remote[k], api))'
    BY <2>1, <2>2 DEF Differs, Want, Recorded, kube
  <2> QED
    BY <2>1, <2>2, <2>3, <1>PassFrame DEF PassInv, CopyInv, ServerInv, kube, copy
<1>8. CASE Existing
  <2>1. /\ obj = api /\ base = api.status /\ objCur /\ Acceptable(remote[k])
        /\ remote[k] # None /\ got = remote[k] /\ idLive
    BY <1>8 DEF PassInv, CopyInv, ServerInv, Existing
  <2>2. /\ UNCHANGED <<kube, copy, remote, env, read>>
        /\ \/ pc' = "update"
           \/ pc' = "post" /\ ~Differs(remote[k], api)
    BY Zenon, <1>2, <1>8, <2>1 DEF Existing, Goto, Acceptable, Report
  <2>3. ~Differs(remote[k], api) => (~Differs(remote[k], api))'
    BY <2>2 DEF Differs, Want, Recorded, kube
  <2> QED
    BY <2>1, <2>2, <2>3, <1>PassFrame DEF PassInv, CopyInv, ServerInv, kube, copy, read
<1>9. CASE UpdateRemote
  <2>1. /\ obj = api /\ base = api.status /\ objCur
        /\ remote[k] # None /\ got = remote[k] /\ idLive
    BY <1>9 DEF PassInv, CopyInv, ServerInv, UpdateRemote
  <2> DEFINE m == [Merged(got, api) EXCEPT !.sub = remote[k].sub]
  <2>2. /\ UNCHANGED <<kube, copy, env>> /\ pc' = "post" /\ idLive'
        /\ remote' = [remote EXCEPT ![k] = m]
    BY Zenon, <1>1, <1>9, <2>1 DEF UpdateRemote, Goto, Reachable
  <2>3. m # None /\ ~Differs(m, api)
    <3>1. got \in Resource /\ remote[k].sub \in Vals \cup {None}
      BY <1>2, <2>1 DEF Resource
    <3>2. m \in Resource
      BY <1>2, <3>1, PayloadTyped DEF Resource
    <3> QED
      BY Zenon, <1>2, <3>1, <3>2, <1>PayloadStored, NoneAssumption
  <2>4. remote'[k] = m
    BY <1>2, <2>2
  <2>5. (~Differs(remote[k], api))' /\ (remote[k] # None)'
    BY Zenon, <2>2, <2>3, <2>4 DEF Differs, Want, Recorded, kube
  <2> QED
    BY <2>1, <2>2, <2>5, <1>PassFrame DEF PassInv, CopyInv, ServerInv, kube, copy
<1>10. CASE PostApply
  <2>1. /\ obj = api /\ base = api.status /\ objCur /\ pc = "post"
        /\ remote[k] # None /\ ~Differs(remote[k], api) /\ idLive
    BY <1>10 DEF PassInv, CopyInv, ServerInv, PostApply
  <2>2. Reachable /\ remote[k] \in Resource
    BY Zenon, <1>2, <2>1 DEF Reachable
  <2> DEFINE needed == Enforces(api)
  <2>3. /\ UNCHANGED <<kube, base, objCur, baseCur, locked, env>>
        /\ verdict'.reason \in Success /\ verdict'.both
        /\ pc' = IF api.ann # RepOf(api.spec) THEN "annotate" ELSE "ready"
    <3>1. PICK reason \in Success :
             verdict' = [reason |-> reason, both |-> TRUE, res |-> "after"]
      BY Zenon, <1>1, <1>10, <2>1, <2>2 DEF PostApply, Success
    <3>2. /\ UNCHANGED <<kube, base, objCur, baseCur, locked, env>>
          /\ pc' = IF api.ann # RepOf(api.spec) THEN "annotate" ELSE "ready"
      BY <1>1, <1>10, <2>1, <2>2 DEF PostApply
    <3> QED
      BY <3>1, <3>2
  <2>4. /\ obj' = [api EXCEPT !.status.obsGen = api.gen]
        /\ remote' = IF needed THEN [remote EXCEPT ![k].sub = api.spec.val] ELSE remote
    BY Zenon, <1>1, <1>10, <2>1, <2>2 DEF PostApply
  <2>5. /\ remote'[k] # None /\ remote'[k].val = remote[k].val
        /\ remote'[k].marked = remote[k].marked
        /\ needed => remote'[k].sub = api.spec.val
    <3>1. CASE needed
      <4>1. remote'[k] = [remote[k] EXCEPT !.sub = api.spec.val]
        BY <1>2, <2>4, <3>1
      <4>2. api.spec.val \in Vals \cup {None}
        BY <1>2, ObjectFields
      <4>3. remote'[k] \in Resource
        BY <2>2, <4>1, <4>2 DEF Resource
      <4> QED
        BY <2>2, <4>1, <4>3, NoneAssumption DEF Resource
    <3>2. CASE ~needed
      BY <2>1, <2>4, <3>2
    <3> QED
      BY <3>1, <3>2
  <2>6. api' = api /\ (remote[k] # None /\ ~Differs(remote[k], api))'
    BY <2>1, <2>3, <2>5 DEF Differs, Want, Recorded, kube
  <2>7. /\ obj' = [api EXCEPT !.status = obj'.status]
        /\ obj'.status.ready = api.status.ready /\ obj'.status.synced = api.status.synced
    BY <1>2, <2>4 DEF Object, Status
  <2>8. CopyInv'
    BY <2>1, <2>3, <2>6, <2>7 DEF CopyInv
  <2>9. ServerInv'
    BY Zenon, <2>3, <2>5, <2>6 DEF ServerInv
  <2>10. UNCHANGED <<api, env>>
    BY <2>3 DEF kube
  <2> QED
    BY <2>3, <2>8, <2>9, <2>10, <1>PassFrame DEF PassInv
<1>11. CASE Annotate
  <2> DEFINE a == [api EXCEPT !.ann = RepOf(obj.spec)]
  <2>1. /\ objCur /\ obj = [api EXCEPT !.status = obj.status] /\ base = api.status
        /\ obj.status.ready = base.ready /\ obj.status.synced = base.synced
        /\ remote[k] # None /\ ~Differs(remote[k], api)
        /\ Enforces(api) => remote[k].sub = api.spec.val
    BY <1>11 DEF PassInv, CopyInv, ServerInv, Annotate
  <2>2. obj.spec = api.spec
    BY <1>2, <2>1 DEF Object
  <2>3. /\ a \in Object /\ a.spec = api.spec /\ a.status = api.status
        /\ a.ann = RepOf(api.spec)
        /\ a.gen = api.gen /\ a.fin = api.fin /\ a.deleting = api.deleting
        /\ a.allow = api.allow
    BY Zenon, <1>2, <2>2, ObjectFields DEF Object
  <2>4. /\ Patched(obj, a) /\ pc' = "ready"
        /\ UNCHANGED <<read, verdict, remote, env>>
    BY <1>1, <1>2, <1>11 DEF Annotate
  <2>5. ~Differs(remote[k], a)
    BY <1>2, <2>1, <2>2, <1>AnnotatedSame
  <2>6. verdict.reason \in Success /\ verdict.both
    BY <1>11 DEF PassInv, CopyInv, Annotate
  <2> HIDE DEF a
  <2>7. /\ Decoded(obj, a) = [a EXCEPT !.status = Decoded(obj, a).status]
        /\ Decoded(obj, a).status.ready = a.status.ready
        /\ Decoded(obj, a).status.synced = a.status.synced
    <3>1. obj.status.ready = a.status.ready /\ obj.status.synced = a.status.synced
      BY <2>1, <2>3
    <3> QED
      BY <1>2, <2>3, <3>1, <1>DecodedConditions
  <2>8. api' = a /\ obj' = Decoded(obj, a) /\ objCur' /\ base' = base
    BY <2>4 DEF Patched, Store
  <2>9. CopyInv'
    BY <2>1, <2>3, <2>4, <2>6, <2>7, <2>8 DEF CopyInv
  <2>10. ServerInv'
    <3>1. (~Differs(remote[api.spec.key], api))' /\ (remote[api.spec.key] = remote[k])'
      BY <2>3, <2>4, <2>5, <2>8 DEF Differs, Want, Recorded
    <3>2. remote'[api'.spec.key] = remote[k]
      BY ZenonT(30), <2>3, <2>4, <2>8
    <3> QED
      BY <2>1, <2>3, <2>4, <2>8, <3>1, <3>2 DEF ServerInv, Enforces, Posts
  <2>11. Servable'
    <3>1. a # None /\ a.ann # Garbled
      BY <1>2, <2>3, NoneAssumption, ObjectFields
    <3> QED
      BY ZenonT(30), <1>2, <2>3, <2>4, <2>8, <3>1 DEF Servable, Protected, env
  <2> QED
    BY <2>4, <2>9, <2>10, <2>11 DEF PassInv
<1>12. ASSUME NEW o \in Object, api' = o, obj' = o, objCur', base' = base,
              o = [api EXCEPT !.status = o.status], UNCHANGED <<remote, env>>,
              pc \in {"ready", "synced"}, pc' \in {"synced", "end"}
       PROVE  /\ Servable' /\ ServerInv' /\ objCur' /\ o.spec = api.spec /\ o.gen = api.gen
              /\ (obj = [api EXCEPT !.status = obj.status])'
              /\ (api.ann = RepOf(api.spec))'
  <2>1. /\ o.spec = api.spec /\ o.ann = api.ann /\ o.gen = api.gen /\ o.fin = api.fin
        /\ o.deleting = api.deleting /\ o.allow = api.allow
    BY Zenon, <1>2, <1>12 DEF Object
  <2>2. Servable'
    BY <1>2, <1>12, <2>1, NoneAssumption DEF Servable, Protected, env
  <2>3. /\ remote[k] # None /\ ~Differs(remote[k], api) /\ api.ann = RepOf(api.spec)
        /\ Enforces(api) => remote[k].sub = api.spec.val
    BY <1>12 DEF PassInv, ServerInv, CopyInv
  <2>4. remote'[api'.spec.key] = remote[k] /\ (~Differs(remote[api.spec.key], api))'
    BY <1>12, <2>1, <2>3 DEF Differs, Want, Recorded
  <2>5. ServerInv'
    BY <1>12, <2>1, <2>3, <2>4 DEF ServerInv, Enforces, Posts
  <2>6. o = [o EXCEPT !.status = o.status]
    BY DEF Object
  <2> QED
    BY <1>12, <2>1, <2>2, <2>3, <2>5, <2>6
<1>13. CASE WriteReady
  <2> DEFINE o == [obj EXCEPT !.status.ready = [reason |-> verdict.reason, gen |-> api.gen]]
  <2>1. verdict.reason \in Success /\ verdict.both /\ pc = "ready" /\ base = api.status
        /\ obj.status.synced = base.synced
    BY <1>13 DEF PassInv, CopyInv, WriteReady
  <2>2. UNCHANGED <<remote, read, verdict, env>> /\ pc' = "synced"
    BY <1>13, <2>1 DEF WriteReady
  <2>3. /\ o \in Object /\ o = [api EXCEPT !.status = o.status]
        /\ o.status.ready = [reason |-> verdict.reason, gen |-> api.gen]
        /\ o.status.synced = obj.status.synced
        /\ api' = o /\ obj' = o /\ objCur' /\ base' = base
    BY <1>1, <1>13, ReadyWritten
  <2> HIDE DEF o
  <2>4. /\ Servable' /\ ServerInv' /\ o.gen = api.gen
        /\ (obj = [api EXCEPT !.status = obj.status])' /\ (api.ann = RepOf(api.spec))'
    BY <1>12, <2>1, <2>2, <2>3
  <2>5. Says(api.status.ready)'
    BY <2>1, <2>3, <2>4 DEF Says
  <2>6. CopyInv'
    BY <2>1, <2>2, <2>3, <2>4, <2>5 DEF CopyInv
  <2> QED
    BY <2>2, <2>4, <2>6 DEF PassInv
<1>14. CASE WriteSynced
  <2> DEFINE o == [obj EXCEPT !.status.synced = [reason |-> verdict.reason, gen |-> api.gen]]
  <2>1. verdict.reason \in Success /\ pc = "synced" /\ obj = api /\ Says(api.status.ready)
    BY <1>14 DEF PassInv, CopyInv, WriteSynced
  <2>2. UNCHANGED <<remote, read, verdict, env>> /\ pc' = "end"
    BY <1>14 DEF WriteSynced
  <2>3. /\ o \in Object /\ o = [api EXCEPT !.status = o.status]
        /\ o.status.synced = [reason |-> verdict.reason, gen |-> api.gen]
        /\ o.status.ready = obj.status.ready
        /\ api' = o /\ obj' = o /\ objCur' /\ base' = base
    BY <1>1, <1>14, SyncedWritten
  <2> HIDE DEF o
  <2>4. /\ Servable' /\ ServerInv' /\ o.gen = api.gen
        /\ (obj = [api EXCEPT !.status = obj.status])' /\ (api.ann = RepOf(api.spec))'
    BY <1>12, <2>1, <2>2, <2>3
  <2>5. Says(api.status.ready)' /\ Says(api.status.synced)'
    BY <2>1, <2>3, <2>4 DEF Says
  <2>6. CopyInv'
    BY <2>2, <2>3, <2>4, <2>5 DEF CopyInv
  <2> QED
    BY <2>2, <2>4, <2>6 DEF PassInv
<1>15. CASE Deliver
  <2>1. UNCHANGED <<api, remote, worker, env>>
    BY <1>15 DEF Deliver
  <2>2. \A r : Differs(r, api)' <=> Differs(r, api)
    BY <2>1 DEF Differs, Want, Recorded
  <2>3. CopyInv'
    BY Zenon, <2>1 DEF PassInv, CopyInv, Says, worker, copy
  <2>4. ServerInv'
    BY Zenon, <2>1, <2>2, <1>PassFrame DEF PassInv, ServerInv, Enforces, worker, read
  <2> QED
    BY Zenon, <2>1, <2>3, <2>4, <1>PassFrame DEF PassInv, worker
<1>16. ~Environment
  <2>1. ~SpendUser /\ ~SpendAdmin
    BY DEF SpendUser, SpendAdmin, Alone, TypeOK, EnvType, BudgetType
  <2> QED
    BY ZenonT(30), <1>1, <1>2, <2>1 DEF Environment, Restart, InformerResync, UserCreate,
       UserEdit, UserDelete, AdminCreate, AdminEdit, AdminDelete, ConnectionChanges, SecretChanges
<1> QED
  BY ZenonT(60), <1>1, <1>3, <1>4, <1>5, <1>6, <1>7, <1>8, <1>9, <1>10, <1>11, <1>13, <1>14, <1>15, <1>16
     DEF Alone, Next, Pass, Start, FindForDelete, DeleteRemote, ReleaseFinalizer,
     AddFinalizer, TimerFires

\* So does a step that changes nothing.
LEMMA PassStutters == PassInv /\ UNCHANGED vars => PassInv'
<1> SUFFICES ASSUME PassInv, UNCHANGED vars PROVE PassInv'
  OBVIOUS
<1>1. Servable'
  BY Zenon DEF vars, kube, env, PassInv, Servable, Protected
<1>2. CopyInv'
  BY Zenon DEF vars, kube, copy, PassInv, CopyInv, Says
<1>3. ServerInv'
  BY Zenon DEF vars, kube, copy, read, PassInv, ServerInv, Acceptable, Managed, Differs, Want,
     Recorded, Enforces
<1> QED
  BY Zenon, <1>1, <1>2, <1>3 DEF vars, PassInv

\* One pass is enough: one that begins with a current copy of an object that it can
\* serve, and is left alone, ends with the server matching the spec, the annotation
\* recording it and both conditions saying so for the current generation, whatever
\* the kind, the policies and the resource it found (engine.go:107-346).
THEOREM OnePassSuffices ==
    TypeOK /\ IdResolves /\ Begins /\ [][Alone]_vars => [](pc = "end" => Applied)
<1>1. TypeOK /\ Begins => PassInv
  BY BeginsPass
<1>2. TypeOK /\ IdResolves /\ [Alone]_vars => TypeOK' /\ IdResolves'
  BY StepTyped, StepResolves DEF Alone
<1>3. TypeOK /\ PassInv /\ [Alone]_vars => PassInv'
  BY PassStutters, StepPass
<1>4. PassInv => (pc = "end" => Applied)
  BY DEF PassInv, CopyInv, ServerInv, Applied
<1> QED
  BY <1>1, <1>2, <1>3, <1>4, PTL

\* A pass over what an earlier one applied.
AgainInv ==
    LET r == remote[api.spec.key] IN
    /\ r # None /\ ~Differs(r, api)
    /\ Enforces(api) => r.sub = api.spec.val
    /\ api.ann = RepOf(api.spec) /\ ~changed
    /\ pc \in {"conn", "get", "existing", "post", "ready", "synced", "end"}
    /\ pc \in {"ready", "synced"} => verdict.reason = "Matches"
    /\ pc \in {"ready", "synced", "end"} => obj.status.obsGen = api.gen
    /\ pc \in {"synced", "end"} => api.status.ready.reason = "Matches"
    /\ pc = "end" => api.status.synced.reason = "Matches"

\* The object after a pass that had nothing to correct.
Confirmed ==
    /\ Converged
    /\ api.status.ready.reason = "Matches" /\ api.status.synced.reason = "Matches"

\* It leaves the server alone.
LEMMA StepAgain ==
    ASSUME TypeOK, PassInv, AgainInv, Alone
    PROVE  AgainInv' /\ remote' = remote
<1> DEFINE k == api.spec.key
<1>1. ~Fault
  BY DEF TypeOK, EnvType, BudgetType, Fault, Alone
<1>2. /\ api # None /\ api \in Object /\ api.fin /\ ~api.deleting
      /\ connUp /\ secretUp /\ ~Protected(api) /\ api.ann # Garbled
      /\ api.spec.adoption # "FailIfExists" /\ k \in Keys
      /\ remote \in [Keys -> Resource \cup {None}]
  BY ObjectFields DEF TypeOK, KubeType, ServerType, PassInv, Servable
<1>3. /\ remote[k] # None /\ ~Differs(remote[k], api) /\ remote[k] \in Resource
      /\ Enforces(api) => remote[k].sub = api.spec.val
      /\ api.ann = RepOf(api.spec) /\ ~changed
  BY <1>2 DEF AgainInv
<1>4. ASSUME UNCHANGED <<api, remote, changed>>
      PROVE  /\ (remote[k] # None /\ ~Differs(remote[k], api) /\ ~changed)'
             /\ (Enforces(api) => remote[k].sub = api.spec.val)'
             /\ (api.ann = RepOf(api.spec))'
  BY <1>3, <1>4 DEF Differs, Want, Recorded
<1>5. CASE Connect
  <2>1. obj = api
    BY <1>5 DEF PassInv, CopyInv, Connect
  <2>2. UNCHANGED <<api, remote, changed>> /\ pc' = "get"
    BY ZenonT(30), <1>2, <1>5, <2>1 DEF Connect, Goto, Report, kube, read
  <2> QED
    BY Zenon, <1>4, <2>2 DEF AgainInv
<1>6. CASE GetRemote
  <2>1. obj = api
    BY <1>6 DEF PassInv, CopyInv, GetRemote
  <2>2. UNCHANGED <<api, remote, changed>> /\ pc' = "existing"
    BY ZenonT(30), <1>1, <1>3, <1>6, <2>1 DEF GetRemote, Goto, Fetched, kube
  <2> QED
    BY Zenon, <1>4, <2>2 DEF AgainInv
<1>7. CASE Existing
  <2>1. obj = api /\ got = remote[k]
    BY ZenonT(60), <1>7 DEF PassInv, CopyInv, ServerInv, Existing
  <2>2. Managed(got, obj)
    BY <1>2, <1>3, <2>1, NoneAssumption, ObjectFields DEF Managed
  <2>3. UNCHANGED <<api, remote, changed>> /\ pc' = "post"
    BY Zenon, <1>2, <1>3, <1>7, <2>1, <2>2 DEF Existing, Goto, Report, kube, read
  <2> QED
    BY Zenon, <1>4, <2>3 DEF AgainInv
<1>8. CASE PostApply
  <2>1. obj = api /\ idLive /\ pc = "post"
    BY ZenonT(60), <1>8 DEF PassInv, CopyInv, ServerInv, PostApply
  <2>2. Reachable
    BY <1>3, <2>1 DEF Reachable
  <2>3. [remote EXCEPT ![k].sub = remote[k].sub] = remote
    BY <1>2, <1>3 DEF Resource
  <2>4. remote' = remote
    BY Zenon, <1>1, <1>3, <2>1, <2>2, <2>3, <1>8 DEF PostApply
  <2>5. /\ obj' = [api EXCEPT !.status.obsGen = api.gen]
        /\ verdict' = [reason |-> "Matches", both |-> TRUE, res |-> "after"]
        /\ pc' = "ready"
    BY Zenon, <1>1, <1>3, <2>1, <2>2, <1>8 DEF PostApply
  <2>6. UNCHANGED <<api, changed>>
    BY <1>1, <2>2, <1>8 DEF PostApply, kube, read
  <2>7. obj'.status.obsGen = api'.gen
    BY <1>2, <2>5, <2>6 DEF Object, Status
  <2> QED
    BY <1>4, <2>4, <2>5, <2>6, <2>7 DEF AgainInv
<1>9. ASSUME NEW o \in Object, api' = o, obj' = o, o = [api EXCEPT !.status = o.status],
             o.status.obsGen = obj.status.obsGen, UNCHANGED <<remote, changed>>,
             pc \in {"ready", "synced"}
      PROVE  /\ (remote[api.spec.key] # None /\ ~Differs(remote[api.spec.key], api))'
             /\ (Enforces(api) => remote[api.spec.key].sub = api.spec.val)'
             /\ (api.ann = RepOf(api.spec) /\ ~changed)'
             /\ (obj.status.obsGen = api.gen)'
  <2>1. o.spec = api.spec /\ o.ann = api.ann /\ o.gen = api.gen
    BY <1>2, <1>9 DEF Object
  <2>2. obj.status.obsGen = api.gen
    BY <1>9 DEF AgainInv
  <2>3. remote'[api'.spec.key] = remote[k]
    BY <1>9, <2>1
  <2> QED
    BY <1>3, <1>9, <2>1, <2>2, <2>3 DEF Differs, Want, Recorded, Enforces, Posts
<1>10. CASE WriteReady
  <2> DEFINE o == [obj EXCEPT !.status.ready = [reason |-> verdict.reason, gen |-> api.gen]]
  <2>1. /\ o \in Object /\ o = [api EXCEPT !.status = o.status]
        /\ o.status.ready = [reason |-> verdict.reason, gen |-> api.gen]
        /\ o.status.obsGen = obj.status.obsGen /\ api' = o /\ obj' = o
    BY <1>1, <1>10, ReadyWritten
  <2>2. pc = "ready" /\ verdict.reason = "Matches" /\ verdict.both
    BY <1>10 DEF WriteReady, AgainInv, PassInv, CopyInv
  <2>3. UNCHANGED <<remote, verdict, changed>> /\ pc' = "synced"
    BY <1>10, <2>2 DEF WriteReady, read
  <2> HIDE DEF o
  <2>4. api'.status.ready.reason = "Matches"
    BY <2>1, <2>2
  <2> QED
    BY <1>9, <2>1, <2>2, <2>3, <2>4 DEF AgainInv
<1>11. CASE WriteSynced
  <2> DEFINE o == [obj EXCEPT !.status.synced = [reason |-> verdict.reason, gen |-> api.gen]]
  <2>1. /\ o \in Object /\ o = [api EXCEPT !.status = o.status]
        /\ o.status.synced = [reason |-> verdict.reason, gen |-> api.gen]
        /\ o.status.ready = obj.status.ready
        /\ o.status.obsGen = obj.status.obsGen /\ api' = o /\ obj' = o
    BY <1>1, <1>11, SyncedWritten
  <2>2. /\ pc = "synced" /\ verdict.reason = "Matches" /\ obj = api
        /\ api.status.ready.reason = "Matches"
    BY <1>11 DEF WriteSynced, AgainInv, PassInv, CopyInv
  <2>3. UNCHANGED <<remote, verdict, changed>> /\ pc' = "end"
    BY <1>11 DEF WriteSynced, read
  <2> HIDE DEF o
  <2>4. api'.status.ready.reason = "Matches" /\ api'.status.synced.reason = "Matches"
    BY <2>1, <2>2
  <2> QED
    BY <1>9, <2>1, <2>2, <2>3, <2>4 DEF AgainInv
<1>12. CASE Deliver
  <2>1. UNCHANGED <<api, remote, pc, obj, verdict, changed>>
    BY <1>12 DEF Deliver, worker, copy, read
  <2> QED
    BY Zenon, <1>4, <2>1 DEF AgainInv
<1>13. pc # "idle" /\ ~Environment
  <2>1. ~SpendUser /\ ~SpendAdmin
    BY DEF SpendUser, SpendAdmin, Alone, TypeOK, EnvType, BudgetType
  <2>2. pc # "idle"
    BY DEF AgainInv
  <2> QED
    BY Zenon, <1>1, <1>2, <2>1, <2>2 DEF Environment, Restart, InformerResync, UserCreate,
       UserEdit, UserDelete, AdminCreate, AdminEdit, AdminDelete, ConnectionChanges, SecretChanges
<1>14. pc \in {"conn", "get", "existing", "post", "ready", "synced", "end"}
  BY DEF AgainInv
<1> QED
  BY Zenon, <1>5, <1>6, <1>7, <1>8, <1>10, <1>11, <1>12, <1>13, <1>14
     DEF Alone, Next, Pass, Start, FindForDelete, DeleteRemote, ReleaseFinalizer,
     AddFinalizer, PrepareCreate, CreateRemote, ReGetRemote, UpdateRemote, Annotate, TimerFires

\* The pass after that confirms: it changes nothing on the server and ends with the
\* object converged, its generation observed and nothing left to correct. What it
\* needs is what the pass before it established (finalize, engine.go:319-346).
THEOREM NextPassConfirms ==
    TypeOK /\ IdResolves /\ Begins /\ Applied /\ [][Alone]_vars
        => [](pc = "end" => Confirmed) /\ [][remote' = remote]_vars
<1>1. TypeOK /\ Begins /\ Applied => PassInv /\ AgainInv
  BY Zenon, BeginsPass DEF AgainInv, Applied, Begins
<1>2. TypeOK /\ IdResolves /\ [Alone]_vars => TypeOK' /\ IdResolves'
  BY StepTyped, StepResolves DEF Alone
<1>3. TypeOK /\ PassInv /\ AgainInv /\ [Alone]_vars =>
        PassInv' /\ AgainInv' /\ [remote' = remote]_vars
  <2>1. PassInv /\ AgainInv /\ UNCHANGED vars => PassInv' /\ AgainInv'
    BY PassStutters DEF vars, kube, copy, read, AgainInv, Differs, Want, Recorded
  <2> QED
    BY <2>1, StepPass, StepAgain
<1>4. TypeOK /\ PassInv /\ AgainInv => (pc = "end" => Confirmed)
  BY DEF PassInv, CopyInv, AgainInv, Confirmed, Converged
<1> QED
  BY <1>1, <1>2, <1>3, <1>4, PTL

-----------------------------------------------------------------------------
(* Rest *)

\* At rest nothing that the environment does for free is left to do.
LEMMA RestEnvironment ==
    ASSUME TypeOK, AtRest, budget' = budget, Environment
    PROVE  InformerResync
<1>1. budget \in BudgetType /\ connUp /\ secretUp
  BY DEF TypeOK, EnvType, AtRest, Servable
<1>2. ~Fault /\ ~SpendUser /\ ~SpendAdmin
  BY <1>1 DEF Fault, SpendUser, SpendAdmin, BudgetType
<1> QED
  BY ZenonT(30), <1>1, <1>2 DEF Environment, Restart, UserCreate, UserEdit, UserDelete,
     AdminCreate, AdminEdit, AdminDelete, ConnectionChanges, SecretChanges

\* A condition that is set to what it was leaves the object as it was.
LEMMA SameConditions ==
    ASSUME NEW o \in Object
    PROVE  /\ [o EXCEPT !.status.ready = o.status.ready] = o
           /\ [o EXCEPT !.status.synced = o.status.synced] = o
  BY DEF Object, Status

\* Around a pass.
LEMMA RestAround ==
    ASSUME TypeOK, AtRest, Deliver \/ TimerFires \/ InformerResync
    PROVE  AtRest' /\ UNCHANGED <<api, remote>>
<1>1. ~Deliver
  BY Zenon DEF AtRest, Deliver
<1>2. UNCHANGED <<kube, remote, worker, env>>
  BY Zenon, <1>1 DEF TimerFires, InformerResync
<1>3. Servable' /\ Converged'
  BY Zenon, <1>2 DEF AtRest, Servable, Converged, Says, Protected, Differs, Want, Recorded,
     kube, env
<1> QED
  BY Zenon, <1>2, <1>3 DEF AtRest, kube, worker, copy, read

\* The steps of a pass at rest write nothing.
LEMMA RestPass ==
    ASSUME TypeOK, AtRest, budget' = budget, Pass
    PROVE  AtRest' /\ UNCHANGED <<api, remote>>
\* At rest the copy the pass works on is what the API server holds, so that
\* writing a condition that is there already changes nothing.
<1>RestPatch.
      ASSUME pc # "idle", ~Fault, PatchStatus(obj)
      PROVE  UNCHANGED <<kube, copy>>
  <2> USE <1>RestPatch
  <2>1. /\ api # None /\ api \in Object /\ obj = api /\ base = api.status
        /\ objCur /\ baseCur /\ ~locked
    BY DEF TypeOK, KubeType, AtRest, Servable
  <2>2. api = [api EXCEPT !.status = api.status]
    BY <2>1 DEF Object
  <2>3. MergeStatus(api, obj) = api
    <3> DEFINE m == [api EXCEPT !.status.ready = api.status.ready,
                                !.status.synced = api.status.synced,
                                !.status.obsGen = api.status.obsGen]
    <3>1. MergeStatus(api, api) = m
      BY ZenonT(30), <2>1, MergesWhole
    <3>2. m = api
      BY <2>1, <2>2, StatusFields
    <3> HIDE DEF m
    <3> QED
      BY <2>1, <3>1, <3>2
  <2>4. Decoded(obj, api) = api
    BY <2>1, DecodedSame
  <2>5. Patched(obj, api)
    BY Zenon, <2>1, <2>3 DEF PatchStatus
  <2>6. /\ cacheCur \in BOOLEAN /\ objCur \in BOOLEAN /\ baseCur \in BOOLEAN
        /\ locked \in BOOLEAN
    BY DEF TypeOK, KubeType, PassType
  <2>7. /\ api' = api /\ cacheCur' = cacheCur /\ cache' = cache /\ obj' = obj
        /\ objCur' = objCur /\ baseCur' = baseCur /\ locked' = locked /\ base' = base
    BY Zenon, <2>1, <2>4, <2>5, <2>6 DEF Patched, Store
  <2> QED
    BY <2>7 DEF kube, copy
\* What a step that leaves the object, the cache and the server alone has to show.
<1>RestFrame.
      ASSUME UNCHANGED <<kube, remote, env>>
      PROVE  /\ (Servable /\ Converged)'
             /\ (api.status.ready.reason = "Matches" /\ api.status.synced.reason = "Matches")'
             /\ (cacheCur /\ cache = api)' /\ UNCHANGED <<api, remote>>
  <2> USE <1>RestFrame
  <2>1. /\ Servable /\ Converged /\ cacheCur /\ cache = api
        /\ api.status.ready.reason = "Matches" /\ api.status.synced.reason = "Matches"
    BY DEF AtRest
  <2>2. /\ api' = api /\ cache' = cache /\ cacheCur' = cacheCur /\ remote' = remote
        /\ connUp' = connUp /\ secretUp' = secretUp
    BY DEF kube, env
  <2>3. (Servable /\ Converged)'
    BY <2>1, <2>2 DEF Servable, Converged, Says, Protected, Differs, Want, Recorded
  <2> QED
    BY Zenon, <2>1, <2>2, <2>3
<1>RestStep.
      ASSUME UNCHANGED <<kube, remote, env>>, ~changed',
             pc' \in {"idle", "conn", "get", "existing", "post", "ready", "synced", "end"},
             pc' # "idle" => /\ obj' = api /\ base' = api.status
                             /\ objCur' /\ baseCur' /\ ~locked',
             pc' \in {"existing", "post"} => got' = remote[api.spec.key] /\ idLive',
             pc' \in {"ready", "synced"} =>
                 verdict' = [reason |-> "Matches", both |-> TRUE, res |-> "after"]
      PROVE  AtRest' /\ UNCHANGED <<api, remote>>
  <2> USE <1>RestStep
  <2>1. /\ (Servable /\ Converged)'
        /\ (api.status.ready.reason = "Matches" /\ api.status.synced.reason = "Matches")'
        /\ (cacheCur /\ cache = api)' /\ api' = api /\ remote' = remote
    BY <1>RestFrame
  <2> QED
    BY ZenonT(60), <2>1 DEF AtRest
<1> DEFINE k == api.spec.key
           Matches == [reason |-> "Matches", both |-> TRUE, res |-> "after"]
<1>1. ~Fault
  BY DEF TypeOK, EnvType, BudgetType, Fault
<1>2. /\ api # None /\ api \in Object /\ api.fin /\ ~api.deleting
      /\ connUp /\ secretUp /\ ~Protected(api) /\ api.ann # Garbled
      /\ api.spec.adoption # "FailIfExists" /\ api.ann = RepOf(api.spec)
      /\ cache = api /\ cacheCur
  BY ZenonT(30) DEF TypeOK, KubeType, AtRest, Servable, Converged
<1>3. /\ remote \in [Keys -> Resource \cup {None}] /\ k \in Keys /\ remote[k] # None
      /\ remote[k] \in Resource /\ ~Differs(remote[k], api)
      /\ Enforces(api) => remote[k].sub = api.spec.val
  BY <1>2, ObjectFields DEF TypeOK, ServerType, AtRest, Converged
<1>4. api.ann # None
  BY ZenonT(30), <1>2, NoneAssumption, ConstantsAssumption, ObjectFields DEF RepOf, Rep, SpecType
<1>at. /\ ~changed
       /\ pc # "idle" => /\ obj = api /\ base = api.status
                         /\ objCur /\ baseCur /\ ~locked
       /\ pc \in {"existing", "post"} => got = remote[k] /\ idLive
       /\ pc \in {"ready", "synced"} => verdict = Matches
       /\ pc \in {"idle", "conn", "get", "existing", "post", "ready", "synced", "end"}
  BY Zenon DEF AtRest
<1>5. CASE Start
  <2>1. UNCHANGED <<kube, remote, env, read>> /\ pc' = "conn" /\ obj' = api
        /\ base' = api.status /\ objCur' /\ baseCur' /\ ~locked'
    BY ZenonT(30), <1>2, <1>5 DEF Start
  <2>2. ~changed'
    BY Zenon, <1>at, <2>1 DEF read
  <2> QED
    BY <2>1, <2>2, <1>RestStep
<1>same. ASSUME UNCHANGED copy, pc # "idle"
         PROVE  obj' = api /\ base' = api.status /\ objCur' /\ baseCur' /\ ~locked'
  <2>1. /\ obj' = obj /\ base' = base /\ objCur' = objCur /\ baseCur' = baseCur
        /\ locked' = locked
    BY Zenon, <1>same DEF copy
  <2> QED
    BY Zenon, <1>same, <1>at, <2>1
<1>6. CASE Connect
  <2>1. UNCHANGED <<kube, copy, remote, env, read>> /\ pc = "conn" /\ pc' = "get"
    BY <1>2, <1>6, <1>at DEF Connect, Goto, Report
  <2>2. ~changed'
    BY Zenon, <1>at, <2>1 DEF read
  <2> QED
    BY ZenonT(60), <1>same, <2>1, <2>2, <1>RestStep
<1>7. CASE GetRemote
  <2>1. /\ UNCHANGED <<kube, copy, remote, env>> /\ pc = "get" /\ pc' = "existing"
        /\ got' = remote[k] /\ idLive' /\ changed' = changed
    BY ZenonT(30), <1>1, <1>3, <1>7, <1>at DEF GetRemote, Fetched, Goto
  <2> QED
    BY ZenonT(30), <1>at, <1>same, <2>1, <1>RestStep
<1>8. CASE Existing
  <2>1. got = remote[k] /\ obj = api /\ pc = "existing" /\ idLive
    BY ZenonT(60), <1>8, <1>at DEF Existing
  <2>2. Managed(got, obj) /\ ~Differs(got, obj)
    BY <1>3, <1>4, <2>1 DEF Managed
  <2>3. UNCHANGED <<kube, copy, remote, env, read>> /\ pc' = "post"
    BY ZenonT(30), <1>2, <1>8, <2>1, <2>2 DEF Existing, Goto
  <2>4. ~changed' /\ got' = remote[k] /\ idLive'
    BY ZenonT(60), <1>at, <2>1, <2>3 DEF read
  <2> QED
    BY Zenon, <1>same, <2>1, <2>3, <2>4, <1>RestStep
<1>9. CASE PostApply
  <2>1. got = remote[k] /\ obj = api /\ idLive /\ ~changed /\ pc = "post"
    BY ZenonT(60), <1>9, <1>at DEF PostApply
  <2>2. Reachable
    BY <1>3, <2>1 DEF Reachable
  <2>3. [remote EXCEPT ![k].sub = remote[k].sub] = remote
    BY <1>3 DEF Resource
  <2>4. [api EXCEPT !.status.obsGen = api.gen] = api
    BY <1>2 DEF Object, Status, AtRest, Converged
  <2>5. remote' = remote
    BY Zenon, <1>1, <1>3, <2>1, <2>2, <2>3, <1>9 DEF PostApply
  <2>6. obj' = obj /\ verdict' = Matches /\ pc' = "ready"
    BY <1>1, <1>2, <1>3, <2>1, <2>2, <2>4, <1>9 DEF PostApply
  <2>7. UNCHANGED <<kube, base, objCur, baseCur, locked, read, env>>
    BY Zenon, <1>1, <2>2, <1>9 DEF PostApply
  <2>8. ~changed' /\ obj' = api /\ base' = api.status /\ objCur' /\ baseCur' /\ ~locked'
    BY Zenon, <1>at, <2>1, <2>6, <2>7 DEF read
  <2> QED
    BY <2>5, <2>6, <2>7, <2>8, <1>RestStep
<1>10. CASE WriteReady
  <2>1. obj = api /\ verdict = Matches /\ pc = "ready"
    BY <1>10, <1>at DEF WriteReady
  <2>2. [obj EXCEPT !.status.ready = [reason |-> verdict.reason, gen |-> obj.gen]] = obj
    <3>1. api.status.ready = [reason |-> "Matches", gen |-> api.gen]
      BY <1>2 DEF Object, Status, Cond, AtRest, Converged, Says
    <3>2. [reason |-> verdict.reason, gen |-> obj.gen] = obj.status.ready
      BY <2>1, <3>1
    <3> QED
      BY ZenonT(60), <1>2, <2>1, <3>2, SameConditions
  <2>3. UNCHANGED <<kube, copy>>
    BY <1>1, <2>1, <2>2, <1>10, <1>RestPatch DEF WriteReady
  <2>4. UNCHANGED <<remote, read, verdict, env>> /\ pc' = "synced"
    BY <1>10, <2>1 DEF WriteReady
  <2>5. ~changed'
    BY ZenonT(60), <1>at, <2>4 DEF read
  <2> QED
    BY <1>same, <2>1, <2>3, <2>4, <2>5, <1>RestStep
<1>11. CASE WriteSynced
  <2>1. obj = api /\ verdict = Matches /\ pc = "synced"
    BY <1>11, <1>at DEF WriteSynced
  <2>2. [obj EXCEPT !.status.synced = [reason |-> verdict.reason, gen |-> obj.gen]] = obj
    <3>1. api.status.synced = [reason |-> "Matches", gen |-> api.gen]
      BY <1>2 DEF Object, Status, Cond, AtRest, Converged, Says
    <3>2. [reason |-> verdict.reason, gen |-> obj.gen] = obj.status.synced
      BY <2>1, <3>1
    <3> QED
      BY ZenonT(60), <1>2, <2>1, <3>2, SameConditions
  <2>3. UNCHANGED <<kube, copy>>
    BY <1>1, <2>1, <2>2, <1>11, <1>RestPatch DEF WriteSynced
  <2>4. UNCHANGED <<remote, read, verdict, env>> /\ pc' = "end"
    BY <1>11, <2>1 DEF WriteSynced
  <2>5. ~changed'
    BY Zenon, <1>at, <2>4 DEF read
  <2> QED
    BY <1>same, <2>1, <2>3, <2>4, <2>5, <1>RestStep
<1>12. CASE Finish
  <2>1. UNCHANGED <<kube, remote, env>> /\ pc' = "idle" /\ ~changed'
    BY <1>12 DEF Finish, Return, Forget
  <2> QED
    BY <2>1, <1>RestStep
<1> QED
  BY <1>5, <1>6, <1>7, <1>8, <1>9, <1>10, <1>11, <1>12, <1>at DEF Pass, FindForDelete,
     DeleteRemote, ReleaseFinalizer, AddFinalizer, PrepareCreate, CreateRemote,
     ReGetRemote, UpdateRemote, Annotate

\* Rest is closed: once there, whatever the caches, timers and resyncs start, no
\* pass writes to the object or the server again until a user, an administrator or
\* a fault intervenes. Convergence is for good, and no write of the operator's
\* own wakes it up (engine.go:107-346).
THEOREM RestIsClosed ==
    Spec => [][AtRest /\ budget' = budget
                  => AtRest' /\ api' = api /\ remote' = remote]_vars
<1>1. TypeOK /\ [Next]_vars
        => [AtRest /\ budget' = budget => AtRest' /\ api' = api /\ remote' = remote]_vars
  BY Zenon, RestEnvironment, RestAround, RestPass DEF Next
<1> QED
  BY <1>1, TypeCorrect, PTL DEF Spec

\* With its pass over, and the informer up to date, a confirmed object is at rest.
LEMMA ConfirmedRests ==
    ASSUME Servable, Confirmed, pc = "idle", ~changed, cacheCur, cache = api
    PROVE  AtRest
  BY DEF Confirmed, AtRest

=============================================================================
