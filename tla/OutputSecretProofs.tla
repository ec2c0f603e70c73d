------------------------- MODULE OutputSecretProofs -------------------------
(***************************************************************************)
(* For any names, entries, values and bounds: what ensureOutputSecret      *)
(* writes replaces no Secret that the Client does not own, and no entry    *)
(* but its own; one undisturbed pass exports the client secret, and an     *)
(* export in place is kept.                                                *)
(***************************************************************************)
EXTENDS OutputSecret, TLAPS

\* The provers tried on a step that names none, in this order.
USE SMT, Zenon, SMTT(20), Z3T(20), SMTT(60)

KubeType ==
    /\ cr \in ClientType /\ crSeen \in ClientType
    /\ secrets \in [Names -> {None} \cup Secret]
    /\ seen \in [Names -> {None} \cup Secret]
    /\ fresh \in [Names -> BOOLEAN]
    /\ \A n \in Names : fresh[n] => seen[n] = secrets[n]

PassType ==
    /\ value \in Values /\ pc \in {"idle", "fetch", "read", "write", "report"}
    /\ obj \in {None} \cup ClientType /\ fetched \in {None} \cup Values
    /\ got \in {None} \cup Secret /\ gotCur \in BOOLEAN

BudgetType == budget \in [user: 0..MaxUser, server: 0..MaxServer, fault: 0..MaxFault]

\* A copy of a Secret that carries the current resourceVersion is the Secret.
CopyCurrent == gotCur => got = secrets[obj.out.name]

LEMMA TypeParts == TypeOK <=> KubeType /\ PassType /\ BudgetType /\ CopyCurrent
  BY DEF TypeOK, KubeType, PassType, BudgetType, CopyCurrent

\* What a pass holds is of the Client that is there: no pass survives its Client.
Working ==
    /\ crSeen.uid = cr.uid
    /\ cr.uid + budget.user <= MaxUser + 1
    /\ pc # "idle" => obj \in ClientType /\ obj.out \in Outs /\ obj.uid = cr.uid
    /\ pc \in {"read", "write"} => fetched \in Values
    /\ pc = "write" /\ got # None => got.owner = obj.uid
    /\ gotCur => pc = "write"

IInv == KubeType /\ PassType /\ BudgetType /\ CopyCurrent /\ Working

LEMMA SpendType ==
    ASSUME BudgetType, NEW who \in {"user", "server", "fault"}, Spend(who)
    PROVE  /\ BudgetType'
           /\ who = "user" => budget'.user = budget.user - 1
           /\ who # "user" => budget'.user = budget.user
  BY OutputAssumption DEF BudgetType, Spend

-----------------------------------------------------------------------------
(* A pass *)

\* The pass is over: nothing is held.
LEMMA EndInv ==
    ASSUME IInv, End, UNCHANGED <<kube, value>>, BudgetType', budget'.user = budget.user
    PROVE  IInv'
<1>1. KubeType'
  BY DEF IInv, KubeType, kube
<1>2. PassType' /\ CopyCurrent'
  BY Zenon DEF IInv, PassType, CopyCurrent, End, Return
<1>3. Working'
  BY DEF IInv, Working, End, Return, kube
<1> QED
  BY <1>1, <1>2, <1>3 DEF IInv

LEMMA StartInv ==
    ASSUME IInv, Start
    PROVE  IInv'
<1>1. /\ pc' = "fetch" /\ obj' = crSeen /\ crSeen.out # None /\ pc = "idle" /\ ~gotCur
      /\ UNCHANGED <<kube, value, fetched, got, gotCur, budget>>
  BY DEF IInv, Working, Start
<1>2. KubeType' /\ BudgetType'
  BY <1>1 DEF IInv, KubeType, BudgetType, kube
<1>3. PassType' /\ CopyCurrent'
  BY <1>1 DEF IInv, PassType, CopyCurrent, KubeType
<1>4. Working'
  BY <1>1 DEF IInv, Working, KubeType, ClientType, kube
<1> QED
  BY <1>2, <1>3, <1>4 DEF IInv

LEMMA FetchInv ==
    ASSUME IInv, Fetch
    PROVE  IInv'
<1>1. CASE /\ fetched' = value /\ pc' = "read"
           /\ UNCHANGED <<obj, got, gotCur, kube, value, budget>>
  <2>1. KubeType' /\ BudgetType'
    BY <1>1 DEF IInv, KubeType, BudgetType, kube
  <2>2. PassType' /\ CopyCurrent'
    BY <1>1 DEF IInv, PassType, CopyCurrent, kube
  <2>3. Working'
    BY <1>1 DEF IInv, Working, PassType, Fetch, kube
  <2> QED
    BY <2>1, <2>2, <2>3 DEF IInv
<1>2. CASE Spend("fault") /\ End /\ UNCHANGED <<kube, value>>
  BY <1>2, SpendType, EndInv DEF IInv
<1> QED
  BY <1>1, <1>2 DEF Fetch, NoFault

\* What the pass decides to write is absent or the Client's, as far as it knows.
LEMMA EnsureReadInv ==
    ASSUME IInv, EnsureRead
    PROVE  IInv'
<1> DEFINE n == obj.out.name
<1>1. /\ pc = "read" /\ obj \in ClientType /\ obj.out \in Outs /\ n \in Names
      /\ obj.uid = cr.uid /\ seen[n] \in {None} \cup Secret
      /\ UNCHANGED <<kube, value, budget>>
  BY DEF IInv, Working, EnsureRead, Outs, KubeType
<1>2. KubeType' /\ BudgetType'
  BY <1>1 DEF IInv, KubeType, BudgetType, kube
<1>3. CASE End
  BY <1>1, <1>2, <1>3, EndInv
<1>4. CASE pc' = "report" /\ Return /\ UNCHANGED obj
  <2>1. PassType' /\ CopyCurrent'
    BY Zenon, <1>1, <1>4 DEF IInv, PassType, CopyCurrent, Return
  <2>2. Working'
    BY <1>1, <1>4 DEF IInv, Working, Return, kube
  <2> QED
    BY <1>2, <2>1, <2>2 DEF IInv
<1>5. CASE /\ pc' = "write" /\ got' = seen[n] /\ gotCur' = fresh[n]
           /\ UNCHANGED <<obj, fetched>>
           /\ seen[n] # None => Owned(seen[n])
  <2>1. PassType'
    BY <1>1, <1>5 DEF IInv, PassType, KubeType
  <2>2. CopyCurrent'
    BY Zenon, <1>1, <1>5 DEF IInv, CopyCurrent, KubeType, kube
  <2>3. Working'
    BY <1>1, <1>5 DEF IInv, Working, Owned, kube
  <2> QED
    BY <1>2, <2>1, <2>2, <2>3 DEF IInv
<1> QED
  BY <1>3, <1>4, <1>5 DEF EnsureRead, Current

LEMMA WrittenType ==
    ASSUME IInv, pc = "write"
    PROVE  Written \in Secret
<1>1. obj \in ClientType /\ obj.out \in Outs /\ fetched \in Values
  BY DEF IInv, Working
<1>2. CASE got = None
  <2>1. obj.uid \in 0..(MaxUser + 1)
    BY <1>1, OutputAssumption DEF ClientType
  <2>2. [k \in Keys |-> IF k = obj.out.key THEN fetched ELSE None]
            \in [Keys -> {None, Mine} \cup Values]
    BY <1>1
  <2> QED
    BY <1>2, <2>1, <2>2 DEF Written, Secret
<1>3. CASE got # None
  <2>1. got \in Secret
    BY <1>3 DEF IInv, PassType
  <2>2. [got.data EXCEPT ![obj.out.key] = fetched] \in [Keys -> {None, Mine} \cup Values]
    BY Zenon, <1>1, <2>1 DEF Secret
  <2>3. Written = [owner |-> got.owner,
                   data |-> [got.data EXCEPT ![obj.out.key] = fetched]]
    BY <1>3, <2>1 DEF Written, Secret
  <2> QED
    BY <2>1, <2>2, <2>3 DEF Secret
<1> QED
  BY <1>2, <1>3

\* The API server holds another Secret, or none, under the name n.
LEMMA StoreType ==
    ASSUME KubeType, NEW n \in Names, NEW s \in {None} \cup Secret, Store(n, s),
           UNCHANGED <<cr, crSeen>>
    PROVE  KubeType'
  BY DEF KubeType, Store

LEMMA EnsureWriteInv ==
    ASSUME IInv, EnsureWrite
    PROVE  IInv'
<1> DEFINE n == obj.out.name
<1>1. /\ pc = "write" /\ obj \in ClientType /\ obj.out \in Outs /\ n \in Names
      /\ UNCHANGED <<cr, crSeen, value>> /\ Written \in Secret
  BY WrittenType DEF IInv, Working, EnsureWrite, Outs
<1>2. BudgetType' /\ budget'.user = budget.user
  BY SpendType DEF EnsureWrite, IInv, NoFault, BudgetType
<1>3. CASE Store(n, Written)
  <2>1. KubeType'
    BY <1>1, <1>3, StoreType DEF IInv
  <2>2. CASE pc' = "report" /\ Return /\ UNCHANGED obj
    <3>1. PassType' /\ CopyCurrent'
      BY Zenon, <1>1, <2>2 DEF IInv, PassType, CopyCurrent, Return
    <3>2. Working'
      BY <1>1, <1>2, <2>2 DEF IInv, Working, Return
    <3> QED
      BY <1>2, <2>1, <3>1, <3>2 DEF IInv
  <2>3. CASE End
    <3>1. PassType' /\ CopyCurrent'
      BY Zenon, <1>1, <2>3 DEF IInv, PassType, CopyCurrent, End, Return
    <3>2. Working'
      BY <1>1, <1>2, <2>3 DEF IInv, Working, End, Return
    <3> QED
      BY <1>2, <2>1, <3>1, <3>2 DEF IInv
  <2> QED
    BY <1>3, <2>2, <2>3 DEF EnsureWrite
<1>4. CASE UNCHANGED <<secrets, seen, fresh>> /\ End
  BY <1>1, <1>2, <1>4, EndInv DEF kube
<1> QED
  BY <1>3, <1>4 DEF EnsureWrite

LEMMA ReportInv ==
    ASSUME IInv, ReportName
    PROVE  IInv'
<1>1. /\ End /\ UNCHANGED <<crSeen, secrets, seen, fresh, value>>
      /\ pc = "report" /\ obj \in ClientType /\ obj.out.name \in Names
  BY DEF ReportName, IInv, Working, Outs
<1>2. BudgetType' /\ budget'.user = budget.user
  BY SpendType DEF ReportName, IInv, NoFault, BudgetType
<1>3. cr' \in ClientType /\ cr'.uid = cr.uid
  BY <1>1 DEF ReportName, IInv, KubeType, ClientType
<1>4. KubeType'
  BY <1>1, <1>3 DEF IInv, KubeType
<1>5. PassType' /\ CopyCurrent'
  BY Zenon, <1>1 DEF IInv, PassType, CopyCurrent, End, Return
<1>6. Working'
  BY <1>1, <1>2, <1>3 DEF IInv, Working, End, Return
<1> QED
  BY <1>2, <1>4, <1>5, <1>6 DEF IInv

-----------------------------------------------------------------------------
(* Everyone else *)

LEMMA BehindInv ==
    ASSUME IInv, NEW n \in Names, NEW s \in {None} \cup Secret, StoreBehind(n, s),
           BudgetType', budget'.user <= budget.user
    PROVE  IInv'
<1>1. /\ UNCHANGED <<cr, crSeen, value, pc, obj, fetched, got>> /\ Store(n, s)
      /\ gotCur' = (gotCur /\ obj.out.name # n)
  BY DEF StoreBehind
<1>2. KubeType'
  BY <1>1, StoreType DEF IInv
<1>3. PassType'
  BY <1>1 DEF IInv, PassType
<1>4. CopyCurrent'
  <2>1. CASE gotCur'
    <3>1. gotCur /\ obj.out.name # n /\ obj.out.name \in Names
      BY Zenon, <1>1, <2>1 DEF IInv, Working, Outs
    <3>2. secrets'[obj.out.name] = secrets[obj.out.name]
      BY <1>1, <3>1 DEF Store, IInv, KubeType
    <3> QED
      BY <1>1, <3>1, <3>2 DEF IInv, CopyCurrent
  <2> QED
    BY <2>1 DEF CopyCurrent
<1>5. Working'
  <2>1. cr'.uid + budget'.user <= MaxUser + 1
    <3>1. budget.user \in Nat /\ budget'.user \in Nat /\ cr.uid \in Nat /\ cr' = cr
      BY <1>1 DEF IInv, BudgetType, KubeType, ClientType
    <3> QED
      BY <3>1, OutputAssumption DEF IInv, Working
  <2> QED
    BY Zenon, <1>1, <2>1 DEF IInv, Working
<1> QED
  BY <1>2, <1>3, <1>4, <1>5 DEF IInv

LEMMA UserSecretsInv ==
    ASSUME IInv, NEW n \in Names,
           UserRemoves(n) \/ \E k \in Keys : UserSecret(n, k) \/ UserEntry(n, k)
    PROVE  IInv'
<1>1. BudgetType' /\ budget'.user <= budget.user
  <2>1. Spend("user") /\ BudgetType
    BY Zenon DEF UserRemoves, UserSecret, UserEntry, IInv
  <2>2. BudgetType' /\ budget'.user = budget.user - 1
    BY <2>1, SpendType
  <2>3. budget.user \in Nat
    BY <2>1 DEF BudgetType
  <2> QED
    BY <2>2, <2>3
<1>2. CASE UserRemoves(n)
  BY <1>1, <1>2, BehindInv DEF UserRemoves
<1>3. ASSUME NEW k \in Keys, UserSecret(n, k)
      PROVE  IInv'
  <2> DEFINE s == [owner |-> 0, data |-> [x \in Keys |-> IF x = k THEN Mine ELSE None]]
  <2>1. s \in Secret
    BY OutputAssumption DEF Secret
  <2>2. StoreBehind(n, s)
    BY Zenon, <1>3 DEF UserSecret
  <2> HIDE DEF s
  <2> QED
    BY <1>1, <2>1, <2>2, BehindInv
<1>4. ASSUME NEW k \in Keys, UserEntry(n, k)
      PROVE  IInv'
  <2> DEFINE s == [secrets[n] EXCEPT !.data[k] = Mine]
  <2>1. secrets[n] \in Secret
    BY <1>4 DEF UserEntry, IInv, KubeType
  <2>2. [secrets[n].data EXCEPT ![k] = Mine] \in [Keys -> {None, Mine} \cup Values]
    BY <2>1 DEF Secret
  <2>3. s \in Secret
    BY <2>1, <2>2 DEF Secret
  <2>4. StoreBehind(n, s)
    BY <1>4 DEF UserEntry
  <2> HIDE DEF s
  <2> QED
    BY <1>1, <2>3, <2>4, BehindInv
<1> QED
  BY <1>2, <1>3, <1>4

LEMMA UserClientInv ==
    ASSUME IInv, UserRecreate \/ \E out \in {None} \cup Outs : UserOut(out)
    PROVE  IInv'
<1>1. BudgetType' /\ budget'.user = budget.user - 1 /\ budget.user \in Nat
      /\ budget.user > 0 /\ cr.uid \in Nat /\ cr.uid > 0
  BY SpendType, OutputAssumption
  DEF UserRecreate, UserOut, Spend, IInv, BudgetType, KubeType, ClientType
<1>2. UNCHANGED <<secrets, seen, fresh, value, pc, copy>>
  BY DEF UserRecreate, UserOut
<1>3. PassType' /\ CopyCurrent'
  BY <1>2 DEF IInv, PassType, CopyCurrent, copy
<1>4. ASSUME NEW out \in {None} \cup Outs, UserOut(out)
      PROVE  KubeType' /\ Working'
  <2>1. cr' \in ClientType /\ cr'.uid = cr.uid /\ crSeen' = crSeen
    BY <1>4 DEF UserOut, IInv, KubeType, ClientType
  <2>2. KubeType'
    BY <1>2, <2>1 DEF IInv, KubeType
  <2>3. Working'
    BY <1>1, <1>2, <2>1, OutputAssumption DEF IInv, Working, copy
  <2> QED
    BY <2>2, <2>3
<1>5. ASSUME UserRecreate
      PROVE  KubeType' /\ Working'
  <2>1. cr.uid + 1 \in 1..(MaxUser + 1)
    BY <1>1, OutputAssumption DEF IInv, Working
  <2>2. cr' \in ClientType /\ cr'.uid = cr.uid + 1 /\ crSeen' = cr' /\ pc = "idle"
    BY Zenon, <1>5, <2>1 DEF UserRecreate, IInv, KubeType, ClientType
  <2>3. KubeType'
    BY <1>2, <2>2 DEF IInv, KubeType
  <2>4. Working'
    BY <1>1, <1>2, <2>2, OutputAssumption DEF IInv, Working, copy
  <2> QED
    BY <2>3, <2>4
<1>6. KubeType' /\ Working'
  BY <1>4, <1>5
<1> QED
  BY <1>1, <1>3, <1>6 DEF IInv

LEMMA QuietInv ==
    ASSUME IInv, \/ DeliverClient \/ UNCHANGED vars
                 \/ \E n \in Names : DeliverSecret(n)
                 \/ \E v \in Values : Rotate(v)
    PROVE  IInv'
<1>1. UNCHANGED <<cr, secrets, pc, copy>>
  BY DEF DeliverClient, DeliverSecret, Rotate, vars, kube
<1>2. BudgetType' /\ budget'.user = budget.user
  BY SpendType DEF DeliverClient, DeliverSecret, Rotate, vars, IInv, BudgetType
<1>3. value' \in Values
  BY DEF DeliverClient, DeliverSecret, Rotate, vars, IInv, PassType
<1>4. KubeType' /\ crSeen'.uid = cr.uid
  <2>1. CASE DeliverClient
    BY <2>1 DEF DeliverClient, IInv, KubeType, Working
  <2>2. ASSUME NEW n \in Names, DeliverSecret(n)
        PROVE  KubeType' /\ crSeen'.uid = cr.uid
    BY <2>2 DEF DeliverSecret, IInv, KubeType, Working
  <2>3. CASE UNCHANGED kube
    BY <2>3 DEF kube, IInv, KubeType, Working
  <2> QED
    BY <2>1, <2>2, <2>3 DEF Rotate, vars
<1>5. PassType' /\ CopyCurrent'
  BY <1>1, <1>3 DEF IInv, PassType, CopyCurrent, copy
<1>6. Working'
  BY <1>1, <1>2, <1>4 DEF IInv, Working, copy
<1> QED
  BY <1>2, <1>4, <1>5, <1>6 DEF IInv

LEMMA CollectInv ==
    ASSUME IInv, NEW n \in Names, Collect(n)
    PROVE  IInv'
<1>1. BudgetType' /\ budget'.user <= budget.user
  BY OutputAssumption DEF Collect, IInv, BudgetType
<1> QED
  BY <1>1, BehindInv DEF Collect

-----------------------------------------------------------------------------
LEMMA InitInv == Init => IInv
<1> SUFFICES ASSUME Init
             PROVE  IInv
  OBVIOUS
<1>1. cr \in ClientType /\ crSeen = cr /\ cr.uid = 1
  <2> DEFINE o == CHOOSE p \in Outs : TRUE
  <2>1. o \in Outs
    <3>1. PICK n \in Names, k \in Keys : TRUE
      BY OutputAssumption
    <3>2. [name |-> n, key |-> k] \in Outs
      BY DEF Outs
    <3> QED
      BY <3>2
  <2>2. cr \in [uid: {1}, out: {None, o}, reported: {None}]
    BY DEF Init
  <2> HIDE DEF o
  <2>3. 1 \in 1..(MaxUser + 1)
    BY OutputAssumption
  <2>4. crSeen = cr
    BY DEF Init
  <2> QED
    BY <2>1, <2>2, <2>3, <2>4 DEF ClientType
<1>2. KubeType
  BY <1>1 DEF Init, KubeType
<1>3. value \in Values
  <2> DEFINE v == CHOOSE w \in Values : TRUE
  <2>1. v \in Values
    BY OutputAssumption
  <2> QED
    BY <2>1 DEF Init
<1>4. PassType /\ CopyCurrent
  BY Zenon, <1>3 DEF Init, PassType, CopyCurrent
<1>5. BudgetType /\ Working
  BY <1>1, OutputAssumption DEF Init, BudgetType, Working
<1> QED
  BY <1>2, <1>4, <1>5 DEF IInv

LEMMA NextInv == IInv /\ [Next]_vars => IInv'
<1> SUFFICES ASSUME IInv, [Next]_vars
             PROVE  IInv'
  OBVIOUS
<1>1. CASE Ensure
  BY <1>1, StartInv, FetchInv, EnsureReadInv, EnsureWriteInv, ReportInv DEF Ensure
<1>2. CASE User
  BY <1>2, UserSecretsInv, UserClientInv DEF User
<1> QED
  BY <1>1, <1>2, QuietInv, CollectInv DEF Next

\* For any names, entries, values and bounds, the records of the Client, of the
\* Secrets and of a pass are well formed, and a copy with the current
\* resourceVersion is what it copies (driver_helpers.go).
THEOREM OutputTypes == Spec => []TypeOK
<1>1. IInv => TypeOK
  BY TypeParts DEF IInv
<1> QED
  BY InitInv, NextInv, <1>1, PTL DEF Spec

\* A step at which the operator writes is EnsureWrite, and nothing else.
LEMMA WritesOnly ==
    ASSUME IInv, Next, Writes
    PROVE  /\ EnsureWrite /\ Store(obj.out.name, Written)
           /\ IF got = None THEN secrets[obj.out.name] = None ELSE gotCur
<1>1. EnsureWrite
  BY Zenon DEF Writes, Next, Ensure, Start, Fetch, EnsureRead, ReportName, DeliverClient,
         DeliverSecret, User, UserOut, UserRecreate, UserRemoves, UserSecret,
         UserEntry, StoreBehind, Collect, Rotate
<1> QED
  BY <1>1 DEF EnsureWrite, Writes

\* ensureOutputSecret changes no Secret but its Client's, whatever the cache showed
\* and whoever acted between its read and its write (driver_helpers.go).
THEOREM ForeignUntouched == Spec => ForeignKept
<1> DEFINE A == Writes => \A n \in Names :
                   (secrets[n] # None /\ secrets[n] # secrets'[n])
                       => secrets[n].owner = cr.uid
<1>1. IInv /\ [Next]_vars => [A]_vars
  <2> SUFFICES ASSUME IInv, Next, Writes, NEW n \in Names,
                      secrets[n] # None, secrets[n] # secrets'[n]
               PROVE  secrets[n].owner = cr.uid
    BY DEF Writes, vars, kube
  <2>1. /\ Store(obj.out.name, Written)
        /\ IF got = None THEN secrets[obj.out.name] = None ELSE gotCur
    BY WritesOnly
  <2>2. n = obj.out.name
    BY <2>1 DEF Store, IInv, KubeType
  <2>3. got # None /\ gotCur
    BY <2>1, <2>2
  <2> QED
    BY <2>2, <2>3 DEF IInv, CopyCurrent, Working
<1> QED
  BY InitInv, NextInv, <1>1, PTL DEF Spec, ForeignKept

\* An Update or Create of ensureOutputSecret keeps every entry but the exported one
\* as it is at that moment (driver_helpers.go).
THEOREM OtherEntriesKept == Spec => EntriesKept
<1> DEFINE A == Writes => \A n \in Names, k \in Keys :
                   (secrets[n] # None /\ <<n, k>> # <<obj.out.name, obj.out.key>>)
                       => secrets'[n].data[k] = secrets[n].data[k]
<1>1. IInv /\ [Next]_vars => [A]_vars
  <2> SUFFICES ASSUME IInv, Next, Writes, NEW n \in Names, NEW k \in Keys,
                      secrets[n] # None, <<n, k>> # <<obj.out.name, obj.out.key>>
               PROVE  secrets'[n].data[k] = secrets[n].data[k]
    BY DEF Writes, vars, kube
  <2>1. /\ Store(obj.out.name, Written) /\ pc = "write"
        /\ IF got = None THEN secrets[obj.out.name] = None ELSE gotCur
    BY WritesOnly DEF Writes
  <2>2. CASE n # obj.out.name
    BY <2>1, <2>2 DEF Store, IInv, KubeType
  <2>3. CASE n = obj.out.name
    <3>1. got # None /\ got = secrets[n] /\ got \in Secret /\ k # obj.out.key
      BY <2>1, <2>3 DEF IInv, CopyCurrent, PassType
    <3>2. secrets'[n] = Written
      BY <2>1, <2>3 DEF Store, IInv, KubeType
    <3>3. Written.data = [got.data EXCEPT ![obj.out.key] = fetched]
      BY <3>1 DEF Written, Secret
    <3> QED
      BY <3>1, <3>2, <3>3 DEF Secret
  <2> QED
    BY <2>2, <2>3
<1> QED
  BY InitInv, NextInv, <1>1, PTL DEF Spec, EntriesKept

-----------------------------------------------------------------------------
(* An undisturbed pass, and what it leaves behind *)

\* A step during which nobody interferes and no call fails: a pass, a cache or the
\* garbage collector moves.
Quiet == Next /\ budget' = budget

LEMMA QuietSteps ==
    ASSUME IInv, Quiet
    PROVE  \/ Start
           \/ Fetch /\ fetched' = value /\ pc' = "read" /\ UNCHANGED obj
           \/ EnsureRead
           \/ /\ EnsureWrite
              /\ \/ /\ IF got = None THEN secrets[obj.out.name] = None ELSE gotCur
                    /\ Store(obj.out.name, Written) /\ pc' = "report" /\ UNCHANGED obj
                 \/ /\ ~(IF got = None THEN secrets[obj.out.name] = None ELSE gotCur)
                    /\ UNCHANGED <<secrets, seen, fresh>> /\ pc' = "idle"
           \/ /\ ReportName
              /\ cr' = IF obj.reported = obj.out.name THEN cr
                       ELSE [cr EXCEPT !.reported = obj.out.name]
           \/ DeliverClient
           \/ \E n \in Names : DeliverSecret(n) \/ Collect(n)
<1>1. ASSUME NEW who \in {"user", "server", "fault"}, Spend(who)
      PROVE  FALSE
  <2>1. budget[who] \in Nat /\ budget' = [budget EXCEPT ![who] = @ - 1]
    BY <1>1 DEF Spend, IInv, BudgetType
  <2>2. budget'[who] = budget[who] - 1
    BY <2>1 DEF IInv, BudgetType
  <2> QED
    BY <2>1, <2>2 DEF Quiet
<1>2. ~Spend("user") /\ ~Spend("server") /\ ~Spend("fault")
  BY <1>1
<1>3. ~User /\ \A v \in Values : ~Rotate(v)
  BY Zenon, <1>2 DEF User, UserOut, UserRecreate, UserRemoves, UserSecret, UserEntry, Rotate
<1>4. CASE Ensure
  BY Zenon, <1>2, <1>4 DEF Ensure, Fetch, EnsureWrite, ReportName, End
<1> QED
  BY Zenon, <1>3, <1>4 DEF Quiet, Next

\* The Secret secretOutput names is the Client's and holds the client secret.
Holds ==
    LET s == secrets[cr.out.name]
    IN  s # None /\ s.owner = cr.uid /\ s.data[cr.out.key] = value

\* The name is free, or the Secret under it the Client's.
Ours == LET s == secrets[cr.out.name] IN s # None => s.owner = cr.uid

\* A pass has taken up the Client, its caches show the Client and the Secret as they
\* are, and no foreign Secret has the name.
Begins ==
    /\ pc = "fetch" /\ obj = cr /\ crSeen = cr /\ cr.out # None
    /\ fresh[cr.out.name] /\ Ours

\* The export is done, and said to be.
Done == Holds /\ cr.reported = cr.out.name

\* Where such a pass is on its way there. Later passes may work from caches that lag
\* behind it.
OnItsWay ==
    /\ obj = cr
    /\ \/ pc \in {"fetch", "read"} /\ fresh[cr.out.name] /\ Ours
       \/ pc = "write" /\ got = secrets[cr.out.name] /\ (got # None => gotCur) /\ Ours
       \/ pc = "report" /\ Holds

ExportInv ==
    /\ cr.out \in Outs /\ crSeen.out = cr.out
    /\ pc # "idle" => obj.out = cr.out
    /\ pc \in {"read", "write"} => fetched = value
    /\ Done \/ OnItsWay

\* A step that leaves the Client, the Secret and the pass alone.
LEMMA ExportFrame ==
    ASSUME IInv, ExportInv, UNCHANGED <<cr, value, pc, obj, fetched, got>>,
           crSeen'.out = cr.out, secrets'[cr.out.name] = secrets[cr.out.name],
           fresh[cr.out.name] => fresh'[cr.out.name], gotCur => gotCur'
    PROVE  ExportInv'
<1>1. Holds' = Holds /\ Ours' = Ours /\ Done' = Done
  BY Zenon DEF Holds, Ours, Done
<1>2. OnItsWay => OnItsWay'
  BY Zenon, <1>1 DEF OnItsWay
<1> QED
  BY Zenon, <1>1, <1>2 DEF ExportInv

\* What the pass fetched is what the Secret it writes holds.
LEMMA WrittenHolds ==
    ASSUME IInv, pc = "write", obj.out = cr.out
    PROVE  /\ Written \in Secret /\ Written.data[cr.out.key] = fetched
           /\ Written.owner = cr.uid
<1>1. /\ obj.out \in Outs /\ obj.uid = cr.uid /\ obj.out.key \in Keys
      /\ got # None => got \in Secret /\ got.owner = obj.uid
  BY DEF IInv, Working, PassType, Outs
<1>2. CASE got = None
  BY <1>1, <1>2, WrittenType DEF Written
<1>3. CASE got # None
  <2>1. Written = [owner |-> got.owner,
                   data |-> [got.data EXCEPT ![obj.out.key] = fetched]]
    BY <1>1, <1>3 DEF Written, Secret
  <2> QED
    BY <1>1, <1>3, <2>1, WrittenType DEF Secret
<1> QED
  BY <1>2, <1>3

LEMMA ExportPass ==
    ASSUME IInv, ExportInv, NEW n, n = cr.out.name
    PROVE  /\ Start => ExportInv'
           /\ Fetch /\ fetched' = value /\ pc' = "read" /\ UNCHANGED obj => ExportInv'
           /\ EnsureRead => ExportInv'
<1>1. n \in Names /\ cr.out \in Outs /\ crSeen.out = cr.out
  BY DEF ExportInv, Outs
<1>2. ASSUME Start
      PROVE  ExportInv'
  <2>1. /\ pc = "idle" /\ pc' = "fetch" /\ obj' = crSeen
        /\ UNCHANGED <<cr, crSeen, secrets, value>>
    BY <1>2 DEF Start, kube
  <2>2. Done
    BY <2>1 DEF ExportInv, OnItsWay
  <2>3. Done'
    BY Zenon, <2>1, <2>2 DEF Done, Holds
  <2> QED
    BY <1>1, <2>1, <2>3 DEF ExportInv
<1>3. ASSUME Fetch, fetched' = value, pc' = "read", UNCHANGED obj
      PROVE  ExportInv'
  <2>1. pc = "fetch" /\ UNCHANGED <<cr, crSeen, secrets, fresh, value>>
    BY <1>3 DEF Fetch, kube
  <2>2. Done => Done'
    BY Zenon, <2>1 DEF Done, Holds
  <2>3. OnItsWay => OnItsWay'
    BY Zenon, <1>3, <2>1 DEF OnItsWay, Ours
  <2> QED
    BY <1>1, <1>3, <2>1, <2>2, <2>3 DEF ExportInv
<1>4. ASSUME EnsureRead
      PROVE  ExportInv'
  <2>1. pc = "read" /\ UNCHANGED <<cr, crSeen, secrets, fresh, value>>
    BY <1>4 DEF EnsureRead, kube
  <2>2. /\ obj.out = cr.out /\ fetched = value /\ obj.uid = cr.uid
        /\ fresh[n] => seen[n] = secrets[n]
    BY <1>1, <2>1 DEF ExportInv, IInv, Working, KubeType
  <2>3. Done => Done'
    BY Zenon, <2>1 DEF Done, Holds
  <2>4. \/ seen[n] # None /\ ~Owned(seen[n]) /\ pc' = "idle"
        \/ seen[n] # None /\ Owned(seen[n]) /\ UpToDate(seen[n]) /\ pc' = "report"
           /\ UNCHANGED obj
        \/ pc' = "write" /\ got' = seen[n] /\ gotCur' = fresh[n]
           /\ UNCHANGED <<obj, fetched>>
    BY <1>4, <2>2 DEF EnsureRead, End, Current
  <2>5. OnItsWay => OnItsWay'
    <3> SUFFICES ASSUME OnItsWay
                 PROVE  OnItsWay'
      OBVIOUS
    <3>1. obj = cr /\ fresh[n] /\ Ours /\ seen[n] = secrets[n]
      BY <2>1, <2>2 DEF OnItsWay
    <3>2. Ours' /\ (seen[n] # None => Owned(seen[n]))
      BY <2>1, <3>1 DEF Ours, Owned
    <3>3. CASE pc' = "write"
      BY <2>1, <2>4, <3>1, <3>2, <3>3 DEF OnItsWay
    <3>4. CASE seen[n] # None /\ UpToDate(seen[n]) /\ pc' = "report" /\ UNCHANGED obj
      <4>1. Holds'
        BY <2>1, <2>2, <3>1, <3>4 DEF Holds, UpToDate, Ours
      <4> QED
        BY <2>1, <3>1, <3>4, <4>1 DEF OnItsWay
    <3> QED
      BY Zenon, <2>4, <3>2, <3>3, <3>4
  <2>6. /\ pc' # "idle" => obj' = obj
        /\ pc' \in {"read", "write"} => fetched' = fetched
    BY <2>4
  <2> QED
    BY <1>1, <2>1, <2>2, <2>3, <2>5, <2>6 DEF ExportInv
<1> QED
  BY <1>2, <1>3, <1>4

LEMMA ExportWrite ==
    ASSUME IInv, ExportInv, EnsureWrite, NEW n, n = cr.out.name,
           \/ /\ IF got = None THEN secrets[obj.out.name] = None ELSE gotCur
              /\ Store(obj.out.name, Written) /\ pc' = "report" /\ UNCHANGED obj
           \/ /\ ~(IF got = None THEN secrets[obj.out.name] = None ELSE gotCur)
              /\ UNCHANGED <<secrets, seen, fresh>> /\ pc' = "idle"
    PROVE  ExportInv'
<1>1. /\ n \in Names /\ cr.out \in Outs /\ crSeen.out = cr.out /\ pc = "write"
      /\ obj.out = cr.out /\ fetched = value /\ UNCHANGED <<cr, crSeen, value>>
  BY DEF ExportInv, Outs, EnsureWrite
<1>2. CASE Store(n, Written) /\ pc' = "report" /\ UNCHANGED obj
  <2>1. secrets'[n] = Written
    BY <1>1, <1>2 DEF Store, IInv, KubeType
  <2>2. Written # None /\ Written.owner = cr.uid /\ Written.data[cr.out.key] = value
    BY <1>1, WrittenHolds, NoneAssumption
  <2>3. Holds'
    BY <1>1, <2>1, <2>2 DEF Holds
  <2>4. Done' \/ OnItsWay'
    BY <1>1, <1>2, <2>3 DEF ExportInv, Done, OnItsWay
  <2> QED
    BY <1>1, <1>2, <2>4 DEF ExportInv
<1>3. CASE /\ ~(IF got = None THEN secrets[n] = None ELSE gotCur)
           /\ UNCHANGED <<secrets, seen, fresh>> /\ pc' = "idle"
  <2>1. Done
    BY <1>1, <1>3 DEF ExportInv, OnItsWay
  <2>2. Done'
    BY Zenon, <1>1, <1>3, <2>1 DEF Done, Holds
  <2> QED
    BY <1>1, <1>3, <2>2 DEF ExportInv
<1> QED
  BY <1>1, <1>2, <1>3

LEMMA ExportReport ==
    ASSUME IInv, ExportInv, ReportName,
           cr' = IF obj.reported = obj.out.name THEN cr
                 ELSE [cr EXCEPT !.reported = obj.out.name]
    PROVE  ExportInv'
<1>1. /\ pc = "report" /\ pc' = "idle" /\ UNCHANGED <<crSeen, secrets, value>>
      /\ obj.out = cr.out /\ cr.out \in Outs /\ cr \in ClientType
  BY DEF ReportName, End, ExportInv, IInv, KubeType
<1>2. Holds /\ (cr.reported = cr.out.name \/ obj = cr)
  BY <1>1 DEF ExportInv, Done, OnItsWay
<1>3. cr'.uid = cr.uid /\ cr'.out = cr.out /\ cr'.reported = cr.out.name
  BY <1>1, <1>2 DEF ClientType
<1>4. Done'
  BY <1>1, <1>2, <1>3 DEF Done, Holds
<1> QED
  BY <1>1, <1>3, <1>4 DEF ExportInv

\* The caches and the garbage collector: what they touch is not the Client's Secret
\* once it is there, and a pass on its way has read it.
LEMMA ExportAround ==
    ASSUME IInv, ExportInv,
           DeliverClient \/ \E m \in Names : DeliverSecret(m) \/ Collect(m)
    PROVE  ExportInv'
<1> DEFINE n == cr.out.name
<1>1. n \in Names /\ crSeen.out = cr.out /\ (pc # "idle" => obj.out = cr.out)
  BY DEF ExportInv, Outs
<1>2. CASE DeliverClient
  BY <1>1, <1>2, ExportFrame DEF DeliverClient, copy
<1>3. ASSUME NEW m \in Names, DeliverSecret(m)
      PROVE  ExportInv'
  BY <1>1, <1>3, ExportFrame DEF DeliverSecret, copy, IInv, KubeType
<1>4. ASSUME NEW m \in Names, Collect(m)
      PROVE  ExportInv'
  <2>1. /\ secrets[m] # None /\ secrets[m].owner # cr.uid /\ Store(m, None)
        /\ gotCur' = (gotCur /\ obj.out.name # m)
        /\ UNCHANGED <<cr, crSeen, value, pc, obj, fetched, got>>
    BY Zenon, <1>4 DEF Collect, StoreBehind
  <2>2. m # n
    BY <2>1 DEF ExportInv, Done, OnItsWay, Holds, Ours
  <2>3. secrets'[n] = secrets[n] /\ fresh'[n] = fresh[n]
    BY Zenon, <1>1, <2>1, <2>2 DEF Store, IInv, KubeType
  <2>4. gotCur => gotCur'
    BY Zenon, <1>1, <2>1, <2>2 DEF IInv, Working
  <2> QED
    BY <1>1, <2>1, <2>3, <2>4, ExportFrame
<1> QED
  BY <1>2, <1>3, <1>4

LEMMA ExportStep == IInv /\ ExportInv /\ [Quiet]_vars => ExportInv'
<1> SUFFICES ASSUME IInv, ExportInv, [Quiet]_vars
             PROVE  ExportInv'
  OBVIOUS
<1>1. CASE UNCHANGED vars
  BY <1>1, ExportFrame DEF vars, kube, copy, ExportInv
<1>2. CASE Quiet
  BY Zenon, <1>2, QuietSteps, ExportPass, ExportWrite, ExportReport, ExportAround
<1> QED
  BY <1>1, <1>2

\* A pass that starts from current caches, with no foreign Secret under the name, and
\* that nobody disturbs, leaves the client secret in the Client's own Secret and its
\* name in status.secretName. The passes after it, though their caches may not show
\* this yet, undo none of it (driver_client.go PostApply, driver_helpers.go
\* ensureOutputSecret).
THEOREM OnePassExports ==
    IInv /\ Begins /\ [][Quiet]_vars => [](pc = "idle" => Done)
<1>1. IInv /\ Begins => ExportInv
  BY DEF IInv, KubeType, ClientType, Begins, ExportInv, OnItsWay
<1>2. IInv /\ [Quiet]_vars => IInv'
  BY NextInv DEF Quiet
<1>3. ExportInv => (pc = "idle" => Done)
  BY DEF ExportInv, OnItsWay
<1> QED
  BY <1>1, <1>2, <1>3, ExportStep, PTL

\* An export in place stays in place, and nothing is written, however many passes
\* follow (driver_helpers.go ensureOutputSecret).
THEOREM ExportIsKept == Spec => InPlaceKept
<1> DEFINE A == InPlace /\ budget' = budget
                   => /\ InPlace' /\ cr' = cr /\ value' = value
                      /\ secrets'[cr.out.name] = secrets[cr.out.name]
<1>1. IInv /\ [Next]_vars => [A]_vars
  <2> SUFFICES ASSUME IInv, Quiet, InPlace
               PROVE  /\ InPlace' /\ cr' = cr /\ value' = value
                      /\ secrets'[cr.out.name] = secrets[cr.out.name]
    BY DEF Quiet
  <2> DEFINE n == cr.out.name
             Kept == UNCHANGED <<cr, value, crSeen>> /\ secrets'[n] = secrets[n] /\ fresh'[n]
             Moves == /\ pc' # "write" /\ (pc' # "idle" => obj' = cr)
                      /\ (pc' = "read" => fetched' = value)
  <2>1. n \in Names /\ crSeen = cr /\ fresh[n] /\ seen[n] = secrets[n] /\ cr \in ClientType
    BY DEF InPlace, IInv, KubeType, ClientType, Outs
  <2>2. Kept /\ Moves => InPlace'
    BY DEF InPlace
  <2>3. ASSUME Start
        PROVE  Kept /\ Moves
    BY <2>1, <2>3 DEF Start, kube
  <2>4. ASSUME Fetch, fetched' = value, pc' = "read", UNCHANGED obj
        PROVE  Kept /\ Moves
    BY <2>1, <2>4 DEF Fetch, kube, InPlace
  <2>5. ASSUME EnsureRead
        PROVE  Kept /\ Moves
    <3>1. pc = "read" /\ obj = cr /\ Owned(seen[n]) /\ UpToDate(seen[n]) /\ seen[n] # None
      BY <2>1, <2>5 DEF EnsureRead, InPlace, Owned, UpToDate
    <3> QED
      BY Zenon, <2>1, <2>5, <3>1 DEF EnsureRead, kube
  <2>6. ASSUME ReportName,
               cr' = IF obj.reported = obj.out.name THEN cr
                     ELSE [cr EXCEPT !.reported = obj.out.name]
        PROVE  Kept /\ Moves
    BY <2>1, <2>6 DEF ReportName, InPlace, End
  <2>7. ASSUME NEW m \in Names, DeliverSecret(m) \/ Collect(m)
        PROVE  Kept /\ Moves
    BY <2>1, <2>7 DEF DeliverSecret, Collect, StoreBehind, Store, InPlace, copy, IInv, KubeType
  <2>8. ~EnsureWrite /\ ~DeliverClient
    BY <2>1 DEF EnsureWrite, DeliverClient, InPlace
  <2>9. Kept /\ Moves
    BY Zenon, <2>3, <2>4, <2>5, <2>6, <2>7, <2>8, QuietSteps
  <2> QED
    BY <2>2, <2>9
<1> QED
  BY InitInv, NextInv, <1>1, PTL DEF Spec, InPlaceKept
=============================================================================
