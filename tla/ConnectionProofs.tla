-------------------------- MODULE ConnectionProofs --------------------------
(***************************************************************************)
(* For any number of reconcilers, credentials and events: Provider.For     *)
(* hands out clients of what its caller has read, and of nothing else; one *)
(* undisturbed pass of the controller tells the truth, a true report is    *)
(* kept, and another pass is always to come.                               *)
(***************************************************************************)
EXTENDS Connection, TLAPS

\* The provers tried on a step that names none, in this order.
USE SMT, Zenon, SMTT(20), Z3T(20), SMTT(60)

\* What a call of For has in hand where it stands.
Progress ==
    /\ \A w \in Callers :
          /\ pc[w] \in {"lookup", "insert"} => readSecret[w] # None
          /\ pc[w] = "insert" => readSecret[w].cred # None
          /\ client[w] # None => pc[w] \in {"returned", "token", "info", "patch"}
          /\ pc[w] \in {"token", "info"} => client[w] # None
    /\ pc[Ctl] # "idle" => obj # None

\* A copy of the Secret, or a client, fits the history h of the Secret: it is not
\* newer than the Secret, and has the credentials of its version.
SecretFits(h, s) == s # None => s.ver <= secretVer /\ s.cred = h[s.ver]
ClientFits(h, c) == c # None => c.secret <= secretVer /\ c.cred = h[c.secret]

Fits(h) ==
    /\ SecretFits(h, secret) /\ SecretFits(h, secretSeen) /\ ClientFits(h, byName)
    /\ \A w \in Callers : SecretFits(h, readSecret[w]) /\ ClientFits(h, client[w])

\* There is one history that everything fits: a resourceVersion determines the
\* credentials, however old the copy.
OneHistory == \E h \in [Nat -> Creds \cup {None}] : Fits(h)

IInv == TypeOK /\ Progress /\ OneHistory /\ ClientMatchesRead

-----------------------------------------------------------------------------
(* Calls of Provider.For *)

\* What a step of a call leaves alone, and what it needs of the rest.
CallFrame(w) ==
    /\ UNCHANGED <<kube, seen, account, obj, queue>>
    /\ gauge' \in {"absent", "up", "down"} /\ events' \in Nat
    /\ pc' = [pc EXCEPT ![w] = pc'[w]] /\ pc'[w] \in PCs \ {"idle"} /\ pc[w] # "idle"
    /\ readConn' = [readConn EXCEPT ![w] = readConn'[w]] /\ readConn'[w] \in Nat
    /\ readSecret' = [readSecret EXCEPT ![w] = readSecret'[w]]
    /\ readSecret'[w] \in Secret \cup {None}
    /\ client' = [client EXCEPT ![w] = client'[w]] /\ client'[w] \in Client \cup {None}
    /\ byName' \in Client \cup {None} /\ tokens' \in SUBSET Client
    /\ verdict' \in Reasons

\* What the step has to establish for its own caller.
CallOK(w) ==
    /\ pc'[w] \in {"lookup", "insert"} => readSecret'[w] # None
    /\ pc'[w] = "insert" => readSecret'[w].cred # None
    /\ pc'[w] \in {"token", "info"} => client'[w] # None
    /\ client'[w] # None =>
          /\ pc'[w] \in {"returned", "token", "info", "patch"}
          /\ client'[w].conn = readConn'[w] /\ readSecret'[w] # None
          /\ client'[w].secret = readSecret'[w].ver
          /\ client'[w].cred = readSecret'[w].cred

\* Copies of copies fit the history as well.
CallFits(w) ==
    \A h \in [Nat -> Creds \cup {None}] :
        Fits(h) => SecretFits(h, readSecret'[w]) /\ ClientFits(h, client'[w])
                   /\ ClientFits(h, byName')

LEMMA CallInv ==
    ASSUME IInv, NEW w \in Callers, CallFrame(w), CallOK(w), CallFits(w)
    PROVE  IInv'
<1>1. TypeOK'
  BY DEF IInv, TypeOK, CallFrame, kube, seen, queue
<1>2. \A v \in Callers : v # w =>
        pc'[v] = pc[v] /\ readConn'[v] = readConn[v] /\ readSecret'[v] = readSecret[v]
        /\ client'[v] = client[v]
  BY DEF IInv, TypeOK, CallFrame
<1>3. Progress'
  <2>1. ASSUME NEW v \in Callers
        PROVE  /\ pc'[v] \in {"lookup", "insert"} => readSecret'[v] # None
               /\ pc'[v] = "insert" => readSecret'[v].cred # None
               /\ client'[v] # None => pc'[v] \in {"returned", "token", "info", "patch"}
               /\ pc'[v] \in {"token", "info"} => client'[v] # None
    <3>1. CASE v = w
      BY <3>1 DEF CallOK
    <3>2. CASE v # w
      BY <1>2, <3>2 DEF IInv, Progress
    <3> QED
      BY <3>1, <3>2
  <2>2. pc'[Ctl] # "idle" => obj' # None
    BY <1>2 DEF IInv, Progress, CallFrame, Callers
  <2> QED
    BY <2>1, <2>2 DEF Progress
<1>4. ClientMatchesRead'
  BY <1>2 DEF IInv, ClientMatchesRead, CallOK
<1>5. OneHistory'
  <2>1. PICK h \in [Nat -> Creds \cup {None}] : Fits(h)
    BY DEF IInv, OneHistory
  <2>2. SecretFits(h, readSecret'[w]) /\ ClientFits(h, client'[w])
        /\ ClientFits(h, byName')
    BY <2>1 DEF CallFits
  <2>3. UNCHANGED <<secretVer, secret, secretSeen>>
    BY DEF CallFrame, kube, seen
  <2>4. Fits(h)'
    BY <1>2, <2>1, <2>2, <2>3 DEF Fits, SecretFits, ClientFits
  <2> QED
    BY <2>4 DEF OneHistory
<1> QED
  BY <1>1, <1>3, <1>4, <1>5 DEF IInv

\* For returns c, or an error.
LEMMA ReturnedFrame ==
    ASSUME TypeOK, NEW w \in Callers, NEW c \in Client \cup {None}, Returned(w, c)
    PROVE  /\ pc' = [pc EXCEPT ![w] = pc'[w]]
           /\ pc'[w] \in {"returned", "token", "patch"}
           /\ pc'[w] = "token" => c # None
           /\ client' = [client EXCEPT ![w] = c] /\ client'[w] = c
           /\ verdict' \in Reasons
  BY DEF TypeOK, Returned, Reasons

LEMMA CollectType ==
    ASSUME TypeOK, Collect
    PROVE  tokens' \in SUBSET Client
  BY DEF TypeOK, Collect

LEMMA ReadConnInv ==
    ASSUME IInv, NEW w \in Callers, ReadConn(w)
    PROVE  IInv'
<1> USE DEF PCs
<1>1. TypeOK /\ client[w] = None /\ pc[w] = "conn"
  BY DEF IInv, Progress, ReadConn
<1>2. /\ UNCHANGED <<kube, seen, account, readSecret, obj, queue, gauge, events>>
      /\ tokens' \in SUBSET Client
  BY <1>1, CollectType DEF ReadConn
<1>3. CASE connSeen = None
  <2>1. Returned(w, None) /\ byName' = None /\ UNCHANGED readConn
    BY <1>3 DEF ReadConn
  <2>2. CallFrame(w) /\ CallOK(w) /\ client'[w] = None
    BY <1>1, <1>2, <2>1, ReturnedFrame DEF CallFrame, CallOK, TypeOK
  <2>3. CallFits(w)
    BY <1>1, <1>2, <2>1, <2>2 DEF CallFits, Fits, SecretFits, ClientFits
  <2> QED
    BY <2>2, <2>3, CallInv
<1>4. CASE connSeen # None
  <2>1. /\ readConn' = [readConn EXCEPT ![w] = connSeen.ver] /\ connSeen.ver \in Nat
        /\ pc' = [pc EXCEPT ![w] = "secret"] /\ UNCHANGED <<client, byName, verdict>>
    BY <1>1, <1>4 DEF ReadConn, TypeOK, Conn
  <2>2. CallFrame(w) /\ CallOK(w)
    BY <1>1, <1>2, <2>1 DEF CallFrame, CallOK, TypeOK
  <2>3. CallFits(w)
    BY <1>2, <2>1 DEF CallFits, Fits
  <2> QED
    BY <2>2, <2>3, CallInv
<1> QED
  BY <1>3, <1>4

LEMMA ReadSecretInv ==
    ASSUME IInv, NEW w \in Callers, ReadSecret(w)
    PROVE  IInv'
<1> USE DEF PCs
<1>1. TypeOK /\ client[w] = None /\ pc[w] = "secret"
  BY DEF IInv, Progress, ReadSecret
<1>2. /\ UNCHANGED <<kube, seen, account, byName, tokens, readConn, obj, queue, gauge,
                     events>>
      /\ readSecret' = [readSecret EXCEPT ![w] = secretSeen]
      /\ readSecret'[w] = secretSeen
  BY <1>1 DEF ReadSecret, TypeOK, clients
<1>3. CallFrame(w) /\ CallOK(w) /\ client'[w] = None
  <2>1. CASE secretSeen = None
    <3>1. Returned(w, None)
      BY <2>1 DEF ReadSecret
    <3> QED
      BY <1>1, <1>2, <3>1, ReturnedFrame DEF CallFrame, CallOK, TypeOK
  <2>2. CASE secretSeen # None
    <3>1. pc' = [pc EXCEPT ![w] = "lookup"] /\ UNCHANGED <<client, verdict>>
      BY <2>2 DEF ReadSecret
    <3> QED
      BY <1>1, <1>2, <2>2, <3>1 DEF CallFrame, CallOK, TypeOK
  <2> QED
    BY <2>1, <2>2
<1>4. CallFits(w)
  BY <1>2, <1>3 DEF CallFits, Fits, ClientFits
<1> QED
  BY <1>3, <1>4, CallInv

\* The only place where two histories could meet: the cached client was built from
\* somebody else's copy of the same version.
LEMMA LookupInv ==
    ASSUME IInv, NEW w \in Callers, Lookup(w)
    PROVE  IInv'
<1> USE DEF PCs
<1>1. /\ TypeOK /\ client[w] = None /\ pc[w] = "lookup" /\ readSecret[w] # None
      /\ readSecret[w] \in Secret
  BY DEF IInv, Progress, Lookup, TypeOK
<1>2. UNCHANGED <<kube, seen, account, byName, tokens, readConn, readSecret, obj, queue,
                  gauge, events>>
  BY DEF Lookup, clients
<1>3. CASE byName # None /\ byName.conn = readConn[w] /\ byName.secret = readSecret[w].ver
  <2>1. Returned(w, byName)
    BY <1>3 DEF Lookup
  <2>2. client'[w] = byName /\ CallFrame(w)
    BY <1>1, <1>2, <2>1, ReturnedFrame DEF CallFrame, TypeOK
  <2>3. byName.cred = readSecret[w].cred
    BY <1>1, <1>3 DEF IInv, OneHistory, Fits, SecretFits, ClientFits
  <2>4. CallOK(w)
    BY <1>1, <1>2, <1>3, <2>1, <2>2, <2>3, ReturnedFrame DEF CallOK, TypeOK
  <2>5. CallFits(w)
    BY <1>2, <2>2 DEF CallFits, Fits
  <2> QED
    BY <2>2, <2>4, <2>5, CallInv
<1>4. CASE /\ ~(byName # None /\ byName.conn = readConn[w]
                /\ byName.secret = readSecret[w].ver)
           /\ readSecret[w].cred = None
  <2>1. Returned(w, None)
    BY <1>4 DEF Lookup
  <2>2. CallFrame(w) /\ CallOK(w) /\ client'[w] = None
    BY <1>1, <1>2, <2>1, ReturnedFrame DEF CallFrame, CallOK, TypeOK
  <2>3. CallFits(w)
    BY <1>2, <2>2 DEF CallFits, Fits, ClientFits
  <2> QED
    BY <2>2, <2>3, CallInv
<1>5. CASE /\ ~(byName # None /\ byName.conn = readConn[w]
                /\ byName.secret = readSecret[w].ver)
           /\ readSecret[w].cred # None
  <2>1. pc' = [pc EXCEPT ![w] = "insert"] /\ UNCHANGED <<client, verdict>>
    BY <1>5 DEF Lookup
  <2>2. CallFrame(w) /\ CallOK(w)
    BY <1>1, <1>2, <1>5, <2>1 DEF CallFrame, CallOK, TypeOK
  <2>3. CallFits(w)
    BY <1>2, <2>1 DEF CallFits, Fits
  <2> QED
    BY <2>2, <2>3, CallInv
<1> QED
  BY <1>3, <1>4, <1>5

LEMMA InsertInv ==
    ASSUME IInv, NEW w \in Callers, Insert(w)
    PROVE  IInv'
<1> USE DEF PCs
<1> DEFINE free == Ids \ {d.id : d \in Live}
           i == CHOOSE j \in free : TRUE
           c == [id |-> i, conn |-> readConn[w], secret |-> readSecret[w].ver,
                 cred |-> readSecret[w].cred]
<1>1. /\ TypeOK /\ pc[w] = "insert" /\ readSecret[w] \in Secret
      /\ readSecret[w] # None /\ readSecret[w].cred # None
  BY DEF IInv, Progress, Insert, TypeOK
<1>2. /\ byName' = c /\ Returned(w, c)
      /\ tokens' \in SUBSET Client /\ i \in Ids
      /\ UNCHANGED <<kube, seen, account, readConn, readSecret, obj, queue, gauge,
                     events>>
  BY <1>1 DEF Insert, TypeOK
<1> HIDE DEF i
<1>3. c \in Client
  BY <1>1, <1>2 DEF TypeOK, Client, Secret
<1>4. /\ CallFrame(w) /\ client'[w] = c /\ pc'[w] \in {"returned", "token", "patch"}
      /\ pc'[w] = "token" => c # None
  BY Zenon, <1>1, <1>2, <1>3, ReturnedFrame DEF CallFrame, TypeOK
<1>5. CallOK(w)
  BY <1>1, <1>2, <1>4 DEF CallOK
<1>6. CallFits(w)
  BY <1>1, <1>2, <1>4 DEF CallFits, Fits, SecretFits, ClientFits
<1> QED
  BY <1>4, <1>5, <1>6, CallInv

\* The pass of a reconciler ends, and the controller's goes on: the same shape.
LEMMA ReleaseInv ==
    ASSUME IInv, NEW w \in Callers, Release(w)
    PROVE  IInv'
<1>1. TypeOK
  BY DEF IInv
<1>2. CallFrame(w) /\ CallOK(w) /\ client'[w] = None /\ readSecret'[w] = None
      /\ UNCHANGED byName
  BY <1>1, CollectType DEF Release, Forget, CallFrame, CallOK, TypeOK, PCs, ctl
<1>3. CallFits(w)
  BY <1>2 DEF CallFits, Fits, SecretFits, ClientFits
<1> QED
  BY <1>2, <1>3, CallInv

LEMMA EventCount ==
    ASSUME TypeOK, Event
    PROVE  events' \in Nat
  BY DEF TypeOK, Event

LEMMA ValidateInv ==
    ASSUME IInv, Token \/ ServerInfo
    PROVE  IInv'
<1>1. TypeOK /\ Ctl \in Callers
  BY DEF IInv, Callers
<1>2. /\ pc' = [pc EXCEPT ![Ctl] = pc'[Ctl]] /\ pc'[Ctl] \in {"info", "patch"}
      /\ pc[Ctl] \in {"token", "info"} /\ verdict' \in Reasons
      /\ gauge' \in {"absent", "up", "down"}
  BY <1>1 DEF Token, ServerInfo, TypeOK, Reasons
<1>3. events' \in Nat
  BY <1>1, EventCount DEF Token, ServerInfo, TypeOK
<1>4. /\ UNCHANGED <<kube, seen, account, byName, readConn, readSecret, client, obj, queue>>
      /\ tokens' \in SUBSET Client
  <2>1. client[Ctl] \in Client
    BY <1>1 DEF IInv, Progress, TypeOK, Token, ServerInfo
  <2> QED
    BY <1>1, <2>1 DEF Token, ServerInfo, TypeOK
<1>5. CallFrame(Ctl)
  BY <1>1, <1>2, <1>3, <1>4 DEF CallFrame, TypeOK, PCs
<1>6. CallOK(Ctl)
  BY <1>1, <1>2, <1>4 DEF CallOK, IInv, Progress, ClientMatchesRead
<1>7. CallFits(Ctl)
  BY <1>1, <1>4 DEF CallFits, Fits
<1> QED
  BY <1>1, <1>5, <1>6, <1>7, CallInv

-----------------------------------------------------------------------------
(* The other steps *)

\* Steps that write no Secret copy what is there, or drop copies.
Copies ==
    /\ secretVer' = secretVer /\ secret' \in {secret, None}
    /\ secretSeen' \in {secretSeen, secret} /\ byName' \in {byName, None}
    /\ \A w \in Callers :
          readSecret'[w] \in {readSecret[w], None} /\ client'[w] \in {client[w], None}

LEMMA CopiesFit ==
    ASSUME OneHistory, Copies
    PROVE  OneHistory'
<1>1. PICK h \in [Nat -> Creds \cup {None}] : Fits(h)
  BY DEF OneHistory
<1>2. Fits(h)'
  <2>1. SecretFits(h, secret)' /\ SecretFits(h, secretSeen)' /\ ClientFits(h, byName)'
    BY <1>1 DEF Copies, Fits, SecretFits, ClientFits
  <2>2. ASSUME NEW w \in Callers
        PROVE  SecretFits(h, readSecret[w])' /\ ClientFits(h, client[w])'
    BY <1>1 DEF Copies, Fits, SecretFits, ClientFits
  <2> QED
    BY <2>1, <2>2 DEF Fits
<1> QED
  BY <1>2 DEF OneHistory

LEMMA StartInv ==
    ASSUME IInv, Start
    PROVE  IInv'
<1>1. TypeOK /\ Ctl \in Callers
  BY DEF IInv, Callers
<1>2. /\ pc' = [pc EXCEPT ![Ctl] = pc'[Ctl]] /\ pc'[Ctl] \in {"idle", "conn"}
      /\ pc[Ctl] = "idle"
      /\ pc'[Ctl] # "idle" => obj' # None
      /\ obj' \in Base \cup {None}
  BY <1>1, NoneAssumption DEF Start, TypeOK, Conn, Base
<1>3. UNCHANGED <<kube, seen, account, byName, tokens, readConn, readSecret, client,
                  verdict, timer, gauge, events>> /\ queued' = FALSE
  BY DEF Start, clients
<1>4. TypeOK'
  BY ZenonT(40), <1>1, <1>2, <1>3 DEF TypeOK, PCs, kube, seen
<1>5. Progress'
  <2>1. ASSUME NEW v \in Callers
        PROVE  /\ pc'[v] \in {"lookup", "insert"} => readSecret'[v] # None
               /\ pc'[v] = "insert" => readSecret'[v].cred # None
               /\ client'[v] # None => pc'[v] \in {"returned", "token", "info", "patch"}
               /\ pc'[v] \in {"token", "info"} => client'[v] # None
    <3>1. readSecret'[v] = readSecret[v] /\ client'[v] = client[v]
      BY <1>3
    <3>2. CASE v = Ctl
      BY <1>2, <3>1, <3>2 DEF IInv, Progress
    <3>3. CASE v # Ctl
      <4>1. pc'[v] = pc[v]
        BY <1>1, <1>2, <3>3 DEF TypeOK
      <4> QED
        BY <3>1, <4>1 DEF IInv, Progress
    <3> QED
      BY <3>2, <3>3
  <2> QED
    BY <1>2, <2>1 DEF Progress
<1>6. OneHistory'
  BY <1>3, CopiesFit DEF IInv, Copies, kube, seen
<1>7. ClientMatchesRead'
  BY <1>3 DEF IInv, ClientMatchesRead
<1> QED
  BY <1>4, <1>5, <1>6, <1>7 DEF IInv

LEMMA PatchInv ==
    ASSUME IInv, PatchStatus
    PROVE  IInv'
<1>1. TypeOK /\ Ctl \in Callers /\ pc[Ctl] = "patch" /\ obj # None /\ obj \in Base
  BY DEF IInv, Callers, PatchStatus, Progress, TypeOK
<1>2. /\ pc' = [pc EXCEPT ![Ctl] = "idle"] /\ obj' = None /\ verdict' = "None"
      /\ readConn' = [readConn EXCEPT ![Ctl] = 0]
      /\ readSecret' = [readSecret EXCEPT ![Ctl] = None]
      /\ client' = [client EXCEPT ![Ctl] = None]
      /\ UNCHANGED <<secretVer, secret, seen, account, byName>>
      /\ tokens' \in SUBSET Client
  BY <1>1, CollectType DEF PatchStatus, Forget
<1>3. connVer' \in Nat /\ conn' \in Conn \cup {None}
  <2> DEFINE c == [reason |-> verdict, gen |-> obj.gen]
  <2>1. c \in Cond
    BY <1>1 DEF Cond, Base, TypeOK
  <2>2. ASSUME MergeStatus(c)
        PROVE  connVer' \in Nat /\ conn' \in Conn \cup {None}
    <3> HIDE DEF c
    <3>1. CASE UNCHANGED <<connVer, conn>>
      BY <1>1, <3>1 DEF TypeOK
    <3>2. CASE /\ conn # None /\ connVer' = connVer + 1
               /\ conn' = [conn EXCEPT !.ver = connVer', !.ready = c]
      <4>1. conn \in Conn /\ connVer' \in Nat
        BY <1>1, <3>2 DEF TypeOK
      <4> QED
        BY Zenon, <2>1, <3>2, <4>1 DEF Conn
    <3> QED
      BY <2>2, <3>1, <3>2 DEF MergeStatus
  <2> QED
    BY Zenon, <1>1, <2>2 DEF PatchStatus, TypeOK
<1>4. events' \in Nat /\ queued' \in BOOLEAN /\ timer' \in BOOLEAN
      /\ gauge' \in {"absent", "up", "down"}
  <2>1. events' \in Nat /\ gauge' \in {"absent", "up", "down"}
    BY Zenon, <1>1, EventCount DEF PatchStatus, TypeOK
  <2>2. queued' \in BOOLEAN /\ timer' \in BOOLEAN
    BY Zenon, <1>1 DEF PatchStatus, TypeOK, Requeue
  <2> QED
    BY <2>1, <2>2
<1>5. TypeOK'
  BY <1>1, <1>2, <1>3, <1>4 DEF TypeOK, PCs, Reasons, seen
<1>6. Progress'
  BY <1>1, <1>2 DEF TypeOK, IInv, Progress
<1>7. OneHistory'
  BY <1>1, <1>2, CopiesFit DEF TypeOK, IInv, Copies, seen
<1>8. ClientMatchesRead'
  BY <1>1, <1>2 DEF TypeOK, IInv, ClientMatchesRead
<1> QED
  BY <1>5, <1>6, <1>7, <1>8 DEF IInv

\* A user writes the Secret: the history grows at a version that no copy has.
LEMMA UserSecretInv ==
    ASSUME IInv, UserSecret
    PROVE  IInv'
<1>1. TypeOK /\ events' \in Nat
  BY EventCount DEF IInv, UserSecret
<1>2. UNCHANGED <<connVer, conn, seen, account, byName, tokens, calls, ctl, queue, gauge>>
  BY DEF UserSecret, clients
<1>3. Progress' /\ ClientMatchesRead'
  BY <1>2 DEF IInv, Progress, ClientMatchesRead, calls, ctl
<1>4. ASSUME NEW c \in Creds \cup {None}, secretVer' = secretVer + 1,
             secret' = [ver |-> secretVer', cred |-> c]
      PROVE  TypeOK' /\ OneHistory'
  <2>1. TypeOK'
    BY <1>1, <1>2, <1>4 DEF TypeOK, Secret, seen, calls, ctl, queue
  <2>2. PICK h \in [Nat -> Creds \cup {None}] : Fits(h)
    BY DEF IInv, OneHistory
  <2>3. PICK g \in [Nat -> Creds \cup {None}] :
            g[secretVer + 1] = c /\ \A n \in Nat : n <= secretVer => g[n] = h[n]
    <3> DEFINE k == [h EXCEPT ![secretVer + 1] = c]
    <3>1. k \in [Nat -> Creds \cup {None}] /\ k[secretVer + 1] = c
          /\ \A n \in Nat : n <= secretVer => k[n] = h[n]
      BY <1>1 DEF TypeOK
    <3> HIDE DEF k
    <3> QED
      BY <3>1
  <2>4. SecretFits(g, secret)'
    BY <1>1, <1>4, <2>3 DEF SecretFits, TypeOK
  <2>5. ASSUME NEW s \in Secret \cup {None}, SecretFits(h, s)
        PROVE  s # None => s.ver <= secretVer' /\ s.cred = g[s.ver]
    BY <1>1, <1>4, <2>3, <2>5 DEF SecretFits, TypeOK, Secret
  <2>6. ASSUME NEW d \in Client \cup {None}, ClientFits(h, d)
        PROVE  d # None => d.secret <= secretVer' /\ d.cred = g[d.secret]
    BY <1>1, <1>4, <2>3, <2>6 DEF ClientFits, TypeOK, Client
  <2>7. SecretFits(g, secretSeen)' /\ ClientFits(g, byName)'
    BY <1>1, <1>2, <2>2, <2>5, <2>6 DEF Fits, SecretFits, ClientFits, TypeOK, seen
  <2>8. ASSUME NEW w \in Callers
        PROVE  SecretFits(g, readSecret[w])' /\ ClientFits(g, client[w])'
    BY <1>1, <1>2, <2>2, <2>5, <2>6
       DEF Fits, SecretFits, ClientFits, TypeOK, calls
  <2>9. Fits(g)'
    BY <2>4, <2>7, <2>8 DEF Fits
  <2> QED
    BY <2>1, <2>3, <2>9 DEF OneHistory
<1>5. CASE secret' = None /\ UNCHANGED secretVer
  <2>1. TypeOK'
    BY <1>1, <1>2, <1>5 DEF TypeOK, seen, calls, ctl, queue
  <2>2. OneHistory'
    BY <1>2, <1>5, CopiesFit DEF IInv, Copies, seen, calls
  <2> QED
    BY <1>3, <2>1, <2>2 DEF IInv
<1> QED
  BY <1>3, <1>4, <1>5 DEF UserSecret, IInv

\* The steps that leave the callers alone.
LEMMA QuietInv ==
    ASSUME IInv, DeliverConn \/ DeliverSecret \/ TimerFires \/ UserConn
                 \/ AccountChanges \/ (\E w \in Workers : Use(w))
                 \/ (\E c \in tokens : Lapses(c)) \/ UNCHANGED vars
    PROVE  IInv'
<1>1. TypeOK
  BY DEF IInv
<1>2. UNCHANGED <<byName, calls, ctl, secretVer, secret>>
  BY DEF DeliverConn, DeliverSecret, TimerFires, UserConn, AccountChanges, Use,
         Lapses, vars, kube, clients
<1>3. TypeOK'
  <2>1. CASE DeliverConn
    BY <1>1, <2>1 DEF DeliverConn, TypeOK, kube, calls, ctl, clients
  <2>2. CASE DeliverSecret
    BY <1>1, <2>2 DEF DeliverSecret, TypeOK, kube, calls, ctl, queue, clients
  <2>3. CASE TimerFires
    BY Zenon, <1>1, <2>3 DEF TimerFires, TypeOK, kube, seen, calls, ctl, clients
  <2>4. CASE UserConn
    <3>1. events' \in Nat /\ connVer' \in Nat
      BY <1>1, <2>4, EventCount DEF UserConn, TypeOK
    <3>2. conn' \in Conn \cup {None}
      <4>1. CASE conn' = [ver |-> connVer', gen |-> 1, ready |-> NoCond]
        BY <3>1, <4>1 DEF Conn, NoCond, Cond, Reasons
      <4>2. CASE conn # None /\ conn' = [conn EXCEPT !.ver = connVer', !.gen = @ + 1]
        <5>1. conn \in Conn /\ conn.gen + 1 \in Nat
          BY <1>1, <4>2 DEF TypeOK, Conn
        <5> QED
          BY Zenon, <3>1, <4>2, <5>1 DEF Conn
      <4> QED
        BY <2>4, <4>1, <4>2 DEF UserConn
    <3> QED
      BY <1>1, <2>4, <3>1, <3>2 DEF UserConn, TypeOK, seen, calls, ctl, queue, clients
  <2>5. CASE AccountChanges
    <3>1. events' \in Nat
      BY <1>1, <2>5, EventCount DEF AccountChanges
    <3> QED
      BY <1>1, <2>5, <3>1 DEF AccountChanges, TypeOK, kube, seen, calls, ctl, queue, clients
  <2>6. CASE UNCHANGED vars
    BY Zenon, <1>1, <2>6 DEF vars, TypeOK, kube, seen, calls, ctl, queue, clients
  <2>7. ASSUME NEW c, Lapses(c) \/ \E w \in Workers : Use(w) /\ c = client[w]
        PROVE  TypeOK'
    <3>1. tokens' \in SUBSET Client
      BY <1>1, <2>7 DEF Lapses, Use, TypeOK, Callers
    <3>2. UNCHANGED <<kube, seen, account, byName, calls, ctl, queue, gauge, events>>
      BY <2>7 DEF Lapses, Use
    <3> QED
      BY Zenon, <1>1, <3>1, <3>2 DEF TypeOK, kube, seen, calls, ctl, queue, clients
  <2> QED
    BY <2>1, <2>2, <2>3, <2>4, <2>5, <2>6, <2>7
<1>4. Progress' /\ ClientMatchesRead'
  BY <1>2 DEF IInv, Progress, ClientMatchesRead, calls, ctl
<1>5. secretSeen' \in {secretSeen, secret}
  BY DEF DeliverConn, DeliverSecret, TimerFires, UserConn, AccountChanges, Use,
         Lapses, vars, seen
<1>6. OneHistory'
  BY <1>2, <1>5, CopiesFit DEF IInv, Copies, calls
<1> QED
  BY <1>3, <1>4, <1>6 DEF IInv

LEMMA RestartInv ==
    ASSUME IInv, Restart
    PROVE  IInv'
<1>1. TypeOK /\ events' \in Nat
  BY EventCount DEF IInv, Restart
<1>2. \A w \in Callers : pc'[w] \in {"conn", "idle"} /\ readSecret'[w] = None
                         /\ client'[w] = None
  BY DEF Restart, Idle
<1>3. pc'[Ctl] = "idle"
  BY ConnectionAssumption DEF Restart, Idle, Callers
<1>4. pc' \in [Callers -> PCs] /\ readConn' \in [Callers -> Nat]
  BY DEF Restart, Idle, PCs
<1>5. TypeOK'
  BY ZenonT(40), <1>1, <1>4 DEF Restart, TypeOK, Reasons, kube
<1>6. Progress' /\ ClientMatchesRead'
  BY <1>2, <1>3 DEF Progress, ClientMatchesRead
<1>7. OneHistory'
  BY <1>2, CopiesFit DEF IInv, Copies, Restart, kube
<1> QED
  BY <1>5, <1>6, <1>7 DEF IInv

LEMMA InitInv == Init => IInv
<1> SUFFICES ASSUME Init
             PROVE  IInv
  OBVIOUS
<1> DEFINE c == CHOOSE d \in Creds : TRUE
<1>1. c \in Creds /\ secret = [ver |-> 1, cred |-> c] /\ secretSeen = secret
  BY DEF Init
<1> HIDE DEF c
<1>2. /\ events \in Nat /\ pc \in [Callers -> {"conn", "idle"}] /\ pc[Ctl] = "idle"
      /\ pc \in [Callers -> PCs]
  BY ConnectionAssumption DEF Init, Idle, Callers, PCs
<1>3. secret \in Secret /\ conn \in Conn
  BY <1>1 DEF Init, Secret, Conn, NoCond, Cond, Reasons
<1>4. TypeOK
  BY Zenon, <1>1, <1>2, <1>3 DEF Init, TypeOK, Reasons
<1>5. Progress /\ ClientMatchesRead
  BY <1>2 DEF Init, Progress, ClientMatchesRead
<1>6. OneHistory
  <2> DEFINE h == [n \in Nat |-> c]
  <2>1. h \in [Nat -> Creds \cup {None}] /\ h[1] = c
    BY <1>1
  <2> HIDE DEF h
  <2>2. Fits(h)
    BY <1>1, <2>1 DEF Init, Fits, SecretFits, ClientFits
  <2> QED
    BY <2>1, <2>2 DEF OneHistory
<1> QED
  BY <1>4, <1>5, <1>6 DEF IInv

LEMMA NextInv == IInv /\ [Next]_vars => IInv'
<1> SUFFICES ASSUME IInv, [Next]_vars
             PROVE  IInv'
  OBVIOUS
<1>1. ASSUME NEW w \in Callers, For(w)
      PROVE  IInv'
  BY <1>1, ReadConnInv, ReadSecretInv, LookupInv, InsertInv DEF For, Complete
<1>2. CASE Controller
  BY <1>1, <1>2, StartInv, ValidateInv, PatchInv DEF Controller, Callers
<1>3. CASE \E w \in Workers : For(w) \/ Release(w)
  BY <1>1, <1>3, ReleaseInv DEF Callers
<1>4. CASE DeliverConn \/ DeliverSecret \/ TimerFires \/ UserConn \/ AccountChanges
           \/ (\E w \in Workers : Use(w)) \/ (\E c \in tokens : Lapses(c))
           \/ UNCHANGED vars
  BY <1>4, QuietInv
<1> QED
  BY <1>2, <1>3, <1>4, UserSecretInv, RestartInv DEF Next

\* However many reconcilers share the provider and whatever the caches show, the
\* connection's state is well formed; a cached client has credentials
\* (provider.go:77-136).
THEOREM ConnectionTypes == Spec => []TypeOK
<1>1. IInv => TypeOK
  BY DEF IInv
<1> QED
  BY InitInv, NextInv, <1>1, PTL DEF Spec

\* However many reconcilers share the provider: a client that Provider.For hands
\* out is of the connection version and of the credentials that its caller read,
\* whoever inserted it (provider.go:77-136).
THEOREM ClientOfRead == Spec => []ClientMatchesRead
<1>1. IInv => ClientMatchesRead
  BY DEF IInv
<1> QED
  BY InitInv, NextInv, <1>1, PTL DEF Spec

-----------------------------------------------------------------------------
(* What the controller reports *)

\* The pass of the controller finds the base of its status patch as it is.
BaseCurrent == pc[Ctl] # "idle" /\ obj.ready = conn.ready

\* What a step without an event does to a report.
Reports ==
    /\ UpToDate'
    /\ Told => Told' /\ conn' = conn
    /\ BaseCurrent => Told' \/ BaseCurrent'

LEMMA NoEvent ==
    ASSUME TypeOK, events' = events
    PROVE  ~Event
  BY DEF TypeOK, Event

\* The truth changes only with the connection, the Secret or the account.
LEMMA TruthSame ==
    ASSUME UNCHANGED <<secret, account>>, conn # None, conn' # None
    PROVE  Working' = Working /\ Truth' = Truth
  BY Zenon DEF Working, Truth

\* The cached client, and the one that the controller is about to ask for a token,
\* have none for other credentials than the account's.
TokensTrue ==
    /\ byName \in tokens => byName.cred = account
    /\ pc[Ctl] = "token" /\ client[Ctl] \in tokens => Working

\* A step that is not the controller's.
LEMMA OutsideReports ==
    ASSUME UpToDate, UNCHANGED <<conn, secret, secretSeen, account, obj, verdict, gauge>>,
           connSeen' = connSeen \/ connSeen' = conn,
           pc'[Ctl] = pc[Ctl], readSecret'[Ctl] = readSecret[Ctl],
           client'[Ctl] = client[Ctl], TokensTrue'
    PROVE  Reports
<1>1. conn # None /\ Working' = Working /\ Truth' = Truth
  BY TruthSame DEF UpToDate
<1>2. connSeen' # None /\ connSeen'.gen = conn'.gen
  BY DEF UpToDate
<1>3. UpToDate'
  BY Zenon, <1>1, <1>2 DEF UpToDate, TokensTrue
<1>4. (Told => Told') /\ (BaseCurrent => BaseCurrent')
  BY Zenon, <1>1 DEF Told, BaseCurrent
<1> QED
  BY <1>3, <1>4 DEF Reports

\* A step of the controller before its status patch: what it has to find out.
LEMMA InsideReports ==
    ASSUME UpToDate, UNCHANGED <<conn, secret, connSeen, secretSeen, account, obj>>,
           pc[Ctl] # "idle", pc'[Ctl] # "idle",
           gauge' = gauge \/ (gauge' = "up" /\ Working),
           pc'[Ctl] \in {"lookup", "insert"} => readSecret'[Ctl] = secret,
           pc'[Ctl] \in {"token", "info"} => secret # None /\ client'[Ctl].cred = secret.cred,
           pc'[Ctl] = "info" => Working, TokensTrue',
           pc'[Ctl] = "patch" => verdict' = Truth /\ (Working => gauge' = "up")
    PROVE  Reports
<1>1. conn # None /\ Working' = Working /\ Truth' = Truth
  BY TruthSame DEF UpToDate
<1>2. UpToDate'
  BY <1>1 DEF UpToDate, TokensTrue
<1>3. (Told => Told') /\ (BaseCurrent => BaseCurrent')
  BY Zenon, <1>1 DEF Told, BaseCurrent
<1> QED
  BY <1>2, <1>3 DEF Reports

LEMMA ForReports ==
    ASSUME IInv, UpToDate, For(Ctl)
    PROVE  Reports
<1>1. TypeOK /\ Ctl \in Callers /\ conn # None /\ connSeen # None /\ secretSeen = secret
  BY DEF IInv, Callers, UpToDate
<1>2. CASE ReadConn(Ctl)
  <2>1. /\ pc[Ctl] = "conn" /\ pc'[Ctl] = "secret" /\ readSecret' = readSecret
        /\ UNCHANGED <<conn, secret, connSeen, secretSeen, account, obj, gauge>>
    BY <1>1, <1>2 DEF ReadConn, TypeOK, kube, seen
  <2>2. TokensTrue'
    BY <1>1, <1>2, <2>1 DEF ReadConn, Collect, TokensTrue, UpToDate
  <2> QED
    BY <2>1, <2>2, InsideReports
<1>3. CASE ReadSecret(Ctl)
  <2>1. /\ pc[Ctl] = "secret" /\ readSecret'[Ctl] = secret
        /\ UNCHANGED <<conn, secret, connSeen, secretSeen, account, obj, gauge>>
    BY <1>1, <1>3 DEF ReadSecret, TypeOK, kube, seen
  <2>9. pc'[Ctl] # "token" => TokensTrue'
    BY <1>3, <2>1 DEF ReadSecret, TokensTrue, UpToDate, clients
  <2>2. CASE secret = None
    <3>1. pc'[Ctl] = "patch" /\ verdict' = "ConnectionUnavailable"
      BY <1>1, <1>3, <2>2 DEF ReadSecret, Returned, TypeOK
    <3>2. ~Working /\ Truth = "ConnectionUnavailable"
      BY <2>2 DEF Working, Truth
    <3> QED
      BY <2>1, <2>9, <3>1, <3>2, InsideReports
  <2>3. CASE secret # None
    <3>1. pc'[Ctl] = "lookup"
      BY <1>1, <1>3, <2>3 DEF ReadSecret, TypeOK
    <3> QED
      BY <2>1, <2>9, <3>1, InsideReports
  <2> QED
    BY <2>2, <2>3
<1>4. CASE Lookup(Ctl)
  <2>1. /\ pc[Ctl] = "lookup" /\ readSecret'[Ctl] = secret /\ readSecret[Ctl] = secret
        /\ secret # None /\ secret \in Secret
        /\ UNCHANGED <<conn, secret, connSeen, secretSeen, account, obj, gauge, byName,
                       tokens>>
    BY Zenon, <1>1, <1>4 DEF Lookup, IInv, Progress, UpToDate, TypeOK, kube, seen, clients
  <2>9. pc'[Ctl] # "token" => TokensTrue'
    BY <2>1 DEF TokensTrue, UpToDate
  <2>2. CASE byName # None /\ byName.conn = readConn[Ctl] /\ byName.secret = secret.ver
    <3>1. pc'[Ctl] = "token" /\ client'[Ctl] = byName
      BY Zenon, <1>1, <1>4, <2>1, <2>2 DEF Lookup, Returned, TypeOK
    <3>2. byName.cred = secret.cred
      BY Zenon, <2>1, <2>2 DEF IInv, OneHistory, Fits, SecretFits, ClientFits
    <3>3. TokensTrue'
      BY <1>1, <2>1, <3>1, <3>2 DEF TokensTrue, UpToDate, Working
    <3> QED
      BY <2>1, <3>1, <3>2, <3>3, InsideReports
  <2>3. CASE /\ ~(byName # None /\ byName.conn = readConn[Ctl] /\ byName.secret = secret.ver)
             /\ secret.cred = None
    <3>1. pc'[Ctl] = "patch" /\ verdict' = "ConnectionUnavailable"
      BY <1>1, <1>4, <2>1, <2>3 DEF Lookup, Returned, TypeOK
    <3>2. ~Working /\ Truth = "ConnectionUnavailable"
      BY <1>1, <2>3, ConnectionAssumption DEF Working, Truth, TypeOK
    <3> QED
      BY <2>1, <2>9, <3>1, <3>2, InsideReports
  <2>4. CASE /\ ~(byName # None /\ byName.conn = readConn[Ctl] /\ byName.secret = secret.ver)
             /\ secret.cred # None
    <3>1. pc'[Ctl] = "insert"
      BY Zenon, <1>1, <1>4, <2>1, <2>4 DEF Lookup, TypeOK
    <3> QED
      BY <2>1, <2>9, <3>1, InsideReports
  <2> QED
    BY Zenon, <2>2, <2>3, <2>4
<1>5. CASE Insert(Ctl)
  <2> DEFINE free == Ids \ {d.id : d \in Live}
             i == CHOOSE j \in free : TRUE
             c == [id |-> i, conn |-> readConn[Ctl], secret |-> readSecret[Ctl].ver,
                   cred |-> readSecret[Ctl].cred]
  <2>1. /\ pc[Ctl] = "insert" /\ readSecret[Ctl] = secret /\ secret # None
        /\ secret \in Secret /\ secret.cred # None /\ readConn[Ctl] \in Nat
        /\ UNCHANGED <<conn, secret, connSeen, secretSeen, account, obj, gauge>>
    BY Zenon, <1>1, <1>5 DEF Insert, IInv, Progress, UpToDate, TypeOK, kube, seen
  <2>3. Returned(Ctl, c) /\ byName' = c /\ c \notin tokens' /\ i \in Ids
    BY <1>5 DEF Insert
  <2> HIDE DEF i
  <2>2. c \in Client /\ c # None /\ c.cred = secret.cred
    BY <2>1, <2>3, NoneAssumption DEF Client, Secret
  <2> HIDE DEF c
  <2>4. pc'[Ctl] = "token" /\ client'[Ctl] = c
    BY <1>1, <2>2, <2>3 DEF Returned, TypeOK
  <2>5. TokensTrue'
    BY Zenon, <2>3, <2>4 DEF TokensTrue
  <2> QED
    BY Zenon, <2>1, <2>2, <2>4, <2>5, InsideReports
<1> QED
  BY <1>2, <1>3, <1>4, <1>5 DEF For, Complete

\* Starting, validating, and writing the status.
LEMMA ControllerReports ==
    ASSUME IInv, UpToDate, events' = events, Start \/ Token \/ ServerInfo \/ PatchStatus
    PROVE  Reports
<1>1. TypeOK /\ Ctl \in Callers /\ conn # None /\ connSeen # None /\ ~Event
  BY NoEvent DEF IInv, Callers, UpToDate
<1>2. CASE Start
  <2>1. /\ pc[Ctl] = "idle" /\ pc'[Ctl] = "conn" /\ obj'.gen = connSeen.gen
        /\ UNCHANGED <<conn, secret, connSeen, secretSeen, account, gauge, byName, tokens>>
    BY Zenon, <1>1, <1>2 DEF Start, TypeOK, kube, seen, clients
  <2>2. Working' = Working /\ Truth' = Truth
    BY <1>1, <2>1, TruthSame
  <2>3. UpToDate' /\ (Told => Told') /\ ~BaseCurrent
    BY Zenon, <1>1, <2>1, <2>2 DEF UpToDate, Told, BaseCurrent
  <2> QED
    BY <2>1, <2>3 DEF Reports
<1>3. CASE Token
  <2>1. /\ pc[Ctl] = "token" /\ UNCHANGED <<conn, secret, connSeen, secretSeen, account, obj,
                                            gauge>>
        /\ secret # None /\ client[Ctl].cred = secret.cred /\ client' = client
        /\ client[Ctl] \in tokens => client[Ctl].cred = account
    BY <1>1, <1>3 DEF Token, kube, seen, UpToDate, Working
  <2>4. /\ pc'[Ctl] # "token"
        /\ TokensTrue'
    BY <1>1, <1>3, <2>1 DEF Token, TokensTrue, UpToDate, TypeOK
  <2>2. CASE client[Ctl].cred = account
    <3>1. pc'[Ctl] = "info" /\ Working
      BY Zenon, <1>1, <1>3, <2>1, <2>2 DEF Token, TypeOK, Working
    <3> QED
      BY Zenon, <2>1, <2>4, <3>1, InsideReports
  <2>3. CASE client[Ctl].cred # account
    <3>1. pc'[Ctl] = "patch" /\ verdict' = "ConnectionUnavailable" /\ ~Working
      BY <1>1, <1>3, <2>1, <2>3 DEF Token, TypeOK, Working
    <3>2. Truth = "ConnectionUnavailable"
      BY Zenon, <3>1 DEF Truth
    <3> QED
      BY <2>1, <2>4, <3>1, <3>2, InsideReports
  <2> QED
    BY Zenon, <2>2, <2>3
<1>4. CASE ServerInfo
  <2>1. pc[Ctl] = "info" /\ Working /\ Truth = "Connected" /\ client[Ctl].cred = account
    BY <1>4 DEF ServerInfo, UpToDate, Truth, Working
  <2>2. /\ pc'[Ctl] = "patch" /\ verdict' = "Connected" /\ gauge' = "up"
        /\ UNCHANGED <<conn, secret, connSeen, secretSeen, account, obj>>
    BY <1>1, <1>4, <2>1 DEF ServerInfo, TypeOK, kube, seen
  <2>3. TokensTrue'
    BY <1>1, <1>4, <2>1, <2>2 DEF ServerInfo, TokensTrue, UpToDate
  <2> QED
    BY <2>1, <2>2, <2>3, InsideReports
<1>5. CASE PatchStatus
  <2> DEFINE c == [reason |-> Truth, gen |-> conn.gen]
  <2>1. /\ pc[Ctl] = "patch" /\ pc'[Ctl] = "idle" /\ verdict = Truth /\ obj.gen = conn.gen
        /\ UNCHANGED <<secret, connSeen, secretSeen, account>>
        /\ gauge' = IF verdict \in Up THEN gauge ELSE "down"
        /\ byName' = byName /\ tokens' \subseteq tokens
    BY <1>1, <1>5 DEF PatchStatus, TypeOK, UpToDate, seen, Collect
  <2>2. MergeStatus(c)
    BY Zenon, <1>1, <1>5, <2>1 DEF PatchStatus
  <2>3. Truth \in Reasons /\ (Truth \in Up <=> Working)
    <3>1. CASE Working
      BY <3>1 DEF Truth, Reasons, Up
    <3>2. CASE ~Working
      BY <3>2 DEF Truth, Reasons, Up
    <3> QED
      BY <3>1, <3>2
  <2>4. conn \in Conn /\ conn.gen \in Nat
    BY <1>1 DEF TypeOK, Conn
  <2> HIDE DEF c
  <2>5. \/ conn' = conn /\ (c = obj.ready \/ c = conn.ready)
        \/ /\ conn' = [conn EXCEPT !.ver = connVer + 1, !.ready = c]
           /\ c # obj.ready /\ c # conn.ready
    BY Zenon, <1>1, <2>2 DEF MergeStatus
  <2>6. /\ conn' # None /\ conn'.gen = conn.gen
        /\ (conn' = conn /\ (c = obj.ready \/ c = conn.ready)) \/ conn'.ready = c
    <3>1. CASE conn' = conn /\ (c = obj.ready \/ c = conn.ready)
      BY <1>1, <3>1
    <3>2. CASE conn' = [conn EXCEPT !.ver = connVer + 1, !.ready = c]
      <4>1. c \in Cond
        BY <2>3, <2>4 DEF c, Cond
      <4>2. conn' = [ver |-> connVer + 1, gen |-> conn.gen, ready |-> c]
        BY Zenon, <2>4, <3>2 DEF Conn
      <4>3. conn' \in Conn /\ conn'.gen = conn.gen /\ conn'.ready = c
        BY <1>1, <2>4, <4>1, <4>2 DEF Conn, TypeOK
      <4> QED
        BY <4>3, NoneAssumption
    <3> QED
      BY <2>5, <3>1, <3>2
  <2>7. Working' = Working /\ Truth' = Truth
    BY <1>1, <2>1, <2>6, TruthSame
  <2>8. UpToDate'
    BY <1>1, <2>1, <2>6, <2>7 DEF UpToDate
  <2>9. (gauge' = "up") = Working
    <3>1. gauge' = "up" <=> Working
      BY <2>1, <2>3 DEF UpToDate
    <3>2. Working \in BOOLEAN
      BY DEF Working
    <3> QED
      BY Zenon, <3>1, <3>2
  <2>10. Told => conn' = conn
    BY <2>5 DEF Told, c
  <2>11. Told \/ BaseCurrent => conn'.ready = c
    <3>1. Told => conn.ready = c
      BY DEF Told, c
    <3> QED
      BY <2>6, <3>1 DEF BaseCurrent
  <2>12. conn'.ready = c => Told'
    BY <2>6, <2>7, <2>9 DEF Told, c
  <2> QED
    BY <2>8, <2>10, <2>11, <2>12 DEF Reports
<1> QED
  BY <1>2, <1>3, <1>4, <1>5

LEMMA QuietReports ==
    ASSUME IInv, UpToDate, Next, events' = events
    PROVE  Reports
<1>1. TypeOK /\ ~Event /\ Ctl \in Callers
  BY NoEvent DEF IInv, Callers
<1>2. CASE Controller
  BY <1>2, ForReports, ControllerReports DEF Controller
<1>3. ASSUME NEW w \in Workers, For(w) \/ Release(w)
      PROVE  Reports
  <2>1. w # Ctl /\ w \in Callers
    BY Zenon, ConnectionAssumption DEF Callers
  <2>2. UNCHANGED <<kube, seen, account, obj, gauge>>
    BY <1>3 DEF For, Complete, ReadConn, ReadSecret, Lookup, Insert, Release, ctl
  <2>3. /\ verdict' = verdict /\ pc'[Ctl] = pc[Ctl] /\ readSecret'[Ctl] = readSecret[Ctl]
        /\ client'[Ctl] = client[Ctl]
    <3>1. CASE ReadConn(w)
      BY <1>1, <2>1, <3>1 DEF ReadConn, Returned, TypeOK
    <3>2. CASE ReadSecret(w)
      BY <1>1, <2>1, <3>2 DEF ReadSecret, Returned, TypeOK
    <3>3. CASE Lookup(w)
      BY <1>1, <2>1, <3>3 DEF Lookup, Returned, TypeOK
    <3>4. CASE Insert(w)
      BY <1>1, <2>1, <3>4 DEF Insert, Returned, TypeOK
    <3>5. CASE Release(w)
      BY <1>1, <2>1, <3>5 DEF Release, Forget, TypeOK, ctl
    <3> QED
      BY Zenon, <1>3, <3>1, <3>2, <3>3, <3>4, <3>5 DEF For, Complete
  <2>4. TokensTrue'
    <3>1. CASE byName' = byName /\ tokens' \subseteq tokens
      BY <2>2, <2>3, <3>1 DEF TokensTrue, UpToDate, Working, kube
    <3>2. CASE byName' \notin tokens' /\ tokens' \subseteq tokens
      BY <2>2, <2>3, <3>2 DEF TokensTrue, UpToDate, Working, kube
    <3>3. CASE ReadConn(w)
      BY <1>1, <3>1, <3>2, <3>3, NoneAssumption DEF ReadConn, Collect, TypeOK
    <3>4. CASE Insert(w)
      <4>1. byName' \notin tokens' /\ tokens' \subseteq tokens
        BY <3>4 DEF Insert
      <4> QED
        BY <3>2, <4>1
    <3> QED
      BY Zenon, <1>3, <3>1, <3>3, <3>4
         DEF For, Complete, ReadSecret, Lookup, Release, clients, Collect
  <2> QED
    BY <2>2, <2>3, <2>4, OutsideReports DEF kube, seen
<1>4. CASE DeliverConn \/ TimerFires
  <2>1. /\ UNCHANGED <<kube, secretSeen, account, calls, ctl, gauge>>
        /\ connSeen' = connSeen \/ connSeen' = conn
        /\ UNCHANGED <<byName, tokens>>
    BY <1>4 DEF DeliverConn, TimerFires, seen, clients
  <2>2. TokensTrue'
    BY <2>1 DEF TokensTrue, UpToDate, Working, kube, calls
  <2> QED
    BY <2>1, <2>2, OutsideReports DEF kube, calls, ctl
<1>6. ASSUME NEW c, Lapses(c) \/ (c.cred = account /\ \E w \in Workers : Use(w) /\ c = client[w])
      PROVE  Reports
  <2>1. /\ UNCHANGED <<kube, seen, account, byName, calls, ctl, gauge>>
        /\ tokens' \subseteq tokens \cup {c}
        /\ c \in tokens' => c \in tokens \/ c.cred = account
    BY <1>6 DEF Lapses, Use
  <2>2. TokensTrue'
    BY <2>1 DEF TokensTrue, UpToDate, Working, kube, calls
  <2> QED
    BY <2>1, <2>2, OutsideReports DEF kube, seen, calls, ctl
<1>5. ~DeliverSecret
  BY DEF DeliverSecret, UpToDate
<1> QED
  BY Zenon, <1>1, <1>2, <1>3, <1>4, <1>5, <1>6
     DEF Next, Restart, UserConn, UserSecret, AccountChanges, Use

\* A pass has taken up the connection, and its caches show the connection's generation
\* and condition, and the Secret, as they are. The cached client has no token left
\* from credentials that the server has ceased to take.
Begins ==
    /\ pc[Ctl] = "conn" /\ conn # None /\ connSeen = conn /\ secretSeen = secret
    /\ byName \in tokens => byName.cred = account
    /\ obj = [gen |-> conn.gen, ready |-> conn.ready]

\* However many reconcilers use the provider meanwhile: a pass of the connection
\* controller that starts from current caches, with no token of outdated credentials in
\* the cached client, and meets no event leaves a Ready condition and a gauge that tell whether the credentials work, and the passes
\* after it keep it so (keycloakconnection_controller.go:58-114).
THEOREM OnePassTells ==
    IInv /\ Begins /\ [][Next /\ events' = events]_vars => [](pc[Ctl] = "idle" => Told)
<1> DEFINE Q == Next /\ events' = events
           J == UpToDate /\ (Told \/ BaseCurrent)
<1>1. IInv /\ Begins => J
  BY DEF Begins, UpToDate, BaseCurrent
<1>2. IInv /\ [Q]_vars => IInv'
  BY NextInv
<1>3. IInv /\ J /\ [Q]_vars => J'
  <2>1. ASSUME IInv, J, Q
        PROVE  J'
    BY <2>1, QuietReports DEF Reports
  <2>2. ASSUME J, UNCHANGED vars
        PROVE  J'
    <3>1. TokensTrue'
      BY <2>2 DEF TokensTrue, UpToDate, Working, vars, kube, clients, calls
    <3> QED
      BY <2>2, <3>1, OutsideReports DEF Reports, vars, kube, seen, calls, ctl
  <2> QED
    BY <2>1, <2>2
<1>4. J => (pc[Ctl] = "idle" => Told)
  BY DEF BaseCurrent
<1> HIDE DEF J
<1> QED
  BY <1>1, <1>2, <1>3, <1>4, PTL

\* A true report stays, and is not written again: the periodic revalidation does not
\* touch the connection while nothing changes (keycloakconnection_controller.go:58-114).
THEOREM TruthIsKept ==
    Spec => [][UpToDate /\ Told /\ events' = events
                   => UpToDate' /\ Told' /\ conn' = conn]_vars
<1> DEFINE A == UpToDate /\ Told /\ events' = events => UpToDate' /\ Told' /\ conn' = conn
<1>1. IInv /\ [Next]_vars => [A]_vars
  BY QuietReports DEF Reports
<1> QED
  BY InitInv, NextInv, <1>1, PTL DEF Spec

-----------------------------------------------------------------------------
(* Revalidation *)

\* A pass over a connection that exists is under way, queued, waiting for its timer
\* or about to be queued by the watch.
Scheduled == conn # None => queued \/ timer \/ pc[Ctl] # "idle" \/ connSeen # conn

\* A resourceVersion is not used twice.
VersionsGrow ==
    /\ conn # None => conn.ver <= connVer
    /\ connSeen # None => connSeen.ver <= connVer

LEMMA ScheduledStep == IInv /\ VersionsGrow /\ Scheduled /\ [Next]_vars
                           => VersionsGrow' /\ Scheduled'
<1> SUFFICES ASSUME IInv, VersionsGrow, Scheduled, [Next]_vars
             PROVE  VersionsGrow' /\ Scheduled'
  OBVIOUS
<1>1. /\ TypeOK /\ Ctl \in Callers /\ connVer \in Nat
      /\ conn # None => conn \in Conn /\ conn.ver \in Nat
      /\ connSeen # None => connSeen \in Conn /\ connSeen.ver \in Nat
  BY DEF IInv, Callers, TypeOK, Conn
<1>2. ASSUME UNCHANGED <<connVer, conn, connSeen, queue>>,
             pc[Ctl] # "idle" => pc'[Ctl] # "idle"
      PROVE  VersionsGrow' /\ Scheduled'
  BY Zenon, <1>2 DEF VersionsGrow, Scheduled, queue
<1>3. ASSUME NEW w \in Callers, For(w) \/ Release(w)
      PROVE  VersionsGrow' /\ Scheduled'
  <2>1. UNCHANGED <<connVer, conn, connSeen, queue>>
    BY <1>3 DEF For, Complete, ReadConn, ReadSecret, Lookup, Insert, Release, kube, seen
  <2>2. pc[Ctl] # "idle" => pc'[Ctl] # "idle"
    BY Zenon, <1>1, <1>3 DEF For, Complete, ReadConn, ReadSecret, Lookup, Insert,
       Release, Returned,
                      TypeOK
  <2> QED
    BY Zenon, <1>2, <2>1, <2>2
<1>4. CASE Token \/ ServerInfo
  <2>1. UNCHANGED <<connVer, conn, connSeen, queue>> /\ pc'[Ctl] # "idle"
    BY Zenon, <1>1, <1>4 DEF Token, ServerInfo, kube, seen, TypeOK
  <2> QED
    BY <1>2, <2>1
<1>5. CASE Start
  BY Zenon, <1>1, <1>5 DEF Start, VersionsGrow, Scheduled, TypeOK, kube, seen
<1>6. CASE PatchStatus
  <2>1. queued' \/ timer'
    BY <1>6 DEF PatchStatus, Requeue
  <2>2. /\ UNCHANGED connSeen /\ connVer' \in Nat /\ connVer' >= connVer
        /\ conn' # None => conn'.ver <= connVer'
    <3>1. UNCHANGED connSeen
      BY <1>6 DEF PatchStatus, seen
    <3>2. CASE UNCHANGED <<connVer, conn>>
      BY <1>1, <3>1, <3>2 DEF VersionsGrow
    <3>3. CASE /\ conn # None /\ connVer' = connVer + 1
               /\ conn' = [conn EXCEPT !.ver = connVer',
                                       !.ready = [reason |-> verdict, gen |-> obj.gen]]
      BY <1>1, <3>1, <3>3 DEF Conn
    <3> QED
      BY Zenon, <1>6, <3>2, <3>3 DEF PatchStatus, MergeStatus
  <2> QED
    BY <1>1, <2>1, <2>2 DEF VersionsGrow, Scheduled
<1>7. CASE DeliverConn \/ TimerFires \/ DeliverSecret \/ Restart
  <2>1. UNCHANGED <<connVer, conn>> /\ (connSeen' = connSeen \/ connSeen' = conn)
    BY <1>7 DEF DeliverConn, TimerFires, DeliverSecret, Restart, kube, seen
  <2>2. VersionsGrow'
    BY <2>1 DEF VersionsGrow
  <2>3. CASE DeliverConn \/ TimerFires \/ Restart
    BY Zenon, <2>1, <2>2, <2>3 DEF DeliverConn, TimerFires, Restart, Scheduled
  <2>4. CASE DeliverSecret
    BY Zenon, <2>1, <2>2, <2>4 DEF DeliverSecret, Scheduled, kube, queue, calls
  <2> QED
    BY <1>7, <2>2, <2>3, <2>4
<1>8. CASE UserConn
  <2>1. /\ UNCHANGED <<connSeen, queue, pc>> /\ connVer' \in Nat /\ connVer' >= connVer
        /\ conn' # None => conn'.ver = connVer' /\ connVer' = connVer + 1
    <3>1. UNCHANGED <<connSeen, queue, pc>>
      BY <1>8 DEF UserConn, seen, calls
    <3>2. CASE conn' = None /\ UNCHANGED connVer
      BY <1>1, <3>1, <3>2
    <3>3. CASE /\ connVer' = connVer + 1
               /\ conn' = [ver |-> connVer', gen |-> 1, ready |-> NoCond]
      BY <1>1, <3>1, <3>3
    <3>4. CASE /\ conn # None /\ connVer' = connVer + 1
               /\ conn' = [conn EXCEPT !.ver = connVer', !.gen = @ + 1]
      BY <1>1, <3>1, <3>4 DEF Conn
    <3> QED
      BY <1>8, <3>2, <3>3, <3>4 DEF UserConn
  <2> QED
    BY <1>1, <2>1 DEF VersionsGrow, Scheduled
<1>9. CASE UserSecret \/ AccountChanges \/ (\E w \in Workers : Use(w))
           \/ (\E c \in tokens : Lapses(c)) \/ UNCHANGED vars
  <2>1. UNCHANGED <<connVer, conn, connSeen, queue, pc>>
    BY <1>9 DEF UserSecret, AccountChanges, Use, Lapses, vars, kube, seen, calls
  <2> QED
    BY <1>2, <2>1
<1> QED
  BY <1>1, <1>3, <1>4, <1>5, <1>6, <1>7, <1>8, <1>9 DEF Next, Controller, Callers

\* The controller never loses sight of a connection: the Secret is not watched, so
\* what keeps the report true is that another pass is always coming
\* (keycloakconnection_controller.go:39-41, :58-114).
THEOREM AlwaysRevalidated == Spec => []Scheduled
<1>1. Init => VersionsGrow /\ Scheduled
  BY DEF Init, VersionsGrow, Scheduled
<1> QED
  BY InitInv, NextInv, ScheduledStep, <1>1, PTL DEF Spec
=============================================================================
