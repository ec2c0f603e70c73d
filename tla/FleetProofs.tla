---------------------------- MODULE FleetProofs ----------------------------
(***************************************************************************)
(* For every set of objects, realms and names and every load: the types    *)
(* and NothingLeft are invariants of Fleet, no object is ever forgotten,   *)
(* and a fleet that is at rest stays at rest.                              *)
(***************************************************************************)
EXTENDS Fleet, TLAPS

\* The provers tried on a step that names none, in this order.
USE SMT, Zenon, SMTT(20), Z3T(20), SMTT(60)

\* One pass per kind at a time: two objects that name one resource are of one
\* kind, and never worked on together.
Exclusive ==
    \A o, p \in Objects :
        KeyOf(o).kind = KeyOf(p).kind /\ pc[o] # "idle" /\ pc[p] # "idle" => o = p

\* Before the finalizer is removed the resource is gone.
Settled ==
    \A o \in Objects :
        pc[o] = "release" /\ load.cascades => server[KeyOf(o)] = None

\* Nothing outlives its realm.
Contained ==
    load.cascades =>
        \A k \in Keys : server[RealmOf(k)] = None => server[k] = None

IInv == TypeOK /\ Exclusive /\ Settled /\ Contained /\ NothingLeft

-----------------------------------------------------------------------------
(* Keys and the server *)

\* The realm of a key is a key, its own realm, and the key itself if that is one.
LEMMA RealmKeys ==
    ASSUME NEW k \in Keys
    PROVE  /\ RealmOf(k) \in Keys /\ RealmOf(k).kind = "realm"
           /\ RealmOf(k).realm = k.realm /\ RealmOf(RealmOf(k)) = RealmOf(k)
           /\ k.kind = "realm" => RealmOf(k) = k
  BY DEF Keys, RealmOf, Children

\* What the objects declare.
LEMMA DeclFields ==
    ASSUME load \in LoadType, NEW o \in Objects
    PROVE  KeyOf(o) \in Keys /\ Wanted(o) \subseteq Names
<1>1. load.decl[o] \in Decl
  BY DEF LoadType
<1>2. load.decl[o].key \in Keys /\ load.decl[o].items \in {None} \cup SUBSET Names
  BY <1>1 DEF Decl
<1> QED
  BY <1>2 DEF KeyOf, Wanted, ItemsOf

\* A DELETE removes the resource, with a realm all that is in it, and creates
\* nothing; no other realm is touched.
LEMMA DeletedServer ==
    ASSUME server \in [Keys -> Resource \cup {None}], NEW k \in Keys
    PROVE  /\ Deleted(k) \in [Keys -> Resource \cup {None}]
           /\ Deleted(k)[k] = None
           /\ \A j \in Keys :
                /\ server[j] = None => Deleted(k)[j] = None
                /\ load.cascades /\ k.kind = "realm" /\ j.realm = k.realm
                      => Deleted(k)[j] = None
                /\ j.kind = "realm" /\ k.kind # "realm" /\ server[j] # None
                      => Deleted(k)[j] # None
<1>1. ASSUME NEW j \in Keys
      PROVE  \/ Deleted(k)[j] = None /\ (j = k \/ server[j] = None \/ k.kind = "realm")
             \/ /\ Deleted(k)[j] \in Resource /\ server[j] # None /\ j # k
                /\ ~(load.cascades /\ j.realm = k.realm /\ k.kind = "realm")
  <2>1. CASE j = k
    BY <2>1 DEF Deleted
  <2>2. CASE j # k /\ load.cascades /\ j.realm = k.realm /\ k.kind = "realm"
    BY <2>2 DEF Deleted
  <2>3. CASE j # k /\ load.cascades /\ server[j] # None /\ j.realm = k.realm
             /\ k.kind # "realm" /\ Listed(j.kind) = k.kind
    <3>1. Deleted(k)[j] = [server[j] EXCEPT !.items = @ \ {k.name}]
      BY <2>3 DEF Deleted
    <3>2. server[j] \in Resource
      BY <2>3
    <3> QED
      BY <2>3, <3>1, <3>2 DEF Resource
  <2>4. CASE /\ j # k /\ ~(load.cascades /\ j.realm = k.realm /\ k.kind = "realm")
             /\ ~(load.cascades /\ server[j] # None /\ j.realm = k.realm
                  /\ k.kind # "realm" /\ Listed(j.kind) = k.kind)
    <3>1. Deleted(k)[j] = server[j]
      BY <2>4 DEF Deleted
    <3> QED
      BY <2>4, <3>1
  <2> QED
    BY <2>1, <2>2, <2>3, <2>4
<1>2. Deleted(k) = [j \in Keys |-> Deleted(k)[j]]
  BY DEF Deleted
<1>3. Deleted(k) \in [Keys -> Resource \cup {None}]
  BY <1>1, <1>2
<1>4. None \notin Resource
  BY NoneAssumption
<1> QED
  BY <1>1, <1>3, <1>4

\* A hook changes the assignments of what is there.
LEMMA AssignedServer ==
    ASSUME server \in [Keys -> Resource \cup {None}], NEW k \in Keys,
           server[k] # None, NEW add \in SUBSET Names, NEW remove
    PROVE  /\ Assigned(k, add, remove) \in [Keys -> Resource \cup {None}]
           /\ \A j \in Keys : Assigned(k, add, remove)[j] = None <=> server[j] = None
<1>1. server[k] \in Resource /\ None \notin Resource
  BY NoneAssumption
<1>2. [server[k] EXCEPT !.items = (@ \cup add) \ remove] \in Resource
  BY <1>1 DEF Resource
<1>3. Assigned(k, add, remove)
        = [server EXCEPT ![k] = [server[k] EXCEPT !.items = (@ \cup add) \ remove]]
  BY <1>1 DEF Assigned, Resource
<1> QED
  BY <1>1, <1>2, <1>3

\* A DELETE leaves nothing without its realm.
LEMMA DeletedContained ==
    ASSUME server \in [Keys -> Resource \cup {None}], Contained, load.cascades,
           NEW x \in Keys, NEW k \in Keys, Deleted(x)[RealmOf(k)] = None
    PROVE  Deleted(x)[k] = None
<1>1. CASE server[RealmOf(k)] = None
  BY <1>1, DeletedServer DEF Contained
<1>2. CASE server[RealmOf(k)] # None
  <2>1. x.kind = "realm"
    BY <1>2, DeletedServer, RealmKeys
  <2>2. CASE x = RealmOf(k)
    BY <2>1, <2>2, DeletedServer, RealmKeys
  <2>3. CASE x # RealmOf(k)
    <3>1. x.realm # k.realm
      BY <2>1, <2>3 DEF Keys, RealmOf, Children
    <3>2. Deleted(x)[RealmOf(k)] = server[RealmOf(k)]
      BY <2>1, <2>3, <3>1, RealmKeys DEF Deleted
    <3> QED
      BY <1>2, <3>2
  <2> QED
    BY <2>2, <2>3
<1> QED
  BY <1>1, <1>2

-----------------------------------------------------------------------------
(* What a step of a pass does *)

\* What no step changes of the load.
SameLoad == load' \in LoadType /\ load'.decl = load.decl
            /\ load'.cascades = load.cascades

\* The effect of a step of a pass on the server.
ServerEffect(o) ==
    \/ server' = server
    \/ pc[o] = "delete" /\ server' = Deleted(KeyOf(o))
    \/ pc[o] = "create" /\ Creatable(KeyOf(o)) /\ server' = Posted(KeyOf(o))
    \/ /\ server[KeyOf(o)] # None
       /\ \E add \in SUBSET Names, remove \in SUBSET Names :
            server' = Assigned(KeyOf(o), add, remove)

\* The effect of a step on its object, on its pass and on the others.
PassEffect(o) ==
    /\ obj' = [obj EXCEPT ![o] = obj'[o]] /\ pc' = [pc EXCEPT ![o] = pc'[o]]
    /\ seen' = [seen EXCEPT ![o] = seen'[o]] /\ due' \subseteq due \cup {o}
    /\ seen'[o] \subseteq Names /\ pc[o] # "idle" /\ pc'[o] \in PCs
    /\ deployed' = deployed
    /\ \/ obj'[o] \in Object /\ obj'[o].held
       \/ obj'[o] = None /\ pc[o] = "release" /\ pc'[o] = "idle"
    /\ pc'[o] = "release" =>
          pc[o] = "delete"
          /\ server' = IF Found(KeyOf(o)) THEN Deleted(KeyOf(o)) ELSE server

\* A fault, or none, keeps the specs.
LEMMA FaultLoad ==
    ASSUME load \in LoadType, Fault \/ NoFault
    PROVE  SameLoad
  BY DEF LoadType, Fault, NoFault, SameLoad

\* A pass that goes on.
LEMMA GotoEffect ==
    ASSUME TypeOK, NEW o \in Objects, NEW p \in PCs, pc[o] # "idle", Goto(o, p),
           UNCHANGED deployed, seen' = [seen EXCEPT ![o] = seen'[o]],
           seen'[o] \subseteq Names,
           p = "release" =>
              pc[o] = "delete"
              /\ server' = IF Found(KeyOf(o)) THEN Deleted(KeyOf(o)) ELSE server
    PROVE  PassEffect(o)
  BY DEF TypeOK, Goto, PassEffect, Holds

\* A pass that ends with a report.
LEMMA ReportEffect ==
    ASSUME TypeOK, NEW o \in Objects, pc[o] # "idle", NEW x \in Object, x.held,
           NEW more, more \subseteq due \cup {o},
           Store(o, x, more), Leave(o), UNCHANGED deployed
    PROVE  PassEffect(o)
  BY DEF TypeOK, Store, Leave, PassEffect, PCs

Reasons == {"None", "Succeeded", "Retrying", "Failed", "AlreadyExists"}

LEMMA ConcludeEffect ==
    ASSUME TypeOK, NEW o \in Objects, NEW r \in Reasons, pc[o] # "idle",
           Conclude(o, r), UNCHANGED deployed
    PROVE  PassEffect(o)
<1> DEFINE x == [obj[o] EXCEPT !.ready = r, !.ann = @ \/ r = "Succeeded"]
<1>1. obj[o] \in Object /\ obj[o].held
  BY DEF TypeOK, Holds
<1>2. (obj[o].ann \/ r = "Succeeded") \in BOOLEAN
  BY Zenon
<1>3. x \in Object /\ x.held
  BY <1>1, <1>2 DEF Object, Reasons
<1>4. Store(o, x, due \cup {o}) /\ Leave(o)
  BY Zenon DEF Conclude
<1> HIDE DEF x
<1> QED
  BY Zenon, <1>3, <1>4, ReportEffect

LEMMA RefuseEffect ==
    ASSUME TypeOK, NEW o \in Objects, pc[o] # "idle", Refuse(o), UNCHANGED deployed
    PROVE  PassEffect(o)
<1> DEFINE x == [obj[o] EXCEPT !.ready = "AlreadyExists"]
<1>1. obj[o] \in Object /\ obj[o].held
  BY DEF TypeOK, Holds
<1>2. x \in Object /\ x.held
  BY <1>1 DEF Object
<1>3. Store(o, x, due) /\ Leave(o) /\ due \subseteq due \cup {o}
  BY Zenon DEF Refuse
<1> HIDE DEF x
<1> QED
  BY Zenon, <1>2, <1>3, ReportEffect

\* Every step of a pass.
LEMMA StepEffect ==
    ASSUME TypeOK, NEW o \in Objects, Step(o)
    PROVE  SameLoad /\ ServerEffect(o) /\ PassEffect(o)
<1> USE DEF PCs, Reasons
<1>load. load \in LoadType
  BY DEF TypeOK
<1>key. KeyOf(o) \in Keys /\ Wanted(o) \in SUBSET Names
  BY <1>load, DeclFields
<1>seen. seen \in [Objects -> SUBSET Names]
  BY DEF TypeOK
<1>same. UNCHANGED seen =>
           seen' = [seen EXCEPT ![o] = seen'[o]] /\ seen'[o] \subseteq Names
  BY <1>seen
<1>ready. pc[o] # "idle" => obj[o].ready \in Reasons
  BY DEF TypeOK, Holds, Object
<1>1. CASE DeleteRemote(o)
  <2>1. SameLoad
    BY <1>1, <1>load, FaultLoad DEF DeleteRemote
  <2>2. ServerEffect(o)
    BY <1>1 DEF DeleteRemote, ServerEffect
  <2>3. CASE Goto(o, "release") /\ UNCHANGED seen
             /\ server' = IF Found(KeyOf(o)) THEN Deleted(KeyOf(o)) ELSE server
    BY <1>1, <2>1, <2>2, <2>3, <1>same, GotoEffect DEF DeleteRemote
  <2>4. CASE Conclude(o, obj[o].ready)
    BY <1>1, <2>1, <2>2, <2>4, <1>ready, ConcludeEffect DEF DeleteRemote
  <2> QED
    BY <1>1, <2>1, <2>2, <2>3, <2>4 DEF DeleteRemote
<1>2. CASE Release(o)
  <2>1. SameLoad /\ ServerEffect(o)
    BY <1>2, <1>load DEF Release, SameLoad, ServerEffect
  <2>2. PassEffect(o)
    BY <1>2 DEF Release, Store, Leave, PassEffect, TypeOK
  <2> QED
    BY <2>1, <2>2
<1>3. CASE Get(o)
  <2>1. SameLoad /\ ServerEffect(o)
    BY <1>3, <1>load, FaultLoad DEF Get, ServerEffect
  <2>0. pc[o] # "idle" /\ UNCHANGED deployed
    BY <1>3 DEF Get
  <2>2. ASSUME NEW p \in {"resolve", "create"}, Goto(o, p), UNCHANGED seen
        PROVE  PassEffect(o)
    BY <2>0, <2>2, <1>same, GotoEffect
  <2>3. CASE Conclude(o, "Retrying")
    BY Zenon, <2>0, <2>1, <2>3, ConcludeEffect
  <2>4. CASE Refuse(o)
    BY Zenon, <2>0, <2>1, <2>4, RefuseEffect
  <2> QED
    BY <1>3, <2>1, <2>2, <2>3, <2>4 DEF Get
<1>4. CASE Create(o)
  <2>1. SameLoad
    BY <1>4, <1>load, FaultLoad DEF Create
  <2>2. ServerEffect(o)
    BY <1>4 DEF Create, ServerEffect
  <2>3. CASE Goto(o, "reget") /\ UNCHANGED seen
    BY <1>4, <2>1, <2>2, <2>3, <1>same, GotoEffect DEF Create
  <2>4. CASE Refuse(o)
    BY Zenon, <1>4, <2>1, <2>2, <2>4, RefuseEffect DEF Create
  <2>5. CASE Conclude(o, "Retrying")
    BY <1>4, <2>1, <2>2, <2>5, ConcludeEffect DEF Create
  <2> QED
    BY <1>4, <2>1, <2>2, <2>3, <2>4, <2>5 DEF Create
<1>5. CASE ReGet(o)
  <2>1. SameLoad /\ ServerEffect(o)
    BY <1>5, <1>load, FaultLoad DEF ReGet, ServerEffect
  <2>2. CASE Goto(o, "resolve") /\ UNCHANGED seen
    BY <1>5, <2>1, <2>2, <1>same, GotoEffect DEF ReGet
  <2>3. CASE Conclude(o, "Retrying")
    BY <1>5, <2>1, <2>3, ConcludeEffect DEF ReGet
  <2> QED
    BY <1>5, <2>1, <2>2, <2>3 DEF ReGet
<1>6. CASE Resolve(o)
  <2>1. SameLoad /\ ServerEffect(o)
    BY <1>6, <1>load, FaultLoad DEF Resolve, ServerEffect
  <2>2. CASE /\ Found(KeyOf(o)) /\ seen' = [seen EXCEPT ![o] = server[KeyOf(o)].items]
             /\ Goto(o, "enforce")
    <3>1. server[KeyOf(o)].items \subseteq Names
      BY <2>2, <1>key DEF Found, TypeOK, Resource
    <3>2. seen' = [seen EXCEPT ![o] = seen'[o]] /\ seen'[o] \subseteq Names
      BY <2>2, <3>1, <1>seen
    <3> QED
      BY Zenon, <1>6, <2>1, <2>2, <3>2, GotoEffect DEF Resolve
  <2>3. ASSUME NEW r \in {"Succeeded", "Failed"}, Conclude(o, r) PROVE PassEffect(o)
    BY <1>6, <2>3, ConcludeEffect DEF Resolve
  <2> QED
    BY <1>6, <2>1, <2>2, <2>3 DEF Resolve
<1>7. CASE Enforce(o)
  <2>1. SameLoad
    BY <1>7, <1>load, FaultLoad DEF Enforce
  <2>2. ServerEffect(o)
    <3> DEFINE plus == Wanted(o) \ seen[o]
               minus == seen[o] \ Wanted(o)
    <3>1. plus \in SUBSET Names /\ minus \in SUBSET Names
      BY <1>key, <1>seen
    <3>2. \/ server' = server
          \/ Found(KeyOf(o)) /\ server' = Assigned(KeyOf(o), plus, minus)
      BY <1>7 DEF Enforce
    <3>3. CASE Found(KeyOf(o)) /\ server' = Assigned(KeyOf(o), plus, minus)
      <4>1. \E add \in SUBSET Names, remove \in SUBSET Names :
              server' = Assigned(KeyOf(o), add, remove)
        BY <3>1, <3>3
      <4> QED
        BY Zenon, <3>3, <4>1 DEF ServerEffect, Found
    <3> QED
      BY <3>2, <3>3 DEF ServerEffect
  <2>3. ASSUME NEW r \in {"Succeeded", "Failed"}, Conclude(o, r) PROVE PassEffect(o)
    BY <1>7, <2>3, ConcludeEffect DEF Enforce
  <2> QED
    BY <1>7, <2>1, <2>2, <2>3 DEF Enforce
<1> QED
  BY <1>1, <1>2, <1>3, <1>4, <1>5, <1>6, <1>7 DEF Step

-----------------------------------------------------------------------------
(* Steps of passes keep the invariant *)

\* The types, from the effects of a step.
LEMMA StepTypeOK ==
    ASSUME TypeOK, NEW o \in Objects, SameLoad, ServerEffect(o), PassEffect(o)
    PROVE  TypeOK'
<1>1. KeyOf(o) \in Keys
  BY DeclFields DEF TypeOK
<1>2. server' \in [Keys -> Resource \cup {None}]
  <2>1. Posted(KeyOf(o)) \in [Keys -> Resource \cup {None}]
    BY <1>1 DEF Posted, Resource, TypeOK
  <2>2. server \in [Keys -> Resource \cup {None}]
    BY DEF TypeOK
  <2>3. Deleted(KeyOf(o)) \in [Keys -> Resource \cup {None}]
    BY <1>1, <2>2, DeletedServer
  <2>4. ASSUME server[KeyOf(o)] # None, NEW add \in SUBSET Names, NEW remove
        PROVE  Assigned(KeyOf(o), add, remove) \in [Keys -> Resource \cup {None}]
    BY <1>1, <2>2, <2>4, AssignedServer
  <2>5. ASSUME NEW add \in SUBSET Names, NEW remove \in SUBSET Names,
               server[KeyOf(o)] # None, server' = Assigned(KeyOf(o), add, remove)
        PROVE  server' \in [Keys -> Resource \cup {None}]
    BY <2>4, <2>5
  <2>6. CASE /\ server[KeyOf(o)] # None
             /\ \E add \in SUBSET Names, remove \in SUBSET Names :
                  server' = Assigned(KeyOf(o), add, remove)
    BY <2>5, <2>6
  <2>7. CASE server' = server \/ server' = Deleted(KeyOf(o))
             \/ server' = Posted(KeyOf(o))
    BY <2>1, <2>2, <2>3, <2>7
  <2> QED
    BY <2>6, <2>7 DEF ServerEffect
<1>3. obj' \in [Objects -> Object \cup {None}] /\ pc' \in [Objects -> PCs]
      /\ seen' \in [Objects -> SUBSET Names] /\ due' \subseteq Objects
  BY DEF PassEffect, TypeOK, PCs
<1>4. ASSUME NEW p \in Objects, pc'[p] # "idle" PROVE deployed' /\ Holds(p)'
  <2>1. CASE p = o
    BY <1>4, <2>1, NoneAssumption DEF PassEffect, TypeOK, Holds
  <2>2. CASE p # o
    BY <1>4, <2>2 DEF PassEffect, TypeOK, Holds
  <2> QED
    BY <2>1, <2>2
<1> QED
  BY <1>2, <1>3, <1>4 DEF TypeOK, SameLoad, PassEffect

\* Which resources there are after a step: no more than before, except the one
\* that is created, and none without its realm.
LEMMA StepServer ==
    ASSUME TypeOK, Contained, NEW o \in Objects, SameLoad, ServerEffect(o)
    PROVE  /\ Contained'
           /\ \A k \in Keys : server[k] = None /\ server'[k] # None =>
                k = KeyOf(o) /\ pc[o] = "create"
<1> DEFINE x == KeyOf(o)
<1>1. x \in Keys
  BY DeclFields DEF TypeOK
<1>2. server \in [Keys -> Resource \cup {None}]
  BY DEF TypeOK
<1>same. load'.cascades = load.cascades
  BY DEF SameLoad
<1> HIDE DEF x
<1>3. CASE server' = server
  BY <1>3, <1>same DEF Contained
<1>4. CASE pc[o] = "delete" /\ server' = Deleted(x)
  BY <1>1, <1>2, <1>4, <1>same, DeletedServer, DeletedContained DEF Contained
<1>5. CASE pc[o] = "create" /\ Creatable(x) /\ server' = Posted(x)
  <2>1. \A k \in Keys : server'[k] = IF k = x THEN [items |-> {}] ELSE server[k]
    BY <1>1, <1>2, <1>5 DEF Posted
  <2>2. [items |-> {}] # None
    BY NoneAssumption DEF Resource
  <2>3. x.kind # "realm" => server[RealmOf(x)] # None
    BY <1>5 DEF Creatable
  <2>4. ASSUME load.cascades, NEW k \in Keys, server'[RealmOf(k)] = None
        PROVE  server'[k] = None
    <3>1. server[RealmOf(k)] = None /\ RealmOf(k) # x
      BY <2>1, <2>2, <2>4, RealmKeys
    <3>2. server[k] = None
      BY <2>4, <3>1 DEF Contained
    <3>3. k # x
      BY <2>3, <3>1, RealmKeys
    <3> QED
      BY <2>1, <3>2, <3>3
  <2> QED
    BY <1>5, <1>same, <2>1, <2>4 DEF Contained, x
<1>6. ASSUME server[x] # None, NEW add \in SUBSET Names, NEW remove,
             server' = Assigned(x, add, remove)
      PROVE  /\ Contained'
             /\ \A k \in Keys : server'[k] = None <=> server[k] = None
  <2>1. \A k \in Keys : server'[k] = None <=> server[k] = None
    BY <1>1, <1>2, <1>6, AssignedServer
  <2> QED
    BY <1>same, <2>1, RealmKeys DEF Contained
<1> QED
  BY <1>3, <1>4, <1>5, <1>6 DEF ServerEffect, x

\* The invariant.
LEMMA StepInv ==
    ASSUME IInv, NEW o \in Objects, Step(o)
    PROVE  IInv'
<1>1. TypeOK /\ Exclusive /\ Settled /\ Contained /\ NothingLeft
  BY DEF IInv
<1>2. SameLoad /\ ServerEffect(o) /\ PassEffect(o)
  BY <1>1, StepEffect
<1>3. TypeOK'
  BY <1>1, <1>2, StepTypeOK
<1>4. /\ Contained'
      /\ \A k \in Keys : server[k] = None /\ server'[k] # None =>
           k = KeyOf(o) /\ pc[o] = "create"
  BY <1>1, <1>2, StepServer
<1>5. \A p \in Objects : KeyOf(p) \in Keys /\ KeyOf(p)' = KeyOf(p)
                         /\ Orphans(p)' = Orphans(p)
  BY <1>1, <1>2, DeclFields DEF TypeOK, SameLoad, KeyOf, Orphans
<1>6. load'.cascades = load.cascades
  BY <1>2 DEF SameLoad
<1>7. \A p \in Objects : p # o => pc'[p] = pc[p] /\ obj'[p] = obj[p]
  BY <1>1, <1>2 DEF PassEffect, TypeOK
<1>8. pc[o] # "idle" /\ obj[o] # None /\ obj[o].held
  BY <1>1, <1>2 DEF PassEffect, TypeOK, Holds
<1>9. Exclusive'
  BY <1>1, <1>5, <1>7, <1>8 DEF Exclusive
<1>10. Settled'
  <2> SUFFICES ASSUME NEW p \in Objects, pc'[p] = "release", load.cascades
               PROVE  server'[KeyOf(p)] = None
    BY <1>5, <1>6 DEF Settled
  <2>1. CASE p # o
    <3>1. server[KeyOf(p)] = None
      BY <1>1, <1>7, <2>1 DEF Settled
    <3>2. CASE server'[KeyOf(p)] # None
      <4>1. KeyOf(p) = KeyOf(o) /\ pc[p] # "idle"
        BY <1>4, <1>5, <1>7, <2>1, <3>1, <3>2
      <4> QED
        BY <1>1, <1>8, <2>1, <4>1 DEF Exclusive
    <3> QED
      BY <3>2
  <2>2. CASE p = o
    <3>1. server' = IF Found(KeyOf(o)) THEN Deleted(KeyOf(o)) ELSE server
      BY <1>2, <2>2 DEF PassEffect
    <3>2. CASE Found(KeyOf(o))
      BY <1>1, <1>5, <2>2, <3>1, <3>2, DeletedServer DEF TypeOK
    <3>3. CASE ~Found(KeyOf(o))
      BY <1>1, <1>5, <2>2, <3>1, <3>3 DEF Found, Contained
    <3> QED
      BY <3>2, <3>3
  <2> QED
    BY <2>1, <2>2
<1>11. NothingLeft'
  <2> SUFFICES ASSUME load.cascades, NEW k \in Keys, server'[k] # None
               PROVE  \E p \in Objects : KeyOf(p) = k /\ (Orphans(p) \/ Holds(p)')
    BY <1>5, <1>6 DEF NothingLeft
  <2>1. CASE server[k] = None
    <3>1. k = KeyOf(o) /\ pc[o] = "create"
      BY <1>4, <2>1
    <3>2. Holds(o)'
      BY <1>2, <3>1, NoneAssumption DEF PassEffect, Holds
    <3> QED
      BY <3>1, <3>2
  <2>2. CASE server[k] # None
    <3>1. PICK p \in Objects : KeyOf(p) = k /\ (Orphans(p) \/ Holds(p))
      BY <1>1, <2>2 DEF NothingLeft
    <3>2. Holds(p) => Holds(p)'
      <4>1. CASE p # o
        BY <1>7, <4>1 DEF Holds
      <4>2. CASE p = o /\ obj'[o] \in Object /\ obj'[o].held
        BY <4>2, NoneAssumption DEF Holds
      <4>3. CASE p = o /\ pc[o] = "release"
        BY <1>1, <2>2, <3>1, <4>3 DEF Settled
      <4> QED
        BY <1>2, <4>1, <4>2, <4>3 DEF PassEffect
    <3> QED
      BY <3>1, <3>2
  <2> QED
    BY <2>1, <2>2
<1> QED
  BY <1>3, <1>4, <1>9, <1>10, <1>11 DEF IInv

-----------------------------------------------------------------------------
(* So does everything else *)

\* What leaves the server alone, starts no release and lets go of no object but
\* one with the Orphan policy.
LEMMA QuietInv ==
    ASSUME IInv, SameLoad, UNCHANGED server, TypeOK', Exclusive',
           \A p \in Objects : pc'[p] = "release" => pc[p] = "release",
           \A p \in Objects : Holds(p) => Holds(p)' \/ Orphans(p)
    PROVE  IInv'
<1>1. \A p \in Objects : KeyOf(p)' = KeyOf(p) /\ Orphans(p)' = Orphans(p)
  BY DEF SameLoad, KeyOf, Orphans
<1>2. Settled' /\ Contained'
  BY <1>1 DEF IInv, SameLoad, Settled, Contained
<1>3. NothingLeft'
  <2> SUFFICES ASSUME load.cascades, NEW k \in Keys, server[k] # None
               PROVE  \E p \in Objects : KeyOf(p) = k /\ (Orphans(p) \/ Holds(p)')
    BY <1>1 DEF NothingLeft, SameLoad
  <2>1. PICK p \in Objects : KeyOf(p) = k /\ (Orphans(p) \/ Holds(p))
    BY DEF IInv, NothingLeft
  <2> QED
    BY <2>1
<1> QED
  BY <1>2, <1>3 DEF IInv

LEMMA BeginInv ==
    ASSUME IInv, NEW o \in Objects, Begin(o)
    PROVE  IInv'
<1>1. TypeOK /\ Exclusive /\ UNCHANGED <<load, server, seen, deployed>> /\ deployed
  BY DEF IInv, Begin
<1>2. SameLoad /\ pc[o] = "idle"
  BY <1>1 DEF SameLoad, TypeOK, Begin, WorkerFree
<1>3. /\ \A p \in Objects : p # o => pc'[p] = pc[p] /\ obj'[p] = obj[p]
      /\ pc'[o] \in {"idle", "delete", "get"} /\ pc' = [pc EXCEPT ![o] = pc'[o]]
      /\ due' \subseteq Objects
  BY <1>1, <1>2 DEF Begin, Store, TypeOK
<1>4. /\ obj' = [obj EXCEPT ![o] = obj'[o]]
      /\ obj'[o] \in Object \cup {None}
      /\ Holds(o) => Holds(o)' \/ Orphans(o)
      /\ pc'[o] # "idle" => Holds(o)'
  <2>1. CASE obj[o] = None /\ UNCHANGED <<obj, pc>>
    BY <1>1, <1>2, <2>1 DEF Holds, TypeOK
  <2>2. CASE obj[o] # None /\ obj' = [obj EXCEPT ![o] = [obj[o] EXCEPT !.held = TRUE]]
             /\ UNCHANGED pc
    <3>1. [obj[o] EXCEPT !.held = TRUE] \in Object /\ [obj[o] EXCEPT !.held = TRUE].held
      BY Zenon, <1>1, <2>2 DEF TypeOK, Object
    <3>2. obj'[o] = [obj[o] EXCEPT !.held = TRUE]
      BY <1>1, <2>2 DEF TypeOK
    <3> QED
      BY Zenon, <1>1, <1>2, <2>2, <3>1, <3>2, NoneAssumption DEF Holds, TypeOK
  <2>3. CASE Orphans(o) /\ obj' = [obj EXCEPT ![o] = None] /\ UNCHANGED pc
    BY <1>1, <1>2, <2>3 DEF TypeOK
  <2>4. CASE obj[o] # None /\ obj[o].held /\ UNCHANGED obj
    BY <1>1, <2>4 DEF TypeOK, Holds
  <2> QED
    BY <2>1, <2>2, <2>3, <2>4 DEF Begin, Store
<1>5. TypeOK'
  BY <1>1, <1>2, <1>3, <1>4 DEF TypeOK, PCs, Holds
<1>6. Exclusive'
  BY <1>1, <1>3 DEF Exclusive, Begin, WorkerFree, KeyOf
<1> QED
  BY <1>1, <1>2, <1>3, <1>4, <1>5, <1>6, QuietInv DEF Holds

\* Users.
LEMMA UserInv ==
    ASSUME IInv, NEW o \in Objects, Apply(o) \/ Remove(o)
    PROVE  IInv'
<1>1. TypeOK /\ Exclusive /\ UNCHANGED <<server, pc, seen, deployed>>
  BY DEF IInv, Apply, Remove
<1>2. SameLoad
  <2>1. load.user[o] \in Nat /\ load.user[o] > 0
        /\ load' = [load EXCEPT !.user[o] = @ - 1]
    BY <1>1 DEF Apply, Remove, SpendUser, TypeOK, LoadType
  <2> QED
    BY <1>1, <2>1 DEF SameLoad, TypeOK, LoadType
<1>3. obj' = [obj EXCEPT ![o] = obj'[o]] /\ due' \subseteq Objects
  BY <1>1 DEF Apply, Remove, Store, TypeOK
<1>4. obj'[o] \in Object \cup {None} /\ (Holds(o) => Holds(o)')
  <2>1. CASE Apply(o)
    BY <1>1, <2>1 DEF Apply, Store, Holds, Object, TypeOK
  <2>2. CASE Remove(o)
    <3>1. obj[o] \in Object
      BY <1>1, <2>2 DEF Remove, TypeOK
    <3>2. /\ [obj[o] EXCEPT !.deleting = TRUE] \in Object
          /\ [obj[o] EXCEPT !.deleting = TRUE].held = obj[o].held
      BY Zenon, <3>1 DEF Object
    <3>3. obj'[o] = IF obj[o].held THEN [obj[o] EXCEPT !.deleting = TRUE] ELSE None
      BY <1>1, <2>2 DEF Remove, Store, TypeOK
    <3> QED
      BY Zenon, <3>2, <3>3, NoneAssumption DEF Holds
  <2> QED
    BY <2>1, <2>2
<1>5. \A p \in Objects : p # o => obj'[p] = obj[p]
  BY <1>1, <1>3 DEF TypeOK
<1>6. TypeOK'
  BY <1>1, <1>2, <1>3, <1>4, <1>5 DEF TypeOK, SameLoad, Holds
<1>7. Exclusive'
  BY <1>1, <1>2 DEF Exclusive, SameLoad, KeyOf
<1> QED
  BY <1>1, <1>2, <1>4, <1>5, <1>6, <1>7, QuietInv DEF Holds

\* Administrators.
LEMMA AdminInv ==
    ASSUME IInv, NEW k \in Keys, AdminDelete(k)
    PROVE  IInv'
<1>1. TypeOK /\ Exclusive /\ Settled /\ Contained /\ NothingLeft
      /\ UNCHANGED <<obj, pc, seen, due, deployed>> /\ server' = Deleted(k)
  BY DEF IInv, AdminDelete
<1>2. SameLoad
  BY <1>1 DEF AdminDelete, SameLoad, TypeOK, LoadType
<1>3. server \in [Keys -> Resource \cup {None}]
  BY <1>1 DEF TypeOK
<1>4. /\ server' \in [Keys -> Resource \cup {None}]
      /\ \A j \in Keys : server[j] = None => server'[j] = None
  BY <1>1, <1>3, DeletedServer
<1>5. TypeOK'
  BY <1>1, <1>2, <1>4 DEF TypeOK, SameLoad, Holds
<1>6. \A p \in Objects : KeyOf(p) \in Keys /\ KeyOf(p)' = KeyOf(p)
                         /\ Orphans(p)' = Orphans(p) /\ Holds(p)' = Holds(p)
  BY <1>1, <1>2, DeclFields DEF TypeOK, SameLoad, KeyOf, Orphans, Holds
<1>7. Exclusive' /\ Settled' /\ NothingLeft'
  BY <1>1, <1>2, <1>4, <1>6 DEF Exclusive, Settled, NothingLeft, SameLoad
<1>8. Contained'
  BY <1>1, <1>2, <1>3, DeletedContained DEF Contained, SameLoad
<1> QED
  BY <1>5, <1>7, <1>8 DEF IInv

\* The operator stops, or the objects are deleted while it does not run.
LEMMA LifeInv ==
    ASSUME IInv, Restart \/ Uninstall \/ PurgeCRDs
    PROVE  IInv'
<1>1. TypeOK /\ Exclusive /\ UNCHANGED server
  BY DEF IInv, Restart, Uninstall, PurgeCRDs
<1>2. SameLoad
  BY Zenon, <1>1, FaultLoad
     DEF Restart, Uninstall, PurgeCRDs, SameLoad, TypeOK, LoadType, NoFault
<1>3. CASE Restart \/ Uninstall
  <2>1. pc' = [o \in Objects |-> "idle"] /\ seen' = [o \in Objects |-> {}]
        /\ UNCHANGED obj /\ due' \subseteq Objects /\ deployed' \in BOOLEAN
    BY Zenon, <1>1, <1>3 DEF Restart, Uninstall, Stopped, TypeOK
  <2>2. TypeOK'
    BY <1>1, <1>2, <2>1 DEF TypeOK, SameLoad, PCs
  <2>3. Exclusive' /\ \A p \in Objects : pc'[p] # "release"
    BY <2>1 DEF Exclusive
  <2> QED
    BY <1>1, <1>2, <2>1, <2>2, <2>3, QuietInv DEF Holds
<1>4. CASE PurgeCRDs
  <2>1. ASSUME NEW p \in Objects
        PROVE  obj'[p] \in Object \cup {None} /\ (Holds(p) => Holds(p)')
    <3>1. obj'[p] = IF obj[p] # None /\ obj[p].held
                    THEN [obj[p] EXCEPT !.deleting = TRUE] ELSE None
      BY <1>4 DEF PurgeCRDs
    <3>2. obj[p] # None =>
            /\ [obj[p] EXCEPT !.deleting = TRUE] \in Object
            /\ [obj[p] EXCEPT !.deleting = TRUE].held = obj[p].held
      BY Zenon, <1>1 DEF TypeOK, Object
    <3> QED
      BY Zenon, <3>1, <3>2, NoneAssumption DEF Holds
  <2>2. obj' \in [Objects -> Object \cup {None}]
    <3>1. obj' = [p \in Objects |-> obj'[p]]
      BY <1>4 DEF PurgeCRDs
    <3> QED
      BY <2>1, <3>1
  <2>3. UNCHANGED <<load, pc, seen, due, deployed>>
    BY <1>4 DEF PurgeCRDs
  <2>4. TypeOK'
    BY <1>1, <2>1, <2>2, <2>3 DEF TypeOK
  <2>5. Exclusive'
    BY <1>1, <2>3 DEF Exclusive, KeyOf
  <2> QED
    BY <1>1, <1>2, <2>1, <2>3, <2>4, <2>5, QuietInv
<1> QED
  BY <1>3, <1>4

\* The resync touches the queue only.
LEMMA ResyncInv ==
    ASSUME IInv, NEW o \in Objects, Resync(o)
    PROVE  IInv'
<1>1. UNCHANGED <<load, obj, server, pc, seen, deployed>> /\ due' = due \cup {o}
  BY DEF Resync
<1>2. TypeOK'
  BY <1>1 DEF IInv, TypeOK, Holds
<1> QED
  BY <1>1, <1>2 DEF IInv, Exclusive, Settled, Contained, NothingLeft, Holds, KeyOf, Orphans

-----------------------------------------------------------------------------
(* The theorems *)

LEMMA InitInv ==
    ASSUME Init
    PROVE  IInv
<1>1. TypeOK
  BY LoadsAssumption DEF Init, TypeOK, PCs
<1>2. Exclusive /\ Settled
  BY DEF Init, Exclusive, Settled
<1>3. \A k \in Keys : server[k] = None
  BY DEF Init
<1> QED
  BY <1>1, <1>2, <1>3 DEF IInv, Contained, NothingLeft

LEMMA NextInv ==
    ASSUME IInv, [Next]_vars
    PROVE  IInv'
<1>1. CASE UNCHANGED vars
  BY <1>1 DEF vars, IInv, TypeOK, Exclusive, Settled, Contained, NothingLeft,
     Holds, KeyOf, Orphans
<1>2. ASSUME NEW o \in Objects,
             Begin(o) \/ Step(o) \/ Resync(o) \/ Apply(o) \/ Remove(o)
      PROVE  IInv'
  BY <1>2, BeginInv, StepInv, ResyncInv, UserInv
<1>3. ASSUME NEW k \in Keys, AdminDelete(k) PROVE IInv'
  BY <1>3, AdminInv
<1> QED
  BY <1>1, <1>2, <1>3, LifeInv DEF Next

\* Every state of a fleet is well formed, and a pass works on the server only for
\* an object that it holds, in fleets of any size.
THEOREM FleetTypes == Spec => []TypeOK
<1>1. IInv => TypeOK
  BY DEF IInv
<1> QED
  BY InitInv, NextInv, <1>1, PTL DEF Spec

\* Nothing created under the Delete policy outlives the last object that names it
\* (handleDeletion, engine.go:351-363), whatever the number of objects and realms,
\* rivals, crashes and failing calls.
THEOREM NothingOutlives == Spec => []NothingLeft
<1>1. IInv => NothingLeft
  BY DEF IInv
<1> QED
  BY InitInv, NextInv, <1>1, PTL DEF Spec

-----------------------------------------------------------------------------
(* Nobody is forgotten *)

\* An object that is to be deleted is queued or being deleted, and one that is not
\* reported as another's is queued or worked on: what is not watched comes back.
Attended ==
    deployed => \A o \in Objects : obj[o] # None =>
        /\ obj[o].deleting => o \in due \/ pc[o] \in {"delete", "release"}
        /\ obj[o].ready # "AlreadyExists" => o \in due \/ pc[o] # "idle"

\* A report that schedules the object.
LEMMA ConcludeDue ==
    ASSUME NEW o \in Objects, NEW r, Conclude(o, r)
    PROVE  due \subseteq due' /\ o \in due'
  BY DEF Conclude, Store

\* What a step does for its object: it drops it, schedules it, goes on, or finds
\* that the resource is another's.
LEMMA StepDue ==
    ASSUME TypeOK, NEW o \in Objects, Step(o)
    PROVE  /\ due \subseteq due'
           /\ \/ obj'[o] = None
              \/ o \in due'
              \/ /\ obj'[o] = obj[o] /\ pc'[o] # "idle"
                 /\ pc[o] \in {"delete", "release"} => pc'[o] = "release"
              \/ /\ pc[o] \in {"get", "create"} /\ obj'[o].ready = "AlreadyExists"
                 /\ obj'[o].deleting = obj[o].deleting
<1>1. ASSUME NEW p, Goto(o, p)
      PROVE  due' = due /\ obj'[o] = obj[o] /\ pc'[o] = p
  BY <1>1 DEF Goto, TypeOK
<1>2. CASE \E r : Conclude(o, r)
  BY <1>2, ConcludeDue
<1>3. CASE Release(o)
  BY <1>3 DEF Release, Store, TypeOK
<1>4. CASE pc[o] = "delete" /\ Goto(o, "release")
  BY <1>1, <1>4
<1>5. CASE pc[o] \notin {"delete", "release"}
           /\ \E p \in {"create", "reget", "resolve", "enforce"} : Goto(o, p)
  BY <1>1, <1>5
<1>6. CASE pc[o] \in {"get", "create"} /\ Refuse(o)
  <2>1. obj[o] \in Object
    BY <1>6 DEF TypeOK, Holds
  <2>2. obj'[o] = [obj[o] EXCEPT !.ready = "AlreadyExists"] /\ due \subseteq due'
    BY <1>6 DEF Refuse, Store, TypeOK
  <2>3. obj'[o].ready = "AlreadyExists" /\ obj'[o].deleting = obj[o].deleting
    BY <2>1, <2>2 DEF Object
  <2> QED
    BY <1>6, <2>2, <2>3
<1>7. CASE DeleteRemote(o)
  BY <1>2, <1>4, <1>7 DEF DeleteRemote
<1>8. CASE Get(o)
  BY <1>2, <1>5, <1>6, <1>8 DEF Get
<1>9. CASE Create(o)
  BY <1>2, <1>5, <1>6, <1>9 DEF Create
<1>10. CASE ReGet(o)
  BY <1>2, <1>5, <1>10 DEF ReGet
<1>11. CASE Resolve(o)
  BY <1>2, <1>5, <1>11 DEF Resolve
<1>12. CASE Enforce(o)
  BY <1>2, <1>12 DEF Enforce
<1> QED
  BY <1>3, <1>7, <1>8, <1>9, <1>10, <1>11, <1>12 DEF Step

LEMMA AttendedStep ==
    ASSUME IInv, Attended, [Next]_vars
    PROVE  Attended'
<1>1. TypeOK
  BY DEF IInv
<1>2. CASE UNCHANGED vars
  BY <1>2 DEF vars, Attended
<1>3. ASSUME NEW o \in Objects, Step(o) PROVE Attended'
  <2>1. PassEffect(o)
    BY <1>1, <1>3, StepEffect
  <2>2. \A p \in Objects : p # o => pc'[p] = pc[p] /\ obj'[p] = obj[p]
    BY <1>1, <2>1 DEF PassEffect, TypeOK
  <2>3. deployed' = deployed /\ pc[o] # "idle" /\ obj[o] # None /\ deployed
    BY <1>1, <2>1 DEF PassEffect, TypeOK, Holds
  <2>4. /\ due \subseteq due'
        /\ \/ obj'[o] = None
           \/ o \in due'
           \/ /\ obj'[o] = obj[o] /\ pc'[o] # "idle"
              /\ pc[o] \in {"delete", "release"} => pc'[o] = "release"
           \/ /\ pc[o] \in {"get", "create"} /\ obj'[o].ready = "AlreadyExists"
              /\ obj'[o].deleting = obj[o].deleting
    BY <1>1, <1>3, StepDue
  <2>5. obj'[o] # None =>
          /\ obj'[o].deleting => o \in due' \/ pc'[o] \in {"delete", "release"}
          /\ obj'[o].ready # "AlreadyExists" => o \in due' \/ pc'[o] # "idle"
    BY <2>3, <2>4 DEF Attended
  <2> QED
    BY <2>2, <2>3, <2>4, <2>5 DEF Attended
<1>4. ASSUME NEW o \in Objects, Begin(o) PROVE Attended'
  <2>1. /\ \A p \in Objects : p # o => pc'[p] = pc[p] /\ obj'[p] = obj[p]
        /\ \A p \in Objects : p # o /\ p \in due => p \in due'
        /\ deployed' = deployed
    BY <1>1, <1>4 DEF Begin, Store, TypeOK
  <2>2. \/ obj'[o] = None
        \/ o \in due'
        \/ obj'[o] = obj[o] /\ pc'[o] = IF obj[o].deleting THEN "delete" ELSE "get"
    BY <1>1, <1>4 DEF Begin, Store, TypeOK
  <2> QED
    BY <2>1, <2>2 DEF Attended
<1>5. ASSUME NEW o \in Objects, Apply(o) \/ Remove(o) PROVE Attended'
  <2>1. /\ \A p \in Objects : p # o => obj'[p] = obj[p]
        /\ pc' = pc /\ due \subseteq due' /\ deployed' = deployed
    BY <1>1, <1>5 DEF Apply, Remove, Store, TypeOK
  <2>2. obj'[o] # None => o \in due'
    <3>1. CASE Apply(o)
      BY <1>1, <3>1 DEF Apply, Store, TypeOK
    <3>2. CASE Remove(o)
      <4>1. obj[o] \in Object /\ ~obj[o].deleting
        BY <1>1, <3>2 DEF Remove, TypeOK
      <4>2. [obj[o] EXCEPT !.deleting = TRUE] # obj[o]
        BY <4>1 DEF Object
      <4> QED
        BY <1>1, <3>2, <4>2 DEF Remove, Store, TypeOK
    <3> QED
      BY <1>5, <3>1, <3>2
  <2> QED
    BY <2>1, <2>2 DEF Attended
<1>6. ASSUME NEW k \in Keys, AdminDelete(k) PROVE Attended'
  BY <1>6 DEF AdminDelete, Attended
<1>7. CASE Restart
  BY <1>7 DEF Restart, Attended
<1>8. CASE Uninstall \/ PurgeCRDs
  BY Zenon, <1>8 DEF Uninstall, PurgeCRDs, Attended
<1>9. ASSUME NEW o \in Objects, Resync(o) PROVE Attended'
  BY <1>9 DEF Resync, Attended
<1> QED
  BY <1>2, <1>3, <1>4, <1>5, <1>6, <1>7, <1>8, <1>9 DEF Next

\* While the operator runs, no object is forgotten, whatever fails, crashes or is
\* removed by others, and however many there are: a deletion is queued or under way
\* until the object is gone, and every other object is queued or worked on, unless
\* its resource was found to be another's (engine.go:148-160, 189-346).
THEOREM NobodyForgotten == Spec => []Attended
<1>1. Init => Attended
  BY DEF Init, Attended
<1> QED
  BY <1>1, InitInv, NextInv, AttendedStep, PTL DEF Spec

-----------------------------------------------------------------------------
(* Rest *)

\* A step that spends nothing is no fault, no user's, no administrator's, and no
\* uninstallation.
LEMMA NotSpent ==
    ASSUME load \in LoadType, UNCHANGED load
    PROVE  /\ ~Fault /\ ~Restart /\ ~Uninstall
           /\ \A o \in Objects : ~Apply(o) /\ ~Remove(o)
           /\ \A k \in Keys : ~AdminDelete(k)
<1>1. load.fault \in Nat /\ load.admin \in Nat /\ load.user \in [Objects -> Nat]
  BY DEF LoadType
<1>2. ~Fault
  <2>1. Fault => load'.fault = load.fault - 1
    BY Zenon DEF Fault, LoadType
  <2> QED
    BY <1>1, <2>1
<1>3. ~Uninstall
  <2>1. Uninstall => load.teardown /\ ~load'.teardown
    BY DEF Uninstall, LoadType
  <2> QED
    BY <2>1
<1>4. ASSUME NEW o \in Objects PROVE ~Apply(o) /\ ~Remove(o)
  <2>1. SpendUser(o) => load'.user[o] = load.user[o] - 1
    BY Zenon, <1>1 DEF SpendUser, LoadType
  <2>2. ~SpendUser(o)
    BY <1>1, <2>1
  <2> QED
    BY <2>2 DEF Apply, Remove
<1>5. ASSUME NEW k \in Keys PROVE ~AdminDelete(k)
  <2>1. AdminDelete(k) => load'.admin = load.admin - 1
    BY Zenon DEF AdminDelete, LoadType
  <2> QED
    BY <1>1, <2>1
<1> QED
  BY <1>2, <1>3, <1>4, <1>5 DEF Restart

\* At rest a pass reads, and reports what is reported.
LEMMA StepAtRest ==
    ASSUME TypeOK, AtRest, UNCHANGED load, NEW o \in Objects, Step(o)
    PROVE  /\ obj' = obj /\ server' = server /\ deployed' = deployed
           /\ pc' = [pc EXCEPT ![o] = pc'[o]] /\ pc'[o] \in {"idle", "resolve"}
<1>1. pc[o] # "idle"
  BY DEF Step, DeleteRemote, Release, Get, Create, ReGet, Resolve, Enforce
<1>2. obj[o] # None /\ obj[o] \in Object
  BY <1>1 DEF TypeOK, Holds
<1>3. /\ obj[o].ready = "Succeeded" /\ Found(KeyOf(o)) /\ obj[o].ann
      /\ \A n \in Wanted(o) : Found(Item(KeyOf(o), n))
      /\ Enforces(o) => server[KeyOf(o)].items = Wanted(o)
      /\ pc[o] \in {"get", "resolve"}
  BY <1>1, <1>2 DEF AtRest
<1>4. ~Fault
  BY NotSpent DEF TypeOK
<1>5. CASE Get(o)
  <2>1. Managed(o)
    BY <1>3 DEF Managed
  <2> QED
    BY <1>3, <1>4, <1>5, <2>1 DEF Get, Goto, TypeOK
<1>6. CASE Resolve(o)
  <2>1. Conclude(o, "Succeeded") /\ UNCHANGED <<server, deployed>>
    BY <1>3, <1>4, <1>6 DEF Resolve
  <2>2. [obj[o] EXCEPT !.ready = "Succeeded", !.ann = @ \/ "Succeeded" = "Succeeded"]
          = obj[o]
    <3>1. (obj[o].ann \/ "Succeeded" = "Succeeded") = TRUE
      BY Zenon
    <3>2. obj[o].ann = TRUE
      BY <1>2, <1>3 DEF Object
    <3> QED
      BY <1>2, <1>3, <3>1, <3>2 DEF Object
  <2>3. obj' = obj
    BY <2>1, <2>2 DEF Conclude, Store, TypeOK
  <2> QED
    BY <2>1, <2>3 DEF Conclude, Leave, TypeOK
<1> QED
  BY <1>3, <1>5, <1>6
     DEF Step, DeleteRemote, Release, Create, ReGet, Enforce

\* At rest a pass begins, if any does, for an object that is there, and reads.
LEMMA BeginAtRest ==
    ASSUME TypeOK, AtRest, NEW o \in Objects, Begin(o)
    PROVE  /\ obj' = obj /\ server' = server /\ deployed' = deployed
           /\ pc' = [pc EXCEPT ![o] = pc'[o]]
           /\ obj[o] # None => pc'[o] = "get"
<1>1. obj[o] # None => obj[o].held /\ ~obj[o].deleting
  BY DEF AtRest
<1> QED
  BY <1>1 DEF Begin, TypeOK

\* Rest lasts: unless a call fails, the operator is stopped, or somebody else acts,
\* the controllers of a fleet at rest change neither the server nor an object, in
\* whatever order their passes interleave, also where objects share a resource or
\* name each other.
THEOREM RestIsKept ==
    Spec => [][AtRest /\ load' = load => AtRest' /\ obj' = obj /\ server' = server]_vars
<1>1. ASSUME IInv, AtRest, [Next]_vars, load' = load
      PROVE  AtRest' /\ obj' = obj /\ server' = server
  <2>1. TypeOK /\ deployed
    BY <1>1 DEF IInv, AtRest
  <2>2. ~Restart /\ ~Uninstall /\ ~PurgeCRDs
        /\ (\A o \in Objects : ~Apply(o) /\ ~Remove(o))
        /\ (\A k \in Keys : ~AdminDelete(k))
    BY <1>1, <2>1, NotSpent DEF TypeOK, PurgeCRDs
  <2>3. ASSUME obj' = obj, server' = server, deployed' = deployed,
               \A p \in Objects : obj[p] # None => pc'[p] \in {"idle", "get", "resolve"}
        PROVE  AtRest'
    <3>1. \A p \in Objects : /\ KeyOf(p)' = KeyOf(p) /\ Wanted(p)' = Wanted(p)
                             /\ Enforces(p)' = Enforces(p)
      BY <1>1 DEF KeyOf, Wanted, ItemsOf, Enforces
    <3>2. \A k : Found(k)' = Found(k)
      BY <2>3 DEF Found
    <3> QED
      BY <1>1, <2>3, <3>1, <3>2 DEF AtRest
  <2>4. \A p \in Objects : obj[p] # None => pc[p] \in {"idle", "get", "resolve"}
    BY <1>1 DEF AtRest
  <2>7. ASSUME NEW o \in Objects, Resync(o)
        PROVE  AtRest' /\ obj' = obj /\ server' = server
    BY <2>3, <2>4, <2>7 DEF Resync
  <2>5. ASSUME NEW o \in Objects, Begin(o) \/ Step(o)
        PROVE  AtRest' /\ obj' = obj /\ server' = server
    <3>1. /\ obj' = obj /\ server' = server /\ deployed' = deployed
          /\ pc' = [pc EXCEPT ![o] = pc'[o]]
          /\ obj[o] # None => pc'[o] \in {"idle", "get", "resolve"}
      BY Zenon, <1>1, <2>1, <2>5, StepAtRest, BeginAtRest
    <3>2. \A p \in Objects : obj[p] # None => pc'[p] \in {"idle", "get", "resolve"}
      BY <2>1, <2>4, <3>1 DEF TypeOK
    <3> QED
      BY <2>3, <3>1, <3>2
  <2>6. CASE UNCHANGED vars
    BY <2>3, <2>4, <2>6 DEF vars
  <2> QED
    BY <1>1, <2>2, <2>5, <2>6, <2>7 DEF Next
<1> QED
  BY <1>1, InitInv, NextInv, PTL DEF Spec
=============================================================================
