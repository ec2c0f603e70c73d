------------------------------- MODULE Fleet -------------------------------
(***************************************************************************)
(* All the objects of a namespace against one Keycloak server: realms and  *)
(* what lives in them, objects that name each other, objects that name the *)
(* same resource, applied and removed in any order, and the operator       *)
(* crashing, restarting or being uninstalled in between.                   *)
(*                                                                         *)
(* Module Engine has one pass over one object in full detail: stale        *)
(* caches, lost conflicts, foreign resources, policies. Here a pass reads  *)
(* the object as it is and writes its status at once; what is kept of it   *)
(* is every request to the server, which other controllers' requests       *)
(* interleave with. Everything on this server was made by the operator.    *)
(***************************************************************************)
EXTENDS Naturals

CONSTANTS
    None,       \* no object, no resource, no list
    Objects,    \* the custom resources
    Realms,     \* realm names
    Names,      \* client ids, scope, role and group names, aliases
    Loads       \* what is declared, and bounds on what happens to it

Children == {"client", "scope", "role", "idp", "group"}

\* Natural keys. Everything but a realm lives in a realm.
Keys == [kind: {"realm"}, realm: Realms, name: {None}]
        \cup [kind: Children, realm: Realms, name: Names]

RealmOf(k) == [kind |-> "realm", realm |-> k.realm, name |-> None]

\* The kind of what a PostApply hook assigns: default scopes to a client,
\* composites to a role, realm roles to a group.
Listed(kind) == IF kind = "client" THEN "scope" ELSE "role"

Item(k, n) == [kind |-> Listed(k.kind), realm |-> k.realm, name |-> n]

\* A custom resource's spec. A list that is not set is not enforced.
Decl == [key: Keys, deletion: {"Delete", "Orphan"}, items: {None} \cup SUBSET Names]

\* A load: the specs; how often users apply or remove each object; what
\* administrators delete; failing calls and crashes; whether the operator is
\* uninstalled; whether the server drops what refers to what it deletes.
LoadType == [decl: [Objects -> Decl], user: [Objects -> Nat], admin: Nat,
             fault: Nat, teardown: BOOLEAN, cascades: BOOLEAN]

ASSUME LoadsAssumption == Loads \subseteq LoadType

\* ann: the last-applied annotation is set.
Object == [held: BOOLEAN, deleting: BOOLEAN, ann: BOOLEAN,
           ready: {"None", "Succeeded", "Retrying", "Failed", "AlreadyExists"}]

\* A resource, with the names of what PostApply assigned to it.
Resource == [items: SUBSET Names]

ASSUME NoneAssumption == None \notin Object \cup Resource

PCs == {"idle", "delete", "release", "get", "create", "reget", "resolve", "enforce"}

VARIABLES
    load,       \* the specs, and what the environment may still do
    obj,        \* the objects in the API server
    server,     \* the Keycloak server: natural key -> resource or None
    pc,         \* the next call of the pass over each object
    seen,       \* what the pass read as assigned
    due,        \* the objects in a work queue, or waiting for a backoff or a
                \* RequeueAfter to put them there
    deployed    \* does the operator run?

vars == <<load, obj, server, pc, seen, due, deployed>>

\* The finalizer keeps the object.
Holds(o) == obj[o] # None /\ obj[o].held

\* Everything is well formed, and a pass that works on the server works for an
\* object that exists and that it holds (engine.go:149-160).
TypeOK ==
    /\ load \in LoadType
    /\ obj \in [Objects -> Object \cup {None}]
    /\ server \in [Keys -> Resource \cup {None}]
    /\ pc \in [Objects -> PCs]
    /\ \A o \in Objects : pc[o] # "idle" => deployed /\ Holds(o)
    /\ seen \in [Objects -> SUBSET Names]
    /\ due \subseteq Objects
    /\ deployed \in BOOLEAN

Init ==
    /\ load \in Loads
    /\ obj = [o \in Objects |-> None]
    /\ server = [k \in Keys |-> None]
    /\ pc = [o \in Objects |-> "idle"]
    /\ seen = [o \in Objects |-> {}]
    /\ due = {}
    /\ deployed = TRUE

KeyOf(o) == load.decl[o].key
ItemsOf(o) == load.decl[o].items
Orphans(o) == load.decl[o].deletion = "Orphan"

-----------------------------------------------------------------------------
(* The server *)

\* Does a request for the resource k find it? Whatever is asked of a realm that
\* does not exist is answered with 404.
Found(k) == server[k] # None /\ server[RealmOf(k)] # None

\* Does a POST to k's collection create it? It is answered with 404 without the
\* realm, and with 409 if the resource is there.
Creatable(k) == server[k] = None /\ (k.kind = "realm" \/ server[RealmOf(k)] # None)
Posted(k) == [server EXCEPT ![k] = [items |-> {}]]

\* A DELETE. The server proper drops the contents of a realm and the assignments
\* of what it deletes, the test server keeps both.
Deleted(k) ==
    [j \in Keys |->
        CASE j = k -> None
          [] j # k /\ load.cascades /\ j.realm = k.realm /\ k.kind = "realm" -> None
          [] j # k /\ load.cascades /\ server[j] # None /\ j.realm = k.realm
                /\ k.kind # "realm" /\ Listed(j.kind) = k.kind ->
             [server[j] EXCEPT !.items = @ \ {k.name}]
          [] OTHER -> server[j]]

\* The additions and removals of a PostApply hook.
Assigned(k, add, remove) ==
    [server EXCEPT ![k].items = (@ \cup add) \ remove]

-----------------------------------------------------------------------------
(* Outcomes *)

Fault == load.fault > 0 /\ load' = [load EXCEPT !.fault = @ - 1]
NoFault == UNCHANGED load

\* The API server holds x for o; the watch queues the object if it is news.
Store(o, x, more) ==
    /\ obj' = [obj EXCEPT ![o] = x]
    /\ due' = more \cup (IF x # obj[o] THEN {o} ELSE {})

\* The pass goes on.
Goto(o, p) ==
    /\ pc' = [pc EXCEPT ![o] = p]
    /\ UNCHANGED <<obj, due>>

\* The pass is over.
Leave(o) ==
    /\ pc' = [pc EXCEPT ![o] = "idle"]
    /\ seen' = [seen EXCEPT ![o] = {}]

\* The pass reports and returns, with an error or RequeueAfter: it comes back.
\* Success is recorded in the annotation.
Conclude(o, reason) ==
    /\ Store(o, [obj[o] EXCEPT !.ready = reason, !.ann = @ \/ reason = "Succeeded"],
             due \cup {o})
    /\ Leave(o)

\* The resource is another's, so it seems: the pass reports it and ends, with
\* nothing scheduled.
Refuse(o) ==
    /\ Store(o, [obj[o] EXCEPT !.ready = "AlreadyExists"], due)
    /\ Leave(o)

-----------------------------------------------------------------------------
(* A pass *)

\* One worker per kind.
WorkerFree(o) ==
    \A p \in Objects : KeyOf(p).kind = KeyOf(o).kind => pc[p] = "idle"

\* Mutant: the finalizer is not awaited before the server is touched.
BeginUnheld(o) ==
    /\ deployed /\ o \in due /\ WorkerFree(o)
    /\ \/ obj[o] = None /\ UNCHANGED pc
       \/ /\ obj[o] # None
          /\ pc' = [pc EXCEPT ![o] = IF obj[o].deleting THEN "delete" ELSE "get"]
    /\ due' = due \ {o}
    /\ UNCHANGED <<load, obj, server, seen, deployed>>

\* The controller takes the object from its queue. An Orphan deletion is settled
\* at once, an object without finalizer gets it and comes back in a second.
Begin(o) ==
    /\ deployed /\ o \in due /\ WorkerFree(o)
    /\ \/ /\ obj[o] = None
          /\ due' = due \ {o}
          /\ UNCHANGED <<obj, pc>>
       \/ /\ obj[o] # None /\ ~obj[o].deleting /\ ~obj[o].held
          /\ Store(o, [obj[o] EXCEPT !.held = TRUE], due)
          /\ UNCHANGED pc
       \/ /\ obj[o] # None /\ obj[o].deleting /\ Orphans(o)
          /\ Store(o, None, due \ {o})
          /\ UNCHANGED pc
       \/ /\ obj[o] # None /\ obj[o].held /\ (obj[o].deleting => ~Orphans(o))
          /\ pc' = [pc EXCEPT ![o] = IF obj[o].deleting THEN "delete" ELSE "get"]
          /\ due' = due \ {o}
          /\ UNCHANGED obj
    /\ UNCHANGED <<load, server, seen, deployed>>

\* Mutant: a resource that is not found cannot be deleted.
DeleteRemoteStrict(o) ==
    /\ pc[o] = "delete"
    /\ \/ /\ NoFault /\ Found(KeyOf(o)) /\ server' = Deleted(KeyOf(o))
          /\ Goto(o, "release") /\ UNCHANGED seen
       \/ /\ Fault \/ (NoFault /\ ~Found(KeyOf(o)))
          /\ Conclude(o, obj[o].ready) /\ UNCHANGED server
    /\ UNCHANGED deployed

\* Mutant: a failing call counts as a deletion.
DeleteRemoteUnchecked(o) ==
    /\ pc[o] = "delete"
    /\ \/ NoFault /\ server' = IF Found(KeyOf(o)) THEN Deleted(KeyOf(o)) ELSE server
       \/ Fault /\ UNCHANGED server
    /\ Goto(o, "release")
    /\ UNCHANGED <<seen, deployed>>

\* Driver.Delete; 404 counts as deleted. A failing call may have taken effect.
DeleteRemote(o) ==
    LET Drop == server' = IF Found(KeyOf(o)) THEN Deleted(KeyOf(o)) ELSE server
    IN  /\ pc[o] = "delete"
        /\ \/ NoFault /\ Drop /\ Goto(o, "release") /\ UNCHANGED seen
           \/ /\ Fault /\ (Drop \/ UNCHANGED server)
              /\ Conclude(o, obj[o].ready)
        /\ UNCHANGED deployed

\* RemoveFinalizer and Update; the API server drops the object.
Release(o) ==
    /\ pc[o] = "release"
    /\ Store(o, None, due)
    /\ Leave(o)
    /\ UNCHANGED <<load, server, deployed>>

\* Mutant: the annotation alone tells.
ManagedRecorded(o) == obj[o].ann

\* Does the object know the resource for its own, by the operator's marker on it
\* or by the annotation? An identity provider cannot carry the marker.
Managed(o) == KeyOf(o).kind # "idp" \/ obj[o].ann

\* Driver.Get. What exists is resumed if it is managed.
Get(o) ==
    LET k == KeyOf(o)
    IN  /\ pc[o] = "get"
        /\ \/ NoFault /\ ~Found(k) /\ Goto(o, "create") /\ UNCHANGED seen
           \/ NoFault /\ Found(k) /\ Managed(o) /\ Goto(o, "resolve") /\ UNCHANGED seen
           \/ NoFault /\ Found(k) /\ ~Managed(o) /\ Refuse(o)
           \/ Fault /\ Conclude(o, "Retrying")
        /\ UNCHANGED <<server, deployed>>

\* Does the kind's hook read what is assigned, and does it enforce the list? A
\* role without a list of composites has none; a client's or group's list that is
\* not set is left alone, although the group's is read. An identity provider's
\* mappers name nothing outside it (module Mappers): they are only read here.
Reads(o) ==
    \/ KeyOf(o).kind \in {"role", "group", "idp"}
    \/ KeyOf(o).kind = "client" /\ ItemsOf(o) # None

Enforces(o) ==
    \/ KeyOf(o).kind = "role"
    \/ KeyOf(o).kind \in {"client", "group"} /\ ItemsOf(o) # None

Wanted(o) == IF ItemsOf(o) = None THEN {} ELSE ItemsOf(o)

\* Driver.Create. In a realm that does not exist (yet) it is tried again later. A
\* resource that has appeared since Get, with a realm that came back and had kept
\* it, ends the pass.
Create(o) ==
    LET k == KeyOf(o)
    IN  /\ pc[o] = "create"
        /\ \/ /\ NoFault /\ Creatable(k) /\ server' = Posted(k)
              /\ Goto(o, "reget") /\ UNCHANGED seen
           \/ NoFault /\ Found(k) /\ Refuse(o) /\ UNCHANGED server
           \/ /\ NoFault /\ ~Creatable(k) /\ ~Found(k)
              /\ Conclude(o, "Retrying") /\ UNCHANGED server
           \/ /\ Fault /\ ((Creatable(k) /\ server' = Posted(k)) \/ UNCHANGED server)
              /\ Conclude(o, "Retrying")
        /\ UNCHANGED deployed

\* The created resource is read back.
ReGet(o) ==
    /\ pc[o] = "reget"
    /\ \/ NoFault /\ Found(KeyOf(o)) /\ Goto(o, "resolve") /\ UNCHANGED seen
       \/ /\ Fault \/ (NoFault /\ ~Found(KeyOf(o)))
          /\ Conclude(o, "Retrying")
    /\ UNCHANGED <<server, deployed>>

\* PostApply up to its first write: what is assigned is read, and each name of
\* the list is looked up. With nothing to change the pass has succeeded.
Resolve(o) ==
    LET k == KeyOf(o)
        missing == \/ ~Found(k)
                   \/ \E n \in Wanted(o) : ~Found(Item(k, n))
    IN  /\ pc[o] = "resolve"
        /\ \/ /\ NoFault /\ ~Enforces(o) /\ (Reads(o) => Found(k))
              /\ Conclude(o, "Succeeded")
           \/ /\ NoFault /\ Reads(o) /\ missing
              /\ Conclude(o, "Failed")
           \/ /\ NoFault /\ Enforces(o) /\ ~missing /\ server[k].items = Wanted(o)
              /\ Conclude(o, "Succeeded")
           \/ /\ NoFault /\ Enforces(o) /\ ~missing /\ server[k].items # Wanted(o)
              /\ seen' = [seen EXCEPT ![o] = server[k].items]
              /\ Goto(o, "enforce")
           \/ Fault /\ Reads(o) /\ Conclude(o, "Failed")
        /\ UNCHANGED <<server, deployed>>

\* The rest of PostApply: what the list has and the read had not is added, what
\* the read had and the list has not is removed.
Enforce(o) ==
    LET k == KeyOf(o)
        add == Wanted(o) \ seen[o]
        remove == seen[o] \ Wanted(o)
        found == Found(k) /\ \A n \in add : load.cascades => Found(Item(k, n))
    IN  /\ pc[o] = "enforce"
        /\ \/ /\ NoFault /\ found /\ server' = Assigned(k, add, remove)
              /\ Conclude(o, "Succeeded")
           \/ /\ Fault /\ found /\ server' = Assigned(k, add, remove)
              /\ Conclude(o, "Failed")
           \/ /\ Fault \/ (NoFault /\ ~found)
              /\ Conclude(o, "Failed") /\ UNCHANGED server
        /\ UNCHANGED deployed

Step(o) ==
    \/ DeleteRemote(o) \/ Release(o) \/ Get(o) \/ Create(o) \/ ReGet(o)
    \/ Resolve(o) \/ Enforce(o)

-----------------------------------------------------------------------------
(* Around the passes *)

\* A user creates the object, or deletes it: it stays while it has a finalizer.
SpendUser(o) ==
    /\ deployed /\ load.user[o] > 0
    /\ load' = [load EXCEPT !.user[o] = @ - 1]

Apply(o) ==
    /\ obj[o] = None /\ SpendUser(o)
    /\ Store(o, [held |-> FALSE, deleting |-> FALSE, ann |-> FALSE, ready |-> "None"], due)
    /\ UNCHANGED <<server, pc, seen, deployed>>

Remove(o) ==
    /\ obj[o] # None /\ ~obj[o].deleting /\ SpendUser(o)
    /\ Store(o, IF obj[o].held THEN [obj[o] EXCEPT !.deleting = TRUE] ELSE None, due)
    /\ UNCHANGED <<server, pc, seen, deployed>>

\* The informer's periodic resync queues an object for which nothing is scheduled;
\* during a pass over it, once that is over.
Resync(o) ==
    /\ deployed /\ obj[o] # None /\ pc[o] = "idle" /\ o \notin due
    /\ due' = due \cup {o}
    /\ UNCHANGED <<load, obj, server, pc, seen, deployed>>

\* An administrator deletes a resource in the console.
AdminDelete(k) ==
    /\ load.admin > 0 /\ load' = [load EXCEPT !.admin = @ - 1]
    /\ Found(k) /\ server' = Deleted(k)
    /\ UNCHANGED <<obj, pc, seen, due, deployed>>

\* The passes are lost with the process, and so is what was due.
Stopped ==
    /\ pc' = [o \in Objects |-> "idle"]
    /\ seen' = [o \in Objects |-> {}]

\* The operator restarts and lists every object.
Restart ==
    /\ deployed /\ Fault /\ Stopped
    /\ due' = {o \in Objects : obj[o] # None}
    /\ UNCHANGED <<obj, server, deployed>>

\* The installer removes the Deployment, ...
Uninstall ==
    /\ load.teardown /\ load' = [load EXCEPT !.teardown = FALSE]
    /\ deployed' = FALSE /\ Stopped /\ due' = {}
    /\ UNCHANGED <<obj, server>>

\* ... and then the CRDs: the API server deletes every object.
PurgeCRDs ==
    /\ ~deployed /\ \E o \in Objects : obj[o] # None /\ ~obj[o].deleting
    /\ obj' = [o \in Objects |->
                  IF obj[o] # None /\ obj[o].held
                  THEN [obj[o] EXCEPT !.deleting = TRUE] ELSE None]
    /\ UNCHANGED <<load, server, pc, seen, due, deployed>>

-----------------------------------------------------------------------------
(* The specification *)

Next ==
    \/ \E o \in Objects : Begin(o) \/ Step(o) \/ Resync(o) \/ Apply(o) \/ Remove(o)
    \/ \E k \in Keys : AdminDelete(k)
    \/ Restart \/ Uninstall \/ PurgeCRDs

Spec == Init /\ [][Next]_vars

\* A pass goes on; timers expire, and a work queue, being first in first out,
\* passes nobody over for ever. An uninstallation runs to its end.
Fairness ==
    /\ \A o \in Objects : WF_vars(Step(o)) /\ SF_vars(Begin(o)) /\ WF_vars(Resync(o))
    /\ WF_vars(PurgeCRDs)

FairSpec == Spec /\ Fairness

-----------------------------------------------------------------------------
(* Properties *)

Live(o) == obj[o] # None /\ ~obj[o].deleting

\* Whatever was created under the Delete policy is still held by some object:
\* when the last object that names a resource is gone, so is the resource, in
\* whatever order realms, contents and rivals are removed, and whatever crashes
\* (handleDeletion, engine.go:351-363). On a server that drops a realm's contents
\* with the realm.
NothingLeft ==
    load.cascades =>
        \A k \in Keys : server[k] # None =>
            \E o \in Objects : KeyOf(o) = k /\ (Orphans(o) \/ Holds(o))

\* Deletions complete in any order, a realm before its contents included, unless
\* the operator is uninstalled (engine.go:351-359).
DeletionsComplete ==
    []<>(deployed => \A o \in Objects : obj[o] # None => ~obj[o].deleting)

\* An identity provider that is there was applied for the object.
Recorded(o) == KeyOf(o).kind = "idp" /\ server[KeyOf(o)] # None => obj[o].ann

\* Everything the object needs is there or declared, the resource, if it is there,
\* is known for the object's own, and no other object wants it to be different.
Supported(o) ==
    LET Provided(k) == server[k] # None \/ \E p \in Objects : KeyOf(p) = k /\ Live(p)
    IN  /\ Provided(RealmOf(KeyOf(o)))
        /\ Recorded(o)
        /\ \A n \in Wanted(o) : Provided(Item(KeyOf(o), n))
        /\ \A p \in Objects :
              KeyOf(p) = KeyOf(o) /\ obj[p] # None => Live(p) /\ ItemsOf(p) = ItemsOf(o)

\* Every object there is is held, stays, is reported and recorded as applied, and so
\* it is, with all that it names; the passes under way have only read.
AtRest ==
    /\ deployed
    /\ \A o \in Objects : obj[o] # None =>
          LET k == KeyOf(o)
          IN  /\ obj[o].held /\ ~obj[o].deleting /\ obj[o].ready = "Succeeded"
              /\ obj[o].ann /\ Found(k) /\ \A n \in Wanted(o) : Found(Item(k, n))
              /\ Enforces(o) => server[k].items = Wanted(o)
              /\ pc[o] \in {"idle", "get", "resolve"}

\* In whatever order a realm, what lives in it and what names what are applied,
\* also roles that name each other, all of it comes to exist as declared, stays,
\* and is reported so; what an administrator or a rival's deletion takes away,
\* with a realm all that is in it, comes back (engine.go:189-346). Where nothing is
\* wanting, all controllers come to rest.
Settles ==
    <>[](deployed =>
            /\ \A o \in Objects : Live(o) /\ Supported(o) =>
                  /\ Found(KeyOf(o)) /\ obj[o].ready = "Succeeded"
                  /\ Enforces(o) => server[KeyOf(o)].items = Wanted(o)
            /\ (\A o \in Objects : obj[o] # None => Live(o) /\ Supported(o)) => AtRest)

-----------------------------------------------------------------------------
(* What the documentation says and the code does not do *)

\* "install.sh uninstall --purge-crds # full teardown, deletes managed resources"
\* (docs/installation.md:176): once it is under way, it comes to an end, with every
\* custom resource gone.
TeardownCompletes == ~deployed ~> \A o \in Objects : obj[o] = None

=============================================================================
