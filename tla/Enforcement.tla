---------------------------- MODULE Enforcement ----------------------------
(***************************************************************************)
(* PostApply: what a driver enforces beside the representation. A resource *)
(* holds items that live elsewhere on the server: a role its composites, a *)
(* group its realm and client roles (driver_role_idp_group.go), a client   *)
(* its default and optional scopes (enforceScopeAssignments). The spec     *)
(* names items, the server goes by ids: an item deleted and created again  *)
(* has a new one. Every Admin API call is a step, so that administrators   *)
(* change assignments and items between a call and the next.               *)
(***************************************************************************)
EXTENDS Naturals

CONSTANTS
    None,          \* a list the spec does not set
    Unlisted,      \* the list of a client that the spec's clientRoles does not name
    Names,         \* names of roles or scopes
    Kinds,         \* of resources: roles, groups, clients
    Clients,       \* how many clients there are whose roles a group may hold
    MaxUser, MaxFault,
    MaxAdmin       \* for each kind

ASSUME EnforcementAssumption ==
    /\ None # Unlisted /\ \A list \in SUBSET Names : list # None /\ list # Unlisted
    /\ Kinds \subseteq {"role", "group", "client"}
    /\ Clients \in Nat
    /\ MaxUser \in Nat /\ MaxFault \in Nat /\ MaxAdmin \in [Kinds -> Nat]

VARIABLES
    kind,      \* of the resource
    want,      \* the spec: per slot a set of names, or None
    alive,     \* the live item of each name: its id, or 0
    born,      \* ids handed out so far
    held,      \* per slot, the items the resource holds
    pc,
    spec,      \* the spec the pass works from
    slot,      \* the slot it is at
    left,      \* the slots it has yet to come to
    current,   \* per slot, the items it read
    found,     \* the items it resolved or listed
    todo,      \* scopes: the names it has yet to add or remove
    alone,     \* has nobody else touched the server since the pass began?
    done,      \* did the last pass succeed?
    budget

server == <<alive, born, held>>
work == <<spec, slot, left, current, found, todo>>
vars == <<kind, want, server, pc, work, alone, done, budget>>

Items == Names \X Nat

\* A resource's lists: a role's composites; a group's realm roles, and its roles of
\* each client; a client's default and its optional scopes.
SlotSet == CASE kind = "role" -> {1}
             [] kind = "group" -> 1 .. Clients + 1
             [] kind = "client" -> {1, 2}

\* A group's clientRoles, if set, names some clients and lists the roles of each.
Lists ==
    {lists \in [SlotSet -> {None, Unlisted} \cup SUBSET Names] :
       /\ \A s \in SlotSet : lists[s] = Unlisted => kind = "group" /\ s # 1
       /\ kind = "group" =>
             \A s, t \in SlotSet \ {1} : lists[s] = None => lists[t] = None}

\* Roles are resolved by name, compared by id and changed in bulk; scopes are
\* compared by name, listed and changed one at a time.
ByID == kind # "client"

\* The lists and items are well formed, the pass is at one of the resource's
\* lists, and the resource holds only items that are alive.
TypeOK ==
    /\ kind \in Kinds
    /\ want \in Lists /\ spec \in Lists
    /\ alive \in [Names -> 0 .. born] /\ born \in Nat
    /\ held \in [SlotSet -> SUBSET Items] /\ current \in [SlotSet -> SUBSET Items]
    /\ \A s \in SlotSet : \A i \in held[s] : alive[i[1]] = i[2]
    /\ pc \in {"idle", "read", "resolve", "list", "add", "remove"}
    /\ slot \in SlotSet /\ left \subseteq SlotSet \ {slot}
    /\ found \subseteq Items /\ todo \subseteq Names
    /\ alone \in BOOLEAN /\ done \in BOOLEAN
    /\ budget \in [user: Nat, admin: Nat, fault: Nat]

Init ==
    /\ kind \in Kinds
    /\ want = [s \in SlotSet |-> None] /\ spec = want
    /\ alive = [n \in Names |-> 0] /\ born = 0
    /\ held = [s \in SlotSet |-> {}] /\ current = held
    /\ pc = "idle" /\ slot = 1 /\ left = {}
    /\ found = {} /\ todo = {}
    /\ alone = TRUE /\ done = FALSE
    /\ budget = [user |-> MaxUser, admin |-> MaxAdmin[kind], fault |-> MaxFault]

-----------------------------------------------------------------------------

\* Mutant: a list that is not set counts as empty for every kind.
ManagedAlways(list) == TRUE

\* The list is enforced. Composites that are not set count as empty.
Managed(list) == kind = "role" \/ list # None
Goal(list) == IF list \in {None, Unlisted} THEN {} ELSE list
NamesOf(items) == {i[1] : i \in items}

\* What list asks for, given the items that are alive.
Exactly(list) == {<<n, alive[n]>> : n \in Goal(list)}

Spend(what) == budget[what] > 0 /\ budget' = [budget EXCEPT ![what] = @ - 1]
NoFault == UNCHANGED budget

\* PostApply ends, in success or with an error.
End(success) ==
    /\ pc' = "idle" /\ done' = success
    /\ slot' = 1 /\ left' = {} /\ current' = [s \in SlotSet |-> {}] /\ found' = {} /\ todo' = {}
    /\ UNCHANGED spec

Fail == End(FALSE) /\ UNCHANGED held

\* The pass comes to slot s. A group has read all its lists at once, a client reads
\* each list when it comes to it. For a client that is not listed, nothing is
\* resolved or added.
Enter(s) ==
    /\ slot' = s /\ left' = left \ {s} /\ found' = {} /\ todo' = {}
    /\ pc' = IF ~ByID THEN "read" ELSE IF spec[s] = Unlisted THEN "remove" ELSE "resolve"
    /\ UNCHANGED <<spec, current, done>>

\* Mutant: one slot too many.
AdvanceOver ==
    IF slot \notin SlotSet THEN End(TRUE)
    ELSE \E s \in IF left = {} THEN {slot + 1} ELSE left : Enter(s)

\* On to the next slot. A group's clients come in any order, the ones that are not
\* listed before the others.
Advance ==
    IF left = {} THEN End(TRUE)
    ELSE LET first == {s \in left : spec[s] = Unlisted}
         IN  \E s \in IF first = {} THEN left ELSE first : Enter(s)

\* A pass reaches PostApply.
Start ==
    /\ pc = "idle"
    /\ pc' = "read" /\ spec' = want /\ left' = SlotSet \ {1}
    /\ alone' = TRUE /\ done' = FALSE
    /\ UNCHANGED <<want, server, slot, current, found, todo, budget>>

\* GetRoleComposites, GetGroupRoleMappings: all the lists are read at once.
ReadAll ==
    /\ pc = "read" /\ ByID
    /\ \/ /\ NoFault /\ current' = held /\ pc' = "resolve"
          /\ UNCHANGED <<held, spec, slot, left, found, todo, done>>
       \/ Spend("fault") /\ Fail
    /\ UNCHANGED <<want, alive, born, alone>>

-----------------------------------------------------------------------------
(* Composites and role mappings: applyRoleDiff *)

\* resolveRealmRoles, resolveClientRoles: one call for each name, and one for the
\* client. A role that is missing is an error.
Resolve(n) ==
    /\ pc = "resolve" /\ Managed(spec[slot])
    /\ n \in Goal(spec[slot]) \ NamesOf(found)
    /\ \/ /\ NoFault /\ alive[n] # 0
          /\ found' = found \cup {<<n, alive[n]>>}
          /\ UNCHANGED <<pc, spec, slot, left, current, todo, done, held>>
       \/ NoFault /\ alive[n] = 0 /\ Fail
       \/ Spend("fault") /\ Fail
    /\ UNCHANGED <<want, alive, born, alone>>

Resolved == Goal(spec[slot]) = NamesOf(found)

\* One request adds what is missing. It fails if one of the roles is gone. Nothing is
\* missing: no request, but clientUUID has been called for a client's roles.
AddAll ==
    LET toAdd == found \ current[slot]
        Added == held' = [held EXCEPT ![slot] = @ \cup toAdd]
    IN  /\ pc = "resolve" /\ Managed(spec[slot]) /\ Resolved
        /\ \/ /\ NoFault /\ \A i \in toAdd : alive[i[1]] = i[2]
              /\ Added /\ pc' = "remove"
              /\ UNCHANGED <<spec, slot, left, current, found, todo, done>>
           \/ NoFault /\ (\E i \in toAdd : alive[i[1]] # i[2]) /\ Fail
           \/ /\ Spend("fault") /\ (toAdd # {} \/ slot # 1)
              /\ (Added /\ \A i \in toAdd : alive[i[1]] = i[2]) \/ UNCHANGED held
              /\ End(FALSE)
        /\ UNCHANGED <<want, alive, born, alone>>

\* Mutant: removal is skipped when something was added.
RemoveAllLazy ==
    LET toRemove == IF found \subseteq current[slot] THEN current[slot] \ found ELSE {}
    IN  /\ pc = "remove" /\ ByID
        /\ NoFault
        /\ held' = [held EXCEPT ![slot] = @ \ toRemove] /\ Advance
        /\ UNCHANGED <<want, alive, born, alone>>

\* One request removes what is not wanted: all that was read, for a client that is
\* not listed.
RemoveAll ==
    LET toRemove == current[slot] \ found
        Removed == held' = [held EXCEPT ![slot] = @ \ toRemove]
    IN  /\ pc = "remove" /\ ByID
        /\ \/ NoFault /\ Removed /\ Advance
           \/ /\ Spend("fault") /\ toRemove # {}
              /\ (Removed \/ UNCHANGED held) /\ End(FALSE)
        /\ UNCHANGED <<want, alive, born, alone>>

\* A list that is not set is left alone.
Skip ==
    /\ pc = "resolve" /\ ~Managed(spec[slot])
    /\ Advance
    /\ UNCHANGED <<want, server, alone, budget>>

-----------------------------------------------------------------------------
(* Scopes: enforceScopeAssignments *)

\* Mutant: only scopes that are missing count as a difference.
ReadSlotGrowing ==
    /\ pc = "read" /\ ~ByID
    /\ NoFault
    /\ IF Goal(spec[slot]) \subseteq NamesOf(held[slot]) THEN Advance
       ELSE /\ current' = [current EXCEPT ![slot] = held[slot]] /\ pc' = "list"
            /\ UNCHANGED <<spec, slot, left, found, todo, done>>
    /\ UNCHANGED <<want, server, alone>>

\* The slot's scopes are read. A list that is not set is skipped, and so is one
\* that matches by name.
ReadSlot ==
    /\ pc = "read" /\ ~ByID
    /\ \/ NoFault /\ ~Managed(spec[slot]) /\ Advance /\ UNCHANGED held
       \/ /\ NoFault /\ Managed(spec[slot]) /\ UNCHANGED held
          /\ IF NamesOf(held[slot]) = Goal(spec[slot]) THEN Advance
             ELSE /\ current' = [current EXCEPT ![slot] = held[slot]] /\ pc' = "list"
                  /\ UNCHANGED <<spec, slot, left, found, todo, done>>
       \/ Spend("fault") /\ Managed(spec[slot]) /\ Fail
    /\ UNCHANGED <<want, alive, born, alone>>

\* ListClientScopes.
List ==
    /\ pc = "list"
    /\ \/ /\ NoFault
          /\ found' = {<<n, alive[n]>> : n \in {m \in Names : alive[m] # 0}}
          /\ todo' = Goal(spec[slot]) \ NamesOf(current[slot]) /\ pc' = "add"
          /\ UNCHANGED <<spec, slot, left, current, done, held>>
       \/ Spend("fault") /\ Fail
    /\ UNCHANGED <<want, alive, born, alone>>

\* The next scope is assigned. One that was not listed, or is gone, is an error:
\* the ones before it stay assigned.
AddOne(n) ==
    LET id == {i \in found : i[1] = n}
        Live == id # {} /\ \A i \in id : alive[n] = i[2]
        Added == Live /\ held' = [held EXCEPT ![slot] = @ \cup id]
    IN  /\ pc = "add" /\ n \in todo
        /\ \/ /\ NoFault /\ Added /\ todo' = todo \ {n}
              /\ UNCHANGED <<pc, spec, slot, left, current, found, done>>
           \/ NoFault /\ ~Live /\ Fail
           \/ Spend("fault") /\ (Added \/ UNCHANGED held) /\ End(FALSE)
        /\ UNCHANGED <<want, alive, born, alone>>

\* Mutant: all that was read is removed.
AddsDoneAll ==
    /\ pc = "add" /\ todo = {}
    /\ todo' = NamesOf(current[slot]) /\ pc' = "remove"
    /\ UNCHANGED <<want, server, spec, slot, left, current, found, alone, done,
                   budget>>

\* All are assigned; removal begins.
AddsDone ==
    /\ pc = "add" /\ todo = {}
    /\ todo' = NamesOf(current[slot]) \ Goal(spec[slot]) /\ pc' = "remove"
    /\ UNCHANGED <<want, server, spec, slot, left, current, found, alone, done,
                   budget>>

\* The next scope is removed, unless it was not listed.
RemoveOne(n) ==
    LET Removed == held' = [held EXCEPT ![slot] = @ \ {i \in found : i[1] = n}]
    IN  /\ pc = "remove" /\ ~ByID /\ n \in todo
        /\ \/ /\ NoFault /\ Removed /\ todo' = todo \ {n}
              /\ UNCHANGED <<pc, spec, slot, left, current, found, done>>
           \/ Spend("fault") /\ (Removed \/ UNCHANGED held) /\ End(FALSE)
        /\ UNCHANGED <<want, alive, born, alone>>

\* The slot is done.
RemovesDone ==
    /\ pc = "remove" /\ ~ByID /\ todo = {}
    /\ Advance
    /\ UNCHANGED <<want, server, alone, budget>>

-----------------------------------------------------------------------------
(* Users and administrators *)

\* One list is edited. The first client that is listed sets clientRoles.
Edited(s, list) ==
    [t \in SlotSet |->
        IF t = s THEN list
        ELSE IF s = 1 \/ t = 1 \/ kind # "group" THEN want[t]
        ELSE IF list = None THEN None
        ELSE IF want[t] = None THEN Unlisted
        ELSE want[t]]

UserEdits ==
    /\ Spend("user")
    /\ \E s \in SlotSet, list \in {None, Unlisted} \cup SUBSET Names :
          want' = Edited(s, list) /\ want' \in Lists
    /\ UNCHANGED <<kind, server, pc, work, alone, done>>

\* A role or scope is created under a free name, with a new id.
ItemCreated(n) ==
    /\ alive[n] = 0
    /\ born' = born + 1 /\ alive' = [alive EXCEPT ![n] = born + 1]
    /\ UNCHANGED held

\* One is deleted: nobody holds it any more.
ItemDeleted(n) ==
    /\ alive[n] # 0
    /\ alive' = [alive EXCEPT ![n] = 0]
    /\ held' = [s \in SlotSet |-> {i \in held[s] : i[1] # n}]
    /\ UNCHANGED born

\* One is given to the resource, or taken from it.
ItemToggled(n) ==
    /\ alive[n] # 0
    /\ \E s \in SlotSet : held' = [held EXCEPT ![s] =
           IF <<n, alive[n]>> \in @ THEN @ \ {<<n, alive[n]>>}
           ELSE @ \cup {<<n, alive[n]>>}]
    /\ UNCHANGED <<alive, born>>

Administer ==
    /\ Spend("admin")
    /\ \E n \in Names : ItemCreated(n) \/ ItemDeleted(n) \/ ItemToggled(n)
    /\ alone' = FALSE
    /\ UNCHANGED <<kind, want, pc, work, done>>

Pass ==
    /\ \/ Start \/ ReadAll \/ AddAll \/ RemoveAll \/ Skip
       \/ ReadSlot \/ List \/ AddsDone \/ RemovesDone
       \/ \E n \in Names : Resolve(n) \/ AddOne(n) \/ RemoveOne(n)
    /\ UNCHANGED kind

Next == Pass \/ UserEdits \/ Administer

Spec == Init /\ [][Next]_vars

\* A failed PostApply is retried and a successful one repeated on resync.
FairSpec == Spec /\ WF_vars(Pass)

-----------------------------------------------------------------------------
(* Properties *)

\* "enforces the exact list" (client_types.go:148, group_types.go:56): a pass
\* that succeeds and that nobody disturbed leaves exactly the lists it worked
\* from, in every slot, whatever an earlier failure left half done.
SuccessEnforces ==
    pc = "idle" /\ done /\ alone =>
        \A s \in SlotSet : Managed(spec[s]) => held[s] = Exactly(spec[s])

\* "when unset, existing assignments are left untouched" (client_types.go:149,
\* group_types.go:57, :64): a pass changes no list that its spec does not set. A
\* role's composites are the exception: PostApply removes those it was not told.
UnsetUntouched ==
    [][kind # "role" /\ budget'.admin = budget.admin =>
          \A s \in SlotSet : spec[s] = None => held'[s] = held[s]]_vars

\* A pass never takes away what the spec grants: an item that the resource holds
\* and the spec names stays, even when the item is replaced by a new one of the
\* same name between the calls (driver_role_idp_group.go:497-507).
GrantsKept ==
    [][budget'.admin = budget.admin =>
          \A s \in SlotSet, n \in Names :
              n \in Goal(spec[s]) /\ <<n, alive[n]>> \in held[s]
              => <<n, alive[n]>> \in held'[s]]_vars

\* The resource holds exactly what the spec names, and what a pass under way holds
\* agrees: it will find nothing to do.
InPlace ==
    /\ \A s \in SlotSet : Managed(want[s]) => held[s] = Exactly(want[s])
    /\ pc # "idle" => spec = want
    /\ pc \in {"idle", "read"} \/ (ByID /\ current = held)
    /\ pc = "resolve" => found \subseteq Exactly(want[slot])
    /\ pc = "remove" => found = Exactly(want[slot])

\* Once users, administrators and faults stop, and if every named item exists,
\* the resource holds exactly what the spec names, for good: partial failures
\* heal and lost races are made up for.
Enforced ==
    <>[]((\A s \in SlotSet : \A n \in Goal(want[s]) : alive[n] # 0) => InPlace)

=============================================================================
