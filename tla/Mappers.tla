------------------------------- MODULE Mappers -------------------------------
(***************************************************************************)
(* PostApply of an identity provider: its mappers are listed once, then    *)
(* created, updated and deleted one call at a time until they are the ones *)
(* of spec.mappers. Mappers have a name and an id; updates and deletions   *)
(* go by id. The realm's administrators work on the mappers meanwhile, and *)
(* any call may fail.                                                      *)
(***************************************************************************)
EXTENDS Naturals

CONSTANTS
    None,
    Names,      \* of mappers
    Configs,    \* what a mapper does
    MaxUser,    \* edits of spec.mappers
    MaxAdmin,   \* what administrators do to the mappers
    MaxFault    \* calls that fail

ASSUME MappersAssumption == MaxUser \in Nat /\ MaxAdmin \in Nat /\ MaxFault \in Nat

\* spec.mappers by name. The code does not tell a list that is not set from an
\* empty one.
Lists == [Names -> {None} \cup Configs]

VARIABLES
    want,       \* spec.mappers
    mappers,    \* the mappers on the server
    born,       \* by name: the id the next mapper of that name gets
    pc,         \* where PostApply is
    spec,       \* the list it works on
    current,    \* the mappers it listed
    todo,       \* the names it has yet to see
    alone,      \* nobody else touched the mappers or the list since it began
    done,       \* it has just succeeded
    budget

server == <<mappers, born>>
pass == <<pc, spec, current, todo>>
vars == <<want, server, pass, alone, done, budget>>

\* Ids grow by name; administrators and repairs create mappers.
Mapper == [id: Nat, config: Configs]
MapperSet == [Names -> {None} \cup Mapper]

ASSUME NoneAssumption == None \notin Configs \cup Mapper

\* The lists and mappers are well formed, ids are those handed out so far, and
\* what is left to do is in the spec or, when pruning, only in the list.
TypeOK ==
    /\ want \in Lists /\ spec \in Lists
    /\ mappers \in MapperSet /\ current \in MapperSet /\ born \in [Names -> Nat]
    /\ \A n \in Names : /\ mappers[n] # None => mappers[n].id < born[n]
                        /\ current[n] # None => current[n].id < born[n]
    /\ pc \in {"idle", "list", "apply", "prune"} /\ todo \subseteq Names
    /\ \A n \in todo : \/ pc = "apply" /\ spec[n] # None
                       \/ pc = "prune" /\ current[n] # None /\ spec[n] = None
    /\ alone \in BOOLEAN /\ done \in BOOLEAN
    /\ budget \in [user: 0..MaxUser, admin: 0..MaxAdmin, fault: 0..MaxFault]

NoMappers == [n \in Names |-> None]

Init ==
    /\ want \in Lists
    /\ mappers = NoMappers /\ born = [n \in Names |-> 0]
    /\ pc = "idle" /\ spec = NoMappers /\ current = NoMappers /\ todo = {}
    /\ alone = FALSE /\ done = FALSE
    /\ budget = [user |-> MaxUser, admin |-> MaxAdmin, fault |-> MaxFault]

Spend(who) == budget[who] > 0 /\ budget' = [budget EXCEPT ![who] = @ - 1]
NoFault == UNCHANGED budget

\* PostApply returns.
End(ok) ==
    /\ pc' = "idle" /\ done' = ok
    /\ spec' = NoMappers /\ current' = NoMappers /\ todo' = {}

\* A call to the server: it is made, or fails, having been made or not.
Calls(Made, Goes) ==
    \/ NoFault /\ Made /\ Goes
    \/ Spend("fault") /\ (Made \/ UNCHANGED server) /\ End(FALSE)

\* The call finds its mapper gone, or the name taken: PostApply fails.
Refused == NoFault /\ UNCHANGED server /\ End(FALSE)

\* PostApply goes on with the next mapper.
Continue == UNCHANGED <<pc, spec, current, done>>

-----------------------------------------------------------------------------
Start ==
    /\ pc = "idle"
    /\ pc' = "list" /\ spec' = want /\ alone' = TRUE /\ done' = FALSE
    /\ UNCHANGED <<want, server, current, todo, budget>>

\* ListIdentityProviderMappers.
List ==
    /\ pc = "list"
    /\ \/ /\ NoFault /\ current' = mappers /\ pc' = "apply"
          /\ todo' = {n \in Names : spec[n] # None}
          /\ UNCHANGED <<spec, done>>
       \/ Spend("fault") /\ End(FALSE)
    /\ UNCHANGED <<want, server, alone>>

\* A mapper of the spec that was listed is compared, and updated if it differs.
Update(n) ==
    LET c == current[n]
        live == mappers[n] # None /\ mappers[n].id = c.id
        Put == mappers' = [mappers EXCEPT ![n].config = spec[n]] /\ UNCHANGED born
    IN  /\ pc = "apply" /\ n \in todo /\ c # None
        /\ \/ /\ c.config = spec[n]
              /\ todo' = todo \ {n} /\ Continue /\ UNCHANGED <<server, budget>>
           \/ /\ c.config # spec[n] /\ live
              /\ Calls(Put, todo' = todo \ {n} /\ Continue)
           \/ c.config # spec[n] /\ ~live /\ Refused
        /\ UNCHANGED <<want, alone>>

\* A mapper of the spec that was not listed is created.
Create(n) ==
    LET Post == /\ mappers' = [mappers EXCEPT ![n] = [id |-> born[n], config |-> spec[n]]]
                /\ born' = [born EXCEPT ![n] = @ + 1]
    IN  /\ pc = "apply" /\ n \in todo /\ current[n] = None
        /\ \/ mappers[n] = None /\ Calls(Post, todo' = todo \ {n} /\ Continue)
           \/ mappers[n] # None /\ Refused
        /\ UNCHANGED <<want, alone>>

\* Mutants: nothing is deleted; whatever the spec does not name is deleted; whatever
\* was listed is deleted.
UnwantedNone == {}
UnwantedAny == {n \in Names : spec[n] = None}
UnwantedListed == {n \in Names : current[n] # None}

\* The mappers that were listed and that the spec does not name.
Unwanted == {n \in Names : current[n] # None /\ spec[n] = None}

\* The spec's mappers are there; the others are to go.
Applied ==
    /\ pc = "apply" /\ todo = {}
    /\ pc' = "prune" /\ todo' = Unwanted
    /\ UNCHANGED <<want, server, spec, current, alone, done, budget>>

\* The mapper an id from the list stands for is still there.
Addressed(n) == mappers[n] # None /\ mappers[n].id = current[n].id

\* A mapper is deleted by the id it was listed with.
Delete(n) ==
    LET Remove == mappers' = [mappers EXCEPT ![n] = None] /\ UNCHANGED born
    IN  /\ pc = "prune" /\ n \in todo
        /\ \/ Addressed(n) /\ Calls(Remove, todo' = todo \ {n} /\ Continue)
           \/ ~Addressed(n) /\ Refused
        /\ UNCHANGED <<want, alone>>

\* PostApply succeeds.
Pruned ==
    /\ pc = "prune" /\ todo = {} /\ End(TRUE)
    /\ UNCHANGED <<want, server, alone, budget>>

-----------------------------------------------------------------------------
(* Everyone else *)

UserEdits(list) ==
    /\ Spend("user") /\ list # want
    /\ want' = list /\ alone' = FALSE
    /\ UNCHANGED <<server, pass, done>>

AdminCreates(n, c) ==
    /\ Spend("admin") /\ mappers[n] = None
    /\ mappers' = [mappers EXCEPT ![n] = [id |-> born[n], config |-> c]]
    /\ born' = [born EXCEPT ![n] = @ + 1] /\ alone' = FALSE
    /\ UNCHANGED <<want, pass, done>>

AdminEdits(n, c) ==
    /\ Spend("admin") /\ mappers[n] # None /\ mappers[n].config # c
    /\ mappers' = [mappers EXCEPT ![n].config = c] /\ alone' = FALSE
    /\ UNCHANGED <<want, born, pass, done>>

AdminDeletes(n) ==
    /\ Spend("admin") /\ mappers[n] # None
    /\ mappers' = [mappers EXCEPT ![n] = None] /\ alone' = FALSE
    /\ UNCHANGED <<want, born, pass, done>>

-----------------------------------------------------------------------------
PostApply ==
    \/ Start \/ List \/ Applied \/ Pruned
    \/ \E n \in Names : Update(n) \/ Create(n) \/ Delete(n)

Next ==
    \/ PostApply
    \/ \E list \in Lists : UserEdits(list)
    \/ \E n \in Names :
          AdminDeletes(n) \/ \E c \in Configs : AdminCreates(n, c) \/ AdminEdits(n, c)

Spec == Init /\ [][Next]_vars

\* Passes recur: resync on success, retry on error.
FairSpec == Spec /\ WF_vars(PostApply)

-----------------------------------------------------------------------------
(* Properties *)

\* A pass that succeeds while nobody else acts leaves exactly the mappers of the
\* spec, whatever earlier passes left half done.
SuccessEnforces ==
    done /\ alone =>
        \A n \in Names : IF want[n] = None THEN mappers[n] = None
                         ELSE mappers[n] # None /\ mappers[n].config = want[n]

\* A pass only repairs: a mapper that is as its list wants it, or gone as it wants,
\* stays so, be it an administrator's doing since the mappers were listed. A pass
\* that breaks off has undone nothing, and leaves the next one less to do.
OnlyRepairs ==
    [][pc # "idle" /\ budget'.admin = budget.admin =>
           \A n \in Names :
               (IF spec[n] = None THEN mappers[n] = None
                ELSE mappers[n] # None /\ mappers[n].config = spec[n])
               => mappers'[n] = mappers[n]]_vars

\* The mappers are the spec's, and what a pass under way holds agrees.
InPlace ==
    /\ \A n \in Names : IF want[n] = None THEN mappers[n] = None
                        ELSE mappers[n] # None /\ mappers[n].config = want[n]
    /\ pc # "idle" => spec = want
    /\ pc \in {"apply", "prune"} => current = mappers

\* Once users and administrators are done, the mappers come to be the spec's.
Enforced == <>[]InPlace
=============================================================================
