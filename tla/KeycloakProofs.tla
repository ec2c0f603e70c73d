--------------------------- MODULE KeycloakProofs ---------------------------
(***************************************************************************)
(* How Keycloak is called.                                                 *)
(*                                                                         *)
(* The mappers of an identity provider, for any names, configurations and  *)
(* bounds: a pass over them that is left alone succeeds, and then leaves   *)
(* the spec's mappers, which are kept; a pass deletes only what it listed. *)
(*                                                                         *)
(* The Admin API client, for any number of goroutines, calls, revocations  *)
(* and faults: at most one token request is under way, and the second      *)
(* attempt of a call never uses a token that was already dead when the     *)
(* first one failed; every call comes closer to its end with each of its   *)
(* steps.                                                                  *)
(***************************************************************************)
EXTENDS Mappers, AdminClient, TLAPS

\* The provers tried on a step that names none, in this order.
USE SMT, Zenon, SMTT(20), Z3T(20), SMTT(60)

ListType == want \in Lists /\ spec \in Lists

\* Ids are those handed out so far.
ServerType ==
    /\ mappers \in MapperSet /\ born \in [Names -> Nat]
    /\ \A n \in Names : mappers[n] # None => mappers[n].id < born[n]

CurrentType ==
    /\ current \in MapperSet
    /\ \A n \in Names : current[n] # None => current[n].id < born[n]

PassType ==
    /\ pc \in {"idle", "list", "apply", "prune"} /\ todo \subseteq Names
    /\ \A n \in todo : \/ pc = "apply" /\ spec[n] # None
                       \/ pc = "prune" /\ current[n] # None /\ spec[n] = None
    /\ alone \in BOOLEAN /\ done \in BOOLEAN

BudgetType == budget \in [user: 0..MaxUser, admin: 0..MaxAdmin, fault: 0..MaxFault]

LEMMA TypeParts ==
    ListType /\ ServerType /\ CurrentType /\ PassType /\ BudgetType => TypeOK
  BY DEF TypeOK, ListType, ServerType, CurrentType, PassType, BudgetType

\* The mapper of the name n is as the list w has it.
As(w, n) ==
    IF w[n] = None THEN mappers[n] = None
    ELSE mappers[n] # None /\ mappers[n].config = w[n]

\* How far an undisturbed pass has come with the name n: what it has not reached
\* is as it was listed.
Reached(n) ==
    /\ pc = "apply" =>
          IF n \in todo \/ spec[n] = None THEN mappers[n] = current[n] ELSE As(spec, n)
    /\ pc = "prune" =>
          IF n \in todo THEN mappers[n] = current[n] /\ spec[n] = None ELSE As(spec, n)

Undisturbed ==
    /\ done => pc = "idle"
    /\ alone => /\ pc # "idle" => spec = want
                /\ \A n \in Names : Reached(n)
                /\ done => \A n \in Names : As(want, n)

IInv ==
    /\ ListType /\ ServerType /\ CurrentType /\ PassType /\ BudgetType
    /\ Undisturbed

LEMMA SpendType ==
    ASSUME BudgetType, NEW who \in {"user", "admin", "fault"}, Spend(who)
    PROVE  /\ BudgetType'
           /\ who = "admin" => budget'.admin # budget.admin
           /\ who # "admin" => budget'.admin = budget.admin
  BY MappersAssumption DEF BudgetType, Spend

-----------------------------------------------------------------------------
(* Requests *)

\* A request changes the mapper of the name n, or nothing.
Touches(n) ==
    /\ ServerType' /\ \A m \in Names : born[m] <= born'[m]
    /\ \A m \in Names : m # n => mappers'[m] = mappers[m]

LEMMA PutEffect ==
    ASSUME ServerType, NEW n \in Names, mappers[n] # None, NEW c \in Configs,
           mappers' = [mappers EXCEPT ![n].config = c], UNCHANGED born
    PROVE  Touches(n) /\ mappers'[n] # None /\ mappers'[n].config = c
<1>1. mappers[n] \in Mapper /\ born[n] \in Nat
  BY DEF ServerType, MapperSet
<1>2. /\ mappers' = [mappers EXCEPT ![n] = [id |-> mappers[n].id, config |-> c]]
      /\ [id |-> mappers[n].id, config |-> c] \in Mapper
  <2>1. /\ [mappers[n] EXCEPT !.config = c] = [id |-> mappers[n].id, config |-> c]
        /\ [id |-> mappers[n].id, config |-> c] \in Mapper
    BY <1>1 DEF Mapper
  <2> QED
    BY Zenon, <2>1
<1>3. /\ mappers' \in MapperSet /\ mappers'[n] = [id |-> mappers[n].id, config |-> c]
      /\ \A m \in Names : m # n => mappers'[m] = mappers[m]
  BY Zenon, <1>2 DEF ServerType, MapperSet
<1>4. ServerType' /\ \A m \in Names : born[m] <= born'[m]
  BY <1>3 DEF ServerType
<1> QED
  BY <1>2, <1>3, <1>4, NoneAssumption DEF Touches

LEMMA PostEffect ==
    ASSUME ServerType, NEW n \in Names, NEW c \in Configs,
           mappers' = [mappers EXCEPT ![n] = [id |-> born[n], config |-> c]],
           born' = [born EXCEPT ![n] = @ + 1]
    PROVE  Touches(n) /\ mappers'[n] # None /\ mappers'[n].config = c
<1>1. [id |-> born[n], config |-> c] \in Mapper /\ born[n] \in Nat
  BY DEF ServerType, Mapper
<1>2. /\ mappers' \in MapperSet /\ mappers'[n] = [id |-> born[n], config |-> c]
      /\ \A m \in Names : m # n => mappers'[m] = mappers[m]
  BY <1>1 DEF ServerType, MapperSet
<1>3. /\ born' \in [Names -> Nat] /\ born'[n] = born[n] + 1
      /\ \A m \in Names : m # n => born'[m] = born[m]
  BY <1>1 DEF ServerType
<1>4. \A m \in Names : born[m] <= born'[m]
  BY <1>1, <1>3 DEF ServerType
<1>5. ServerType'
  BY <1>1, <1>2, <1>3 DEF ServerType
<1> QED
  BY <1>1, <1>2, <1>4, <1>5, NoneAssumption DEF Touches

LEMMA RemoveEffect ==
    ASSUME ServerType, NEW n \in Names,
           mappers' = [mappers EXCEPT ![n] = None], UNCHANGED born
    PROVE  Touches(n) /\ mappers'[n] = None
<1>1. /\ mappers' \in MapperSet /\ mappers'[n] = None
      /\ \A m \in Names : m # n => mappers'[m] = mappers[m]
  BY DEF ServerType, MapperSet
<1>2. ServerType' /\ \A m \in Names : born[m] <= born'[m]
  BY <1>1 DEF ServerType
<1> QED
  BY <1>1, <1>2 DEF Touches

LEMMA NoEffect ==
    ASSUME ServerType, UNCHANGED server, NEW n \in Names
    PROVE  Touches(n)
  BY DEF ServerType, Touches, server

LEMMA CurrentKept ==
    ASSUME ServerType, CurrentType, NEW n \in Names, Touches(n), UNCHANGED current
    PROVE  CurrentType'
<1> SUFFICES ASSUME NEW m \in Names, current[m] # None
             PROVE  current[m].id < born'[m]
  BY DEF CurrentType
<1>1. current[m].id \in Nat /\ born[m] \in Nat /\ born'[m] \in Nat
  BY DEF CurrentType, ServerType, Touches, MapperSet, Mapper
<1> QED
  BY <1>1 DEF CurrentType, Touches

-----------------------------------------------------------------------------
(* PostApply *)

\* PostApply returns: with an error, or with everything as the spec has it.
LEMMA EndInv ==
    ASSUME IInv, NEW ok \in BOOLEAN, End(ok), ServerType', BudgetType',
           UNCHANGED <<want, alone>>,
           ok /\ alone => \A n \in Names : As(want, n)'
    PROVE  IInv'
<1>1. /\ NoMappers \in Lists /\ NoMappers \in MapperSet
      /\ \A n \in Names : NoMappers[n] = None
  BY DEF NoMappers, Lists, MapperSet
<1>2. ListType' /\ CurrentType' /\ PassType'
  BY <1>1 DEF IInv, End, ListType, CurrentType, PassType
<1>3. Undisturbed'
  BY DEF End, Undisturbed, Reached
<1> QED
  BY <1>2, <1>3 DEF IInv

\* A request for the name n is made, or fails: an error ends PostApply whatever
\* became of the request.
LEMMA FailedInv ==
    ASSUME IInv, NEW n \in Names, Touches(n), End(FALSE), BudgetType',
           UNCHANGED <<want, alone>>
    PROVE  IInv'
  BY Zenon, EndInv DEF Touches

LEMMA StartInv ==
    ASSUME IInv, Start
    PROVE  IInv'
<1>1. /\ pc = "idle" /\ pc' = "list" /\ spec' = want /\ ~done'
      /\ UNCHANGED <<want, server, current, todo, budget>> /\ alone' = TRUE
  BY DEF Start
<1>2. ListType' /\ ServerType' /\ CurrentType' /\ BudgetType'
  BY <1>1 DEF IInv, ListType, ServerType, CurrentType, BudgetType, server
<1>3. PassType'
  BY Zenon, <1>1 DEF Start, IInv, PassType
<1>4. Undisturbed'
  BY <1>1 DEF Undisturbed, Reached
<1> QED
  BY <1>2, <1>3, <1>4 DEF IInv

LEMMA ListInv ==
    ASSUME IInv, List
    PROVE  IInv'
<1>1. CASE /\ current' = mappers /\ pc' = "apply"
           /\ todo' = {n \in Names : spec[n] # None}
           /\ UNCHANGED <<spec, done, want, server, alone, budget>>
  <2>1. ListType' /\ ServerType' /\ CurrentType' /\ BudgetType'
    BY <1>1 DEF IInv, ListType, ServerType, CurrentType, BudgetType, server
  <2>2. PassType'
    BY <1>1 DEF IInv, PassType
  <2>3. Undisturbed'
    BY <1>1 DEF IInv, Undisturbed, Reached, List, server
  <2> QED
    BY <2>1, <2>2, <2>3 DEF IInv
<1>2. CASE Spend("fault") /\ End(FALSE) /\ UNCHANGED <<want, server, alone>>
  <2>1. BudgetType' /\ ServerType'
    BY <1>2, SpendType DEF IInv, ServerType, server
  <2> QED
    BY Zenon, <1>2, <2>1, EndInv
<1> QED
  BY Zenon, <1>1, <1>2 DEF List, NoFault

\* PostApply is done with the name n, whose mapper is now as the spec has it, and
\* goes on.
LEMMA ContinueInv ==
    ASSUME IInv, NEW n \in Names, n \in todo, Touches(n), Continue,
           todo' = todo \ {n}, UNCHANGED <<want, alone, budget>>,
           alone => As(spec, n)'
    PROVE  IInv'
<1>1. UNCHANGED <<pc, spec, current, done>> /\ pc \in {"apply", "prune"}
  BY DEF Continue, IInv, PassType
<1>2. ListType' /\ ServerType' /\ CurrentType' /\ BudgetType'
  BY <1>1, CurrentKept DEF IInv, ListType, BudgetType, Touches
<1>3. PassType'
  BY <1>1 DEF IInv, PassType
<1>4. ~done
  BY <1>1 DEF IInv, Undisturbed
<1>5. ASSUME alone, NEW m \in Names
      PROVE  Reached(m)'
  <2>1. CASE m = n
    <3>1. CASE pc = "apply"
      <4>1. spec[n] # None
        BY <3>1 DEF IInv, PassType
      <4> QED
        BY <1>1, <1>5, <2>1, <3>1, <4>1 DEF Reached
    <3>2. CASE pc = "prune"
      BY <1>1, <1>5, <2>1, <3>2 DEF Reached
    <3> QED
      BY <1>1, <3>1, <3>2
  <2>2. CASE m # n
    <3>1. mappers'[m] = mappers[m] /\ (m \in todo' <=> m \in todo)
      BY <2>2 DEF Touches
    <3>2. Reached(m)
      BY <1>5 DEF IInv, Undisturbed
    <3> QED
      BY <1>1, <3>1, <3>2 DEF Reached, As
  <2> QED
    BY <2>1, <2>2
<1>6. Undisturbed'
  BY <1>1, <1>4, <1>5 DEF IInv, Undisturbed
<1> QED
  BY <1>2, <1>3, <1>6 DEF IInv

LEMMA UpdateInv ==
    ASSUME IInv, NEW n \in Names, Update(n)
    PROVE  IInv'
<1> DEFINE Put == mappers' = [mappers EXCEPT ![n].config = spec[n]] /\ UNCHANGED born
<1>1. /\ pc = "apply" /\ n \in todo /\ current[n] # None /\ UNCHANGED <<want, alone>>
      /\ spec[n] # None /\ spec[n] \in Configs
      /\ alone => mappers[n] = current[n]
  BY DEF Update, IInv, PassType, ListType, Lists, Undisturbed, Reached
<1>2. CASE /\ current[n].config = spec[n]
           /\ todo' = todo \ {n} /\ Continue /\ UNCHANGED <<server, budget>>
  <2>1. Touches(n)
    BY <1>2, NoEffect DEF IInv
  <2>2. alone => As(spec, n)'
    BY <1>1, <1>2 DEF As, Continue, server
  <2> QED
    BY <1>1, <1>2, <2>1, <2>2, ContinueInv
<1>3. ASSUME mappers[n] # None, Put
      PROVE  Touches(n) /\ mappers'[n] # None /\ mappers'[n].config = spec[n]
  BY Zenon, <1>1, <1>3, PutEffect DEF IInv
<1>4. CASE mappers[n] # None /\ Put /\ todo' = todo \ {n} /\ Continue /\ NoFault
  <2>1. As(spec, n)'
    BY <1>1, <1>3, <1>4 DEF As, Continue
  <2> QED
    BY <1>1, <1>3, <1>4, <2>1, ContinueInv DEF NoFault
<1>5. CASE /\ Spend("fault") \/ NoFault
           /\ (mappers[n] # None /\ Put) \/ UNCHANGED server
           /\ End(FALSE)
  <2>1. BudgetType'
    BY <1>5, SpendType DEF IInv, NoFault, BudgetType
  <2>2. Touches(n)
    BY <1>3, <1>5, NoEffect DEF IInv
  <2> QED
    BY Zenon, <1>1, <1>5, <2>1, <2>2, FailedInv
<1> QED
  BY Zenon, <1>2, <1>4, <1>5 DEF Update, Calls, Refused

LEMMA CreateInv ==
    ASSUME IInv, NEW n \in Names, Create(n)
    PROVE  IInv'
<1> DEFINE Post == /\ mappers' = [mappers EXCEPT ![n] = [id |-> born[n],
                                                         config |-> spec[n]]]
                   /\ born' = [born EXCEPT ![n] = @ + 1]
<1>1. /\ pc = "apply" /\ n \in todo /\ UNCHANGED <<want, alone>>
      /\ spec[n] # None /\ spec[n] \in Configs
  BY DEF Create, IInv, PassType, ListType, Lists
<1>2. ASSUME Post
      PROVE  Touches(n) /\ mappers'[n] # None /\ mappers'[n].config = spec[n]
  BY Zenon, <1>1, <1>2, PostEffect DEF IInv
<1>3. CASE Post /\ todo' = todo \ {n} /\ Continue /\ NoFault
  <2>1. As(spec, n)'
    BY <1>1, <1>2, <1>3 DEF As, Continue
  <2> QED
    BY <1>1, <1>2, <1>3, <2>1, ContinueInv DEF NoFault
<1>4. CASE (Spend("fault") \/ NoFault) /\ (Post \/ UNCHANGED server) /\ End(FALSE)
  <2>1. BudgetType'
    BY <1>4, SpendType DEF IInv, NoFault, BudgetType
  <2>2. Touches(n)
    BY <1>2, <1>4, NoEffect DEF IInv
  <2> QED
    BY Zenon, <1>1, <1>4, <2>1, <2>2, FailedInv
<1> QED
  BY Zenon, <1>3, <1>4 DEF Create, Calls, Refused

LEMMA DeleteInv ==
    ASSUME IInv, NEW n \in Names, Delete(n)
    PROVE  IInv'
<1> DEFINE Remove == mappers' = [mappers EXCEPT ![n] = None] /\ UNCHANGED born
<1>1. /\ pc = "prune" /\ n \in todo /\ UNCHANGED <<want, alone>>
      /\ alone => spec[n] = None
  BY DEF Delete, IInv, Undisturbed, Reached
<1>2. ASSUME Remove
      PROVE  Touches(n) /\ mappers'[n] = None
  BY Zenon, <1>2, RemoveEffect DEF IInv
<1>3. CASE Remove /\ todo' = todo \ {n} /\ Continue /\ NoFault
  <2>1. alone => As(spec, n)'
    BY <1>1, <1>2, <1>3 DEF As, Continue
  <2> QED
    BY <1>1, <1>2, <1>3, <2>1, ContinueInv DEF NoFault
<1>4. CASE (Spend("fault") \/ NoFault) /\ (Remove \/ UNCHANGED server) /\ End(FALSE)
  <2>1. BudgetType'
    BY <1>4, SpendType DEF IInv, NoFault, BudgetType
  <2>2. Touches(n)
    BY <1>2, <1>4, NoEffect DEF IInv
  <2> QED
    BY Zenon, <1>1, <1>4, <2>1, <2>2, FailedInv
<1> QED
  BY Zenon, <1>3, <1>4 DEF Delete, Calls, Refused

LEMMA AppliedInv ==
    ASSUME IInv, Applied
    PROVE  IInv'
<1>1. /\ pc = "apply" /\ todo = {} /\ pc' = "prune" /\ todo' = Unwanted
      /\ UNCHANGED <<want, server, spec, current, alone, done, budget>>
  BY DEF Applied
<1>2. ListType' /\ ServerType' /\ CurrentType' /\ BudgetType'
  BY <1>1 DEF IInv, ListType, ServerType, CurrentType, BudgetType, server
<1>3. PassType'
  BY <1>1 DEF IInv, PassType, Unwanted
<1>4. ~done
  BY <1>1 DEF IInv, Undisturbed
<1>5. ASSUME alone, NEW n \in Names
      PROVE  Reached(n)'
  <2>1. IF spec[n] = None THEN mappers[n] = current[n] ELSE As(spec, n)
    BY <1>1, <1>5 DEF IInv, Undisturbed, Reached
  <2>2. n \in todo' <=> current[n] # None /\ spec[n] = None
    BY <1>1 DEF Unwanted
  <2> QED
    BY <1>1, <2>1, <2>2 DEF Reached, As, server
<1>6. Undisturbed'
  BY <1>1, <1>4, <1>5 DEF IInv, Undisturbed
<1> QED
  BY <1>2, <1>3, <1>6 DEF IInv

LEMMA PrunedInv ==
    ASSUME IInv, Pruned
    PROVE  IInv'
<1>1. /\ pc = "prune" /\ todo = {} /\ End(TRUE)
      /\ UNCHANGED <<want, server, alone, budget>>
  BY Zenon DEF Pruned
<1>2. ServerType' /\ BudgetType'
  BY <1>1 DEF IInv, ServerType, BudgetType, server
<1>3. ASSUME alone, NEW n \in Names
      PROVE  As(want, n)'
  <2>1. As(spec, n) /\ spec = want
    BY <1>1, <1>3 DEF IInv, Undisturbed, Reached
  <2> QED
    BY <1>1, <2>1 DEF As, server
<1> QED
  BY Zenon, <1>1, <1>2, <1>3, EndInv

-----------------------------------------------------------------------------
(* Everyone else *)

LEMMA OthersInv ==
    ASSUME IInv,
           \/ \E list \in Lists : UserEdits(list)
           \/ \E n \in Names :
                 \/ AdminDeletes(n)
                 \/ \E c \in Configs : AdminCreates(n, c) \/ AdminEdits(n, c)
    PROVE  IInv'
<1>1. BudgetType' /\ alone' = FALSE /\ UNCHANGED <<pass, done>>
  BY SpendType DEF IInv, UserEdits, AdminDeletes, AdminCreates, AdminEdits
<1>2. PassType' /\ Undisturbed'
  BY Zenon, <1>1 DEF IInv, PassType, Undisturbed, pass
<1>3. CASE \E list \in Lists : UserEdits(list)
  <2>1. ListType' /\ ServerType' /\ CurrentType'
    BY <1>1, <1>3 DEF IInv, UserEdits, ListType, ServerType, CurrentType, pass, server
  <2> QED
    BY <1>1, <1>2, <2>1 DEF IInv
<1>4. ASSUME NEW n \in Names,
             AdminDeletes(n) \/ \E c \in Configs : AdminCreates(n, c) \/ AdminEdits(n, c)
      PROVE  IInv'
  <2>1. Touches(n) /\ UNCHANGED want
    BY <1>4, RemoveEffect, PostEffect, PutEffect
    DEF IInv, AdminDeletes, AdminCreates, AdminEdits
  <2>2. CurrentType' /\ ListType' /\ ServerType'
    BY <1>1, <2>1, CurrentKept DEF IInv, pass, ListType, Touches
  <2> QED
    BY <1>1, <1>2, <2>2 DEF IInv
<1> QED
  BY <1>3, <1>4

LEMMA StutterInv ==
    ASSUME IInv, UNCHANGED vars
    PROVE  IInv'
<1>1. ListType' /\ ServerType' /\ CurrentType' /\ PassType' /\ BudgetType'
  BY DEF IInv, vars, server, pass, ListType, ServerType, CurrentType, PassType, BudgetType
<1>2. Undisturbed'
  BY DEF IInv, vars, server, pass, Undisturbed, Reached, As
<1> QED
  BY <1>1, <1>2 DEF IInv

LEMMA InitInv == Init => IInv
<1> SUFFICES ASSUME Init
             PROVE  IInv
  OBVIOUS
<1>1. /\ NoMappers \in Lists /\ NoMappers \in MapperSet
      /\ \A n \in Names : NoMappers[n] = None
  BY DEF NoMappers, Lists, MapperSet
<1>2. ListType /\ ServerType /\ CurrentType /\ PassType
  BY Zenon, <1>1 DEF Init, ListType, ServerType, CurrentType, PassType
<1>3. BudgetType
  BY MappersAssumption DEF Init, BudgetType
<1>4. Undisturbed
  BY DEF Init, Undisturbed
<1> QED
  BY <1>2, <1>3, <1>4 DEF IInv

LEMMA NextInv == IInv /\ [Next]_vars => IInv'
<1> SUFFICES ASSUME IInv, [Next]_vars
             PROVE  IInv'
  OBVIOUS
<1>1. CASE PostApply
  BY <1>1, StartInv, ListInv, AppliedInv, PrunedInv, UpdateInv, CreateInv, DeleteInv
  DEF PostApply
<1> QED
  BY <1>1, OthersInv, StutterInv DEF Next

\* For any names, configurations and bounds, the lists of a pass are well formed,
\* and what it has yet to do is in the spec or in what it listed
\* (driver_role_idp_group.go:231-284).
THEOREM MappersTypes == Spec => []TypeOK
<1>1. IInv => TypeOK
  BY TypeParts DEF IInv
<1> QED
  BY InitInv, NextInv, <1>1, PTL DEF Spec

\* A pass over the mappers that succeeds undisturbed leaves exactly the spec's,
\* whatever was there (driver_role_idp_group.go:231-284).
THEOREM UndisturbedEnforces == Spec => []SuccessEnforces
<1>1. IInv => SuccessEnforces
  BY DEF IInv, Undisturbed, As, SuccessEnforces
<1> QED
  BY InitInv, NextInv, <1>1, PTL DEF Spec

\* A pass works on mappers that are not as its list wants them, however old what it
\* read of them is (driver_role_idp_group.go:231-284).
THEOREM PassesOnlyRepair == Spec => OnlyRepairs
<1> DEFINE Right(n) == IF spec[n] = None THEN mappers[n] = None
                       ELSE mappers[n] # None /\ mappers[n].config = spec[n]
           A == pc # "idle" /\ budget'.admin = budget.admin =>
                   \A n \in Names : Right(n) => mappers'[n] = mappers[n]
<1>1. IInv /\ [Next]_vars => [A]_vars
  <2> SUFFICES ASSUME IInv, Next, budget'.admin = budget.admin, NEW n \in Names, Right(n)
               PROVE  mappers'[n] = mappers[n]
    OBVIOUS
  <2>1. ~\E m \in Names : \/ AdminDeletes(m)
                          \/ \E c \in Configs : AdminCreates(m, c) \/ AdminEdits(m, c)
    BY SpendType DEF IInv, AdminDeletes, AdminCreates, AdminEdits
  <2>2. CASE UNCHANGED server
    BY <2>2 DEF server
  <2>3. ASSUME NEW m \in Names, Update(m) \/ Create(m) \/ Delete(m), ~UNCHANGED server
        PROVE  mappers'[n] = mappers[n]
    <3>1. m \in todo /\ mappers \in [Names -> {None} \cup Mapper]
      BY Zenon, <2>3 DEF Update, Create, Delete, IInv, ServerType, MapperSet
    <3>2. CASE Update(m)
      <4>1. /\ mappers[m] # None /\ spec[m] # None
            /\ mappers' = [mappers EXCEPT ![m].config = spec[m]]
        <5>1. spec[m] # None
          BY <3>1, <3>2 DEF Update, IInv, PassType
        <5> QED
          BY Zenon, <2>3, <3>2, <5>1 DEF Update, Calls, Refused
      <4>2. CASE n = m
        <5>1. mappers[n] \in Mapper /\ mappers[n].config = spec[n]
          BY <3>1, <4>1, <4>2
        <5>2. mappers'[n] = [mappers[n] EXCEPT !.config = spec[n]]
          BY <3>1, <4>1, <4>2
        <5> QED
          BY <5>1, <5>2 DEF Mapper
      <4> QED
        BY <3>1, <4>1, <4>2
    <3>3. CASE Create(m)
      <4>1. mappers[m] = None /\ \E v : mappers' = [mappers EXCEPT ![m] = v]
        BY Zenon, <2>3, <3>3 DEF Create, Calls, Refused
      <4>2. spec[m] # None
        BY <3>1, <3>3 DEF Create, IInv, PassType
      <4> QED
        BY <3>1, <4>1, <4>2
    <3>4. CASE Delete(m)
      <4>1. mappers[m] # None /\ \E v : mappers' = [mappers EXCEPT ![m] = v]
        BY Zenon, <2>3, <3>4 DEF Delete, Addressed, Calls, Refused
      <4>2. spec[m] = None
        BY <3>1, <3>4 DEF Delete, IInv, PassType
      <4> QED
        BY <3>1, <4>1, <4>2
    <3> QED
      BY <2>3, <3>2, <3>3, <3>4
  <2> QED
    BY Zenon, <2>1, <2>2, <2>3
       DEF Next, PostApply, Start, List, Applied, Pruned, UserEdits
<1> QED
  BY InitInv, NextInv, <1>1, PTL DEF Spec, OnlyRepairs

-----------------------------------------------------------------------------
(* Undisturbed passes *)

LEMMA NotSpent ==
    ASSUME BudgetType, budget' = budget
    PROVE  \A who \in {"user", "admin", "fault"} : ~Spend(who)
<1> SUFFICES ASSUME NEW who \in {"user", "admin", "fault"}, Spend(who)
             PROVE  FALSE
  OBVIOUS
<1>1. budget[who] \in Nat /\ budget'[who] = budget[who] - 1
  BY DEF Spend, BudgetType
<1> QED
  BY <1>1

\* When nobody spends, only PostApply moves, and no call of it fails.
LEMMA OwnSteps ==
    ASSUME IInv, Next, budget' = budget
    PROVE  PostApply /\ ~Spend("fault")
<1>1. ~Spend("user") /\ ~Spend("admin") /\ ~Spend("fault")
  BY NotSpent DEF IInv
<1> QED
  BY Zenon, <1>1 DEF Next, UserEdits, AdminDeletes, AdminCreates, AdminEdits

\* A pass that nobody disturbs and of whose calls none fails is never refused one: it
\* succeeds, and so leaves the mappers of the spec (driver_role_idp_group.go:231-284).
THEOREM AloneSucceeds ==
    Spec => [][alone /\ pc # "idle" /\ pc' = "idle" /\ budget' = budget => done']_vars
<1>1. IInv /\ [Next]_vars
          => [alone /\ pc # "idle" /\ pc' = "idle" /\ budget' = budget => done']_vars
  <2> SUFFICES ASSUME IInv, Next, alone, pc # "idle", pc' = "idle", budget' = budget
               PROVE  done'
    OBVIOUS
  <2>1. ~Spend("fault") /\ PostApply
    BY OwnSteps
  <2>2. ~Start /\ ~List /\ ~Applied
    BY Zenon, <2>1 DEF Start, List, Applied
  <2>3. ASSUME NEW n \in Names, n \in todo, pc = "apply" \/ pc = "prune"
        PROVE  mappers[n] = current[n]
    BY <2>3 DEF IInv, Undisturbed, Reached
  <2>4. ASSUME NEW n \in Names, Update(n) \/ Create(n) \/ Delete(n)
        PROVE  FALSE
    <3>1. n \in todo /\ (pc = "apply" \/ pc = "prune") /\ mappers[n] = current[n]
      BY Zenon, <2>3, <2>4 DEF Update, Create, Delete
    <3>2. ~Continue
      BY <3>1 DEF Continue
    <3>3. CASE Update(n)
      BY Zenon, <2>1, <3>1, <3>2, <3>3 DEF Update, Calls
    <3>4. CASE Create(n)
      BY Zenon, <2>1, <3>1, <3>2, <3>4 DEF Create, Calls
    <3>5. CASE Delete(n)
      <4>1. current[n] # None
        BY <3>1, <3>5 DEF Delete, IInv, PassType
      <4> QED
        BY Zenon, <2>1, <3>1, <3>2, <3>5, <4>1 DEF Delete, Addressed, Calls
    <3> QED
      BY <2>4, <3>3, <3>4, <3>5
  <2> QED
    BY Zenon, <2>1, <2>2, <2>4 DEF PostApply, Pruned, End
<1> QED
  BY InitInv, NextInv, <1>1, PTL DEF Spec

\* Mappers that are the spec's stay as they are, ids included: while nobody else acts
\* and no call fails, passes go on and write nothing
\* (driver_role_idp_group.go:231-284).
THEOREM InPlaceIsKept ==
    Spec => [][InPlace /\ budget' = budget
                   => InPlace' /\ UNCHANGED <<mappers, born, want>>]_vars
<1> DEFINE A == InPlace /\ budget' = budget
                   => InPlace' /\ UNCHANGED <<mappers, born, want>>
<1>1. IInv /\ [Next]_vars => [A]_vars
  <2> SUFFICES ASSUME IInv, Next, InPlace, budget' = budget
               PROVE  InPlace' /\ UNCHANGED <<mappers, born, want>>
    OBVIOUS
  <2> DEFINE Moves == /\ pc' # "idle" => spec' = want
                      /\ pc' \in {"apply", "prune"} => current' = mappers
  <2>1. ~Spend("fault") /\ PostApply
    BY OwnSteps
  <2>2. ASSUME UNCHANGED <<server, want>>, Moves
        PROVE  InPlace' /\ UNCHANGED <<mappers, born, want>>
    BY <2>2 DEF InPlace, server
  <2>3. CASE Start
    <3>1. UNCHANGED <<server, want>> /\ Moves
      BY <2>3 DEF Start
    <3> QED
      BY <2>2, <3>1
  <2>4. CASE List
    <3>1. pc = "list" /\ current' = mappers /\ UNCHANGED <<server, want, spec>>
      BY Zenon, <2>1, <2>4 DEF List
    <3> QED
      BY <2>2, <3>1 DEF InPlace
  <2>5. CASE Applied \/ Pruned
    <3>1. /\ UNCHANGED <<server, want>> /\ pc \in {"apply", "prune"}
          /\ pc' # "idle" => UNCHANGED <<spec, current>>
      BY <2>5 DEF Applied, Pruned, End
    <3> QED
      BY <2>2, <3>1 DEF InPlace
  <2>6. ASSUME NEW n \in Names, Update(n) \/ Create(n) \/ Delete(n)
        PROVE  InPlace' /\ UNCHANGED <<mappers, born, want>>
    <3>1. /\ pc \in {"apply", "prune"} /\ n \in todo /\ spec = want
          /\ current[n] = mappers[n]
      BY Zenon, <2>6 DEF Update, Create, Delete, InPlace
    <3>2. /\ pc = "apply" => want[n] # None /\ mappers[n] # None
                             /\ mappers[n].config = want[n]
          /\ pc = "prune" => current[n] # None /\ want[n] = None
      BY <3>1 DEF IInv, PassType, InPlace
    <3>3. pc = "apply"
      <4>1. CASE pc = "prune"
        BY <3>1, <3>2, <4>1 DEF InPlace
      <4> QED
        BY <3>1, <4>1
    <3>4. Continue /\ UNCHANGED <<server, want>>
      BY Zenon, <2>6, <3>1, <3>2, <3>3 DEF Update, Create, Delete
    <3> QED
      BY <2>2, <3>1, <3>4 DEF Continue, InPlace
  <2> QED
    BY <2>1, <2>3, <2>4, <2>5, <2>6 DEF PostApply
<1> QED
  BY InitInv, NextInv, <1>1, PTL DEF Spec

-----------------------------------------------------------------------------
(* The Admin API client: its types *)

USE DEF NoToken, Stages, Results

\* The initial state is well typed.
LEMMA InitTyped == ClientInit => ClientTypeOK
<1> SUFFICES ASSUME ClientInit PROVE ClientTypeOK
  OBVIOUS
<1>1. allowance \in [call: Nat, revoke: Nat, fault: Nat]
  BY BoundsAssumption DEF ClientInit
<1>2. issued \in Nat /\ valid \subseteq 1..issued
  BY DEF ClientInit
<1> QED
  BY Zenon, <1>1, <1>2 DEF ClientInit, ClientTypeOK

\* A bound is spent one unit at a time.
LEMMA SpendTyped ==
    ASSUME allowance \in [call: Nat, revoke: Nat, fault: Nat],
           NEW what \in {"call", "revoke", "fault"}, Take(what)
    PROVE  allowance' \in [call: Nat, revoke: Nat, fault: Nat]
<1>1. allowance[what] - 1 \in Nat
  BY DEF Take
<1> QED
  BY <1>1 DEF Take

\* The end of an attempt.
LEMMA EndedTyped ==
    ASSUME ClientTypeOK, NEW w \in Goroutines, NEW r \in Results, Ended(w, r)
    PROVE  /\ stage' \in [Goroutines -> Stages] /\ attempt' \in [Goroutines -> {1, 2}]
           /\ using' \in [Goroutines -> Nat] /\ result' \in [Goroutines -> Results]
           /\ noticed' = noticed
  BY DEF Ended, ClientTypeOK

\* Every step keeps the types.
LEMMA StepTyped == ClientTypeOK /\ [ClientNext]_clientVars => ClientTypeOK'
<1> SUFFICES ASSUME ClientTypeOK, [ClientNext]_clientVars PROVE ClientTypeOK'
  OBVIOUS
<1>1. ASSUME NEW w \in Goroutines, Call(w) PROVE ClientTypeOK'
  <2>1. allowance' \in [call: Nat, revoke: Nat, fault: Nat]
    BY <1>1, SpendTyped DEF Call, ClientTypeOK
  <2>2. noticed' \in [Goroutines -> SUBSET (1..issued')]
    BY <1>1 DEF Call, ClientTypeOK, books
  <2> QED
    BY <1>1, <2>1, <2>2 DEF Call, ClientTypeOK, mutex, books
<1>2. ASSUME NEW w \in Goroutines, TokenHit(w) PROVE ClientTypeOK'
  BY <1>2 DEF TokenHit, ClientTypeOK, mutex, books
<1>3. ASSUME NEW w \in Goroutines, TokenMiss(w) PROVE ClientTypeOK'
  BY <1>3 DEF TokenMiss, ClientTypeOK, books
<1>4. ASSUME NEW w \in Goroutines, Issue(w) PROVE ClientTypeOK'
  <2>1. issued + 1 \in Nat /\ 1..issued \subseteq 1..(issued + 1)
    BY DEF ClientTypeOK
  <2>2. valid' \subseteq 1..issued'
    BY <1>4, <2>1 DEF Issue, ClientTypeOK
  <2>3. noticed' \in [Goroutines -> SUBSET (1..issued')]
    BY <1>4, <2>1 DEF Issue, ClientTypeOK
  <2> QED
    BY <1>4, <2>1, <2>2, <2>3 DEF Issue, ClientTypeOK
<1>5. ASSUME NEW w \in Goroutines, GrantFails(w) PROVE ClientTypeOK'
  BY <1>5, EndedTyped, SpendTyped DEF GrantFails, ClientTypeOK, books
<1>6. ASSUME NEW w \in Goroutines, Store(w) PROVE ClientTypeOK'
  BY <1>6 DEF Store, ClientTypeOK, books
<1>7. ASSUME NEW w \in Goroutines, Request(w) PROVE ClientTypeOK'
  BY <1>7, EndedTyped, SpendTyped DEF Request, ClientTypeOK, mutex, books
<1>8. ASSUME NEW w \in Goroutines, Invalidate(w) PROVE ClientTypeOK'
  <2>1. 1..issued \ valid \in SUBSET (1..issued)
    BY Zenon
  <2>2. noticed' \in [Goroutines -> SUBSET (1..issued')]
    BY <1>8, <2>1 DEF Invalidate, ClientTypeOK, books
  <2> QED
    BY Zenon, <1>8, <2>2 DEF Invalidate, ClientTypeOK, books
<1>9. ASSUME Revoke PROVE ClientTypeOK'
  <2>1. allowance' \in [call: Nat, revoke: Nat, fault: Nat]
    BY <1>9, SpendTyped DEF Revoke, ClientTypeOK
  <2>2. valid' \subseteq 1..issued' /\ issued' = issued
    BY <1>9 DEF Revoke, ClientTypeOK
  <2> QED
    BY <1>9, <2>1, <2>2 DEF Revoke, ClientTypeOK, local, mutex
<1>10. ASSUME Age PROVE ClientTypeOK'
  <2>1. allowance' \in [call: Nat, revoke: Nat, fault: Nat]
    BY <1>10, SpendTyped DEF Age, ClientTypeOK
  <2> QED
    BY Zenon, <1>10, <2>1 DEF Age, ClientTypeOK, local, books
<1>11. ASSUME CredentialsChange PROVE ClientTypeOK'
  <2>1. allowance' \in [call: Nat, revoke: Nat, fault: Nat]
    BY <1>11 DEF CredentialsChange, ClientTypeOK
  <2> QED
    BY <1>11, <2>1 DEF CredentialsChange, ClientTypeOK, local, mutex
<1>12. ASSUME UNCHANGED clientVars PROVE ClientTypeOK'
  BY <1>12 DEF ClientTypeOK, clientVars, local, mutex, books
<1> QED
  BY <1>1, <1>2, <1>3, <1>4, <1>5, <1>6, <1>7, <1>8, <1>9, <1>10, <1>11, <1>12
  DEF ClientNext, Step

\* The state of the client keeps its types (Client, Do, Token, invalidate).
THEOREM ClientTyped == ClientSpec => []ClientTypeOK
  BY InitTyped, StepTyped, PTL DEF ClientSpec

-----------------------------------------------------------------------------
(* One token request at a time *)

\* Inside Token a worker holds the mutex, outside nobody does.
LEMMA StepOneGrant ==
    ClientTypeOK /\ OneGrantAtATime /\ [ClientNext]_clientVars => OneGrantAtATime'
<1> SUFFICES ASSUME ClientTypeOK, OneGrantAtATime, [ClientNext]_clientVars
             PROVE  OneGrantAtATime'
  OBVIOUS
<1> USE DEF ClientTypeOK, OneGrantAtATime
<1>1. ASSUME NEW w \in Goroutines, Call(w) PROVE OneGrantAtATime'
  BY <1>1 DEF Call, mutex
<1>2. ASSUME NEW w \in Goroutines, TokenHit(w) PROVE OneGrantAtATime'
  BY <1>2 DEF TokenHit, mutex
<1>3. ASSUME NEW w \in Goroutines, TokenMiss(w) PROVE OneGrantAtATime'
  BY <1>3, GoroutinesAssumption DEF TokenMiss
<1>4. ASSUME NEW w \in Goroutines, Issue(w) PROVE OneGrantAtATime'
  BY <1>4 DEF Issue
<1>5. ASSUME NEW w \in Goroutines, GrantFails(w) PROVE OneGrantAtATime'
  BY <1>5, GoroutinesAssumption DEF GrantFails, Ended
<1>6. ASSUME NEW w \in Goroutines, Store(w) PROVE OneGrantAtATime'
  BY <1>6, GoroutinesAssumption DEF Store
<1>7. ASSUME NEW w \in Goroutines, Request(w) PROVE OneGrantAtATime'
  BY <1>7 DEF Request, Ended, mutex
<1>8. ASSUME NEW w \in Goroutines, Invalidate(w) PROVE OneGrantAtATime'
  BY <1>8, GoroutinesAssumption DEF Invalidate
<1>9. ASSUME Revoke \/ Age \/ CredentialsChange \/ UNCHANGED clientVars
      PROVE  OneGrantAtATime'
  BY <1>9 DEF Revoke, Age, CredentialsChange, clientVars, local, mutex
<1> QED
  BY <1>1, <1>2, <1>3, <1>4, <1>5, <1>6, <1>7, <1>8, <1>9 DEF ClientNext, Step

\* At most one token request is under way, by the holder of the mutex
\* (Client.Token, which holds mu across the HTTP request).
THEOREM OneGrant == ClientSpec => []OneGrantAtATime
<1>1. ClientInit => OneGrantAtATime
  BY ZenonT(40), GoroutinesAssumption DEF ClientInit, OneGrantAtATime
<1> QED
  BY <1>1, InitTyped, StepTyped, StepOneGrant, PTL DEF ClientSpec

-----------------------------------------------------------------------------
(* The second token is new *)

\* Once a worker dropped the cached token, neither the cache nor an answer on
\* its way holds a token that was dead then; an answer is on its way only to the
\* holder of the mutex.
NewInv ==
    /\ granted # NoToken => \E w \in Goroutines : stage[w] = "granted"
    /\ \A w \in Goroutines :
          attempt[w] = 2 /\ stage[w] # "idle" =>
              /\ cached \notin noticed[w] /\ granted \notin noticed[w]
              /\ stage[w] = "request" => using[w] \notin noticed[w]

\* Every step keeps NewInv: only Token stores a token, and a new one is in no set
\* of tokens turned down before.
LEMMA StepNew ==
    ClientTypeOK /\ OneGrantAtATime /\ NewInv /\ [ClientNext]_clientVars => NewInv'
<1> SUFFICES ASSUME ClientTypeOK, OneGrantAtATime, NewInv, [ClientNext]_clientVars
             PROVE  NewInv'
  OBVIOUS
<1>zero. \A w \in Goroutines : NoToken \notin noticed[w]
  BY DEF ClientTypeOK
<1>new. \A w \in Goroutines : issued + 1 \notin noticed[w]
  BY DEF ClientTypeOK
<1> USE DEF ClientTypeOK, NewInv
<1>1. ASSUME NEW w \in Goroutines, Call(w) PROVE NewInv'
  BY <1>1 DEF Call, mutex
<1>2. ASSUME NEW w \in Goroutines, TokenHit(w) PROVE NewInv'
  BY <1>2 DEF TokenHit, mutex
<1>3. ASSUME NEW w \in Goroutines, TokenMiss(w) PROVE NewInv'
  BY <1>3 DEF TokenMiss
<1>4. ASSUME NEW w \in Goroutines, Issue(w) PROVE NewInv'
  BY <1>4, <1>new DEF Issue
<1>5. ASSUME NEW w \in Goroutines, GrantFails(w) PROVE NewInv'
  BY <1>5 DEF GrantFails, Ended
<1>6. ASSUME NEW w \in Goroutines, Store(w) PROVE NewInv'
  BY <1>6, <1>zero DEF Store
<1>7. ASSUME NEW w \in Goroutines, Request(w) PROVE NewInv'
  BY <1>7 DEF Request, Ended, mutex
<1>8. ASSUME NEW w \in Goroutines, Invalidate(w) PROVE NewInv'
  <2>1. granted = NoToken
    BY <1>8, GoroutinesAssumption DEF Invalidate, OneGrantAtATime
  <2>2. NoToken \notin 1..issued \ valid
    OBVIOUS
  <2> QED
    BY <1>8, <1>zero, <2>1, <2>2 DEF Invalidate
<1>9. ASSUME Revoke \/ Age \/ CredentialsChange \/ UNCHANGED clientVars PROVE NewInv'
  BY <1>9 DEF Revoke, Age, CredentialsChange, clientVars, local, mutex, books
<1> QED
  BY <1>1, <1>2, <1>3, <1>4, <1>5, <1>6, <1>7, <1>8, <1>9 DEF ClientNext, Step

\* A revocation that the first attempt of a call met is not met again by the
\* second (Client.Do, Client.invalidate).
THEOREM SecondTokenNew == ClientSpec => []SecondTokenIsNew
<1>1. ClientInit => OneGrantAtATime /\ NewInv
  BY GoroutinesAssumption DEF ClientInit, OneGrantAtATime, NewInv
<1>2. NewInv => SecondTokenIsNew
  BY DEF NewInv, SecondTokenIsNew
<1> QED
  BY <1>1, <1>2, InitTyped, StepTyped, StepOneGrant, StepNew, PTL DEF ClientSpec

-----------------------------------------------------------------------------
(* Calls come to an end *)

\* How many steps a call has before it at most: five of the first attempt, dropping
\* the token included, and four of the second.
Distance(w) ==
    LET left == [idle |-> 0, invalidate |-> 0, request |-> 1, granted |-> 2,
                 granting |-> 3, token |-> 4]
    IN  IF stage[w] # "idle" /\ attempt[w] = 1 THEN left[stage[w]] + 5 ELSE left[stage[w]]

\* Only a first attempt is followed by another.
OneRetry == \A w \in Goroutines : stage[w] = "invalidate" => attempt[w] = 1

\* A call that is under way comes closer to its end, or is not touched.
Advances(w) ==
    stage[w] # "idle" =>
        \/ Distance(w)' < Distance(w)
        \/ stage'[w] = stage[w] /\ attempt'[w] = attempt[w]

\* The end of an attempt brings the call closer to its end.
LEMMA EndedAdvances ==
    ASSUME ClientTypeOK, NEW w \in Goroutines, NEW r, Ended(w, r),
           stage[w] \in {"granting", "request"}
    PROVE  Advances(w) /\ (stage'[w] = "invalidate" => attempt'[w] = 1)
<1>1. CASE r = "auth" /\ attempt[w] = 1
  <2>1. stage'[w] = "invalidate" /\ attempt'[w] = 1
    BY <1>1 DEF Ended, ClientTypeOK
  <2> QED
    BY <1>1, <2>1 DEF Advances, Distance
<1>2. CASE ~(r = "auth" /\ attempt[w] = 1)
  <2>1. stage'[w] = "idle" /\ attempt'[w] = attempt[w] /\ attempt[w] \in {1, 2}
    BY <1>2 DEF Ended, ClientTypeOK
  <2> QED
    BY <2>1 DEF Advances, Distance
<1> QED
  BY <1>1, <1>2

\* Every step, whoever takes it.
LEMMA StepAdvances ==
    ASSUME ClientTypeOK, OneRetry, [ClientNext]_clientVars
    PROVE  OneRetry' /\ \A w \in Goroutines : Advances(w)
<1>1. ASSUME NEW w \in Goroutines,
             stage' = [stage EXCEPT ![w] = stage'[w]],
             attempt' = [attempt EXCEPT ![w] = attempt'[w]],
             Advances(w) /\ (stage'[w] = "invalidate" => attempt'[w] = 1)
      PROVE  OneRetry' /\ \A v \in Goroutines : Advances(v)
  <2>1. \A v \in Goroutines : v # w => stage'[v] = stage[v] /\ attempt'[v] = attempt[v]
    BY Zenon, <1>1 DEF ClientTypeOK
  <2> QED
    BY <1>1, <2>1 DEF OneRetry, Advances
<1>2. ASSUME NEW w \in Goroutines, Call(w) \/ Step(w)
      PROVE  /\ stage' = [stage EXCEPT ![w] = stage'[w]]
             /\ attempt' = [attempt EXCEPT ![w] = attempt'[w]]
  BY <1>2 DEF Call, Step, TokenHit, TokenMiss, Issue, GrantFails, Store, Request,
     Invalidate, Ended, ClientTypeOK
<1>3. ASSUME NEW w \in Goroutines, Call(w)
      PROVE  Advances(w) /\ (stage'[w] = "invalidate" => attempt'[w] = 1)
  BY <1>3 DEF Call, Advances, ClientTypeOK
<1>4. ASSUME NEW w \in Goroutines, GrantFails(w) \/ Request(w)
      PROVE  Advances(w) /\ (stage'[w] = "invalidate" => attempt'[w] = 1)
  BY <1>4, EndedAdvances DEF GrantFails, Request
<1>5. ASSUME NEW w \in Goroutines, TokenHit(w) \/ TokenMiss(w) \/ Issue(w) \/ Store(w)
      PROVE  Advances(w) /\ (stage'[w] = "invalidate" => attempt'[w] = 1)
  <2>1. /\ attempt'[w] = attempt[w] /\ attempt[w] \in {1, 2}
        /\ \/ stage[w] = "token" /\ stage'[w] \in {"request", "granting"}
           \/ stage[w] = "granting" /\ stage'[w] = "granted"
           \/ stage[w] = "granted" /\ stage'[w] = "request"
    BY <1>5 DEF TokenHit, TokenMiss, Issue, Store, ClientTypeOK
  <2> QED
    BY <2>1 DEF Advances, Distance
<1>6. ASSUME NEW w \in Goroutines, Invalidate(w)
      PROVE  Advances(w) /\ (stage'[w] = "invalidate" => attempt'[w] = 1)
  <2>1. stage[w] = "invalidate" /\ attempt[w] = 1 /\ stage'[w] = "token" /\ attempt'[w] = 2
    BY <1>6 DEF Invalidate, OneRetry, ClientTypeOK
  <2> QED
    BY <2>1 DEF Advances, Distance
<1>7. ASSUME NEW w \in Goroutines, Call(w) \/ Step(w)
      PROVE  OneRetry' /\ \A v \in Goroutines : Advances(v)
  BY <1>1, <1>2, <1>3, <1>4, <1>5, <1>6, <1>7 DEF Step
<1>8. CASE Revoke \/ Age \/ CredentialsChange \/ UNCHANGED clientVars
  BY <1>8 DEF Revoke, Age, CredentialsChange, clientVars, local, OneRetry, Advances
<1> QED
  BY <1>7, <1>8 DEF ClientNext

\* A call of Do ends after at most nine steps of its own: no other goroutine, no
\* revocation and no failure sends it back, and there is one retry, not more
\* (client.go:177-192). With fairness this is CallsReturn.
THEOREM CallsAdvance == ClientSpec => [][\A w \in Goroutines : Advances(w)]_clientVars
<1>1. ClientInit => OneRetry
  BY DEF ClientInit, OneRetry
<1>2. ClientTypeOK /\ OneRetry /\ [ClientNext]_clientVars
          => OneRetry' /\ [\A w \in Goroutines : Advances(w)]_clientVars
  BY StepAdvances
<1> QED
  BY <1>1, <1>2, InitTyped, StepTyped, PTL DEF ClientSpec

=============================================================================
