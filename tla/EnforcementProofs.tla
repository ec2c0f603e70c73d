-------------------------- MODULE EnforcementProofs --------------------------
(***************************************************************************)
(* For any names, kinds and bounds: PostApply leaves the lists of the spec *)
(* when it succeeds undisturbed, which it does when nothing is missing;    *)
(* it takes nothing away that the spec grants, and leaves alone what the   *)
(* spec does not set; and lists in place are kept.                         *)
(***************************************************************************)
EXTENDS Enforcement, TLAPS

\* The provers tried on a step that names none, in this order.
USE SMT, Zenon, SMTT(20), Z3T(20), SMTT(60)

ListType == kind \in Kinds /\ want \in Lists /\ spec \in Lists

\* A resource holds items that are alive; ids are those handed out so far.
ServerType ==
    /\ alive \in [Names -> 0 .. born] /\ born \in Nat
    /\ held \in [SlotSet -> SUBSET Items]
    /\ \A s \in SlotSet : \A i \in held[s] : alive[i[1]] = i[2] /\ i[2] # 0

PassType ==
    /\ pc \in {"idle", "read", "resolve", "list", "add", "remove"}
    /\ slot \in SlotSet /\ left \subseteq SlotSet \ {slot}
    /\ current \in [SlotSet -> SUBSET Items]
    /\ found \subseteq Items /\ todo \subseteq Names
    /\ alone \in BOOLEAN /\ done \in BOOLEAN

BudgetType == budget \in [user: Nat, admin: Nat, fault: Nat]

\* What a pass has in hand where it stands. An item that was read, and is alive
\* still, was alive when its name was resolved: ids are not used again.
Working ==
    /\ pc = "idle" => slot = 1
    /\ pc \in {"idle", "read"} => found = {}
    /\ \A i \in found : i[2] # 0
    /\ \A s \in SlotSet : \A i \in current[s] : i[2] # 0 /\ i[2] <= born
    /\ pc = "resolve" => ByID
    /\ pc \in {"list", "add"} => ~ByID
    /\ pc = "add" => todo \subseteq Goal(spec[slot])
    /\ pc \in {"list", "add", "remove"} => Managed(spec[slot])
    /\ pc \in {"resolve", "remove"} /\ ByID =>
          \A i \in found, j \in current[slot] :
              i[1] = j[1] /\ alive[j[1]] = j[2] => i[2] = j[2]
    /\ pc = "remove" /\ ByID => NamesOf(found) = Goal(spec[slot])
    /\ pc = "remove" /\ ~ByID => todo \cap Goal(spec[slot]) = {}

\* The list s is as the spec has it, if the spec has it.
Exact(s) == Managed(spec[s]) => held[s] = Exactly(spec[s])

\* The items there are.
Living == {<<n, alive[n]>> : n \in {m \in Names : alive[m] # 0}}

\* How far an undisturbed pass has come with the list it is at.
Reached ==
    /\ pc = "resolve" =>
          (\A i \in found : alive[i[1]] = i[2]) /\ current[slot] = held[slot]
    /\ pc = "remove" /\ ByID =>
          found = Exactly(spec[slot]) /\ held[slot] = current[slot] \cup found
    /\ pc = "list" => current[slot] = held[slot]
    /\ pc = "add" =>
          /\ found = Living
          /\ NamesOf(held[slot]) \cup todo = NamesOf(current[slot]) \cup Goal(spec[slot])
    /\ pc = "remove" /\ ~ByID =>
          found = Living /\ NamesOf(held[slot]) = Goal(spec[slot]) \cup todo

Undisturbed ==
    alone /\ pc # "idle" =>
        /\ \A s \in SlotSet \ left : s # slot => Exact(s)
        /\ pc \in {"resolve", "remove"} /\ ByID =>
              \A s \in left : current[s] = held[s]
        /\ Reached

IInv ==
    /\ ListType /\ ServerType /\ PassType /\ BudgetType
    /\ Working /\ Undisturbed /\ SuccessEnforces

LEMMA TypeParts == ListType /\ ServerType /\ PassType /\ BudgetType => TypeOK
  BY DEF TypeOK, ListType, ServerType, PassType, BudgetType

-----------------------------------------------------------------------------
(* Data *)

LEMMA SlotFacts ==
    ASSUME kind \in Kinds
    PROVE  1 \in SlotSet
<1>1. CASE kind = "role"
  BY <1>1 DEF SlotSet
<1>2. CASE kind = "group"
  BY <1>2, EnforcementAssumption DEF SlotSet
<1>3. CASE kind = "client"
  BY <1>3 DEF SlotSet
<1> QED
  BY <1>1, <1>2, <1>3, EnforcementAssumption

ListOf == {None, Unlisted} \cup SUBSET Names

LEMMA ListFacts ==
    ASSUME NEW lists \in Lists
    PROVE  lists \in [SlotSet -> ListOf]
  BY Zenon DEF Lists, ListOf

\* The kind of a resource does not change, and what depends on it does not either.
LEMMA KindKept ==
    ASSUME UNCHANGED kind
    PROVE  SlotSet' = SlotSet /\ Lists' = Lists /\ ByID' = ByID
<1>1. SlotSet' = SlotSet /\ ByID' = ByID
  BY Zenon DEF SlotSet, ByID
<1> QED
  BY Zenon, <1>1 DEF Lists

LEMMA GoalType ==
    ASSUME NEW list \in ListOf
    PROVE  Goal(list) \subseteq Names
  BY DEF Goal, ListOf

LEMMA ListAt ==
    ASSUME IInv
    PROVE  /\ slot \in SlotSet /\ spec[slot] \in ListOf /\ want[slot] \in ListOf
           /\ Goal(spec[slot]) \subseteq Names
<1>1. slot \in SlotSet /\ spec \in Lists /\ want \in Lists
  BY DEF IInv, PassType, ListType
<1>2. spec \in [SlotSet -> ListOf] /\ want \in [SlotSet -> ListOf]
  BY Zenon, <1>1, ListFacts
<1>3. spec[slot] \in ListOf /\ want[slot] \in ListOf
  BY <1>1, <1>2
<1> QED
  BY <1>1, <1>3, GoalType

\* The items of a list are told by their names.
LEMMA ByName ==
    ASSUME ServerType, NEW s \in SlotSet, NEW list \in ListOf,
           NamesOf(held[s]) = Goal(list)
    PROVE  held[s] = Exactly(list)
<1>1. \A i \in held[s] : i = <<i[1], alive[i[1]]>>
  BY DEF ServerType, Items
<1> QED
  BY <1>1 DEF NamesOf, Exactly

LEMMA SpendType ==
    ASSUME BudgetType, NEW what \in {"user", "admin", "fault"}, Spend(what)
    PROVE  /\ BudgetType'
           /\ what = "admin" => budget'.admin # budget.admin
           /\ what # "admin" => budget'.admin = budget.admin
  BY DEF BudgetType, Spend

-----------------------------------------------------------------------------
(* The end of a list, and of a pass *)

\* What a step of a pass leaves alone.
PassFrame ==
    /\ UNCHANGED <<kind, want, alive, born, alone>>
    /\ ServerType' /\ BudgetType'

LEMMA EndInv ==
    ASSUME IInv, PassFrame, NEW ok \in BOOLEAN, End(ok),
           ok /\ alone =>
              \A s \in SlotSet : Managed(spec[s]) => held'[s] = Exactly(spec[s])
    PROVE  IInv'
<1>1. UNCHANGED <<kind, want, alive, born, alone, spec>> /\ pc' = "idle" /\ done' = ok
  BY DEF PassFrame, End
<1>2. SlotSet' = SlotSet /\ Lists' = Lists /\ ByID' = ByID /\ 1 \in SlotSet
  BY <1>1, KindKept, SlotFacts DEF IInv, ListType
<1>3. ListType'
  BY <1>1, <1>2 DEF IInv, ListType
<1>4. /\ current' = [s \in SlotSet |-> {}] /\ slot' = 1 /\ left' = {}
      /\ found' = {} /\ todo' = {}
  BY DEF End
<1>5. PassType'
  BY <1>1, <1>2, <1>4 DEF IInv, PassType
<1>6. Working'
  BY <1>1, <1>2, <1>4 DEF Working
<1>7. Undisturbed'
  BY <1>1 DEF Undisturbed
<1>8. SuccessEnforces'
  BY <1>1, <1>2 DEF SuccessEnforces, Managed, Exactly
<1> QED
  BY <1>3, <1>5, <1>6, <1>7, <1>8 DEF IInv, PassFrame

LEMMA FailInv ==
    ASSUME IInv, PassFrame, End(FALSE)
    PROVE  IInv'
  BY Zenon, EndInv

\* On to the next list: this one is done, and the ones to come are as they were
\* read.
LEMMA AdvanceInv ==
    ASSUME IInv, PassFrame, pc # "idle", Advance,
           \A s \in SlotSet : s # slot => held'[s] = held[s],
           alone /\ Managed(spec[slot]) => held'[slot] = Exactly(spec[slot]),
           ByID => pc \in {"resolve", "remove"}
    PROVE  IInv'
<1>1. /\ slot \in SlotSet /\ left \subseteq SlotSet \ {slot}
  BY DEF IInv, PassType
<1>2. alone => \A s \in SlotSet \ left : Managed(spec[s]) => held'[s] = Exactly(spec[s])
  BY <1>1 DEF IInv, Undisturbed, Exact
<1>3. CASE left = {}
  <2>1. End(TRUE)
    BY Zenon, <1>3 DEF Advance
  <2>2. alone => \A s \in SlotSet : Managed(spec[s]) => held'[s] = Exactly(spec[s])
    BY <1>2, <1>3
  <2> QED
    BY Zenon, <2>1, <2>2, EndInv
<1>4. ASSUME NEW t \in left, Enter(t)
      PROVE  IInv'
  <2>1. /\ slot' = t /\ left' = left \ {t} /\ found' = {} /\ todo' = {}
        /\ UNCHANGED <<spec, current, done>>
        /\ UNCHANGED <<kind, want, alive, born, alone>>
    BY <1>4 DEF Enter, PassFrame
  <2>2. SlotSet' = SlotSet /\ Lists' = Lists /\ ByID' = ByID /\ t \in SlotSet
    BY <1>1, <2>1, KindKept
  <2>3. ListType'
    BY <2>1, <2>2 DEF IInv, ListType
  <2>4. /\ pc' \in {"read", "resolve", "remove"}
        /\ ByID => pc' \in {"resolve", "remove"}
        /\ ~ByID => pc' = "read"
        /\ pc' = "remove" => spec[t] = Unlisted
    BY <1>4 DEF Enter
  <2>5. PassType'
    BY <1>1, <2>1, <2>2, <2>4 DEF IInv, PassType
  <2>6. spec[t] = Unlisted => Managed(spec[t]) /\ Goal(spec[t]) = {} /\ NamesOf({}) = {}
                              /\ Exactly(spec[t]) = {}
    BY EnforcementAssumption DEF Managed, Goal, NamesOf, Exactly
  <2>7. Working'
    BY <2>1, <2>2, <2>4, <2>6 DEF IInv, Working, Managed, Goal, NamesOf
  <2>8. ASSUME alone, NEW s \in SlotSet \ left', s # slot'
        PROVE  Exact(s)'
    <3>1. s \in SlotSet \ left
      BY <2>1, <2>8
    <3> QED
      BY <1>2, <2>1, <2>8, <3>1 DEF Exact, Managed, Exactly
  <2>9. ASSUME alone, ByID, NEW s \in left
        PROVE  current[s] = held'[s]
    BY <1>1, <2>9 DEF IInv, Undisturbed
  <2>10. alone => Reached'
    <3>1. Exactly(spec[t])' = Exactly(spec[t])
      BY <2>1 DEF Exactly
    <3> QED
      BY <2>1, <2>2, <2>4, <2>6, <2>9, <3>1 DEF Reached
  <2>11. Undisturbed'
    BY <2>1, <2>2, <2>8, <2>9, <2>10 DEF Undisturbed
  <2>12. SuccessEnforces'
    BY <2>4 DEF SuccessEnforces
  <2> QED
    BY <2>3, <2>5, <2>7, <2>11, <2>12 DEF IInv, PassFrame
<1> QED
  BY Zenon, <1>3, <1>4 DEF Advance

-----------------------------------------------------------------------------
(* Steps within a list *)

OthersHeld == \A s \in SlotSet : s # slot => held'[s] = held[s]

LEMMA StayInv ==
    ASSUME IInv, PassFrame, OthersHeld, pc # "idle",
           pc' \in {"read", "resolve", "list", "add", "remove"},
           UNCHANGED <<spec, slot, left, done>>, current' \in [SlotSet -> SUBSET Items],
           found' \subseteq Items, todo' \subseteq Names,
           Working', alone => Reached',
           alone /\ pc' \in {"resolve", "remove"} /\ ByID =>
               \A s \in left : current'[s] = held'[s]
    PROVE  IInv'
<1>1. UNCHANGED <<kind, want, alive, born, alone, spec, slot, left, done>>
  BY DEF PassFrame
<1>2. SlotSet' = SlotSet /\ Lists' = Lists /\ ByID' = ByID
  BY <1>1, KindKept
<1>3. ListType'
  BY <1>1, <1>2 DEF IInv, ListType
<1>4. PassType'
  BY <1>1, <1>2 DEF IInv, PassType
<1>5. ASSUME alone, NEW s \in SlotSet \ left, s # slot
      PROVE  Exact(s)'
  <2>1. Exact(s)
    BY <1>5 DEF IInv, Undisturbed
  <2> QED
    BY <1>1, <1>5, <2>1 DEF Exact, Managed, Exactly, OthersHeld
<1>6. Undisturbed'
  BY <1>1, <1>2, <1>5 DEF Undisturbed
<1>7. SuccessEnforces'
  BY DEF SuccessEnforces
<1> QED
  BY <1>3, <1>4, <1>6, <1>7 DEF IInv, PassFrame

\* Items are given to the resource, or taken from it.
LEMMA GiveEffect ==
    ASSUME ListType, ServerType, slot \in SlotSet, UNCHANGED <<kind, alive, born>>,
           NEW items \in SUBSET Items, \A i \in items : alive[i[1]] = i[2] /\ i[2] # 0,
           held' = [held EXCEPT ![slot] = @ \cup items]
    PROVE  ServerType' /\ OthersHeld /\ held'[slot] = held[slot] \cup items
<1>1. SlotSet' = SlotSet
  BY KindKept
<1>2. /\ held' \in [SlotSet -> SUBSET Items] /\ held'[slot] = held[slot] \cup items
      /\ OthersHeld
  BY DEF ServerType, OthersHeld
<1> QED
  BY <1>1, <1>2 DEF ServerType, OthersHeld

LEMMA TakeEffect ==
    ASSUME ListType, ServerType, slot \in SlotSet, UNCHANGED <<kind, alive, born>>,
           NEW items, held' = [held EXCEPT ![slot] = @ \ items]
    PROVE  ServerType' /\ OthersHeld /\ held'[slot] = held[slot] \ items
<1>1. SlotSet' = SlotSet
  BY KindKept
<1>2. /\ held' \in [SlotSet -> SUBSET Items] /\ held'[slot] = held[slot] \ items
      /\ OthersHeld
  BY DEF ServerType, OthersHeld
<1> QED
  BY <1>1, <1>2 DEF ServerType, OthersHeld

LEMMA KeepEffect ==
    ASSUME ServerType, UNCHANGED <<kind, alive, born, held>>
    PROVE  ServerType' /\ OthersHeld
<1>1. SlotSet' = SlotSet
  BY KindKept
<1> QED
  BY <1>1 DEF ServerType, OthersHeld

LEMMA FaultType ==
    ASSUME BudgetType, NoFault \/ Spend("fault")
    PROVE  BudgetType' /\ budget'.admin = budget.admin
  BY SpendType DEF NoFault, BudgetType

LEMMA StartInv ==
    ASSUME IInv, Start, UNCHANGED kind
    PROVE  IInv'
<1>1. /\ pc' = "read" /\ spec' = want /\ alone' = TRUE /\ done' = FALSE
      /\ left' = SlotSet \ {1}
      /\ UNCHANGED <<kind, want, server, slot, current, found, todo, budget>>
  BY DEF Start
<1>2. SlotSet' = SlotSet /\ Lists' = Lists /\ ByID' = ByID
  BY <1>1, KindKept
<1>5. slot = 1 /\ found = {} /\ pc' = "read"
  BY DEF Start, IInv, Working
<1>3. ListType' /\ PassType' /\ BudgetType'
  BY Zenon, <1>1, <1>2, <1>5 DEF IInv, ListType, PassType, BudgetType
<1>4. ServerType'
  BY <1>1, KeepEffect DEF IInv, server
<1>6. Working'
  BY <1>1, <1>2, <1>5 DEF IInv, Working, server
<1>7. Undisturbed'
  BY <1>1, <1>2, <1>5 DEF Undisturbed, Reached
<1>8. SuccessEnforces'
  BY <1>1 DEF SuccessEnforces
<1> QED
  BY <1>3, <1>4, <1>6, <1>7, <1>8 DEF IInv

-----------------------------------------------------------------------------
(* Composites and role mappings *)

LEMMA ReadAllInv ==
    ASSUME IInv, ReadAll, UNCHANGED kind
    PROVE  IInv'
<1>1. CASE /\ NoFault /\ current' = held /\ pc' = "resolve"
           /\ UNCHANGED <<held, spec, slot, left, found, todo, done, want, alive, born, alone>>
  <2>1. PassFrame /\ OthersHeld
    BY <1>1, FaultType, KeepEffect DEF IInv, PassFrame
  <2>2. pc = "read" /\ ByID /\ found = {} /\ ByID' = ByID /\ SlotSet' = SlotSet
    BY KindKept DEF ReadAll, IInv, Working
  <2>3. ASSUME NEW s \in SlotSet, NEW i \in held[s]
        PROVE  i[2] # 0 /\ i[2] <= born
    <3>1. i \in Items /\ alive[i[1]] = i[2] /\ i[2] # 0
      BY DEF IInv, ServerType
    <3>2. i[1] \in Names /\ alive[i[1]] \in 0 .. born /\ born \in Nat
      BY <3>1 DEF IInv, ServerType, Items
    <3> QED
      BY <3>1, <3>2
  <2>4. Working'
    BY <1>1, <2>2, <2>3 DEF Working
  <2>5. Reached' /\ \A s \in SlotSet : current'[s] = held'[s]
    BY <1>1, <2>2 DEF Reached
  <2>6. /\ current' \in [SlotSet -> SUBSET Items] /\ found' \subseteq Items
        /\ todo' \subseteq Names
    BY <1>1 DEF IInv, ServerType, PassType
  <2> QED
    BY <1>1, <2>1, <2>2, <2>4, <2>5, <2>6, StayInv
<1>2. CASE Spend("fault") /\ Fail /\ UNCHANGED <<want, alive, born, alone>>
  <2>1. PassFrame
    BY <1>2, FaultType, KeepEffect DEF IInv, PassFrame, Fail
  <2> QED
    BY <1>2, <2>1, FailInv DEF Fail
<1> QED
  BY <1>1, <1>2 DEF ReadAll

LEMMA ResolveInv ==
    ASSUME IInv, NEW n \in Names, Resolve(n), UNCHANGED kind
    PROVE  IInv'
<1>1. CASE /\ NoFault /\ alive[n] # 0 /\ found' = found \cup {<<n, alive[n]>>}
           /\ UNCHANGED <<pc, spec, slot, left, current, todo, done, held, want, alive, born,
                          alone>>
  <2>1. PassFrame /\ OthersHeld
    BY <1>1, FaultType, KeepEffect DEF IInv, PassFrame
  <2>2. pc = "resolve" /\ ByID /\ ByID' = ByID /\ SlotSet' = SlotSet
    BY KindKept DEF Resolve, IInv, Working
  <2>3. alive[n] \in Nat /\ <<n, alive[n]>> \in Items
    BY DEF IInv, ServerType, Items
  <2>4. Working'
    BY <1>1, <2>2, <2>3 DEF IInv, Working
  <2>5. alone => Reached'
    BY <1>1, <2>2, <2>3 DEF IInv, Undisturbed, Reached
  <2>6. alone => \A s \in left : current'[s] = held'[s]
    BY <1>1, <2>2 DEF IInv, Undisturbed
  <2>7. /\ current' \in [SlotSet -> SUBSET Items] /\ found' \subseteq Items
        /\ todo' \subseteq Names
    BY <1>1, <2>3 DEF IInv, PassType
  <2> QED
    BY <1>1, <2>1, <2>2, <2>4, <2>5, <2>6, <2>7, StayInv
<1>2. CASE (NoFault \/ Spend("fault")) /\ Fail /\ UNCHANGED <<want, alive, born, alone>>
  <2>1. PassFrame
    BY <1>2, FaultType, KeepEffect DEF IInv, PassFrame, Fail
  <2> QED
    BY <1>2, <2>1, FailInv DEF Fail
<1> QED
  BY <1>1, <1>2 DEF Resolve

LEMMA AddAllInv ==
    ASSUME IInv, AddAll, UNCHANGED kind
    PROVE  IInv'
<1> DEFINE toAdd == found \ current[slot]
           Added == held' = [held EXCEPT ![slot] = @ \cup toAdd]
<1>1. /\ pc = "resolve" /\ ByID
      /\ Managed(spec[slot]) /\ Goal(spec[slot]) = NamesOf(found)
      /\ UNCHANGED <<want, alive, born, alone>> /\ slot \in SlotSet
      /\ ByID' = ByID /\ SlotSet' = SlotSet
  BY KindKept DEF AddAll, IInv, Working, Resolved, PassType
<1>2. ASSUME Added, \A i \in toAdd : alive[i[1]] = i[2]
      PROVE  ServerType' /\ OthersHeld /\ held'[slot] = held[slot] \cup toAdd
  <2>1. toAdd \in SUBSET Items /\ \A i \in toAdd : alive[i[1]] = i[2] /\ i[2] # 0
    BY <1>2 DEF IInv, PassType, Working
  <2> HIDE DEF toAdd
  <2> QED
    BY Zenon, <1>1, <1>2, <2>1, GiveEffect DEF IInv
<1>3. CASE /\ NoFault /\ Added /\ \A i \in toAdd : alive[i[1]] = i[2]
           /\ pc' = "remove" /\ UNCHANGED <<spec, slot, left, current, found, todo, done>>
  <2>1. PassFrame /\ OthersHeld /\ held'[slot] = held[slot] \cup toAdd
    BY Zenon, <1>1, <1>2, <1>3, FaultType DEF IInv, PassFrame
  <2>2. Working'
    BY <1>1, <1>3 DEF IInv, Working, Managed
  <2>3. ASSUME alone
        PROVE  Reached'
    <3>1. (\A i \in found : alive[i[1]] = i[2]) /\ current[slot] = held[slot]
      BY <1>1, <2>3 DEF IInv, Undisturbed, Reached
    <3>2. \A i \in found : i = <<i[1], alive[i[1]]>>
      BY <3>1 DEF IInv, PassType, Items
    <3>3. found = Exactly(spec[slot])
      BY <1>1, <3>2 DEF NamesOf, Exactly
    <3>4. held'[slot] = current[slot] \cup found
      BY <2>1, <3>1
    <3> QED
      BY Zenon, <1>1, <1>3, <3>3, <3>4 DEF Reached, Exactly
  <2>4. alone => \A s \in left : current'[s] = held'[s]
    <3>1. ASSUME alone, NEW s \in left
          PROVE  current[s] = held'[s]
      <4>1. s # slot /\ s \in SlotSet
        BY DEF IInv, PassType
      <4> QED
        BY <1>1, <2>1, <3>1, <4>1 DEF IInv, Undisturbed, OthersHeld
    <3> QED
      BY Zenon, <1>3, <3>1
  <2>5. /\ current' \in [SlotSet -> SUBSET Items] /\ found' \subseteq Items
        /\ todo' \subseteq Names
    BY <1>3 DEF IInv, PassType
  <2> QED
    BY <1>1, <1>3, <2>1, <2>2, <2>3, <2>4, <2>5, StayInv
<1>4. CASE /\ NoFault \/ Spend("fault")
           /\ \/ Added /\ \A i \in toAdd : alive[i[1]] = i[2]
              \/ UNCHANGED held
           /\ End(FALSE)
  <2>1. ServerType'
    BY <1>1, <1>2, <1>4, KeepEffect DEF IInv
  <2>2. PassFrame
    BY <1>1, <1>4, <2>1, FaultType DEF IInv, PassFrame
  <2> QED
    BY <1>4, <2>2, FailInv
<1> QED
  BY Zenon, <1>3, <1>4 DEF AddAll, Fail

LEMMA RemoveAllInv ==
    ASSUME IInv, RemoveAll, UNCHANGED kind
    PROVE  IInv'
<1> DEFINE toRemove == current[slot] \ found
           Removed == held' = [held EXCEPT ![slot] = @ \ toRemove]
<1>1. /\ pc = "remove" /\ ByID /\ UNCHANGED <<want, alive, born, alone>>
      /\ slot \in SlotSet
  BY DEF RemoveAll, IInv, PassType
<1>2. ASSUME Removed
      PROVE  ServerType' /\ OthersHeld /\ held'[slot] = held[slot] \ toRemove
  BY Zenon, <1>1, <1>2, TakeEffect DEF IInv
<1>3. CASE NoFault /\ Removed /\ Advance
  <2>1. PassFrame /\ OthersHeld
    BY <1>1, <1>2, <1>3, FaultType DEF IInv, PassFrame
  <2>2. ASSUME alone
        PROVE  held'[slot] = Exactly(spec[slot])
    <3>1. found = Exactly(spec[slot]) /\ held[slot] = current[slot] \cup found
      BY <1>1, <2>2 DEF IInv, Undisturbed, Reached
    <3>2. held'[slot] = found
      BY <1>2, <1>3, <3>1
    <3> QED
      BY <3>1, <3>2
  <2> QED
    BY <1>1, <1>3, <2>1, <2>2, AdvanceInv DEF OthersHeld
<1>4. CASE (NoFault \/ Spend("fault")) /\ (Removed \/ UNCHANGED held) /\ End(FALSE)
  <2>1. ServerType'
    BY <1>1, <1>2, <1>4, KeepEffect DEF IInv
  <2>2. PassFrame
    BY <1>1, <1>4, <2>1, FaultType DEF IInv, PassFrame
  <2> QED
    BY <1>4, <2>2, FailInv
<1> QED
  BY Zenon, <1>3, <1>4 DEF RemoveAll

LEMMA SkipInv ==
    ASSUME IInv, Skip, UNCHANGED kind
    PROVE  IInv'
<1>1. /\ pc = "resolve" /\ ~Managed(spec[slot]) /\ Advance
      /\ UNCHANGED <<want, server, alone, budget>>
  BY DEF Skip
<1>2. PassFrame /\ OthersHeld
  BY <1>1, KeepEffect DEF IInv, PassFrame, server, BudgetType
<1> QED
  BY <1>1, <1>2, AdvanceInv DEF OthersHeld

-----------------------------------------------------------------------------
(* Scopes *)

LEMMA ReadSlotInv ==
    ASSUME IInv, ReadSlot, UNCHANGED kind
    PROVE  IInv'
<1>1. /\ pc = "read" /\ ~ByID /\ UNCHANGED <<want, alive, born, alone, held>>
      /\ slot \in SlotSet /\ found = {} /\ ByID' = ByID /\ SlotSet' = SlotSet
      /\ spec[slot] \in ListOf
  BY Zenon, KindKept, ListAt DEF ReadSlot, Fail, IInv, Working
<1>2. PassFrame /\ OthersHeld
  BY <1>1, FaultType, KeepEffect DEF ReadSlot, IInv, PassFrame
<1>3. CASE Advance /\ (Managed(spec[slot]) => NamesOf(held[slot]) = Goal(spec[slot]))
  <2>1. Managed(spec[slot]) => held'[slot] = Exactly(spec[slot])
    BY <1>1, <1>3, ByName DEF IInv
  <2> QED
    BY <1>1, <1>2, <1>3, <2>1, AdvanceInv DEF OthersHeld
<1>4. CASE /\ current' = [current EXCEPT ![slot] = held[slot]] /\ pc' = "list"
           /\ UNCHANGED <<spec, slot, left, found, todo, done>> /\ Managed(spec[slot])
  <2>1. /\ current' \in [SlotSet -> SUBSET Items] /\ current'[slot] = held[slot]
        /\ \A s \in SlotSet : s # slot => current'[s] = current[s]
        /\ found' \subseteq Items /\ todo' \subseteq Names
    BY <1>1, <1>4 DEF IInv, PassType, ServerType
  <2>2. ASSUME NEW i \in held[slot]
        PROVE  i[2] # 0 /\ i[2] <= born
    <3>1. i \in Items /\ alive[i[1]] = i[2] /\ i[2] # 0
      BY <1>1 DEF IInv, ServerType
    <3>2. i[1] \in Names /\ alive[i[1]] \in 0 .. born /\ born \in Nat
      BY <3>1 DEF IInv, ServerType, Items
    <3> QED
      BY <3>1, <3>2
  <2>3. \A s \in SlotSet : \A i \in current'[s] : i[2] # 0 /\ i[2] <= born
    BY <2>1, <2>2 DEF IInv, Working
  <2>4. Working'
    BY <1>1, <1>4, <2>3 DEF Working, Managed
  <2>5. Reached'
    BY <1>1, <1>4, <2>1 DEF Reached
  <2> QED
    BY <1>1, <1>2, <1>4, <2>1, <2>4, <2>5, StayInv
<1>5. CASE Fail
  BY <1>2, <1>5, FailInv DEF Fail
<1> QED
  BY <1>3, <1>4, <1>5 DEF ReadSlot

LEMMA LivingType ==
    ASSUME ServerType
    PROVE  /\ Living \subseteq Items /\ \A i \in Living : i[2] # 0
           /\ \A n \in Names, i \in Living : i[1] = n => i = <<n, alive[n]>>
           /\ \A n \in Names : alive[n] # 0 => <<n, alive[n]>> \in Living
<1>1. \A n \in Names : alive[n] \in Nat
  BY DEF ServerType
<1> QED
  BY <1>1 DEF Living, Items

LEMMA ListInv ==
    ASSUME IInv, List, UNCHANGED kind
    PROVE  IInv'
<1>1. /\ pc = "list" /\ ~ByID /\ UNCHANGED <<want, alive, born, alone, held>>
      /\ slot \in SlotSet /\ ByID' = ByID /\ SlotSet' = SlotSet /\ Managed(spec[slot])
      /\ Goal(spec[slot]) \subseteq Names
  BY Zenon, KindKept, ListAt DEF List, Fail, IInv, Working
<1>2. PassFrame /\ OthersHeld
  BY <1>1, FaultType, KeepEffect DEF List, IInv, PassFrame
<1>3. CASE /\ found' = Living
           /\ todo' = Goal(spec[slot]) \ NamesOf(current[slot]) /\ pc' = "add"
           /\ UNCHANGED <<spec, slot, left, current, done>>
  <2>1. /\ current' \in [SlotSet -> SUBSET Items] /\ found' \subseteq Items
        /\ todo' \subseteq Names
    BY <1>1, <1>3, LivingType DEF IInv, PassType
  <2>2. Working'
    BY <1>1, <1>3, LivingType DEF IInv, Working, Managed
  <2>3. ASSUME alone
        PROVE  Reached'
    <3>1. current[slot] = held[slot]
      BY ZenonT(30), <1>1, <2>3 DEF IInv, Undisturbed, Reached
    <3>2. Living' = Living
      BY <1>1 DEF Living
    <3>3. NamesOf(held[slot]) \cup todo' = NamesOf(current[slot]) \cup Goal(spec[slot])
      BY Zenon, <1>3, <3>1
    <3> QED
      BY ZenonT(30), <1>1, <1>3, <3>2, <3>3 DEF Reached, NamesOf, Goal
  <2> QED
    BY <1>1, <1>2, <1>3, <2>1, <2>2, <2>3, StayInv
<1>4. CASE Fail
  BY <1>2, <1>4, FailInv DEF Fail
<1> QED
  BY <1>3, <1>4 DEF List, Living

LEMMA AddOneInv ==
    ASSUME IInv, NEW n \in Names, AddOne(n), UNCHANGED kind
    PROVE  IInv'
<1> DEFINE id == {i \in found : i[1] = n}
           Live == id # {} /\ \A i \in id : alive[n] = i[2]
           Added == Live /\ held' = [held EXCEPT ![slot] = @ \cup id]
<1>1. /\ pc = "add" /\ ~ByID /\ n \in todo /\ UNCHANGED <<want, alive, born, alone>>
      /\ slot \in SlotSet /\ ByID' = ByID /\ SlotSet' = SlotSet
  BY KindKept DEF AddOne, IInv, PassType, Working
<1>2. ASSUME Added
      PROVE  ServerType' /\ OthersHeld /\ held'[slot] = held[slot] \cup id
  <2>1. id \in SUBSET Items /\ \A i \in id : alive[i[1]] = i[2] /\ i[2] # 0
    BY <1>2 DEF IInv, PassType, Working
  <2> HIDE DEF id
  <2> QED
    BY Zenon, <1>1, <1>2, <2>1, GiveEffect DEF IInv
<1>3. CASE /\ NoFault /\ Added /\ todo' = todo \ {n}
           /\ UNCHANGED <<pc, spec, slot, left, current, found, done>>
  <2>1. PassFrame /\ OthersHeld /\ held'[slot] = held[slot] \cup id
    BY <1>1, <1>2, <1>3, FaultType DEF IInv, PassFrame
  <2>2. /\ current' \in [SlotSet -> SUBSET Items] /\ found' \subseteq Items
        /\ todo' \subseteq Names
    BY <1>3 DEF IInv, PassType
  <2>3. Working'
    BY <1>1, <1>3 DEF IInv, Working, Managed
  <2>4. NamesOf(held'[slot]) = NamesOf(held[slot]) \cup {n}
    BY <1>3, <2>1 DEF NamesOf
  <2>5. ASSUME alone
        PROVE  Reached'
    <3>1. /\ found = Living
          /\ NamesOf(held[slot]) \cup todo = NamesOf(current[slot]) \cup Goal(spec[slot])
      BY <1>1, <2>5 DEF IInv, Undisturbed, Reached
    <3>2. Living' = Living
      BY <1>1 DEF Living
    <3>3. NamesOf(held'[slot]) \cup todo' = NamesOf(current[slot]) \cup Goal(spec[slot])
      BY <1>1, <1>3, <2>4, <3>1
    <3> QED
      BY <1>1, <1>3, <3>1, <3>2, <3>3 DEF Reached, NamesOf, Goal
  <2> QED
    BY <1>1, <1>3, <2>1, <2>2, <2>3, <2>5, StayInv
<1>4. CASE (NoFault \/ Spend("fault")) /\ (Added \/ UNCHANGED held) /\ End(FALSE)
  <2>1. ServerType'
    BY Zenon, <1>1, <1>2, <1>4, KeepEffect DEF IInv
  <2>2. PassFrame
    BY <1>1, <1>4, <2>1, FaultType DEF IInv, PassFrame
  <2> QED
    BY <1>4, <2>2, FailInv
<1> QED
  BY Zenon, <1>3, <1>4 DEF AddOne, Fail

LEMMA AddsDoneInv ==
    ASSUME IInv, AddsDone, UNCHANGED kind
    PROVE  IInv'
<1>1. /\ pc = "add" /\ ~ByID /\ todo = {} /\ pc' = "remove"
      /\ todo' = NamesOf(current[slot]) \ Goal(spec[slot])
      /\ UNCHANGED <<want, server, spec, slot, left, current, found, alone, done, budget>>
      /\ slot \in SlotSet /\ ByID' = ByID /\ SlotSet' = SlotSet
  BY Zenon, KindKept DEF AddsDone, IInv, PassType, Working
<1>2. PassFrame /\ OthersHeld
  BY <1>1, KeepEffect DEF IInv, PassFrame, server, BudgetType
<1>3. /\ current' \in [SlotSet -> SUBSET Items] /\ found' \subseteq Items
      /\ todo' \subseteq Names
  BY <1>1 DEF IInv, PassType, NamesOf, Items
<1>4. Working'
  BY Zenon, <1>1 DEF IInv, Working, Managed, Goal, server
<1>5. ASSUME alone
      PROVE  Reached'
  <2>1. /\ found = Living
        /\ NamesOf(held[slot]) = NamesOf(current[slot]) \cup Goal(spec[slot])
    BY ZenonT(30), <1>1, <1>5 DEF IInv, Undisturbed, Reached
  <2>2. Living' = Living
    BY <1>1 DEF Living, server
  <2>3. NamesOf(held[slot]) = Goal(spec[slot]) \cup todo'
    BY <1>1, <2>1
  <2> QED
    BY <1>1, <2>1, <2>2, <2>3 DEF Reached, NamesOf, Goal, server
<1> QED
  BY <1>1, <1>2, <1>3, <1>4, <1>5, StayInv

LEMMA RemoveOneInv ==
    ASSUME IInv, NEW n \in Names, RemoveOne(n), UNCHANGED kind
    PROVE  IInv'
<1> DEFINE id == {i \in found : i[1] = n}
           Removed == held' = [held EXCEPT ![slot] = @ \ id]
<1>1. /\ pc = "remove" /\ ~ByID /\ n \in todo /\ UNCHANGED <<want, alive, born, alone>>
      /\ slot \in SlotSet /\ ByID' = ByID /\ SlotSet' = SlotSet
      /\ n \notin Goal(spec[slot])
  BY KindKept DEF RemoveOne, IInv, PassType, Working
<1>2. ASSUME Removed
      PROVE  ServerType' /\ OthersHeld /\ held'[slot] = held[slot] \ id
  <2> HIDE DEF id
  <2> QED
    BY Zenon, <1>1, <1>2, TakeEffect DEF IInv
<1>3. CASE /\ NoFault /\ Removed /\ todo' = todo \ {n}
           /\ UNCHANGED <<pc, spec, slot, left, current, found, done>>
  <2>1. PassFrame /\ OthersHeld /\ held'[slot] = held[slot] \ id
    BY <1>1, <1>2, <1>3, FaultType DEF IInv, PassFrame
  <2>2. /\ current' \in [SlotSet -> SUBSET Items] /\ found' \subseteq Items
        /\ todo' \subseteq Names
    BY Zenon, <1>3 DEF IInv, PassType
  <2>3. Working'
    BY Zenon, <1>1, <1>3 DEF IInv, Working, Managed, Goal
  <2>4. ASSUME alone
        PROVE  Reached'
    <3>1. found = Living /\ NamesOf(held[slot]) = Goal(spec[slot]) \cup todo
      BY ZenonT(40), <1>1, <2>4 DEF IInv, Undisturbed, Reached
    <3>2. Living' = Living
      BY Zenon, <1>1 DEF Living
    <3>3. \A i \in held[slot] : i \in Living
      <4>1. ASSUME NEW i \in held[slot]
            PROVE  i[1] \in Names /\ i = <<i[1], alive[i[1]]>> /\ alive[i[1]] # 0
        BY <1>1 DEF IInv, ServerType, Items
      <4> QED
        BY <4>1, LivingType DEF IInv
    <3>4. NamesOf(held'[slot]) = NamesOf(held[slot]) \ {n}
      BY <2>1, <3>1, <3>3 DEF NamesOf
    <3>5. NamesOf(held'[slot]) = Goal(spec[slot]) \cup todo'
      BY <1>1, <1>3, <3>1, <3>4
    <3> QED
      BY <1>1, <1>3, <3>1, <3>2, <3>5 DEF Reached, NamesOf, Goal
  <2> QED
    BY <1>1, <1>3, <2>1, <2>2, <2>3, <2>4, StayInv
<1>4. CASE Spend("fault") /\ (Removed \/ UNCHANGED held) /\ End(FALSE)
  <2>1. ServerType'
    BY <1>1, <1>2, <1>4, KeepEffect DEF IInv
  <2>2. PassFrame
    BY <1>1, <1>4, <2>1, FaultType DEF IInv, PassFrame
  <2> QED
    BY <1>4, <2>2, FailInv
<1> QED
  BY Zenon, <1>3, <1>4 DEF RemoveOne

LEMMA RemovesDoneInv ==
    ASSUME IInv, RemovesDone, UNCHANGED kind
    PROVE  IInv'
<1>1. /\ pc = "remove" /\ ~ByID /\ todo = {} /\ Advance
      /\ UNCHANGED <<want, server, alone, budget>>
      /\ slot \in SlotSet /\ spec[slot] \in ListOf
  BY Zenon, ListAt DEF RemovesDone
<1>2. PassFrame /\ OthersHeld
  BY <1>1, KeepEffect DEF IInv, PassFrame, server, BudgetType
<1>3. alone => held'[slot] = Exactly(spec[slot])
  <2>1. alone => NamesOf(held[slot]) = Goal(spec[slot])
    BY <1>1 DEF IInv, Undisturbed, Reached
  <2> QED
    BY <1>1, <2>1, ByName DEF IInv, server
<1> QED
  BY <1>1, <1>2, <1>3, AdvanceInv DEF OthersHeld

-----------------------------------------------------------------------------
(* Users and administrators *)

LEMMA UserEditsInv ==
    ASSUME IInv, UserEdits \/ UNCHANGED vars
    PROVE  IInv'
<1>1. UNCHANGED <<kind, server, pc, work, alone, done>>
  BY DEF UserEdits, vars
<1>2. SlotSet' = SlotSet /\ Lists' = Lists /\ ByID' = ByID
  BY <1>1, KindKept
<1>3. want' \in Lists
  BY DEF UserEdits, vars, IInv, ListType, Lists
<1>4. BudgetType'
  BY SpendType DEF UserEdits, vars, IInv, BudgetType
<1>5. ListType' /\ PassType'
  BY <1>1, <1>2, <1>3 DEF IInv, ListType, PassType, work
<1>6. ServerType'
  BY Zenon, <1>1, KeepEffect DEF IInv, server
<1>7. Working'
  BY Zenon, <1>1, <1>2 DEF IInv, Working, Managed, Goal, NamesOf, work, server
<1>8. Exact(slot)' = Exact(slot) /\ \A s \in SlotSet : Exact(s)' = Exact(s)
  BY Zenon, <1>1 DEF Exact, Managed, Exactly, Goal, work, server
<1>9. Reached' = Reached
  BY <1>1, <1>2 DEF Reached, Exactly, Living, Goal, NamesOf, work, server
<1>10. Undisturbed'
  BY <1>1, <1>2, <1>8, <1>9 DEF IInv, Undisturbed, work, server
<1>11. SuccessEnforces'
  BY <1>1, <1>2 DEF IInv, SuccessEnforces, Managed, Exactly, Goal, work, server
<1> QED
  BY <1>4, <1>5, <1>6, <1>7, <1>10, <1>11 DEF IInv

\* Items are created, deleted, given and taken. What a pass has read may die, but
\* does not come back to life.
LEMMA AdministerInv ==
    ASSUME IInv, Administer
    PROVE  IInv'
<1>1. UNCHANGED <<kind, want, pc, work, done>> /\ alone' = FALSE /\ BudgetType'
  BY SpendType DEF Administer, IInv
<1>2. SlotSet' = SlotSet /\ Lists' = Lists /\ ByID' = ByID
  BY <1>1, KindKept
<1>3. PICK n \in Names : ItemCreated(n) \/ ItemDeleted(n) \/ ItemToggled(n)
  BY DEF Administer
<1>4. /\ born \in Nat /\ born' \in Nat /\ born <= born'
      /\ alive' \in [Names -> 0 .. born']
      /\ \A m \in Names : m # n => alive'[m] = alive[m]
      /\ alive'[n] \in {alive[n], 0, born + 1}
  BY <1>3 DEF ItemCreated, ItemDeleted, ItemToggled, IInv, ServerType
<1>5. ASSUME NEW s \in SlotSet, NEW j \in current[s], alive'[j[1]] = j[2]
      PROVE  alive[j[1]] = j[2]
  <2>1. j \in Items /\ j[2] # 0 /\ j[2] <= born
    BY DEF IInv, PassType, Working
  <2> QED
    BY <1>4, <1>5, <2>1 DEF Items
<1>6. ASSUME NEW s \in SlotSet, NEW j \in current[s]
      PROVE  j[2] # 0 /\ j[2] <= born'
  <2>1. j[2] \in Nat /\ j[2] # 0 /\ j[2] <= born
    BY DEF IInv, PassType, Working, Items
  <2> QED
    BY <1>4, <2>1
<1>7. Working'
  <2>1. UNCHANGED <<kind, spec, slot, left, current, found, todo, pc>> /\ slot \in SlotSet
    BY Zenon, <1>1 DEF work, IInv, PassType
  <2>2. \A s \in SlotSet' : \A i \in current'[s] : i[2] # 0 /\ i[2] <= born'
    BY Zenon, <1>2, <1>6, <2>1
  <2>3. pc' \in {"resolve", "remove"} /\ ByID' =>
          \A i \in found', j \in current'[slot'] :
              i[1] = j[1] /\ alive'[j[1]] = j[2] => i[2] = j[2]
    BY ZenonT(40), <1>2, <1>5, <2>1 DEF IInv, Working
  <2> QED
    BY Zenon, <1>2, <2>1, <2>2, <2>3 DEF IInv, Working, Managed, Goal, NamesOf
<1>8. held' \in [SlotSet -> SUBSET Items]
  <2>1. CASE ItemToggled(n)
    <3>1. <<n, alive[n]>> \in Items
      BY <1>4 DEF Items, IInv, ServerType
    <3> QED
      BY <2>1, <3>1 DEF ItemToggled, IInv, ServerType
  <2>2. CASE ItemCreated(n) \/ ItemDeleted(n)
    BY <2>2 DEF ItemCreated, ItemDeleted, IInv, ServerType
  <2> QED
    BY <1>3, <2>1, <2>2
<1>9. ASSUME NEW s \in SlotSet, NEW i \in held'[s]
      PROVE  alive'[i[1]] = i[2] /\ i[2] # 0
  <2>1. CASE ItemCreated(n)
    <3>1. i \in held[s] /\ i \in Items /\ alive[i[1]] = i[2] /\ i[2] # 0
      BY <2>1 DEF ItemCreated, IInv, ServerType
    <3>2. i[1] # n /\ i[1] \in Names
      BY <2>1, <3>1 DEF ItemCreated, Items
    <3> QED
      BY <1>4, <3>1, <3>2
  <2>2. CASE ItemDeleted(n)
    <3>1. i \in held[s] /\ i[1] # n
      BY <2>2 DEF ItemDeleted
    <3>2. i \in Items /\ alive[i[1]] = i[2] /\ i[2] # 0 /\ i[1] \in Names
      BY <3>1 DEF IInv, ServerType, Items
    <3> QED
      BY <1>4, <3>1, <3>2
  <2>3. CASE ItemToggled(n)
    <3>1. i \in held[s] \/ i = <<n, alive[n]>>
      BY <2>3 DEF ItemToggled, IInv, ServerType
    <3>2. alive' = alive /\ alive[n] # 0
      BY <2>3 DEF ItemToggled
    <3> QED
      BY <3>1, <3>2 DEF IInv, ServerType
  <2> QED
    BY <1>3, <2>1, <2>2, <2>3
<1>10. ServerType'
  BY <1>2, <1>4, <1>8, <1>9 DEF ServerType
<1>11. ListType' /\ PassType'
  BY Zenon, <1>1, <1>2 DEF IInv, ListType, PassType, work
<1>12. Undisturbed' /\ SuccessEnforces'
  BY <1>1 DEF Undisturbed, SuccessEnforces
<1> QED
  BY <1>1, <1>7, <1>10, <1>11, <1>12 DEF IInv

-----------------------------------------------------------------------------
LEMMA InitInv == Init => IInv
<1> SUFFICES ASSUME Init
             PROVE  IInv
  OBVIOUS
<1>0. 1 \in SlotSet
  <2>1. kind \in Kinds
    BY Zenon DEF Init
  <2> QED
    BY <2>1, SlotFacts
<1>1. /\ kind \in Kinds /\ want = [s \in SlotSet |-> None] /\ spec = want
      /\ left = {} /\ current = [s \in SlotSet |-> {}] /\ held = [s \in SlotSet |-> {}]
  BY Zenon DEF Init
<1>2. ListType
  <2>1. want \in [SlotSet -> {None, Unlisted} \cup SUBSET Names]
    BY <1>1
  <2>2. \A s \in SlotSet : want[s] = None /\ want[s] # Unlisted
    BY <1>1, EnforcementAssumption
  <2>3. want \in Lists
    BY Zenon, <2>1, <2>2 DEF Lists
  <2> QED
    BY <1>1, <2>3 DEF ListType
<1>3. ServerType
  BY <1>1 DEF Init, ServerType
<1>4. PassType
  BY Zenon, <1>0, <1>1 DEF Init, PassType
<1>5. BudgetType
  BY EnforcementAssumption DEF Init, BudgetType
<1>6. Working
  BY <1>1 DEF Init, Working
<1>7. Undisturbed /\ SuccessEnforces
  BY DEF Init, Undisturbed, SuccessEnforces
<1> QED
  BY <1>2, <1>3, <1>4, <1>5, <1>6, <1>7 DEF IInv

LEMMA NextInv == IInv /\ [Next]_vars => IInv'
<1> SUFFICES ASSUME IInv, [Next]_vars
             PROVE  IInv'
  OBVIOUS
<1>1. CASE Pass
  BY <1>1, StartInv, ReadAllInv, AddAllInv, RemoveAllInv, SkipInv, ReadSlotInv, ListInv,
     AddsDoneInv, RemovesDoneInv, ResolveInv, AddOneInv, RemoveOneInv DEF Pass
<1> QED
  BY <1>1, UserEditsInv, AdministerInv DEF Next

\* For any names, kinds and bounds, lists and items are well formed and a resource
\* holds only items that are alive (driver_helpers.go, driver_role_idp_group.go).
THEOREM EnforcementTypes == Spec => []TypeOK
<1>1. IInv => TypeOK
  BY TypeParts DEF IInv
<1> QED
  BY InitInv, NextInv, <1>1, PTL DEF Spec

\* A PostApply that succeeds undisturbed leaves exactly the lists of its spec,
\* for roles, groups and clients, whatever was there (driver_helpers.go,
\* driver_role_idp_group.go).
THEOREM UndisturbedExact == Spec => []SuccessEnforces
<1>1. IInv => SuccessEnforces
  BY DEF IInv
<1> QED
  BY InitInv, NextInv, <1>1, PTL DEF Spec

-----------------------------------------------------------------------------
(* What a step does to the lists *)

\* Only the list that the pass is at changes, if the spec has it, and what the
\* spec grants stays in it.
Mends ==
    /\ Managed(spec[slot]) /\ OthersHeld
    /\ \A n \in Goal(spec[slot]) :
          <<n, alive[n]>> \in held[slot] => <<n, alive[n]>> \in held'[slot]

LEMMA GivesMend ==
    ASSUME IInv, Managed(spec[slot]), NEW items,
           held' = [held EXCEPT ![slot] = @ \cup items]
    PROVE  Mends
  BY DEF IInv, ServerType, PassType, Mends, OthersHeld

LEMMA TakesMend ==
    ASSUME IInv, Managed(spec[slot]), NEW items,
           held' = [held EXCEPT ![slot] = @ \ items],
           \A n \in Goal(spec[slot]) :
              <<n, alive[n]>> \in held[slot] => <<n, alive[n]>> \notin items
    PROVE  Mends
  BY DEF IInv, ServerType, PassType, Mends, OthersHeld

LEMMA AddsMend ==
    ASSUME IInv, AddAll \/ \E n \in Names : AddOne(n)
    PROVE  UNCHANGED held \/ Mends
<1>1. CASE AddAll
  BY Zenon, <1>1, GivesMend DEF AddAll, Fail
<1>2. ASSUME NEW n \in Names, AddOne(n)
      PROVE  UNCHANGED held \/ Mends
  <2>1. Managed(spec[slot])
    BY <1>2 DEF AddOne, IInv, Working
  <2> QED
    BY ZenonT(40), <1>2, <2>1, GivesMend DEF AddOne, Fail
<1> QED
  BY <1>1, <1>2

\* A role is removed by the id that was read under its name. If the spec names it
\* and it is alive, that is the id that was resolved.
LEMMA RemovesMend ==
    ASSUME IInv, RemoveAll \/ \E n \in Names : RemoveOne(n)
    PROVE  UNCHANGED held \/ Mends
<1>1. Managed(spec[slot]) /\ slot \in SlotSet
  BY Zenon DEF RemoveAll, RemoveOne, IInv, Working, PassType
<1>2. CASE RemoveAll
  <2> DEFINE toRemove == current[slot] \ found
  <2>1. ASSUME NEW n \in Goal(spec[slot]), <<n, alive[n]>> \in current[slot]
        PROVE  <<n, alive[n]>> \in found
    <3>1. pc = "remove" /\ ByID /\ NamesOf(found) = Goal(spec[slot])
      BY Zenon, <1>2 DEF RemoveAll, IInv, Working
    <3>2. PICK i \in found : i[1] = n
      BY <3>1 DEF NamesOf
    <3>3. i[2] = alive[n]
      BY Zenon, <2>1, <3>1, <3>2, <1>1 DEF IInv, Working
    <3>4. i = <<i[1], i[2]>>
      BY DEF IInv, PassType, Items
    <3> QED
      BY <3>2, <3>3, <3>4
  <2>2. held' = [held EXCEPT ![slot] = @ \ toRemove] \/ UNCHANGED held
    BY Zenon, <1>2 DEF RemoveAll
  <2>3. \A n \in Goal(spec[slot]) : <<n, alive[n]>> \notin toRemove
    BY Zenon, <2>1
  <2> HIDE DEF toRemove
  <2> QED
    BY <1>1, <2>2, <2>3, TakesMend
<1>3. ASSUME NEW n \in Names, RemoveOne(n)
      PROVE  UNCHANGED held \/ Mends
  <2> DEFINE id == {i \in found : i[1] = n}
  <2>1. held' = [held EXCEPT ![slot] = @ \ id] \/ UNCHANGED held
    BY ZenonT(40), <1>3 DEF RemoveOne
  <2>2. n \notin Goal(spec[slot])
    BY Zenon, <1>3 DEF RemoveOne, IInv, Working
  <2>3. \A m \in Goal(spec[slot]) : <<m, alive[m]>> \notin id
    BY <2>2
  <2> HIDE DEF id
  <2> QED
    BY <1>1, <2>1, <2>3, TakesMend
<1> QED
  BY <1>2, <1>3

LEMMA StepMends ==
    ASSUME IInv, [Next]_vars, budget'.admin = budget.admin
    PROVE  UNCHANGED held \/ Mends
<1>1. ~Administer
  BY SpendType DEF Administer, IInv
<1>2. CASE UserEdits \/ UNCHANGED vars
  BY <1>2 DEF UserEdits, vars, server
<1>3. CASE \/ Start \/ ReadAll \/ Skip \/ ReadSlot \/ List \/ AddsDone \/ RemovesDone
           \/ \E n \in Names : Resolve(n)
  BY Zenon, <1>3 DEF Start, ReadAll, Skip, ReadSlot, List, AddsDone, RemovesDone, Resolve,
     Fail, server
<1> QED
  BY <1>1, <1>2, <1>3, AddsMend, RemovesMend DEF Next, Pass

\* A pass never takes away what the spec grants, although it compares ids that
\* it read in earlier calls (driver_role_idp_group.go:497-507).
THEOREM GrantsStay == Spec => GrantsKept
<1>1. ASSUME IInv, [Next]_vars, budget'.admin = budget.admin,
             NEW s \in SlotSet, NEW n \in Names, n \in Goal(spec[s]),
             <<n, alive[n]>> \in held[s]
      PROVE  <<n, alive[n]>> \in held'[s]
  BY <1>1, StepMends DEF Mends, OthersHeld
<1>2. IInv /\ [Next]_vars =>
        [budget'.admin = budget.admin =>
           \A s \in SlotSet, n \in Names :
              n \in Goal(spec[s]) /\ <<n, alive[n]>> \in held[s]
              => <<n, alive[n]>> \in held'[s]]_vars
  BY <1>1
<1> QED
  BY InitInv, NextInv, <1>2, PTL DEF Spec, GrantsKept

\* A pass changes no list that its spec does not set, other than a role's
\* composites (driver_helpers.go, driver_role_idp_group.go).
THEOREM UnsetStays == Spec => UnsetUntouched
<1>1. ASSUME IInv, [Next]_vars, budget'.admin = budget.admin, kind # "role",
             NEW s \in SlotSet, spec[s] = None
      PROVE  held'[s] = held[s]
  BY <1>1, StepMends DEF Mends, OthersHeld, Managed
<1>2. IInv /\ [Next]_vars =>
        [kind # "role" /\ budget'.admin = budget.admin =>
           \A s \in SlotSet : spec[s] = None => held'[s] = held[s]]_vars
  BY <1>1
<1> QED
  BY InitInv, NextInv, <1>2, PTL DEF Spec, UnsetUntouched

-----------------------------------------------------------------------------
(* Undisturbed passes *)

\* When nobody spends, only PostApply moves, and no call of it fails.
LEMMA OwnSteps ==
    ASSUME IInv, Next, budget' = budget
    PROVE  Pass /\ ~Spend("fault")
<1>1. ASSUME NEW who \in {"user", "admin", "fault"}, Spend(who)
      PROVE  FALSE
  <2>1. budget[who] \in Nat /\ budget'[who] = budget[who] - 1
    BY <1>1 DEF Spend, IInv, BudgetType
  <2> QED
    BY <2>1
<1>2. ~Spend("user") /\ ~Spend("admin") /\ ~Spend("fault")
  BY <1>1
<1> QED
  BY Zenon, <1>2 DEF Next, UserEdits, Administer

\* Everything the pass's spec names is there.
Resolvable == \A s \in SlotSet : \A n \in Goal(spec[s]) : alive[n] # 0

\* A pass that nobody disturbs, of whose calls none fails and whose spec names only
\* what exists succeeds: no order of its calls makes it fail on itself
\* (driver_role_idp_group.go applyRoleDiff, driver_client.go enforceScopeAssignments).
THEOREM AloneSucceeds ==
    Spec => [][/\ alone /\ Resolvable /\ pc # "idle" /\ pc' = "idle"
               /\ budget' = budget
               => done']_vars
<1> DEFINE A == /\ alone /\ Resolvable /\ pc # "idle" /\ pc' = "idle"
                /\ budget' = budget
                => done'
<1>1. IInv /\ [Next]_vars => [A]_vars
  <2> SUFFICES ASSUME IInv, Next, alone, Resolvable, pc # "idle", pc' = "idle",
                      budget' = budget
               PROVE  done'
    OBVIOUS
  <2>1. Pass /\ ~Spend("fault")
    BY OwnSteps
  <2>2. ASSUME Advance
        PROVE  done'
    <3>1. ASSUME NEW s, Enter(s)
          PROVE  FALSE
      BY <3>1 DEF Enter
    <3>2. End(TRUE)
      BY Zenon, <2>2, <3>1 DEF Advance
    <3> QED
      BY <3>2 DEF End
  <2>3. slot \in SlotSet /\ \A n \in Goal(spec[slot]) : n \in Names /\ alive[n] # 0
    BY Zenon, ListAt DEF Resolvable
  <2>4. ~Start /\ ~ReadAll /\ ~List /\ ~AddsDone
    BY Zenon, <2>1 DEF Start, ReadAll, List, AddsDone
  <2>5. ASSUME Skip \/ RemovesDone \/ RemoveAll \/ ReadSlot
        PROVE  done'
    <3>1. CASE ReadSlot
      BY Zenon, <2>1, <2>2, <3>1 DEF ReadSlot
    <3>2. CASE RemoveAll
      BY Zenon, <2>1, <2>2, <3>2 DEF RemoveAll
    <3>3. CASE Skip \/ RemovesDone
      BY Zenon, <2>2, <3>3 DEF Skip, RemovesDone
    <3> QED
      BY <2>5, <3>1, <3>2, <3>3
  <2>6. ~AddAll
    <3>1. ASSUME AddAll
          PROVE  FALSE
      <4>1. pc = "resolve" /\ \A i \in found : alive[i[1]] = i[2]
        BY Zenon, <3>1 DEF AddAll, IInv, Undisturbed, Reached
      <4> QED
        BY Zenon, <2>1, <3>1, <4>1 DEF AddAll
    <3> QED
      BY <3>1
  <2>7. ASSUME NEW n \in Names
        PROVE  ~Resolve(n) /\ ~RemoveOne(n)
    <3>1. ~Resolve(n)
      BY Zenon, <2>1, <2>3 DEF Resolve
    <3>2. ~RemoveOne(n)
      BY Zenon, <2>1 DEF RemoveOne
    <3> QED
      BY <3>1, <3>2
  <2>8. ASSUME NEW n \in Names, AddOne(n)
        PROVE  FALSE
    <3> DEFINE id == {i \in found : i[1] = n}
    <3>1. pc = "add" /\ n \in todo
      BY Zenon, <2>8 DEF AddOne
    <3>2. n \in Goal(spec[slot]) /\ found = Living
      BY <3>1 DEF IInv, Working, Undisturbed, Reached
    <3>3. id = {<<n, alive[n]>>}
      BY <2>3, <3>2, LivingType DEF IInv
    <3> HIDE DEF id
    <3>4. id # {} /\ \A i \in id : alive[n] = i[2]
      BY <3>3
    <3>5. \/ pc' = pc \/ Spend("fault")
          \/ ~(id # {} /\ \A i \in id : alive[n] = i[2])
      BY ZenonT(30), <2>8 DEF AddOne, id
    <3> QED
      BY <2>1, <3>1, <3>4, <3>5
  <2> QED
    BY Zenon, <2>1, <2>4, <2>5, <2>6, <2>7, <2>8 DEF Pass
<1> QED
  BY InitInv, NextInv, <1>1, PTL DEF Spec

\* Lists that are as the spec has them stay so: while nobody else acts and no call
\* fails, passes go on and change nothing (driver_role_idp_group.go applyRoleDiff,
\* driver_client.go enforceScopeAssignments).
THEOREM InPlaceIsKept ==
    Spec => [][InPlace /\ budget' = budget
                   => InPlace' /\ UNCHANGED <<kind, want, held>>]_vars
<1> DEFINE A == InPlace /\ budget' = budget => InPlace' /\ UNCHANGED <<kind, want, held>>
<1>1. IInv /\ [Next]_vars => [A]_vars
  <2> SUFFICES ASSUME IInv, Next, InPlace, budget' = budget
               PROVE  InPlace' /\ UNCHANGED <<kind, want, held>>
    OBVIOUS
  <2> DEFINE Moves == /\ pc' # "idle" => spec' = want
                      /\ pc' \in {"idle", "read"} \/ (ByID /\ current' = held)
                      /\ pc' = "resolve" => found' \subseteq Exactly(want[slot'])
                      /\ pc' = "remove" => found' = Exactly(want[slot'])
  <2>1. Pass /\ ~Spend("fault") /\ UNCHANGED kind
    BY Zenon, OwnSteps DEF Pass
  <2>2. ASSUME UNCHANGED <<want, alive, held>>, Moves
        PROVE  InPlace' /\ UNCHANGED <<kind, want, held>>
    <3>1. SlotSet' = SlotSet /\ ByID' = ByID
      BY Zenon, <2>1, KindKept
    <3>3. \A s \in SlotSet : Managed(want[s]) => held[s] = Exactly(want[s])
      BY DEF InPlace
    <3>4. (\A s \in SlotSet : Managed(want[s]) => held[s] = Exactly(want[s]))'
      BY <2>1, <2>2, <3>1, <3>3 DEF Exactly, Managed
    <3>5. pc' = "resolve" => found' \subseteq Exactly(want[slot])'
      BY <2>2 DEF Exactly
    <3>6. pc' = "remove" => found' = Exactly(want[slot])'
      BY <2>2 DEF Exactly
    <3> QED
      BY <2>1, <2>2, <3>1, <3>4, <3>5, <3>6 DEF InPlace
  <2>3. /\ slot \in SlotSet /\ want[slot] \in ListOf
        /\ pc # "idle" => spec = want
    BY Zenon, ListAt DEF InPlace
  <2>4. ASSUME Advance, UNCHANGED <<want, alive, held>>, pc # "idle",
               ByID => pc # "read"
        PROVE  InPlace' /\ UNCHANGED <<kind, want, held>>
    <3>1. CASE End(TRUE)
      BY <2>2, <2>4, <3>1 DEF End
    <3>2. ASSUME NEW s, Enter(s)
          PROVE  InPlace' /\ UNCHANGED <<kind, want, held>>
      <4>1. ByID => current = held
        BY <2>4 DEF InPlace, IInv, Working
      <4>2. spec = want
        BY <2>3, <2>4
      <4>3. /\ slot' = s /\ found' = {} /\ UNCHANGED <<spec, current>>
            /\ pc' \in {"read", "resolve", "remove"}
            /\ ~ByID => pc' = "read"
            /\ pc' = "remove" => spec[s] = Unlisted
        BY <3>2 DEF Enter
      <4>4. spec[s] = Unlisted => Exactly(want[s]) = {}
        BY <4>2 DEF Exactly, Goal
      <4>5. Moves
        BY <4>1, <4>2, <4>3, <4>4
      <4> QED
        BY Zenon, <2>2, <2>4, <4>5
    <3> QED
      BY Zenon, <2>4, <3>1, <3>2 DEF Advance
  <2>5. CASE Start
    <3>1. UNCHANGED <<want, alive, held>> /\ Moves
      BY <2>5 DEF Start, server
    <3> QED
      BY <2>2, <3>1
  <2>6. CASE ReadAll
    <3>1. /\ UNCHANGED <<want, alive, held, spec, found>> /\ ByID
          /\ current' = held /\ pc' = "resolve" /\ pc = "read"
      BY Zenon, <2>1, <2>6 DEF ReadAll
    <3>2. found = {}
      BY Zenon, <3>1 DEF IInv, Working
    <3> QED
      BY <2>2, <2>3, <3>1, <3>2
  <2>7. ASSUME NEW n \in Names, Resolve(n)
        PROVE  InPlace' /\ UNCHANGED <<kind, want, held>>
    <3>1. pc = "resolve" /\ Managed(want[slot]) /\ n \in Goal(want[slot])
      BY Zenon, <2>3, <2>7 DEF Resolve
    <3>2. <<n, alive[n]>> \in held[slot] /\ <<n, alive[n]>> \in Exactly(want[slot])
      BY <2>3, <3>1 DEF InPlace, Exactly
    <3>3. alive[n] # 0
      BY <2>3, <3>2 DEF IInv, ServerType
    <3>4. /\ found' = found \cup {<<n, alive[n]>>}
          /\ UNCHANGED <<pc, spec, slot, left, current, held, want, alive>>
      BY Zenon, <2>1, <2>7, <3>3 DEF Resolve
    <3> QED
      BY <2>2, <2>3, <3>1, <3>2, <3>4 DEF InPlace
  <2>8. CASE AddAll
    <3>1. pc = "resolve" /\ Managed(want[slot]) /\ Goal(want[slot]) = NamesOf(found)
      BY Zenon, <2>3, <2>8 DEF AddAll, Resolved
    <3>2. /\ held[slot] = Exactly(want[slot]) /\ current = held /\ ByID
          /\ found \subseteq Exactly(want[slot])
      BY <2>3, <3>1 DEF InPlace
    <3>3. found = Exactly(want[slot])
      BY <3>1, <3>2 DEF Exactly, NamesOf
    <3>4. found \ current[slot] = {}
      BY <3>2
    <3>5. /\ held' = [held EXCEPT ![slot] = @ \cup (found \ current[slot])] /\ pc' = "remove"
          /\ UNCHANGED <<spec, slot, left, current, found, want, alive>>
      BY Zenon, <2>1, <2>8, <3>4 DEF AddAll
    <3>6. held' = held
      BY <3>4, <3>5 DEF IInv, ServerType
    <3> QED
      BY <2>2, <2>3, <3>1, <3>2, <3>3, <3>5, <3>6
  <2>9. CASE RemoveAll
    <3>1. pc = "remove" /\ ByID
      BY Zenon, <2>9 DEF RemoveAll
    <3>2. Managed(want[slot])
      BY <2>3, <3>1 DEF IInv, Working
    <3>3. current[slot] \ found = {}
      BY <2>3, <3>1, <3>2 DEF InPlace
    <3>4. /\ held' = [held EXCEPT ![slot] = @ \ (current[slot] \ found)] /\ Advance
          /\ UNCHANGED <<want, alive>>
      BY Zenon, <2>1, <2>9 DEF RemoveAll
    <3>5. held' = held
      BY <3>3, <3>4 DEF IInv, ServerType
    <3> QED
      BY <2>4, <3>1, <3>4, <3>5
  <2>10. CASE Skip
    <3>1. pc = "resolve" /\ Advance /\ UNCHANGED <<want, alive, held>>
      BY <2>10 DEF Skip, server
    <3> QED
      BY <2>4, <3>1
  <2>11. CASE ReadSlot
    <3>1. pc = "read" /\ ~ByID /\ UNCHANGED <<want, alive, held>>
      BY Zenon, <2>11 DEF ReadSlot, Fail
    <3>2. Managed(want[slot]) => NamesOf(held[slot]) = Goal(want[slot])
      <4>1. NamesOf(Exactly(want[slot])) = Goal(want[slot])
        <5>1. ASSUME NEW n \in Goal(want[slot])
              PROVE  n \in NamesOf(Exactly(want[slot]))
          <6>1. <<n, alive[n]>> \in Exactly(want[slot]) /\ <<n, alive[n]>>[1] = n
            BY DEF Exactly
          <6> QED
            BY <6>1 DEF NamesOf
        <5>2. ASSUME NEW n \in NamesOf(Exactly(want[slot]))
              PROVE  n \in Goal(want[slot])
          BY DEF NamesOf, Exactly
        <5> QED
          BY Zenon, <5>1, <5>2
      <4> QED
        BY <2>3, <4>1 DEF InPlace
    <3>3. Advance
      BY Zenon, <2>1, <2>3, <2>11, <3>1, <3>2 DEF ReadSlot
    <3> QED
      BY <2>4, <3>1, <3>3
  <2>12. ~List /\ ~AddsDone /\ ~RemovesDone
    BY DEF List, AddsDone, RemovesDone, InPlace, IInv, Working
  <2>13. ASSUME NEW n \in Names
         PROVE  ~AddOne(n) /\ ~RemoveOne(n)
    BY Zenon DEF AddOne, RemoveOne, InPlace, IInv, Working
  <2> QED
    BY Zenon, <2>1, <2>5, <2>6, <2>7, <2>8, <2>9, <2>10, <2>11, <2>12, <2>13 DEF Pass
<1> QED
  BY InitInv, NextInv, <1>1, PTL DEF Spec
==============================================================================
