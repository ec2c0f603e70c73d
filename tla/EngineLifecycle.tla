-------------------------- MODULE EngineLifecycle --------------------------
(***************************************************************************)
(* The engine implements the lifecycle: what module Lifecycle sees of the  *)
(* engine's state.                                                         *)
(***************************************************************************)
EXTENDS EngineProperties

\* What users see of the object, and who controls a resource.
Seen(o) ==
    IF o = None THEN None
    ELSE [key |-> o.spec.key, deletion |-> o.spec.deletion, held |-> o.fin,
          deleting |-> o.deleting]

Control(r) ==
    IF r = None THEN "none" ELSE IF r.own = "operator" THEN "ours" ELSE "foreign"

Life == INSTANCE Lifecycle
    WITH object <- Seen(api), server <- [k \in Keys |-> Control(remote[k])],
         users <- budget.user, admins <- budget.admin

ASSUME ViewAssumption == None \notin Life!View

\* Seen from outside, the engine is Lifecycle: it serves only objects that it
\* holds, destroys what is its own only while the object is being deleted, and lets
\* go of the object only when a Delete deletion has taken effect; a stale cache,
\* lost answers, crashes, edits of the key or the policy and a rerun of a deletion
\* that had completed do not show (engine.go:107-359).
ImplementsLifecycle == Life!Spec

=============================================================================
