------------------------------ MODULE MCEngine ------------------------------
(***************************************************************************)
(* Small instances of the engine for TLC.                                  *)
(***************************************************************************)
EXTENDS EngineLifecycle

CONSTANTS k1, k2, v1

Declare(val, adoption, deletion) ==
    [key |-> k1, val |-> val, adoption |-> adoption, deletion |-> deletion]

\* The default policies.
Strict == Declare(v1, "CreateOnly", "Delete")
CreateOnlySpecs == {Strict}

\* The policies a user moves between, the field dropped on the way; the same under
\* another key.
Adopting == Declare(None, "Adopt", "Orphan")
Refusing == Declare(v1, "FailIfExists", "Delete")
Elsewhere == [Strict EXCEPT !.key = k2]
PolicySpecs == {Strict, Adopting, Refusing, Elsewhere}

Budget(user, admin, fault) ==
    [user |-> user, specs |-> Specs, admin |-> admin, fault |-> fault]

\* Users, administrators and faults, each combination as far as it goes.
SafetyBudgets == {Budget(1, 3, 0), Budget(2, 1, 1), Budget(3, 0, 0)}

\* A user changes the policy or the key; a deletion meets a fault; what led to a
\* refusal goes away, a refusal that is on record already included.
Only(specs, b) == [b EXCEPT !.specs = specs]
LiveBudgets ==
    {Only({Strict, Adopting}, Budget(2, 1, 0)), Only({Strict, Elsewhere}, Budget(2, 0, 0)),
     Only({Strict}, Budget(2, 0, 1)), Only({Adopting}, Budget(2, 0, 1)),
     Only({Strict}, Budget(1, 2, 0)), Only({Refusing}, Budget(1, 2, 0)),
     Only({Adopting}, Budget(1, 3, 0)), Only({Strict}, Budget(1, 1, 1))}

\* Just enough for one story.
ForeignBudgets == {Budget(2, 1, 0)}
CrashBudgets == {Budget(1, 0, 1)}
=============================================================================
