--------------------------- MODULE MCEnforcement ---------------------------
(***************************************************************************)
(* A small instance of what PostApply enforces, for TLC: two names, every  *)
(* kind of resource, and a group with the roles of two clients.            *)
(***************************************************************************)
EXTENDS Enforcement

AdminsByKind == [k \in Kinds |-> IF k = "group" THEN 2 ELSE 3]
=============================================================================
