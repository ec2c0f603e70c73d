------------------------------ MODULE Drivers ------------------------------
(***************************************************************************)
(* The six drivers (internal/controller/driver_*.go), as far as the engine *)
(* can tell them apart:                                                    *)
(*   marker   ManagedMarker stamps the payload, IsManaged finds the stamp; *)
(*   byID     Update and Delete address the resource by its server-side id *)
(*            (resolved by Get), not by its natural key;                   *)
(*   secrets  PreparePayload reads Secrets and fails when one is missing;  *)
(*   post     what PostApply does beside the representation: nothing;      *)
(*            something if the spec declares it; it always reads, and      *)
(*            enforces what is declared; or it always enforces, and what   *)
(*            is not declared counts as empty;                             *)
(*   guarded  Protected refuses some natural keys.                         *)
(***************************************************************************)

KindType == [marker: BOOLEAN, byID: BOOLEAN, secrets: BOOLEAN,
             post: {"none", "declared", "reads", "exact"}, guarded: BOOLEAN]

\* Addressed by realm name; SMTP credentials are read from Secrets.
RealmDriver == [marker |-> TRUE, byID |-> FALSE, secrets |-> TRUE,
                post |-> "none", guarded |-> TRUE]

\* Resolved by clientId; PostApply assigns scopes and exports the secret.
ClientDriver == [marker |-> TRUE, byID |-> TRUE, secrets |-> TRUE,
                 post |-> "declared", guarded |-> FALSE]

ClientScopeDriver == [marker |-> TRUE, byID |-> TRUE, secrets |-> FALSE,
                      post |-> "none", guarded |-> FALSE]

\* Addressed by name; PostApply reads and enforces the composites.
RealmRoleDriver == [marker |-> TRUE, byID |-> FALSE, secrets |-> FALSE,
                    post |-> "exact", guarded |-> FALSE]

\* Its representation has no place for a marker; PostApply lists and enforces
\* the mappers.
IdentityProviderDriver == [marker |-> FALSE, byID |-> FALSE, secrets |-> TRUE,
                           post |-> "exact", guarded |-> FALSE]

\* Resolved by name; PostApply reads the role mappings, and enforces them if set.
GroupDriver == [marker |-> TRUE, byID |-> TRUE, secrets |-> FALSE,
                post |-> "reads", guarded |-> FALSE]

=============================================================================
