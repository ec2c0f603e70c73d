--------------------------- MODULE MCAdminClient ---------------------------
(***************************************************************************)
(* A small instance of the Admin API client for TLC.                       *)
(***************************************************************************)
EXTENDS AdminClient
=============================================================================
