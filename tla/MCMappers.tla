------------------------------ MODULE MCMappers ------------------------------
(***************************************************************************)
(* A small instance of the identity provider mappers for TLC: two names,   *)
(* two configurations.                                                     *)
(***************************************************************************)
EXTENDS Mappers
=============================================================================
