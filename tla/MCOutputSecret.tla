--------------------------- MODULE MCOutputSecret ---------------------------
(***************************************************************************)
(* A small instance of the output Secret for TLC: two Secrets of two       *)
(* entries, a client secret that is rotated.                               *)
(***************************************************************************)
EXTENDS OutputSecret
=============================================================================
