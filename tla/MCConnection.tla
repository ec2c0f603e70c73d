---------------------------- MODULE MCConnection ----------------------------
(***************************************************************************)
(* Small instances of the connection for TLC: a reconciler of resources    *)
(* beside the connection's own and one event, or the connection's own      *)
(* alone and two events.                                                   *)
(***************************************************************************)
EXTENDS Connection

SmallLoads == {[callers |-> Workers, events |-> 1], [callers |-> {}, events |-> 2]}
=============================================================================
