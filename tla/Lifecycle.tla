----------------------------- MODULE Lifecycle -----------------------------
(***************************************************************************)
(* What the operator promises about one custom resource, seen from outside:*)
(* the object as its users see it, and who controls what is on the server. *)
(* There is no cache, no pass and no failing call here; module Engine is   *)
(* shown to implement this one.                                            *)
(*                                                                         *)
(* Users and administrators spend their acts. The operator spends none, so *)
(* that a step of the operator cannot pass for one of theirs.              *)
(***************************************************************************)
EXTENDS Naturals

CONSTANTS
    None,       \* no object
    Keys        \* natural keys on the server

Policies == {"Delete", "Orphan"}

\* The object, as far as it matters here.
View == [key: Keys, deletion: Policies, held: BOOLEAN, deleting: BOOLEAN]

VARIABLES
    object,     \* the view of the object, or None
    server,     \* key -> "none", a "foreign" resource or one that is "ours"
    users,      \* what users may still do
    admins      \* what administrators may still do

vars == <<object, server, users, admins>>

Init ==
    /\ object = None
    /\ server = [k \in Keys |-> "none"]
    /\ users \in Nat /\ admins \in Nat

-----------------------------------------------------------------------------
(* Users and administrators *)

\* A user declares a resource.
Declare(key, deletion) ==
    /\ object = None
    /\ object' = [key |-> key, deletion |-> deletion, held |-> FALSE, deleting |-> FALSE]

\* A user edits the declaration.
Edit(key, deletion) ==
    /\ object # None
    /\ object' = [object EXCEPT !.key = key, !.deletion = deletion]

\* A user deletes it: it stays while the operator holds it.
Remove ==
    /\ object # None /\ ~object.deleting
    /\ object' = IF object.held THEN [object EXCEPT !.deleting = TRUE] ELSE None

User ==
    /\ users > 0 /\ users' = users - 1
    /\ \/ \E key \in Keys, deletion \in Policies :
             Declare(key, deletion) \/ Edit(key, deletion)
       \/ Remove
    /\ UNCHANGED <<server, admins>>

\* An administrator creates a resource, deletes one, or changes one, which does
\* not change whose it is.
Administrator ==
    /\ admins > 0 /\ admins' = admins - 1
    /\ \/ \E k \in Keys : server[k] = "none" /\ server' = [server EXCEPT ![k] = "foreign"]
       \/ \E k \in Keys : server[k] # "none" /\ server' = [server EXCEPT ![k] = "none"]
       \/ UNCHANGED server
    /\ UNCHANGED <<object, users>>

-----------------------------------------------------------------------------
(* The operator *)

\* It takes hold of an object that is there to stay.
Hold ==
    /\ object # None /\ ~object.held /\ ~object.deleting
    /\ object' = [object EXCEPT !.held = TRUE]
    /\ UNCHANGED server

\* It creates, updates or takes over a resource, for an object that it holds.
Serve(k) ==
    /\ object # None /\ object.held
    /\ server' = [server EXCEPT ![k] = "ours"]
    /\ UNCHANGED object

\* It destroys what is its own only while the object is being deleted.
Destroy(k) ==
    /\ server[k] = "foreign" \/ (object # None /\ object.held /\ object.deleting)
    /\ server' = [server EXCEPT ![k] = "none"]
    /\ UNCHANGED object

\* It lets go of an object that is being deleted, under the Delete policy only
\* when the object's resource is no longer its own.
Release ==
    /\ object # None /\ object.held /\ object.deleting
    /\ object.deletion = "Delete" => server[object.key] # "ours"
    /\ object' = None
    /\ UNCHANGED server

Operator ==
    /\ Hold \/ Release \/ \E k \in Keys : Serve(k) \/ Destroy(k)
    /\ UNCHANGED <<users, admins>>

Next == User \/ Administrator \/ Operator

Spec == Init /\ [][Next]_vars

=============================================================================
