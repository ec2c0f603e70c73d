------------------------------ MODULE MCFleet ------------------------------
(***************************************************************************)
(* Small fleets for TLC.                                                   *)
(***************************************************************************)
EXTENDS Fleet

CONSTANTS r1, n1, n2, o1, o2, o3

Spec3(x, y, z) == [o \in Objects |-> CASE o = o1 -> x [] o = o2 -> y [] o = o3 -> z]

Declare(kind, name, deletion, items) ==
    [key |-> [kind |-> kind, realm |-> r1, name |-> name], deletion |-> deletion,
     items |-> items]

TheRealm == Declare("realm", None, "Delete", None)

\* Two roles that include each other; a client and a group with what they list;
\* two objects for one role, and for one identity provider; contents to keep and to
\* delete in a realm to keep.
Mutual == Spec3(TheRealm, Declare("role", n1, "Delete", {n2}),
                Declare("role", n2, "Delete", {n1}))
Scoped == Spec3(TheRealm, Declare("scope", n1, "Delete", None),
                Declare("client", n1, "Delete", {n1}))
Mapped == Spec3(TheRealm, Declare("role", n1, "Delete", None),
                Declare("group", n1, "Delete", {n1}))
Rivals == Spec3(TheRealm, Declare("role", n1, "Delete", {}),
                Declare("role", n1, "Delete", {}))
Providers == Spec3(TheRealm, Declare("idp", n1, "Delete", None),
                   Declare("idp", n1, "Delete", None))
Kept == Spec3([TheRealm EXCEPT !.deletion = "Orphan"],
              Declare("idp", n1, "Delete", None), Declare("group", n1, "Orphan", None))

\* Each object is applied once, and some are removed.
Load(decl, removed, admin, fault) ==
    [decl |-> decl, user |-> [o \in Objects |-> IF o \in removed THEN 2 ELSE 1],
     admin |-> admin, fault |-> fault, teardown |-> FALSE, cascades |-> TRUE]

\* Everything is removed; one object is removed, and a call fails or the operator
\* restarts; an administrator deletes something; a realm and a role are applied
\* again; the operator is uninstalled.
SmallLoads ==
    {Load(f, Objects, 0, 0) : f \in {Mutual, Rivals, Mapped, Providers}}
    \cup {Load(f, {o2}, 0, 1) : f \in {Mutual, Rivals, Providers}}
    \cup {Load(f, {}, 1, 0) : f \in {Mutual, Rivals, Scoped, Providers}}
    \cup {[Load(f, {}, 1, 0) EXCEPT !.cascades = FALSE] : f \in {Mutual, Mapped}}
    \cup {[Load(Mutual, {}, 0, 0) EXCEPT !.user[o] = 3] : o \in {o1, o2}}
    \cup {Load(Kept, {o1, o3}, 0, 0)}
    \cup {[Load(Mutual, {o2}, 0, 0) EXCEPT !.teardown = TRUE]}

\* Just enough for one story.
TeardownLoads == {[Load(Rivals, {}, 0, 0) EXCEPT !.teardown = TRUE]}
=============================================================================
