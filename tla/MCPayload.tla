----------------------------- MODULE MCPayload -----------------------------
(***************************************************************************)
(* Small instances of the payload for TLC: one field of every JSON type.   *)
(***************************************************************************)
EXTENDS Payload, FiniteSets

Fields(name, color) == [name |-> Str(name), color |-> Str(color)]
Named(name) == [name |-> Str(name)]

\* Two mappers; what the server adds to the elements of an array.
Mappers == List(<<Map(Fields("m1", "red")), Map(Named("m2"))>>)
ServerMappers ==
    List(<<Map(With(Named("m2"), "id", Str("2"))),
           Map(With(Fields("m1", "red"), "id", Str("1")))>>)

\* Scalars and an array; a number and two objects; one object less; one element
\* less; nothing.
MCSpecs ==
    { [displayName |-> Str("A"), enabled |-> Bool(TRUE), mappers |-> Mappers],
      [displayName |-> Str("A"), priority |-> Num(1),
       attributes |-> Map([theme |-> Str("dark")]),
       smtp |-> Map([host |-> Str("h")])],
      [displayName |-> Str("A"), priority |-> Num(1),
       smtp |-> Map([host |-> Str("h")])],
      [enabled |-> Bool(FALSE), mappers |-> List(<<Map(Named("m2"))>>),
       attributes |-> Map([theme |-> Str("light")])],
      NoFields }

\* Just created, or made in the console with fields of its own.
MCServers ==
    { NoFields,
      [displayName |-> Str("B"), mappers |-> ServerMappers, priority |-> Num(5),
       comment |-> Str("c"), attributes |-> Map([origin |-> Str("web")])] }

MCSecrets == {Null, Str("p"), Str("q")}
MCSensitive == [name |-> "smtp", key |-> "password"]

Set(name, value) == [name |-> name, value |-> value]

\* Drift: changed, cleared and reordered fields, and a field nobody declares.
MCEdits ==
    { Set("displayName", Str("C")), Set("enabled", Bool(FALSE)),
      Set("mappers", ServerMappers), Set("comment", Str("d")),
      Set("attributes", Map([origin |-> Str("web"), theme |-> Str("dark")])) }

\* The two comparisons on nested values, where they call themselves. (The LET keeps
\* TLC's coverage statistics from unfolding the recursion without end.)
MCEqual(want, got) == LET equal == ManagedValueEqual(want, got) IN equal
MCCarries(want, got) == LET carries == Carries(want, got) IN carries

\* A value and all that is nested in it, and how deep it is nested.
RECURSIVE Nested(_)
Nested(v) ==
    {v} \cup CASE Is(v, "map") -> UNION {Nested(v.map[n]) : n \in DOMAIN v.map}
               [] Is(v, "list") -> UNION {Nested(v.list[i]) : i \in DOMAIN v.list}
               [] OTHER -> {}

Entries(f) == {f[n] : n \in DOMAIN f}

\* A server may keep values as they are, or turn arrays round and give ids to
\* objects without one.
RECURSIVE Kept(_)
Kept(v) ==
    CASE Is(v, "map") ->
            IF "id" \in DOMAIN v.map THEN v ELSE Map(With(v.map, "id", Str("0")))
      [] Is(v, "list") ->
            List([i \in DOMAIN v.list |-> Kept(v.list[Len(v.list) + 1 - i])])
      [] OTHER -> v

Occurring ==
    UNION {Nested(v) :
        v \in UNION {Entries(PayloadOf(s, l, x)) :
                        s \in MCSpecs, l \in MCSpecs, x \in MCSecrets}
              \cup UNION {Entries(m) : m \in MCSpecs \cup MCServers}
              \cup {e.value : e \in MCEdits}}

MCValues ==
    Occurring \cup {Kept(v) : v \in Occurring} \cup {Kept(Kept(v)) : v \in Occurring}
    \cup {Str("0")}

MCNorms == {[v \in MCValues |-> v], [v \in MCValues |-> Kept(v)]}

MCDepth == [v \in MCValues |-> Cardinality(Nested(v))]
=============================================================================
