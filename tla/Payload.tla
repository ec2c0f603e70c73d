------------------------------ MODULE Payload ------------------------------
(***************************************************************************)
(* What a pass sends to the server (internal/controller/lastapplied.go):   *)
(* the payload computed from the spec, the last-applied annotation and the *)
(* inbound Secret; the comparison with the server's representation; and    *)
(* the merge of the two. Module Engine has the calls around it; here a     *)
(* pass over an existing, managed resource is one step.                    *)
(*                                                                         *)
(* A JSON value is a record with one field, named for its type. An object  *)
(* is [map |-> f] with f a function from names; an array is [list |-> s].  *)
(***************************************************************************)
EXTENDS Naturals, Sequences

CONSTANTS
    SpecChoices,     \* the representations a user may declare (functions from names)
    ServerChoices,   \* the representations the resource may have when adopted
    SecretChoices,   \* the values of the inbound Secret, or none
    ConsoleEdits,    \* what an administrator may set: records [name, value]
    Marker,          \* the attribute that carries the managed marker
    Sensitive,       \* the field whose value the server masks: [name, key]
    MaxEdits,        \* bound on edits of the spec, the Secret and the server
    Norms,           \* the ways the server may keep a value: functions on Values
    Values,          \* the JSON values that occur, with all that is nested in them
    Depth,           \* how deep each of them is nested
    NestedEqual(_, _),   \* ManagedValueEqual, where it is called on nested values
    NestedCarries(_, _)  \* Carries, likewise

Str(s) == [str |-> s]
Bool(b) == [bool |-> b]
Num(n) == [num |-> n]
Map(f) == [map |-> f]
List(s) == [list |-> s]
Null == [null |-> TRUE]
Masked == Str("**********")   \* keycloakMaskedValue

Is(v, type) == type \in DOMAIN v
NoFields == [n \in {} |-> Null]

\* exists && got != nil
Has(m, n) == n \in DOMAIN m /\ m[n] # Null

\* f with the entry n set to v.
With(f, n, v) == [x \in DOMAIN f \cup {n} |-> IF x = n THEN v ELSE f[x]]

\* The entries of the object under n, none if there is no object there.
Inside(m, n) == IF Has(m, n) /\ Is(m[n], "map") THEN m[n].map ELSE NoFields

-----------------------------------------------------------------------------
(* The payload *)

\* Mutant: every type is reset, numbers included.
ResettableAll(v) == TRUE

\* zeroFor's second result: numbers are not resettable.
Resettable(v) == \E type \in {"str", "bool", "list", "map"} : Is(v, type)

ZeroFor(v) ==
    CASE Is(v, "str") -> Str("")
      [] Is(v, "bool") -> Bool(FALSE)
      [] Is(v, "list") -> List(<<>>)
      [] Is(v, "map") -> Map(NoFields)
      [] OTHER -> Num(0)

\* Mutant: what the spec dropped is forgotten.
EffectiveSpecOnly(specMap, last) == specMap

\* The spec, and a zero for each resettable field that last-applied records
\* and the spec no longer has.
EffectivePayload(specMap, last) ==
    LET dropped == {n \in DOMAIN last \ DOMAIN specMap : Resettable(last[n])} IN
    [n \in DOMAIN specMap \cup dropped |->
        IF n \in DOMAIN specMap THEN specMap[n] ELSE ZeroFor(last[n])]

\* ManagedMarker of a kind with string attributes.
StampStringAttribute(payload) ==
    With(payload, "attributes",
         Map(With(Inside(payload, "attributes"), Marker, Str("true"))))

\* PreparePayload: the Secret's value goes into an object of the payload.
PreparePayload(payload, secret) ==
    IF secret = Null THEN payload
    ELSE With(payload, Sensitive.name,
              Map(With(Inside(payload, Sensitive.name), Sensitive.key, secret)))

-----------------------------------------------------------------------------
(* The comparison *)

IsZeroValue(v) == Resettable(v) /\ v = ZeroFor(v)

\* Does the remote representation differ on a name the payload manages? A zero
\* matches an absent field.
PayloadDiffers(remote, payload) ==
    \E n \in DOMAIN payload :
        \/ /\ Has(remote, n)
           /\ payload[n] = Null \/ ~NestedEqual(payload[n], remote[n])
        \/ ~Has(remote, n) /\ payload[n] # Null /\ ~IsZeroValue(payload[n])

\* In their order, the wanted elements each take the first element that they
\* equal and that no earlier one took.
MatchesDistinct(wants, gots) ==
    \E p \in [DOMAIN wants -> DOMAIN gots] :
        \A i \in DOMAIN wants :
            LET unused == {j \in DOMAIN gots : \A h \in 1..(i - 1) : p[h] # j}
            IN  /\ p[i] \in unused /\ NestedEqual(wants[i], gots[p[i]])
                /\ \A j \in unused : j < p[i] => ~NestedEqual(wants[i], gots[j])

\* Mutant: further elements of the array are not noticed.
ManagedValueEqualPrefix(want, got) ==
    CASE Is(want, "map") -> Is(got, "map") /\ ~PayloadDiffers(got.map, want.map)
      [] Is(want, "list") -> Is(got, "list") /\ MatchesDistinct(want.list, got.list)
      [] OTHER -> got = Masked \/ want = got

\* Mutant: arrays are compared position by position.
ManagedValueEqualOrdered(want, got) ==
    CASE Is(want, "map") -> Is(got, "map") /\ ~PayloadDiffers(got.map, want.map)
      [] Is(want, "list") ->
            /\ Is(got, "list") /\ Len(want.list) = Len(got.list)
            /\ \A i \in DOMAIN want.list : NestedEqual(want.list[i], got.list[i])
      [] OTHER -> got = Masked \/ want = got

\* Objects count on the wanted names only, arrays regardless of their order, and
\* a masked value equals any scalar.
ManagedValueEqual(want, got) ==
    CASE Is(want, "map") -> Is(got, "map") /\ ~PayloadDiffers(got.map, want.map)
      [] Is(want, "list") ->
            /\ Is(got, "list") /\ Len(want.list) = Len(got.list)
            /\ MatchesDistinct(want.list, got.list)
      [] OTHER -> got = Masked \/ want = got

\* The payload's entries overlay the remote ones; a null one deletes.
MergePayload(remote, payload) ==
    LET deleted == {n \in DOMAIN payload : payload[n] = Null} IN
    [n \in (DOMAIN remote \cup DOMAIN payload) \ deleted |->
        IF n \in DOMAIN payload THEN payload[n] ELSE remote[n]]

-----------------------------------------------------------------------------
(* The server *)

\* An object with its sensitive value masked.
Hidden(v) == Map(With(v.map, Sensitive.key, Masked))

\* A GET masks the sensitive value.
Shown(m) ==
    IF Has(Inside(m, Sensitive.name), Sensitive.key)
    THEN With(m, Sensitive.name, Hidden(m[Sensitive.name]))
    ELSE m

\* A PUT replaces the fields it names, unless it names them as they were shown:
\* the mask stands for the stored value. The server keeps what it is given in an
\* order and with additions of its own, and may leave cleared fields out.
Put(m, rep, norm, omits) ==
    LET kept(n) == n \in DOMAIN m /\ (n \in DOMAIN rep => rep[n] = Shown(m)[n])
        stored == [n \in DOMAIN m \cup DOMAIN rep |->
                      IF kept(n) THEN m[n] ELSE norm[rep[n]]]
    IN  [n \in {x \in DOMAIN stored : omits => ~IsZeroValue(stored[x])}
            |-> stored[n]]

-----------------------------------------------------------------------------
(* The state machine *)

VARIABLES
    spec,      \* the representation fields of the spec
    secret,    \* the value of the inbound Secret, Null if the spec names none
    last,      \* the last-applied annotation
    server,    \* the resource on the server
    edits,     \* edits so far
    passed     \* was the last step a pass?

vars == <<spec, secret, last, server, edits, passed>>

\* The payload of a pass.
PayloadOf(s, l, x) == PreparePayload(StampStringAttribute(EffectivePayload(s, l)), x)

Payload == PayloadOf(spec, last, secret)

Init ==
    /\ spec \in SpecChoices /\ secret \in SecretChoices
    /\ last = NoFields
    /\ server \in ServerChoices
    /\ edits = 0 /\ passed = FALSE

\* handleExisting from the payload on, and finalize's annotation.
Pass ==
    LET remote == Shown(server) IN
    /\ IF PayloadDiffers(remote, Payload)
       THEN \E norm \in Norms, omits \in BOOLEAN :
               server' = Put(server, MergePayload(remote, Payload), norm, omits)
       ELSE UNCHANGED server
    /\ last' = spec /\ passed' = TRUE
    /\ UNCHANGED <<spec, secret, edits>>

Edit == edits < MaxEdits /\ edits' = edits + 1 /\ passed' = FALSE

EditSpec(s) == Edit /\ spec # s /\ spec' = s /\ UNCHANGED <<secret, last, server>>

\* The Secret's value is rotated (the reference to it stays).
EditSecret(v) ==
    /\ Edit /\ Null \notin {secret, v} /\ secret' = v
    /\ UNCHANGED <<spec, last, server>>

\* An administrator sets one field in the console.
EditServer(e) ==
    /\ Edit /\ server' = With(server, e.name, e.value)
    /\ UNCHANGED <<spec, secret, last>>

Next ==
    \/ Pass
    \/ \E s \in SpecChoices : EditSpec(s)
    \/ \E v \in SecretChoices : EditSecret(v)
    \/ \E e \in ConsoleEdits : EditServer(e)

Spec == Init /\ [][Next]_vars

-----------------------------------------------------------------------------
(* The reference for the comparison *)

\* What it means for a value to carry a wanted one, by bijections instead of the
\* greedy scan and without the mask.
Carries(want, got) ==
    CASE Is(want, "map") ->
            /\ Is(got, "map")
            /\ \A n \in DOMAIN want.map :
                  IF Has(got.map, n) THEN NestedCarries(want.map[n], got.map[n])
                  ELSE want.map[n] = Null \/ IsZeroValue(want.map[n])
      [] Is(want, "list") ->
            /\ Is(got, "list") /\ Len(want.list) = Len(got.list)
            /\ \E p \in [DOMAIN want.list -> DOMAIN got.list] :
                  /\ \A i, j \in DOMAIN want.list : p[i] = p[j] => i = j
                  /\ \A i \in DOMAIN want.list :
                        NestedCarries(want.list[i], got.list[p[i]])
      [] OTHER -> want = got

-----------------------------------------------------------------------------
(* What is assumed of the constants *)

JsonTypes == {"null", "str", "bool", "num", "map", "list"}

\* Values have one JSON type, are nested to a finite depth, and none is the mask.
ASSUME ValuesAssumption ==
    /\ Depth \in [Values -> Nat]
    /\ Masked \notin Values
    /\ \A v \in Values :
          /\ \E type \in JsonTypes : DOMAIN v = {type}
          /\ Is(v, "map") =>
                /\ v = Map([n \in DOMAIN v.map |-> v.map[n]])
                /\ \A n \in DOMAIN v.map :
                      v.map[n] \in Values /\ Depth[v.map[n]] < Depth[v]
          /\ Is(v, "list") =>
                /\ v = List(v.list) /\ v.list \in Seq(Values)
                /\ \A i \in DOMAIN v.list : Depth[v.list[i]] < Depth[v]

\* The two comparisons call themselves on nested values.
ASSUME RecursionAssumption ==
    /\ \A want \in Values :
       \A got \in Values \cup {Masked} \cup {Hidden(v) : v \in {u \in Values : Is(u, "map")}} :
          NestedEqual(want, got) <=> ManagedValueEqual(want, got)
    /\ \A want, got \in Values : NestedCarries(want, got) <=> Carries(want, got)

\* A spec has no null (every field is omitted when empty); the attributes and the
\* object with the credentials are objects; the credentials are a string and come
\* from the Secret, not from the spec.
ASSUME SpecsAssumption ==
    /\ Sensitive.name # "attributes"
    /\ \A s \in SpecChoices :
          /\ \A n \in DOMAIN s : s[n] \in Values \ {Null}
          /\ \A n \in DOMAIN s \cap {"attributes", Sensitive.name} : Is(s[n], "map")
          /\ Sensitive.key \notin DOMAIN Inside(s, Sensitive.name)
    /\ \A x \in SecretChoices : x = Null \/ Is(x, "str")

\* Whatever a pass sends, and the server starts from or is given, is a value.
ASSUME OccurringAssumption ==
    /\ \A s \in SpecChoices, l \in SpecChoices \cup {NoFields}, x \in SecretChoices :
          \A n \in DOMAIN PayloadOf(s, l, x) : PayloadOf(s, l, x)[n] \in Values
    /\ \A m \in ServerChoices : \A n \in DOMAIN m : m[n] \in Values
    /\ \A e \in ConsoleEdits : e.value \in Values

\* What the server keeps carries what it was given, and an object with entries is
\* not emptied.
ASSUME NormsAssumption ==
    \A norm \in Norms :
       /\ norm \in [Values -> Values]
       /\ \A v \in Values :
             /\ Carries(v, norm[v])
             /\ IsZeroValue(norm[v]) => IsZeroValue(v)

\* The elements of an array are the same or told apart by what they say, as mappers
\* are by their names: nothing is taken for both of two different ones.
ASSUME ElementsAssumption ==
    \A v \in Values : Is(v, "list") =>
       \A i, j \in DOMAIN v.list :
          \/ v.list[i] = v.list[j]
          \/ \A got \in Values : ~(NestedEqual(v.list[i], got) /\ NestedEqual(v.list[j], got))

-----------------------------------------------------------------------------
(* Properties *)

\* After a pass the server carries the whole spec and the marker: neither the
\* skipped update nor the merge loses a field, at any depth, in whatever order and
\* with whatever additions the server keeps it (PayloadDiffers, MergePayload).
SpecEnforced ==
    [][Pass => Carries(Map(StampStringAttribute(spec)), Map(server'))]_vars

\* An update is never repeated ("Without this, clearing a field the server omits
\* would produce an update that never converges", lastapplied.go:92): after a pass
\* the next one finds nothing to correct, although it computes its payload from
\* another annotation and the server has reordered, augmented or left out fields.
Settled == [][Pass => ~PayloadDiffers(Shown(server'), Payload')]_vars

\* A string, boolean or array that was applied and left the spec is cleared, or
\* gone, after the next pass (EffectivePayload, zeroFor).
ScalarsReset ==
    [][Pass =>
        \A n \in DOMAIN last \ DOMAIN spec :
            Resettable(last[n]) /\ ~Is(last[n], "map")
            => ~Has(server', n) \/ IsZeroValue(server'[n])]_vars

\* The fields a pass may write: the spec's, those that left it and are reset, the
\* attributes for the marker, and the object that a Secret's value goes into.
Written ==
    DOMAIN spec \cup {n \in DOMAIN last : ~Is(last[n], "num")} \cup {"attributes"}
    \cup {n \in {Sensitive.name} : secret # Null}

\* A pass writes no other field: a name that no spec had keeps its value, and so
\* does a number that left the spec ("Numeric fields are left unchanged on removal",
\* lastapplied.go:29). A field that is written is replaced whole: nothing is said of
\* the entries that others keep in an object of the spec (MergePayload).
OthersKept ==
    [][Pass =>
        \A n \in DOMAIN server \ Written :
            Has(server, n) => IF Has(server', n) THEN server'[n] = server[n]
                              ELSE IsZeroValue(server[n])]_vars

=============================================================================
