--------------------------- MODULE PayloadProofs ---------------------------
(***************************************************************************)
(* For specs, representations and Secrets with any fields and any depth of *)
(* nesting: what a pass sends enforces the spec, resets what left it,      *)
(* leaves the rest alone, and is found in place by the next pass.          *)
(***************************************************************************)
EXTENDS Payload, WellFoundedInduction, FiniteSetTheorems, TLAPS

\* The provers tried on a step that names none, in this order.
USE SMT, Zenon, SMTT(20), Z3T(20), SMTT(60)

-----------------------------------------------------------------------------
(* Values *)

\* A value has one type.
LEMMA OneType ==
    ASSUME NEW v \in Values
    PROVE  /\ Is(v, "map") =>
                ~Is(v, "list") /\ ~Is(v, "str") /\ ~Is(v, "bool") /\ ~Is(v, "num")
           /\ Is(v, "list") => ~Is(v, "str") /\ ~Is(v, "bool") /\ ~Is(v, "num")
           /\ Is(v, "str") => ~Is(v, "bool") /\ ~Is(v, "num")
           /\ Is(v, "bool") => ~Is(v, "num")
<1>1. PICK type \in JsonTypes : DOMAIN v = {type}
  BY Zenon, ValuesAssumption
<1> QED
  BY <1>1 DEF Is

\* What the two comparisons say of each type.
LEMMA EqualByType ==
    ASSUME NEW want \in Values, NEW got
    PROVE  /\ Is(want, "map") =>
                (ManagedValueEqual(want, got)
                    <=> Is(got, "map") /\ ~PayloadDiffers(got.map, want.map))
           /\ Is(want, "list") =>
                (ManagedValueEqual(want, got)
                    <=> /\ Is(got, "list") /\ Len(want.list) = Len(got.list)
                        /\ MatchesDistinct(want.list, got.list))
           /\ ~Is(want, "map") /\ ~Is(want, "list") =>
                (ManagedValueEqual(want, got) <=> got = Masked \/ want = got)
<1>1. ~(Is(want, "map") /\ Is(want, "list"))
  BY OneType
<1> QED
  BY <1>1 DEF ManagedValueEqual

\* A set of numbers that is not empty has a least one.
LEMMA Least ==
    ASSUME NEW S \in SUBSET Nat, S # {}
    PROVE  \E d \in S : \A e \in S : d <= e
<1>1. PICK d \in S : \A e \in S : ~(<<e, d>> \in OpToRel(<, Nat))
  BY NatLessThanWellFounded, WFMin
<1>2. \A e \in S : ~(e < d)
  BY Zenon, <1>1 DEF OpToRel
<1> QED
  BY <1>2

\* A set of values that is not empty has one that is nested least deep.
LEMMA Shallowest ==
    ASSUME NEW S \in SUBSET Values, S # {}
    PROVE  \E v \in S : \A u \in S : Depth[v] <= Depth[u]
<1> DEFINE D == {Depth[v] : v \in S}
<1>1. D \in SUBSET Nat /\ D # {}
  BY ValuesAssumption
<1>2. PICK d \in D : \A e \in D : d <= e
  BY <1>1, Least
<1>3. PICK v \in S : d = Depth[v]
  BY <1>2
<1> QED
  BY <1>2, <1>3

\* The greedy scan finds every element of a list in the list itself, if each
\* element equals itself: the first that is left is its own.
LEMMA MatchesItself ==
    ASSUME NEW s \in Seq(Values), \A i \in DOMAIN s : NestedEqual(s[i], s[i])
    PROVE  MatchesDistinct(s, s)
<1> DEFINE p == [i \in DOMAIN s |-> i]
<1>1. p \in [DOMAIN s -> DOMAIN s] /\ DOMAIN s = 1..Len(s) /\ Len(s) \in Nat
  OBVIOUS
<1>2. ASSUME NEW i \in DOMAIN s
      PROVE  LET unused == {j \in DOMAIN s : \A h \in 1..(i - 1) : p[h] # j}
             IN  /\ p[i] \in unused /\ NestedEqual(s[i], s[p[i]])
                 /\ \A j \in unused : j < p[i] => ~NestedEqual(s[i], s[j])
  <2>1. i \in Nat /\ p[i] = i /\ \A h \in 1..(i - 1) : h \in DOMAIN s /\ p[h] = h
    BY <1>1
  <2>2. \A j \in DOMAIN s : j < i => j \in 1..(i - 1)
    BY <1>1, <2>1
  <2>3. \A h \in 1..(i - 1) : h # i
    BY <2>1
  <2> QED
    BY Zenon, <2>1, <2>2, <2>3
<1> QED
  BY Zenon, <1>1, <1>2 DEF MatchesDistinct

\* Nothing differs in a representation that is the payload.
LEMMA SameFields ==
    ASSUME NEW m, \A n \in DOMAIN m : NestedEqual(m[n], m[n])
    PROVE  ~PayloadDiffers(m, m)
  BY DEF PayloadDiffers, Has

\* The comparison of the payload with the server is reflexive, at any depth: on
\* a representation that is the payload it finds nothing (managedValueEqual).
THEOREM Reflexive == \A v \in Values : NestedEqual(v, v)
<1> DEFINE Bad == {v \in Values : ~NestedEqual(v, v)}
<1> SUFFICES ASSUME Bad # {} PROVE FALSE
  OBVIOUS
<1>1. PICK v \in Bad : \A u \in Bad : Depth[v] <= Depth[u]
  BY Zenon, Shallowest
<1>2. v \in Values /\ ~NestedEqual(v, v) /\ Depth[v] \in Nat
  BY <1>1, ValuesAssumption
<1>3. ASSUME NEW u \in Values, Depth[u] < Depth[v] PROVE NestedEqual(u, u)
  BY <1>1, <1>2, <1>3, ValuesAssumption
<1>4. CASE Is(v, "map")
  <2>1. \A n \in DOMAIN v.map : NestedEqual(v.map[n], v.map[n])
    BY Zenon, <1>2, <1>3, <1>4, ValuesAssumption
  <2>2. ~PayloadDiffers(v.map, v.map)
    BY <2>1, SameFields
  <2>3. ManagedValueEqual(v, v)
    BY <1>2, <1>4, <2>2, EqualByType
  <2> QED
    BY <1>2, <2>3, RecursionAssumption
<1>5. CASE ~Is(v, "map") /\ Is(v, "list")
  <2>1. v.list \in Seq(Values) /\ \A i \in DOMAIN v.list : NestedEqual(v.list[i], v.list[i])
    <3>1. v.list \in Seq(Values) /\ \A i \in DOMAIN v.list : Depth[v.list[i]] < Depth[v]
      BY Zenon, <1>2, <1>5, ValuesAssumption
    <3>2. \A i \in DOMAIN v.list : v.list[i] \in Values
      BY <3>1
    <3> QED
      BY <1>3, <3>1, <3>2
  <2>2. MatchesDistinct(v.list, v.list)
    BY <2>1, MatchesItself
  <2>3. ManagedValueEqual(v, v)
    BY <1>2, <1>5, <2>2, EqualByType
  <2> QED
    BY <1>2, <2>3, RecursionAssumption
<1>6. CASE ~Is(v, "map") /\ ~Is(v, "list")
  <2>1. ManagedValueEqual(v, v)
    BY <1>2, <1>6, EqualByType
  <2> QED
    BY <1>2, <2>1, RecursionAssumption
<1> QED
  BY <1>4, <1>5, <1>6

-----------------------------------------------------------------------------
(* The comparison *)

\* What the reference says of each type.
LEMMA CarriesByType ==
    ASSUME NEW want \in Values, NEW got
    PROVE  /\ Is(want, "map") =>
                (Carries(want, got) <=>
                    /\ Is(got, "map")
                    /\ \A n \in DOMAIN want.map :
                          IF Has(got.map, n)
                          THEN NestedCarries(want.map[n], got.map[n])
                          ELSE want.map[n] = Null \/ IsZeroValue(want.map[n]))
           /\ Is(want, "list") =>
                (Carries(want, got) <=>
                    /\ Is(got, "list") /\ Len(want.list) = Len(got.list)
                    /\ \E p \in [DOMAIN want.list -> DOMAIN got.list] :
                          /\ \A i, j \in DOMAIN want.list : p[i] = p[j] => i = j
                          /\ \A i \in DOMAIN want.list :
                                NestedCarries(want.list[i], got.list[p[i]]))
           /\ ~Is(want, "map") /\ ~Is(want, "list") =>
                (Carries(want, got) <=> want = got)
<1>1. ~(Is(want, "map") /\ Is(want, "list"))
  BY OneType
<1> QED
  BY <1>1 DEF Carries

\* No element is taken twice.
LEMMA ScanInjective ==
    ASSUME NEW wants \in Seq(Values), NEW gots \in Seq(Values),
           MatchesDistinct(wants, gots)
    PROVE  \E p \in [DOMAIN wants -> DOMAIN gots] :
              /\ \A i, j \in DOMAIN wants : p[i] = p[j] => i = j
              /\ \A i \in DOMAIN wants : NestedEqual(wants[i], gots[p[i]])
<1>1. PICK p \in [DOMAIN wants -> DOMAIN gots] :
        \A i \in DOMAIN wants :
            LET unused == {j \in DOMAIN gots : \A h \in 1..(i - 1) : p[h] # j}
            IN  /\ p[i] \in unused /\ NestedEqual(wants[i], gots[p[i]])
                /\ \A j \in unused : j < p[i] => ~NestedEqual(wants[i], gots[j])
  BY DEF MatchesDistinct
<1>2. DOMAIN wants = 1..Len(wants) /\ Len(wants) \in Nat
  OBVIOUS
<1>3. ASSUME NEW i \in DOMAIN wants, NEW j \in DOMAIN wants, i < j PROVE p[i] # p[j]
  <2>1. i \in 1..(j - 1)
    BY <1>2, <1>3
  <2> QED
    BY <1>1, <2>1
<1>4. \A i, j \in DOMAIN wants : i = j \/ i < j \/ j < i
  BY <1>2
<1> QED
  BY Zenon, <1>1, <1>3, <1>4

\* What the operator takes for equal carries what is wanted, at any depth: names
\* that the server adds, the order of arrays and omitted zeros make no difference,
\* and nothing else is overlooked unless it is masked (managedValueEqual).
THEOREM EqualCarries ==
    \A want, got \in Values : NestedEqual(want, got) => NestedCarries(want, got)
<1> DEFINE Bad == {w \in Values : \E g \in Values : NestedEqual(w, g) /\ ~NestedCarries(w, g)}
<1> SUFFICES ASSUME Bad # {} PROVE FALSE
  OBVIOUS
<1>1. PICK w \in Bad : \A u \in Bad : Depth[w] <= Depth[u]
  BY Zenon, Shallowest
<1>2. PICK g \in Values : NestedEqual(w, g) /\ ~NestedCarries(w, g)
  BY <1>1
<1>3. w \in Values /\ Depth[w] \in Nat /\ ManagedValueEqual(w, g) /\ ~Carries(w, g)
  BY <1>1, <1>2, ValuesAssumption, RecursionAssumption
<1>4. ASSUME NEW u \in Values, NEW v \in Values, Depth[u] < Depth[w], NestedEqual(u, v)
      PROVE  NestedCarries(u, v)
  <2>1. Depth[u] \in Nat
    BY ValuesAssumption
  <2> QED
    BY <1>1, <1>3, <1>4, <2>1
<1>5. CASE Is(w, "map")
  <2>1. Is(g, "map") /\ ~PayloadDiffers(g.map, w.map)
    BY <1>3, <1>5, EqualByType
  <2>2. ASSUME NEW n \in DOMAIN w.map
        PROVE  IF Has(g.map, n) THEN NestedCarries(w.map[n], g.map[n])
               ELSE w.map[n] = Null \/ IsZeroValue(w.map[n])
    <3>1. CASE Has(g.map, n)
      <4>1. NestedEqual(w.map[n], g.map[n]) /\ n \in DOMAIN g.map
        BY <2>1, <3>1 DEF PayloadDiffers, Has
      <4>2. w.map[n] \in Values /\ Depth[w.map[n]] < Depth[w] /\ g.map[n] \in Values
        BY Zenon, <1>3, <1>5, <2>1, <4>1, ValuesAssumption
      <4> QED
        BY <1>4, <3>1, <4>1, <4>2
    <3>2. CASE ~Has(g.map, n)
      BY <2>1, <3>2 DEF PayloadDiffers
    <3> QED
      BY <3>1, <3>2
  <2> QED
    BY <1>3, <1>5, <2>1, <2>2, CarriesByType
<1>6. CASE Is(w, "list")
  <2>1. /\ Is(g, "list") /\ Len(w.list) = Len(g.list)
        /\ MatchesDistinct(w.list, g.list)
    BY <1>3, <1>6, EqualByType
  <2>2. /\ w.list \in Seq(Values) /\ g.list \in Seq(Values)
        /\ \A i \in DOMAIN w.list : Depth[w.list[i]] < Depth[w]
    BY Zenon, <1>3, <1>6, <2>1, ValuesAssumption
  <2>3. PICK p \in [DOMAIN w.list -> DOMAIN g.list] :
              /\ \A i, j \in DOMAIN w.list : p[i] = p[j] => i = j
              /\ \A i \in DOMAIN w.list : NestedEqual(w.list[i], g.list[p[i]])
    BY Zenon, <2>1, <2>2, ScanInjective
  <2>4. ASSUME NEW i \in DOMAIN w.list PROVE NestedCarries(w.list[i], g.list[p[i]])
    <3>1. w.list[i] \in Values /\ g.list[p[i]] \in Values
      BY <2>2, <2>3
    <3> QED
      BY <1>4, <2>2, <2>3, <3>1
  <2> QED
    BY <1>3, <1>6, <2>1, <2>3, <2>4, CarriesByType
<1>7. CASE ~Is(w, "map") /\ ~Is(w, "list")
  BY <1>3, <1>7, EqualByType, CarriesByType, ValuesAssumption
<1> QED
  BY <1>5, <1>6, <1>7

\* What p gives to m and the elements of H, to each another, q gives to those of H.
Taken(H, m, p, q) ==
    /\ \A x, y \in H \cup {m} : p[x] = p[y] => x = y
    /\ \A x \in H \cup {m} : \E h \in H : q[h] = p[x]

\* Fewer elements have not taken all that more elements can take.
LEMMA NotAllTaken ==
    ASSUME NEW n \in Nat, NEW H \in SUBSET (1..n), NEW m \in 1..n, m \notin H,
           NEW p, NEW q
    PROVE  ~Taken(H, m, p, q)
<1> SUFFICES ASSUME Taken(H, m, p, q) PROVE FALSE
  OBVIOUS
<1> DEFINE S == H \cup {m}
           f == [x \in S |-> CHOOSE h \in H : q[h] = p[x]]
<1>1. f \in [S -> H] /\ \A x \in S : q[f[x]] = p[x]
  BY Zenon DEF Taken
<1>2. IsFiniteSet(H)
  <2>1. IsFiniteSet(1..n)
    BY FS_Interval
  <2> QED
    BY <2>1, FS_Subset
<1>3. IsFiniteSet(S) /\ Cardinality(S) = Cardinality(H) + 1 /\ Cardinality(H) \in Nat
  BY <1>2, FS_AddElement, FS_CardinalityType
<1> HIDE DEF S, f
<1>4. PICK x \in S, y \in S : x # y /\ f[x] = f[y]
  <2>1. f \in [S -> H] /\ Cardinality(H) < Cardinality(S)
    BY <1>1, <1>3
  <2> QED
    BY <1>2, <1>3, <2>1, FS_PigeonHole
<1>5. p[x] = p[y]
  BY Zenon, <1>1, <1>4
<1> QED
  BY Zenon, <1>4, <1>5 DEF S, Taken

\* Where the elements are told apart, the greedy scan never misses a matching: the
\* one it builds is stuck at no element, since the earlier ones like it have taken
\* fewer than there are.
LEMMA ScanComplete ==
    ASSUME NEW wants \in Seq(Values), NEW gots \in Seq(Values), Len(wants) = Len(gots),
           NEW p \in [DOMAIN wants -> DOMAIN gots],
           \A i, j \in DOMAIN wants : p[i] = p[j] => i = j,
           \A i \in DOMAIN wants : NestedEqual(wants[i], gots[p[i]]),
           \A i, j \in DOMAIN wants :
              \/ wants[i] = wants[j]
              \/ \A g \in Values : ~(NestedEqual(wants[i], g) /\ NestedEqual(wants[j], g))
    PROVE  MatchesDistinct(wants, gots)
<1> DEFINE n == Len(wants)
           Unused(q, i) == {j \in DOMAIN gots : \A h \in 1..(i - 1) : q[h] # j}
           Takes(q, i) == /\ q[i] \in Unused(q, i) /\ NestedEqual(wants[i], gots[q[i]])
                          /\ \A j \in Unused(q, i) :
                                j < q[i] => ~NestedEqual(wants[i], gots[j])
           Scans(m) == \E q \in [1..m -> DOMAIN gots] : \A i \in 1..m : Takes(q, i)
           Stuck == {m \in 0..n : ~Scans(m)}
<1>1. n \in Nat /\ DOMAIN wants = 1..n /\ DOMAIN gots = 1..n
  OBVIOUS
<1>2. \A i \in 1..n : wants[i] \in Values /\ gots[i] \in Values
  BY <1>1
<1>3. SUFFICES ASSUME Stuck # {} PROVE FALSE
  <2>1. SUFFICES ASSUME Stuck = {} PROVE MatchesDistinct(wants, gots)
    BY <1>3
  <2>2. n \in 0..n
    BY <1>1
  <2>3. Scans(n)
    BY Zenon, <2>1, <2>2
  <2> QED
    BY Zenon, <1>1, <2>3 DEF MatchesDistinct
<1>4. PICK m \in Stuck : \A k \in Stuck : m <= k
  <2>1. Stuck \in SUBSET Nat
    BY <1>1
  <2> HIDE DEF Stuck
  <2> QED
    BY <1>3, <2>1, Least
<1>5. m \in 1..n /\ m - 1 \in 0..n /\ m - 1 \notin Stuck /\ ~Scans(m)
  <2>1. m \in 0..n /\ ~Scans(m)
    BY Zenon, <1>4
  <2>2. Scans(0)
    <3>1. [i \in 1..0 |-> i] \in [1..0 -> DOMAIN gots] /\ \A i \in 1..0 : FALSE
      OBVIOUS
    <3> QED
      BY Zenon, <3>1
  <2>3. m # 0
    BY Zenon, <2>1, <2>2
  <2>4. m \in 1..n /\ m - 1 \in 0..n /\ ~(m <= m - 1)
    BY <1>1, <2>1, <2>3
  <2> QED
    BY Zenon, <1>4, <2>1, <2>4
<1>6. PICK q \in [1..(m - 1) -> DOMAIN gots] : \A i \in 1..(m - 1) : Takes(q, i)
  BY Zenon, <1>5
<1> DEFINE Free == {j \in DOMAIN gots : /\ \A h \in 1..(m - 1) : q[h] # j
                                        /\ NestedEqual(wants[m], gots[j])}
           H == {h \in 1..(m - 1) : wants[h] = wants[m]}
           S == H \cup {m}
<1>7. /\ 1..(m - 1) \in SUBSET (1..n) /\ m \notin 1..(m - 1)
      /\ H \in SUBSET (1..n) /\ S \in SUBSET (1..n)
  BY <1>1, <1>5
<1>8. \A h \in 1..(m - 1) : q[h] \in 1..n /\ NestedEqual(wants[h], gots[q[h]])
  BY Zenon, <1>1, <1>6
<1>9. Free # {}
  <2> SUFFICES ASSUME Free = {} PROVE FALSE
    OBVIOUS
  <2>1. ASSUME NEW x \in S PROVE \E h \in H : q[h] = p[x]
    <3>1. x \in 1..n /\ wants[x] = wants[m] /\ p[x] \in 1..n
      BY <1>1, <1>7
    <3>2. NestedEqual(wants[m], gots[p[x]])
      BY Zenon, <1>1, <3>1
    <3>3. PICK h \in 1..(m - 1) : q[h] = p[x]
      BY Zenon, <1>1, <3>1, <3>2
    <3>4. NestedEqual(wants[h], gots[p[x]]) /\ h \in 1..n /\ m \in 1..n /\ gots[p[x]] \in Values
      BY Zenon, <1>2, <1>5, <1>7, <1>8, <3>1, <3>3
    <3>5. wants[h] = wants[m]
      BY Zenon, <1>1, <3>2, <3>4
    <3> QED
      BY Zenon, <3>3, <3>5
  <2>2. \A x, y \in S : p[x] = p[y] => x = y
    BY Zenon, <1>1, <1>7
  <2>3. m \notin H
    BY Zenon, <1>7
  <2> HIDE DEF H, n, Stuck
  <2>4. Taken(H, m, p, q)
    BY Zenon, <2>1, <2>2 DEF Taken
  <2>5. n \in Nat /\ H \in SUBSET (1..n) /\ m \in 1..n
    BY Zenon, <1>1, <1>5, <1>7
  <2> QED
    BY Zenon, <2>3, <2>4, <2>5, NotAllTaken
<1>10. PICK j \in Free : \A k \in Free : j <= k
  <2>1. Free \in SUBSET Nat
    BY <1>1
  <2> HIDE DEF Free
  <2> QED
    BY <1>9, <2>1, Least
<1> DEFINE r == [i \in 1..m |-> IF i = m THEN j ELSE q[i]]
<1>11. /\ r \in [1..m -> DOMAIN gots] /\ r[m] = j
       /\ \A h \in 1..(m - 1) : h \in 1..m /\ r[h] = q[h]
  <2>1. j \in DOMAIN gots
    BY Zenon, <1>10
  <2>2. \A h \in 1..m : h = m \/ h \in 1..(m - 1)
    BY <1>1, <1>5
  <2>3. \A h \in 1..(m - 1) : h \in 1..m /\ h # m
    BY <1>1, <1>5
  <2>4. m \in 1..m
    BY <1>1, <1>5
  <2> QED
    BY Zenon, <1>6, <2>1, <2>2, <2>3, <2>4
<1>12. ASSUME NEW i \in 1..m PROVE Takes(r, i)
  <2>1. CASE i = m
    <3>1. Unused(r, i) = Unused(q, m)
      <4>1. \A h \in 1..(m - 1) : r[h] = q[h]
        BY Zenon, <1>11
      <4> HIDE DEF r
      <4>2. \A x : (\A h \in 1..(m - 1) : r[h] # x) <=> (\A h \in 1..(m - 1) : q[h] # x)
        BY Zenon, <4>1
      <4> QED
        BY Zenon, <2>1, <4>2
    <3>2. j \in Unused(q, m) /\ NestedEqual(wants[m], gots[j])
      BY Zenon, <1>10
    <3>3. ASSUME NEW k \in Unused(q, m), k < j PROVE ~NestedEqual(wants[m], gots[k])
      <4>1. k \in Nat /\ j \in Nat /\ ~(j <= k)
        BY <1>1, <1>10, <3>3
      <4> QED
        BY Zenon, <1>10, <4>1
    <3> QED
      BY Zenon, <1>11, <2>1, <3>1, <3>2, <3>3
  <2>2. CASE i # m
    <3>1. i \in 1..(m - 1) /\ \A h \in 1..(i - 1) : h \in 1..(m - 1)
      BY <1>1, <1>5, <2>2
    <3>2. r[i] = q[i] /\ \A h \in 1..(i - 1) : r[h] = q[h]
      BY Zenon, <1>11, <3>1
    <3>3. Unused(r, i) = Unused(q, i)
      <4> HIDE DEF r
      <4>1. \A x : (\A h \in 1..(i - 1) : r[h] # x) <=> (\A h \in 1..(i - 1) : q[h] # x)
        BY Zenon, <3>2
      <4> QED
        BY Zenon, <4>1
    <3> QED
      BY Zenon, <1>6, <3>1, <3>2, <3>3
  <2> QED
    BY <2>1, <2>2
<1> HIDE DEF Takes, r
<1> QED
  BY Zenon, <1>5, <1>11, <1>12

\* What carries a wanted value is taken for equal, at any depth: the server may
\* reorder arrays, add to objects and leave out zeros without the operator seeing a
\* difference, while the elements of arrays are told apart (managedValueEqual).
THEOREM CarriesEqual ==
    \A want, got \in Values : NestedCarries(want, got) => NestedEqual(want, got)
<1> DEFINE Bad == {w \in Values : \E g \in Values : NestedCarries(w, g) /\ ~NestedEqual(w, g)}
<1> SUFFICES ASSUME Bad # {} PROVE FALSE
  OBVIOUS
<1>1. PICK w \in Bad : \A u \in Bad : Depth[w] <= Depth[u]
  BY Zenon, Shallowest
<1>2. PICK g \in Values : NestedCarries(w, g) /\ ~NestedEqual(w, g)
  BY <1>1
<1>3. w \in Values /\ Depth[w] \in Nat /\ Carries(w, g) /\ ~ManagedValueEqual(w, g)
  BY <1>1, <1>2, ValuesAssumption, RecursionAssumption
<1>4. ASSUME NEW u \in Values, NEW v \in Values, Depth[u] < Depth[w], NestedCarries(u, v)
      PROVE  NestedEqual(u, v)
  <2>1. Depth[u] \in Nat
    BY ValuesAssumption
  <2> QED
    BY <1>1, <1>3, <1>4, <2>1
<1>5. CASE Is(w, "map")
  <2>1. /\ Is(g, "map")
        /\ \A n \in DOMAIN w.map :
              IF Has(g.map, n) THEN NestedCarries(w.map[n], g.map[n])
              ELSE w.map[n] = Null \/ IsZeroValue(w.map[n])
    BY <1>3, <1>5, CarriesByType
  <2>2. ASSUME NEW n \in DOMAIN w.map, Has(g.map, n)
        PROVE  w.map[n] # Null /\ NestedEqual(w.map[n], g.map[n])
    <3>1. /\ w.map[n] \in Values /\ Depth[w.map[n]] < Depth[w]
          /\ g.map[n] \in Values /\ g.map[n] # Null
      BY Zenon, <1>3, <1>5, <2>1, <2>2, ValuesAssumption DEF Has
    <3>2. NestedCarries(w.map[n], g.map[n]) /\ Carries(w.map[n], g.map[n])
      BY <2>1, <2>2, <3>1, RecursionAssumption
    <3>3. w.map[n] # Null
      <4>1. ~Is(Null, "map") /\ ~Is(Null, "list")
        BY DEF Is, Null
      <4> QED
        BY <3>1, <3>2, <4>1, CarriesByType
    <3> QED
      BY <1>4, <3>1, <3>2, <3>3
  <2>3. ~PayloadDiffers(g.map, w.map)
    BY Zenon, <2>1, <2>2 DEF PayloadDiffers
  <2> QED
    BY <1>3, <1>5, <2>1, <2>3, EqualByType
<1>6. CASE Is(w, "list")
  <2>1. Is(g, "list") /\ Len(w.list) = Len(g.list)
    BY <1>3, <1>6, CarriesByType
  <2>2. PICK p \in [DOMAIN w.list -> DOMAIN g.list] :
              /\ \A i, j \in DOMAIN w.list : p[i] = p[j] => i = j
              /\ \A i \in DOMAIN w.list : NestedCarries(w.list[i], g.list[p[i]])
    BY <1>3, <1>6, CarriesByType
  <2>3. /\ w.list \in Seq(Values) /\ g.list \in Seq(Values)
        /\ \A i \in DOMAIN w.list : Depth[w.list[i]] < Depth[w]
    BY Zenon, <1>3, <1>6, <2>1, ValuesAssumption
  <2>4. ASSUME NEW i \in DOMAIN w.list PROVE NestedEqual(w.list[i], g.list[p[i]])
    <3>1. w.list[i] \in Values /\ g.list[p[i]] \in Values
      BY <2>2, <2>3
    <3> QED
      BY <1>4, <2>2, <2>3, <3>1
  <2>5. \A i, j \in DOMAIN w.list :
           \/ w.list[i] = w.list[j]
           \/ \A v \in Values : ~(NestedEqual(w.list[i], v) /\ NestedEqual(w.list[j], v))
    BY Zenon, <1>3, <1>6, ElementsAssumption
  <2>6. MatchesDistinct(w.list, g.list)
    BY Zenon, <2>1, <2>2, <2>3, <2>4, <2>5, ScanComplete
  <2> QED
    BY <1>3, <1>6, <2>1, <2>6, EqualByType
<1>7. CASE ~Is(w, "map") /\ ~Is(w, "list")
  BY <1>3, <1>7, EqualByType, CarriesByType
<1> QED
  BY <1>5, <1>6, <1>7

\* Only null carries null.
LEMMA CarriesNotNull ==
    ASSUME NEW w \in Values, w # Null, NEW g \in Values, NestedCarries(w, g)
    PROVE  g # Null
<1>1. Carries(w, g)
  BY RecursionAssumption
<1>2. ~Is(Null, "map") /\ ~Is(Null, "list")
  BY DEF Is, Null
<1> QED
  BY <1>1, <1>2, CarriesByType

\* Masking a string that the operator sends makes no difference to it.
LEMMA HiddenEqual ==
    ASSUME NEW v \in Values, NEW g \in Values, Is(v, "map"), NestedEqual(v, g),
           Sensitive.key \in DOMAIN v.map => Is(v.map[Sensitive.key], "str")
    PROVE  NestedEqual(v, Hidden(g))
<1> DEFINE h == With(g.map, Sensitive.key, Masked)
<1>1. Hidden(g) = Map(h) /\ Is(Hidden(g), "map") /\ Hidden(g).map = h
  BY DEF Hidden, Map, Is
<1>2. Is(g, "map") /\ ~PayloadDiffers(g.map, v.map)
  BY EqualByType, RecursionAssumption
<1>3. h[Sensitive.key] = Masked /\ Has(h, Sensitive.key)
  BY DEF With, Has, Masked, Str, Null
<1>4. \A n : n # Sensitive.key => /\ Has(h, n) <=> Has(g.map, n)
                                  /\ Has(g.map, n) => h[n] = g.map[n]
  BY DEF With, Has
<1>5. ASSUME Sensitive.key \in DOMAIN v.map
      PROVE  v.map[Sensitive.key] # Null /\ NestedEqual(v.map[Sensitive.key], Masked)
  <2>1. v.map[Sensitive.key] \in Values
    BY Zenon, <1>5, ValuesAssumption
  <2>2. ~Is(v.map[Sensitive.key], "map") /\ ~Is(v.map[Sensitive.key], "list")
    BY <1>5, <2>1, OneType
  <2>3. v.map[Sensitive.key] # Null
    BY <1>5 DEF Is, Null
  <2> QED
    BY <2>1, <2>2, <2>3, EqualByType, RecursionAssumption
<1> HIDE DEF h
<1>6. ~PayloadDiffers(h, v.map)
  BY <1>2, <1>3, <1>4, <1>5 DEF PayloadDiffers
<1>7. ManagedValueEqual(v, Hidden(g))
  BY <1>1, <1>6, EqualByType
<1> QED
  BY <1>2, <1>7, RecursionAssumption

-----------------------------------------------------------------------------
(* The payload *)

\* The zero of a type is a zero value, and of that type.
LEMMA ZeroOfType ==
    ASSUME NEW v \in Values, Resettable(v)
    PROVE  /\ IsZeroValue(ZeroFor(v)) /\ ZeroFor(v) # Null
           /\ Is(v, "map") => ZeroFor(v) = Map(NoFields)
           /\ Is(v, "list") => ZeroFor(v) = List(<<>>)
           /\ ~Is(v, "map") => ~Is(ZeroFor(v), "map")
           /\ ~Is(v, "list") => ~Is(ZeroFor(v), "list")
<1>1. CASE Is(v, "str")
  <2>1. ZeroFor(v) = Str("")
    BY <1>1, OneType DEF ZeroFor
  <2> QED
    BY <1>1, <2>1, OneType DEF IsZeroValue, Resettable, ZeroFor, Is, Str, Null
<1>2. CASE Is(v, "bool")
  <2>1. ZeroFor(v) = Bool(FALSE)
    BY Zenon, <1>2, OneType DEF ZeroFor
  <2> QED
    BY <1>2, <2>1, OneType DEF IsZeroValue, Resettable, ZeroFor, Is, Bool, Null
<1>3. CASE Is(v, "list")
  <2>1. ZeroFor(v) = List(<<>>)
    BY <1>3, OneType DEF ZeroFor
  <2> QED
    BY <1>3, <2>1, OneType DEF IsZeroValue, Resettable, ZeroFor, Is, List, Null
<1>4. CASE Is(v, "map")
  <2>1. ZeroFor(v) = Map(NoFields)
    BY <1>4, OneType DEF ZeroFor
  <2> QED
    BY <1>4, <2>1, OneType DEF IsZeroValue, Resettable, ZeroFor, Is, Map, Null
<1> QED
  BY <1>1, <1>2, <1>3, <1>4 DEF Resettable

\* The names and values of the effective payload: the spec's, and the resets.
Overlays(e, s, l) ==
    /\ DOMAIN s \in SUBSET DOMAIN e
    /\ \A n \in DOMAIN s : e[n] = s[n]
    /\ \A n : n \in DOMAIN e /\ n \notin DOMAIN s
              <=> n \in DOMAIN l /\ n \notin DOMAIN s /\ Resettable(l[n])
    /\ \A n \in DOMAIN e : n \notin DOMAIN s => e[n] = ZeroFor(l[n])

LEMMA EffectiveFields ==
    ASSUME NEW s \in SpecChoices, NEW l \in SpecChoices \cup {NoFields}
    PROVE  Overlays(EffectivePayload(s, l), s, l)
  BY DEF EffectivePayload, Overlays

\* What the annotation holds.
LEMMA LastFields ==
    ASSUME NEW l \in SpecChoices \cup {NoFields}
    PROVE  /\ \A n \in DOMAIN l : l[n] \in Values \ {Null}
           /\ \A n \in DOMAIN l \cap {"attributes", Sensitive.name} : Is(l[n], "map")
<1>1. DOMAIN NoFields = {}
  BY DEF NoFields
<1> QED
  BY <1>1, SpecsAssumption

\* Objects that left the spec are sent empty: what is merged into them does not
\* depend on the annotation.
LEMMA InsideEffective ==
    ASSUME NEW s \in SpecChoices, NEW l \in SpecChoices \cup {NoFields},
           NEW n \in {"attributes", Sensitive.name}
    PROVE  Inside(EffectivePayload(s, l), n) = Inside(s, n)
<1> DEFINE e == EffectivePayload(s, l)
<1>0. Overlays(e, s, l)
  BY EffectiveFields
<1> HIDE DEF e
<1> SUFFICES Inside(e, n) = Inside(s, n)
  BY DEF e
<1>1. CASE n \in DOMAIN s
  BY <1>0, <1>1 DEF Inside, Has, Overlays
<1>2. CASE n \notin DOMAIN s
  <2>1. Inside(s, n) = NoFields
    BY <1>2 DEF Inside, Has
  <2>2. CASE n \in DOMAIN e
    <3>1. n \in DOMAIN l /\ Resettable(l[n]) /\ e[n] = ZeroFor(l[n])
      BY <1>0, <1>2, <2>2 DEF Overlays
    <3>2. Is(l[n], "map") /\ l[n] \in Values
      BY <3>1, LastFields
    <3>3. e[n] = Map(NoFields)
      BY <3>1, <3>2, ZeroOfType
    <3>4. e[n].map = NoFields
      BY <3>3 DEF Map
    <3>5. Inside(e, n) = IF Has(e, n) /\ Is(e[n], "map") THEN e[n].map ELSE NoFields
      BY DEF Inside
    <3> QED
      BY <2>1, <3>4, <3>5
  <2>3. CASE n \notin DOMAIN e
    BY <2>1, <2>3 DEF Inside, Has
  <2> QED
    BY <2>2, <2>3
<1> QED
  BY <1>1, <1>2

\* What the attributes are sent as, and the object with the credentials.
Stamped(s) == Map(With(Inside(s, "attributes"), Marker, Str("true")))
Filled(s, x) == Map(With(Inside(s, Sensitive.name), Sensitive.key, x))

\* The names and values of the payload.
Completes(p, e, s, x) ==
    /\ \A n : n \in DOMAIN p <=> \/ n \in DOMAIN e \/ n = "attributes"
                                 \/ n = Sensitive.name /\ x # Null
    /\ p["attributes"] = Stamped(s)
    /\ x # Null => p[Sensitive.name] = Filled(s, x)
    /\ \A n \in DOMAIN e :
          n # "attributes" /\ (n # Sensitive.name \/ x = Null) => p[n] = e[n]

LEMMA PayloadFields ==
    ASSUME NEW s \in SpecChoices, NEW l \in SpecChoices \cup {NoFields},
           NEW x \in SecretChoices
    PROVE  Completes(PayloadOf(s, l, x), EffectivePayload(s, l), s, x)
<1> DEFINE e == EffectivePayload(s, l)
           t == StampStringAttribute(e)
<1>1. /\ DOMAIN t = DOMAIN e \cup {"attributes"}
      /\ t["attributes"] = Stamped(s)
      /\ \A n \in DOMAIN e \ {"attributes"} : t[n] = e[n]
  BY InsideEffective DEF StampStringAttribute, With, Stamped
<1>2. Inside(t, Sensitive.name) = Inside(s, Sensitive.name)
  <2>1. Inside(t, Sensitive.name) = Inside(e, Sensitive.name)
    BY <1>1, SpecsAssumption DEF Inside, Has
  <2> QED
    BY <2>1, InsideEffective
<1>3. CASE x = Null
  BY <1>1, <1>3 DEF PayloadOf, PreparePayload, Completes
<1>4. CASE x # Null
  <2>1. PayloadOf(s, l, x) = With(t, Sensitive.name, Filled(s, x))
    BY <1>2, <1>4 DEF PayloadOf, PreparePayload, Filled
  <2> QED
    BY <1>1, <1>4, <2>1, SpecsAssumption DEF With, Completes
<1> QED
  BY <1>3, <1>4

\* No entry of a payload is null.
LEMMA PayloadNoNull ==
    ASSUME NEW s \in SpecChoices, NEW l \in SpecChoices \cup {NoFields},
           NEW x \in SecretChoices, NEW n \in DOMAIN PayloadOf(s, l, x)
    PROVE  PayloadOf(s, l, x)[n] # Null /\ PayloadOf(s, l, x)[n] \in Values
<1> DEFINE e == EffectivePayload(s, l)
           p == PayloadOf(s, l, x)
<1>1. p[n] \in Values /\ n \in DOMAIN p
  BY OccurringAssumption
<1>2. Overlays(e, s, l) /\ Completes(p, e, s, x)
  BY EffectiveFields, PayloadFields
<1> HIDE DEF e, p
<1> SUFFICES p[n] # Null
  BY <1>1 DEF p
<1>3. \A f : Map(f) # Null
  BY DEF Map, Null
<1>4. CASE n = "attributes"
  BY <1>2, <1>3, <1>4 DEF Stamped, Completes
<1>5. CASE n = Sensitive.name /\ x # Null
  BY <1>2, <1>3, <1>5 DEF Filled, Completes
<1>6. CASE n # "attributes" /\ (n # Sensitive.name \/ x = Null)
  <2>1. n \in DOMAIN e /\ p[n] = e[n]
    BY <1>1, <1>2, <1>6 DEF Completes
  <2>2. CASE n \in DOMAIN s
    BY <1>2, <2>1, <2>2, SpecsAssumption DEF Overlays
  <2>3. CASE n \notin DOMAIN s
    <3>1. n \in DOMAIN l /\ Resettable(l[n]) /\ e[n] = ZeroFor(l[n])
      BY <1>2, <2>1, <2>3 DEF Overlays
    <3>2. l[n] \in Values
      BY <3>1, LastFields
    <3> QED
      BY <2>1, <3>1, <3>2, ZeroOfType
  <2> QED
    BY <2>2, <2>3
<1> QED
  BY <1>4, <1>5, <1>6

\* Once the annotation is the spec, the payload is what it was without the resets.
LEMMA PayloadShrinks ==
    ASSUME NEW s \in SpecChoices, NEW l \in SpecChoices \cup {NoFields},
           NEW x \in SecretChoices, NEW n \in DOMAIN PayloadOf(s, s, x)
    PROVE  n \in DOMAIN PayloadOf(s, l, x) /\ PayloadOf(s, l, x)[n] = PayloadOf(s, s, x)[n]
<1> DEFINE e == EffectivePayload(s, l)
           f == EffectivePayload(s, s)
           p == PayloadOf(s, l, x)
           q == PayloadOf(s, s, x)
<1>1. /\ Overlays(e, s, l) /\ Completes(p, e, s, x)
      /\ Overlays(f, s, s) /\ Completes(q, f, s, x)
      /\ n \in DOMAIN q
  BY EffectiveFields, PayloadFields
<1> HIDE DEF e, f, p, q
<1> SUFFICES n \in DOMAIN p /\ p[n] = q[n]
  BY DEF p, q
<1>2. CASE n = "attributes"
  BY <1>1, <1>2 DEF Completes
<1>3. CASE n = Sensitive.name /\ x # Null
  BY <1>1, <1>3 DEF Completes
<1>4. CASE n # "attributes" /\ (n # Sensitive.name \/ x = Null)
  <2>1. n \in DOMAIN f /\ q[n] = f[n]
    BY <1>1, <1>4 DEF Completes
  <2>2. n \in DOMAIN e /\ e[n] = f[n]
    BY <1>1, <2>1 DEF Overlays
  <2>3. n \in DOMAIN p /\ p[n] = e[n]
    BY <1>1, <1>4, <2>2 DEF Completes
  <2> QED
    BY <2>1, <2>2, <2>3
<1> QED
  BY <1>2, <1>3, <1>4

-----------------------------------------------------------------------------
(* The server *)

\* A representation is of values.
Represents(m) == \A n \in DOMAIN m : m[n] \in Values

\* A GET shows every name, and every value but the masked one.
LEMMA ShownFields ==
    ASSUME NEW m, Represents(m)
    PROVE  /\ DOMAIN Shown(m) = DOMAIN m
           /\ \A n \in DOMAIN m \ {Sensitive.name} : Shown(m)[n] = m[n]
           /\ IF Has(Inside(m, Sensitive.name), Sensitive.key)
              THEN /\ Sensitive.name \in DOMAIN m /\ Is(m[Sensitive.name], "map")
                   /\ m[Sensitive.name] # Null
                   /\ Has(m[Sensitive.name].map, Sensitive.key)
                   /\ Shown(m)[Sensitive.name] = Hidden(m[Sensitive.name])
              ELSE Shown(m) = m
<1>1. CASE Has(Inside(m, Sensitive.name), Sensitive.key)
  <2>1. DOMAIN NoFields = {}
    BY DEF NoFields
  <2>2. Has(m, Sensitive.name) /\ Is(m[Sensitive.name], "map")
    BY <1>1, <2>1 DEF Inside, Has
  <2>3. Has(m[Sensitive.name].map, Sensitive.key)
    BY <1>1, <2>2 DEF Inside
  <2>4. Shown(m) = With(m, Sensitive.name, Hidden(m[Sensitive.name]))
    BY <1>1 DEF Shown
  <2> QED
    BY <1>1, <2>2, <2>3, <2>4 DEF With, Has
<1>2. CASE ~Has(Inside(m, Sensitive.name), Sensitive.key)
  BY <1>2 DEF Shown
<1> QED
  BY <1>1, <1>2

\* The mask never hides a difference in whether a name is there.
LEMMA ShownHas ==
    ASSUME NEW m, Represents(m), NEW n
    PROVE  Has(Shown(m), n) <=> Has(m, n)
<1>1. \A v : Hidden(v) # Null
  BY DEF Hidden, Map, Null
<1> QED
  BY <1>1, ShownFields DEF Has

\* What the server has after an update of m with payload p: something that carries
\* what was sent, and the rest of m as it was. A zero may be left out.
Updated(m, p, srv) ==
    /\ DOMAIN srv \in SUBSET (DOMAIN m \cup DOMAIN p)
    /\ \A n \in DOMAIN p :
          IF n \in DOMAIN srv THEN srv[n] \in Values /\ NestedCarries(p[n], srv[n])
          ELSE IsZeroValue(p[n])
    /\ \A n \in DOMAIN m \ DOMAIN p :
          IF n \in DOMAIN srv THEN srv[n] = m[n] ELSE IsZeroValue(m[n])

\* The masked value is not taken for one that was sent.
LEMMA SentAsShown ==
    ASSUME NEW m, Represents(m), NEW n \in DOMAIN m, NEW v \in Values, v = Shown(m)[n]
    PROVE  v = m[n]
<1>1. CASE n = Sensitive.name /\ Has(Inside(m, n), Sensitive.key)
  <2>1. v = Hidden(m[n])
    BY Zenon, <1>1, ShownFields
  <2>2. Is(v, "map") /\ Sensitive.key \in DOMAIN v.map /\ v.map[Sensitive.key] = Masked
    BY <2>1 DEF Hidden, Map, With, Is
  <2> QED
    BY Zenon, <2>2, ValuesAssumption
<1>2. CASE ~(n = Sensitive.name /\ Has(Inside(m, n), Sensitive.key))
  BY <1>2, ShownFields
<1> QED
  BY <1>1, <1>2

\* What the server keeps of a value.
LEMMA NormKeeps ==
    ASSUME NEW norm \in Norms, NEW v \in Values
    PROVE  /\ norm[v] \in Values /\ NestedCarries(v, norm[v])
           /\ IsZeroValue(norm[v]) => IsZeroValue(v)
<1>1. norm[v] \in Values
  BY NormsAssumption
<1>2. Carries(v, norm[v]) /\ (IsZeroValue(norm[v]) => IsZeroValue(v))
  BY NormsAssumption
<1> QED
  BY <1>1, <1>2, RecursionAssumption

\* A PUT of the merged representation is such an update.
LEMMA PutFields ==
    ASSUME NEW m, Represents(m), NEW p, Represents(p), \A n \in DOMAIN p : p[n] # Null,
           NEW norm \in Norms, NEW omits \in BOOLEAN
    PROVE  Updated(m, p, Put(m, MergePayload(Shown(m), p), norm, omits))
<1> DEFINE R == Shown(m)
           rep == MergePayload(R, p)
           kept(n) == n \in DOMAIN m /\ (n \in DOMAIN rep => rep[n] = R[n])
           stored == [n \in DOMAIN m \cup DOMAIN rep |->
                         IF kept(n) THEN m[n] ELSE norm[rep[n]]]
           srv == [n \in {x \in DOMAIN stored : omits => ~IsZeroValue(stored[x])} |-> stored[n]]
<1>1. DOMAIN R = DOMAIN m
  BY ShownFields
<1>2. /\ DOMAIN rep = DOMAIN m \cup DOMAIN p
      /\ \A n \in DOMAIN p : rep[n] = p[n]
      /\ \A n \in DOMAIN m \ DOMAIN p : rep[n] = R[n]
  BY <1>1 DEF MergePayload
<1>3. Put(m, rep, norm, omits) = srv
  BY Zenon DEF Put
<1> HIDE DEF R, rep
<1>4. DOMAIN stored = DOMAIN m \cup DOMAIN p
  BY <1>2
<1>5. \A n \in DOMAIN m \ DOMAIN p : stored[n] = m[n]
  BY Zenon, <1>2, <1>4
<1>6. ASSUME NEW n \in DOMAIN p
      PROVE  /\ stored[n] \in Values /\ NestedCarries(p[n], stored[n])
             /\ IsZeroValue(stored[n]) => IsZeroValue(p[n])
  <2>1. p[n] \in Values /\ rep[n] = p[n] /\ n \in DOMAIN rep
    BY <1>2 DEF Represents
  <2>2. CASE kept(n)
    <3>1. p[n] = m[n]
      BY Zenon, <2>1, <2>2, SentAsShown DEF R
    <3>2. stored[n] = p[n]
      BY Zenon, <1>4, <2>2, <3>1
    <3>3. NestedCarries(p[n], p[n])
      BY Zenon, <2>1, Reflexive, EqualCarries
    <3> QED
      BY Zenon, <2>1, <3>2, <3>3
  <2>3. CASE ~kept(n)
    <3>1. stored[n] = norm[p[n]]
      BY Zenon, <1>4, <2>1, <2>3
    <3> QED
      BY Zenon, <2>1, <3>1, NormKeeps
  <2> QED
    BY <2>2, <2>3
<1> HIDE DEF stored
<1>7. Updated(m, p, srv)
  BY <1>4, <1>5, <1>6 DEF Updated
<1> QED
  BY <1>3, <1>7 DEF rep, R

-----------------------------------------------------------------------------
(* A pass *)

\* The annotation holds a spec, and the server values.
WellFormed ==
    /\ spec \in SpecChoices /\ secret \in SecretChoices
    /\ last \in SpecChoices \cup {NoFields}
    /\ Represents(server)

\* A pass sends a payload of values, and the server is updated with it, or was
\* found to have it.
LEMMA PassOutcome ==
    ASSUME WellFormed, Pass
    PROVE  /\ Represents(Payload) /\ \A n \in DOMAIN Payload : Payload[n] # Null
           /\ \/ server' = server /\ ~PayloadDiffers(Shown(server), Payload)
              \/ Updated(server, Payload, server')
<1>1. Represents(Payload) /\ \A n \in DOMAIN Payload : Payload[n] # Null
  BY PayloadNoNull DEF Payload, Represents, WellFormed
<1>2. CASE PayloadDiffers(Shown(server), Payload)
  <2>1. PICK norm \in Norms, omits \in BOOLEAN :
          server' = Put(server, MergePayload(Shown(server), Payload), norm, omits)
    BY <1>2 DEF Pass
  <2> DEFINE p == Payload
  <2> HIDE DEF p
  <2>2. Represents(p) /\ Represents(server) /\ \A n \in DOMAIN p : p[n] # Null
    BY <1>1 DEF WellFormed, p
  <2>3. Updated(server, p, Put(server, MergePayload(Shown(server), p), norm, omits))
    BY <2>2, PutFields
  <2> QED
    BY <1>1, <2>1, <2>3 DEF p
<1>3. CASE ~PayloadDiffers(Shown(server), Payload)
  BY <1>1, <1>3 DEF Pass
<1> QED
  BY <1>2, <1>3

LEMMA WellFormedInv == Spec => []WellFormed
<1>1. Init => WellFormed
  BY OccurringAssumption DEF Init, WellFormed, Represents
<1>2. WellFormed /\ [Next]_vars => WellFormed'
  <2> SUFFICES ASSUME WellFormed, [Next]_vars PROVE WellFormed'
    OBVIOUS
  <2>1. CASE Pass
    <3>1. Represents(server)'
      BY <2>1, PassOutcome DEF WellFormed, Represents, Updated
    <3> QED
      BY <2>1, <3>1 DEF WellFormed, Pass
  <2>2. ASSUME NEW t \in SpecChoices, EditSpec(t) PROVE WellFormed'
    BY <2>2 DEF EditSpec, WellFormed, Represents
  <2>3. ASSUME NEW v \in SecretChoices, EditSecret(v) PROVE WellFormed'
    BY <2>3 DEF EditSecret, WellFormed, Represents
  <2>4. ASSUME NEW e \in ConsoleEdits, EditServer(e) PROVE WellFormed'
    BY <2>4, OccurringAssumption DEF EditServer, WellFormed, Represents, With
  <2>5. CASE UNCHANGED vars
    BY <2>5 DEF vars, WellFormed, Represents
  <2> QED
    BY <2>1, <2>2, <2>3, <2>4, <2>5 DEF Next
<1> QED
  BY <1>1, <1>2, PTL DEF Spec

\* A pass writes the spec's fields, the resets, the attributes and, with a Secret,
\* the object it goes into; any other field keeps its value, and so does a number
\* that left the spec (EffectivePayload, MergePayload).
THEOREM OthersKeptAlways == Spec => OthersKept
<1> DEFINE Kept ==
      \A n \in DOMAIN server \ Written :
          Has(server, n) => IF Has(server', n) THEN server'[n] = server[n]
                            ELSE IsZeroValue(server[n])
<1>1. WellFormed /\ [Next]_vars => [Pass => Kept]_vars
  <2> SUFFICES ASSUME WellFormed, Pass, NEW n \in DOMAIN server \ Written, Has(server, n)
               PROVE  IF Has(server', n) THEN server'[n] = server[n]
                      ELSE IsZeroValue(server[n])
    OBVIOUS
  <2> DEFINE e == EffectivePayload(spec, last)
             p == Payload
  <2>1. Overlays(e, spec, last) /\ Completes(p, e, spec, secret)
    BY EffectiveFields, PayloadFields DEF WellFormed, Payload
  <2>2. server' = server \/ Updated(server, p, server')
    BY PassOutcome
  <2> HIDE DEF e, p
  <2>3. /\ n \notin DOMAIN spec /\ n # "attributes"
        /\ n = Sensitive.name => secret = Null
        /\ n \in DOMAIN last => Is(last[n], "num")
    BY DEF Written
  <2>4. n \in DOMAIN last => ~Resettable(last[n])
    <3>1. \A m \in DOMAIN last : last[m] \in Values
      BY LastFields DEF WellFormed
    <3> QED
      BY <2>3, <3>1, OneType DEF Resettable
  <2>5. n \notin DOMAIN p
    BY <2>1, <2>3, <2>4 DEF Overlays, Completes
  <2> QED
    BY <2>2, <2>5 DEF Updated, Has
<1> QED
  BY <1>1, WellFormedInv, PTL DEF Spec, OthersKept

\* A value that the comparison finds equal to an empty scalar or array is empty.
LEMMA EqualZero ==
    ASSUME NEW z \in Values, NEW g \in Values, IsZeroValue(z), ~Is(z, "map"),
           NestedEqual(z, g)
    PROVE  IsZeroValue(g)
<1>1. ManagedValueEqual(z, g)
  BY RecursionAssumption
<1>2. CASE Is(z, "list")
  <2>1. z = List(<<>>)
    BY <1>2, OneType DEF IsZeroValue, ZeroFor
  <2>2. Is(g, "list") /\ Len(z.list) = Len(g.list)
    BY <1>1, <1>2, EqualByType
  <2>3. g = List(g.list) /\ g.list \in Seq(Values) /\ Len(g.list) = 0
    BY Zenon, <2>1, <2>2, ValuesAssumption DEF List
  <2>4. g = List(<<>>)
    BY <2>3
  <2> QED
    BY <2>1, <2>4
<1>3. CASE ~Is(z, "list")
  BY <1>1, <1>3, EqualByType, ValuesAssumption
<1> QED
  BY <1>2, <1>3

\* What left the spec is cleared by the next pass, whether that pass updates or
\* finds nothing to correct (zeroFor, PayloadDiffers).
THEOREM ScalarsResetAlways == Spec => ScalarsReset
<1> DEFINE Reset ==
      \A n \in DOMAIN last \ DOMAIN spec :
          Resettable(last[n]) /\ ~Is(last[n], "map")
          => ~Has(server', n) \/ IsZeroValue(server'[n])
<1>1. WellFormed /\ [Next]_vars => [Pass => Reset]_vars
  <2> SUFFICES ASSUME WellFormed, Pass, NEW n \in DOMAIN last \ DOMAIN spec,
                      Resettable(last[n]), ~Is(last[n], "map"), Has(server', n)
               PROVE  IsZeroValue(server'[n])
    OBVIOUS
  <2> DEFINE e == EffectivePayload(spec, last)
             p == Payload
             z == ZeroFor(last[n])
  <2>1. Overlays(e, spec, last) /\ Completes(p, e, spec, secret)
    BY EffectiveFields, PayloadFields DEF WellFormed, Payload
  <2>2. \/ server' = server /\ ~PayloadDiffers(Shown(server), p)
        \/ Updated(server, p, server')
    BY PassOutcome
  <2>3. Represents(p)
    BY PassOutcome
  <2>4. last[n] \in Values /\ n \notin {"attributes", Sensitive.name}
    BY LastFields DEF WellFormed
  <2>5. IsZeroValue(z) /\ z # Null /\ ~Is(z, "map")
    BY <2>4, ZeroOfType
  <2> HIDE DEF e, p, z
  <2>6. n \in DOMAIN e /\ e[n] = z
    BY <2>1 DEF Overlays, z
  <2>7. n \in DOMAIN p /\ p[n] = z
    BY <2>1, <2>4, <2>6 DEF Completes
  <2>8. CASE server' = server /\ ~PayloadDiffers(Shown(server), p)
    <3>1. n \in DOMAIN server /\ server[n] \in Values /\ z \in Values
      BY <2>3, <2>7, <2>8 DEF Has, WellFormed, Represents
    <3>2. Shown(server)[n] = server[n] /\ Has(Shown(server), n)
      BY <2>4, <2>8, <3>1, ShownFields, ShownHas DEF WellFormed
    <3>3. NestedEqual(z, server[n])
      BY <2>7, <2>8, <3>2 DEF PayloadDiffers
    <3> QED
      BY <2>5, <2>8, <3>1, <3>3, EqualZero
  <2>9. CASE Updated(server, p, server')
    <3>1. server'[n] \in Values /\ NestedCarries(z, server'[n]) /\ z \in Values
      BY <2>3, <2>7, <2>9 DEF Updated, Has, Represents
    <3> QED
      BY <2>5, <3>1, CarriesEqual, EqualZero
  <2> QED
    BY <2>2, <2>8, <2>9
<1> QED
  BY <1>1, WellFormedInv, PTL DEF Spec, ScalarsReset

\* What a payload put there is found there, masked or not.
LEMMA SentIsFound ==
    ASSUME NEW s \in SpecChoices, NEW l \in SpecChoices \cup {NoFields},
           NEW x \in SecretChoices, NEW srv, Represents(srv), NEW n,
           n \in DOMAIN PayloadOf(s, l, x), n \in DOMAIN srv,
           NestedCarries(PayloadOf(s, l, x)[n], srv[n])
    PROVE  NestedEqual(PayloadOf(s, l, x)[n], Shown(srv)[n])
<1> DEFINE e == EffectivePayload(s, l)
           p == PayloadOf(s, l, x)
           N == Sensitive.name
           K == Sensitive.key
<1>1. p[n] \in Values /\ srv[n] \in Values
  BY PayloadNoNull DEF Represents
<1>2. /\ Overlays(e, s, l) /\ Completes(p, e, s, x) /\ n \in DOMAIN p
      /\ NestedCarries(p[n], srv[n])
  BY EffectiveFields, PayloadFields
<1> HIDE DEF e, p
<1> SUFFICES NestedEqual(p[n], Shown(srv)[n])
  BY DEF p
<1>3. NestedEqual(p[n], srv[n])
  BY <1>1, <1>2, CarriesEqual
<1>4. CASE n # N \/ ~Has(Inside(srv, N), K)
  BY <1>3, <1>4, ShownFields
<1>5. CASE n = N /\ Has(Inside(srv, N), K)
  <2>1. Shown(srv)[N] = Hidden(srv[N])
    BY Zenon, <1>5, ShownFields
  <2>2. CASE x # Null
    <3>1. p[N] = Filled(s, x)
      BY <1>2, <2>2 DEF Completes
    <3>2. Is(p[N], "map") /\ p[N].map[K] = x /\ Is(x, "str")
      BY <2>2, <3>1, SpecsAssumption DEF Filled, Map, With, Is
    <3> QED
      BY Zenon, <1>1, <1>3, <1>5, <2>1, <3>2, HiddenEqual
  <2>3. CASE x = Null
    <3>1. N \in DOMAIN e /\ p[N] = e[N]
      BY Zenon, <1>2, <1>5, <2>3, SpecsAssumption DEF Completes
    <3>2. Is(p[N], "map") /\ K \notin DOMAIN p[N].map
      <4>1. CASE N \in DOMAIN s
        <5>1. p[N] = s[N] /\ s[N] # Null /\ Is(s[N], "map")
          BY Zenon, <1>2, <3>1, <4>1, SpecsAssumption DEF Overlays
        <5>2. Inside(s, N) = p[N].map
          BY Zenon, <4>1, <5>1 DEF Inside, Has
        <5> QED
          BY <5>1, <5>2, SpecsAssumption
      <4>2. CASE N \notin DOMAIN s
        <5>1. N \in DOMAIN l /\ Resettable(l[N]) /\ e[N] = ZeroFor(l[N])
          BY <1>2, <3>1, <4>2 DEF Overlays
        <5>2. Is(l[N], "map") /\ l[N] \in Values
          BY Zenon, <5>1, LastFields
        <5>3. p[N] = Map(NoFields)
          BY Zenon, <3>1, <5>1, <5>2, ZeroOfType
        <5> QED
          BY <5>3 DEF Map, NoFields, Is
      <4> QED
        BY Zenon, <4>1, <4>2
    <3> QED
      BY Zenon, <1>1, <1>3, <1>5, <2>1, <3>2, HiddenEqual
  <2> QED
    BY <2>2, <2>3
<1> QED
  BY <1>4, <1>5

\* An update is never repeated: after any pass the next one finds nothing to
\* correct, for every spec, Secret, server and nesting (PayloadDiffers).
THEOREM SettledAlways == Spec => Settled
<1>1. WellFormed /\ WellFormed' /\ [Next]_vars
        => [Pass => ~PayloadDiffers(Shown(server'), Payload')]_vars
  <2> SUFFICES ASSUME WellFormed, WellFormed', Pass
               PROVE  ~PayloadDiffers(Shown(server'), Payload')
    OBVIOUS
  <2> DEFINE p == PayloadOf(spec, last, secret)
             q == PayloadOf(spec, spec, secret)
             srv == server'
  <2>1. Payload = p /\ Payload' = q
    BY DEF Pass, Payload
  <2>2. \/ server' = server /\ ~PayloadDiffers(Shown(server), p)
        \/ Updated(server, p, srv)
    BY <2>1, PassOutcome
  <2>3. Represents(server) /\ Represents(srv)
    BY DEF WellFormed, Represents
  <2>4. \A n \in DOMAIN q : n \in DOMAIN p /\ p[n] = q[n] /\ q[n] # Null
    BY PayloadShrinks, PayloadNoNull DEF WellFormed
  <2>5. ASSUME NEW n \in DOMAIN p, n \in DOMAIN srv, NestedCarries(p[n], srv[n])
        PROVE  NestedEqual(p[n], Shown(srv)[n])
    BY <2>3, <2>5, SentIsFound DEF WellFormed
  <2> HIDE DEF p, q, srv
  <2>6. CASE server' = server /\ ~PayloadDiffers(Shown(server), p)
    BY <2>1, <2>4, <2>6 DEF PayloadDiffers
  <2>7. CASE Updated(server, p, srv)
    <3>1. ASSUME NEW n \in DOMAIN q
          PROVE  IF Has(Shown(srv), n) THEN q[n] # Null /\ NestedEqual(q[n], Shown(srv)[n])
                 ELSE IsZeroValue(q[n])
      <4>1. Has(Shown(srv), n) <=> n \in DOMAIN srv /\ srv[n] # Null
        BY <2>3, ShownHas DEF Has
      <4>2. CASE n \in DOMAIN srv
        <5>1. /\ n \in DOMAIN p /\ p[n] = q[n] /\ q[n] # Null
              /\ srv[n] \in Values /\ NestedCarries(p[n], srv[n])
          BY Zenon, <2>4, <2>7, <4>2 DEF Updated
        <5>2. p[n] \in Values
          BY Zenon, <2>1, <5>1, PassOutcome DEF Represents
        <5>3. srv[n] # Null
          BY Zenon, <5>1, <5>2, CarriesNotNull
        <5> QED
          BY Zenon, <2>5, <4>1, <4>2, <5>1, <5>3
      <4>3. CASE n \notin DOMAIN srv
        BY <2>4, <2>7, <4>1, <4>3 DEF Updated
      <4> QED
        BY <4>2, <4>3
    <3>2. ~PayloadDiffers(Shown(srv), q)
      BY <3>1 DEF PayloadDiffers
    <3> QED
      BY <2>1, <3>2 DEF srv
  <2> QED
    BY <2>2, <2>6, <2>7
<1> QED
  BY <1>1, WellFormedInv, PTL DEF Spec, Settled

\* The object with the credentials: what is filled in from the Secret does not
\* disturb what the spec says of the rest.
LEMMA FilledCarries ==
    ASSUME NEW s \in SpecChoices, Sensitive.name \in DOMAIN s,
           NEW g \in Values, Is(g, "map"),
           \A k \in DOMAIN s[Sensitive.name].map :
              IF Has(g.map, k)
              THEN NestedEqual(s[Sensitive.name].map[k], g.map[k])
              ELSE s[Sensitive.name].map[k] = Null \/ IsZeroValue(s[Sensitive.name].map[k])
    PROVE  NestedCarries(s[Sensitive.name], g)
<1> DEFINE v == s[Sensitive.name]
<1>1. v \in Values /\ Is(v, "map")
  BY SpecsAssumption
<1> HIDE DEF v
<1>2. \A k \in DOMAIN v.map : IF Has(g.map, k) THEN NestedEqual(v.map[k], g.map[k])
                              ELSE v.map[k] = Null \/ IsZeroValue(v.map[k])
  BY DEF v
<1>3. ASSUME NEW k \in DOMAIN v.map, Has(g.map, k) PROVE NestedCarries(v.map[k], g.map[k])
  <2>1. v.map[k] \in Values /\ g.map[k] \in Values
    BY Zenon, <1>1, <1>3, ValuesAssumption DEF Has
  <2> QED
    BY <1>2, <1>3, <2>1, EqualCarries
<1>4. Carries(v, g)
  BY Zenon, <1>1, <1>2, <1>3, CarriesByType
<1> QED
  BY <1>1, <1>4, RecursionAssumption DEF v

\* The object with the credentials carries the spec's after a pass.
LEMMA SensitiveEnforced ==
    ASSUME WellFormed, WellFormed', Pass, Sensitive.name \in DOMAIN spec
    PROVE  IF Has(server', Sensitive.name)
           THEN NestedCarries(spec[Sensitive.name], server'[Sensitive.name])
           ELSE IsZeroValue(spec[Sensitive.name])
<1> DEFINE N == Sensitive.name
           K == Sensitive.key
           e == EffectivePayload(spec, last)
           p == Payload
           srv == server'
           v == spec[N]
<1>1. /\ Overlays(e, spec, last) /\ Completes(p, e, spec, secret)
      /\ spec \in SpecChoices /\ secret \in SecretChoices
  BY EffectiveFields, PayloadFields DEF WellFormed, Payload
<1>2. \/ server' = server /\ ~PayloadDiffers(Shown(server), p)
      \/ Updated(server, p, srv)
  BY PassOutcome
<1>3. Represents(p) /\ Represents(server) /\ Represents(srv)
  BY Zenon, PassOutcome DEF WellFormed, Represents
<1>4. v \in Values /\ v # Null /\ Is(v, "map") /\ Inside(spec, N) = v.map /\ K \notin DOMAIN v.map
  BY Zenon, <1>1, SpecsAssumption DEF Inside, Has
<1> HIDE DEF e, p
<1>5. N \in DOMAIN e /\ e[N] = v /\ N # "attributes"
  BY <1>1, SpecsAssumption DEF Overlays
<1>6. N \in DOMAIN p /\ (secret = Null => p[N] = v) /\ (secret # Null => p[N] = Filled(spec, secret))
  BY <1>1, <1>5 DEF Completes
<1>7. /\ p[N] \in Values /\ Is(p[N], "map")
      /\ \A k \in DOMAIN v.map : k \in DOMAIN p[N].map /\ p[N].map[k] = v.map[k]
  <2>1. p[N] \in Values
    BY <1>3, <1>6 DEF Represents
  <2>2. CASE secret = Null
    BY <1>4, <1>6, <2>1, <2>2
  <2>3. CASE secret # Null
    BY <1>4, <1>6, <2>1, <2>3 DEF Filled, Map, With, Is
  <2> QED
    BY <2>2, <2>3
<1>8. p[N] # v => ~IsZeroValue(p[N])
  <2>1. SUFFICES ASSUME secret # Null PROVE ~IsZeroValue(p[N])
    BY <1>6
  <2>2. K \in DOMAIN p[N].map
    BY <1>6, <2>1 DEF Filled, Map, With
  <2>3. IsZeroValue(p[N]) => p[N] = Map(NoFields)
    BY <1>7, OneType DEF IsZeroValue, ZeroFor
  <2> QED
    BY <2>2, <2>3 DEF Map, NoFields
<1> HIDE DEF srv, v
<1> SUFFICES IF Has(srv, N) THEN NestedCarries(v, srv[N]) ELSE IsZeroValue(v)
  BY Zenon DEF srv, v
<1>9. ASSUME NEW g \in Values, Is(g, "map"),
             \A k \in DOMAIN v.map : IF Has(g.map, k) THEN NestedEqual(v.map[k], g.map[k])
                                     ELSE v.map[k] = Null \/ IsZeroValue(v.map[k])
      PROVE  NestedCarries(v, g)
  BY <1>1, <1>9, FilledCarries DEF v
<1>10. CASE Updated(server, p, srv)
  <2>1. CASE N \in DOMAIN srv
    <3>1. srv[N] \in Values /\ NestedEqual(p[N], srv[N])
      BY <1>6, <1>7, <1>10, <2>1, CarriesEqual DEF Updated
    <3>2. Is(srv[N], "map") /\ ~PayloadDiffers(srv[N].map, p[N].map)
      BY <1>7, <3>1, EqualByType, RecursionAssumption
    <3>3. NestedCarries(v, srv[N])
      <4>1. \A k \in DOMAIN v.map : IF Has(srv[N].map, k)
                                     THEN NestedEqual(v.map[k], srv[N].map[k])
                                     ELSE v.map[k] = Null \/ IsZeroValue(v.map[k])
        BY Zenon, <1>7, <3>2 DEF PayloadDiffers
      <4> QED
        BY Zenon, <1>9, <3>1, <3>2, <4>1
    <3>4. srv[N] # Null
      BY <3>2 DEF Is, Null
    <3> QED
      BY <2>1, <3>3, <3>4 DEF Has
  <2>2. CASE N \notin DOMAIN srv
    BY <1>6, <1>8, <1>10, <2>2 DEF Updated, Has
  <2> QED
    BY <2>1, <2>2
<1>11. CASE srv = server /\ ~PayloadDiffers(Shown(server), p)
  <2>1. CASE Has(server, N)
    <3> DEFINE g == server[N]
               r == Shown(server)[N]
    <3>1. g \in Values
      BY Zenon, <1>3, <2>1 DEF Has, Represents
    <3>2. NestedEqual(p[N], r)
      <4>1. Has(Shown(server), N)
        BY <1>3, <2>1, ShownHas
      <4> QED
        BY <1>6, <1>11, <4>1 DEF PayloadDiffers
    <3>3. \/ r = g
          \/ Is(g, "map") /\ r = Hidden(g)
      BY <1>3, ShownFields
    <3> HIDE DEF g, r
    <3>4. Is(r, "map") /\ ~PayloadDiffers(r.map, p[N].map)
      <4>1. ManagedValueEqual(p[N], r)
        BY <1>7, <3>1, <3>2, <3>3, RecursionAssumption
      <4> QED
        BY <1>7, <4>1, EqualByType
    <3>5. Is(g, "map")
      BY <3>3, <3>4
    <3>6. \A k : k # K => (Has(r.map, k) <=> Has(g.map, k)) /\ (Has(g.map, k) => r.map[k] = g.map[k])
      <4>1. CASE r = g
        BY <4>1
      <4>2. CASE r = Hidden(g)
        <5>1. r.map = With(g.map, K, Masked)
          BY <4>2 DEF Hidden, Map
        <5> QED
          BY <5>1 DEF With, Has
      <4> QED
        BY <3>3, <4>1, <4>2
    <3>7. ASSUME NEW k \in DOMAIN v.map
          PROVE  IF Has(g.map, k) THEN NestedEqual(v.map[k], g.map[k])
                 ELSE v.map[k] = Null \/ IsZeroValue(v.map[k])
      <4>1. k # K /\ k \in DOMAIN p[N].map /\ p[N].map[k] = v.map[k]
        BY <1>4, <1>7
      <4>2. IF Has(r.map, k) THEN NestedEqual(p[N].map[k], r.map[k])
            ELSE p[N].map[k] = Null \/ IsZeroValue(p[N].map[k])
        BY Zenon, <3>4, <4>1 DEF PayloadDiffers
      <4> QED
        BY <3>6, <4>1, <4>2
    <3>8. NestedCarries(v, g)
      BY Zenon, <1>9, <3>1, <3>5, <3>7
    <3> QED
      BY <1>11, <2>1, <3>8 DEF g
  <2>2. CASE ~Has(server, N)
    <3>1. ~Has(Shown(server), N) /\ p[N] # Null
      BY <1>3, <1>7, <2>2, ShownHas DEF Is, Null
    <3>2. IsZeroValue(p[N])
      BY <1>6, <1>11, <3>1 DEF PayloadDiffers
    <3> QED
      BY <1>8, <1>11, <2>2, <3>2
  <2> QED
    BY <2>1, <2>2
<1> QED
  BY Zenon, <1>2, <1>10, <1>11 DEF srv

\* Every field of the spec, and the marker, is on the server after a pass, at any
\* depth, with or without an update: the skipped update hides no difference and
\* the merge loses nothing (PayloadDiffers, MergePayload).
THEOREM SpecEnforcedAlways == Spec => SpecEnforced
<1>1. WellFormed /\ WellFormed' /\ [Next]_vars
        => [Pass => Carries(Map(StampStringAttribute(spec)), Map(server'))]_vars
  <2> SUFFICES ASSUME WellFormed, WellFormed', Pass
               PROVE  Carries(Map(StampStringAttribute(spec)), Map(server'))
    OBVIOUS
  <2> DEFINE N == Sensitive.name
             t == StampStringAttribute(spec)
             e == EffectivePayload(spec, last)
             p == Payload
             srv == server'
  <2>1. Overlays(e, spec, last) /\ Completes(p, e, spec, secret)
    BY EffectiveFields, PayloadFields DEF WellFormed, Payload
  <2>2. \/ srv = server /\ ~PayloadDiffers(Shown(server), p)
        \/ Updated(server, p, srv)
    BY PassOutcome
  <2>3. Represents(p) /\ Represents(server) /\ Represents(srv)
    BY PassOutcome DEF WellFormed, Represents
  <2>4. /\ DOMAIN t = DOMAIN spec \cup {"attributes"}
        /\ t["attributes"] = Stamped(spec)
        /\ \A n \in DOMAIN spec : n # "attributes" => t[n] = spec[n]
    BY DEF StampStringAttribute, With, Stamped
  <2>5. N \in DOMAIN spec => IF Has(srv, N) THEN NestedCarries(spec[N], srv[N])
                             ELSE IsZeroValue(spec[N])
    BY SensitiveEnforced
  <2>6. \A n \in DOMAIN p : p[n] # Null
    BY PassOutcome
  <2> HIDE DEF t, e, p, srv
  <2>7. ASSUME NEW n \in DOMAIN t
        PROVE  IF Has(srv, n) THEN NestedCarries(t[n], srv[n])
               ELSE t[n] = Null \/ IsZeroValue(t[n])
    <3>1. CASE n = N
      BY <2>4, <2>5, <3>1, SpecsAssumption
    <3>2. CASE n # N
      <4>1. n \in DOMAIN p /\ p[n] = t[n]
        <5>1. CASE n = "attributes"
          BY <2>1, <2>4, <5>1 DEF Completes
        <5>2. CASE n # "attributes"
          <6>1. n \in DOMAIN spec /\ n \in DOMAIN e /\ e[n] = t[n]
            BY <2>1, <2>4, <5>2 DEF Overlays
          <6> QED
            BY <2>1, <3>2, <5>2, <6>1 DEF Completes
        <5> QED
          BY Zenon, <5>1, <5>2
      <4>2. t[n] \in Values /\ t[n] # Null
        BY <2>3, <2>6, <4>1 DEF Represents
      <4>3. CASE Updated(server, p, srv)
        <5>1. CASE n \in DOMAIN srv
          <6>1. srv[n] \in Values /\ NestedCarries(t[n], srv[n])
            BY Zenon, <4>1, <4>3, <5>1 DEF Updated
          <6>2. srv[n] # Null
            BY Zenon, <4>2, <6>1, CarriesNotNull
          <6> QED
            BY Zenon, <5>1, <6>1, <6>2 DEF Has
        <5>2. CASE n \notin DOMAIN srv
          BY Zenon, <4>1, <4>3, <5>2 DEF Updated, Has
        <5> QED
          BY <5>1, <5>2
      <4>4. CASE srv = server /\ ~PayloadDiffers(Shown(server), p)
        <5>1. Has(Shown(srv), n) <=> Has(srv, n)
          BY <2>3, ShownHas
        <5>2. CASE Has(srv, n)
          <6>1. n \in DOMAIN srv /\ srv[n] \in Values /\ Shown(srv)[n] = srv[n]
            BY Zenon, <2>3, <3>2, <5>2, ShownFields DEF Has, Represents
          <6>2. NestedEqual(t[n], srv[n])
            BY ZenonT(60), <4>1, <4>4, <5>1, <5>2, <6>1 DEF PayloadDiffers
          <6> QED
            BY Zenon, <4>2, <5>2, <6>1, <6>2, EqualCarries
        <5>3. CASE ~Has(srv, n)
          BY <4>1, <4>2, <4>4, <5>1, <5>3 DEF PayloadDiffers
        <5> QED
          BY <5>2, <5>3
      <4> QED
        BY <2>2, <4>3, <4>4
    <3> QED
      BY ZenonT(60), <3>1, <3>2
  <2>8. \A f : Is(Map(f), "map") /\ Map(f).map = f /\ ~Is(Map(f), "list")
    BY DEF Is, Map
  <2>9. Carries(Map(t), Map(srv))
    BY <2>7, <2>8 DEF Carries
  <2> QED
    BY <2>9 DEF t, srv
<1> QED
  BY <1>1, WellFormedInv, PTL DEF Spec, SpecEnforced

=============================================================================
