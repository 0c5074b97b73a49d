--------------------------- MODULE LRUCacheProofs ---------------------------
(***************************************************************************)
(* Proofs about LRUCache and HTTPCache, for any keys, tags, sizes, limits  *)
(* and number of calls.                                                    *)
(***************************************************************************)
EXTENDS HTTPCache, FiniteSetTheorems, WellFoundedInduction, TLAPS

-----------------------------------------------------------------------------
(* Natural numbers: induction over a set.                                  *)

LEMMA LeastElement ==
  ASSUME NEW S \in SUBSET Nat, S # {}
  PROVE  \E n \in S : \A m \in S : n <= m
<1> DEFINE R == OpToRel(<, Nat)
<1>1. \A x, y \in Nat : <<x, y>> \in R <=> x < y
  BY DEF OpToRel
<1>2. IsWellFoundedOn(R, Nat)
  BY NatLessThanWellFounded
<1> HIDE DEF R
<1>3. PICK n \in S : \A m \in S : <<m, n>> \notin R
  BY <1>2, WFMin
<1>4. ASSUME NEW m \in S
      PROVE  n <= m
  <2>1. n \in Nat /\ m \in Nat /\ ~(m < n)
    BY <1>1, <1>3
  <2> QED
    BY <2>1
<1> QED
  BY <1>4

LEMMA UpTo ==
  ASSUME NEW S \in SUBSET Nat, NEW l \in Nat, 0 \in S, \A n \in S : n < l => n + 1 \in S
  PROVE  \A n \in 0..l : n \in S
<1> DEFINE T == {n \in 0..l : n \notin S}
<1>1. ASSUME T # {}
      PROVE  FALSE
  <2>1. T \in SUBSET Nat
    OBVIOUS
  <2>2. PICK n \in T : \A m \in T : n <= m
    BY <1>1, <2>1, LeastElement
  <2>3. n \in Nat /\ n # 0 /\ n \in 0..l
    OBVIOUS
  <2>4. n - 1 \in 0..l /\ n - 1 \notin T /\ n - 1 < l /\ (n - 1) + 1 = n
    BY <2>2, <2>3
  <2> QED
    BY <2>4
<1> QED
  BY <1>1

-----------------------------------------------------------------------------
(* Without: what is left of a sequence.                                    *)

\* g leads from the places in w to those in s[1..n] whose elements are kept.
Keeps(w, s, n, es, g) ==
  /\ g \in [1..Len(w) -> 1..n]
  /\ \A j \in 1..Len(w) : w[j] = s[g[j]] /\ s[g[j]] \notin es
  /\ \A j, k \in 1..Len(w) : j < k => g[j] < g[k]
  /\ \A h \in 1..n : s[h] \notin es => \E j \in 1..Len(w) : g[j] = h

Body(s, es, kept, i) ==
  IF i = 0 THEN << >> ELSE IF s[i] \in es THEN kept[i - 1] ELSE Append(kept[i - 1], s[i])

LEMMA KeptExists ==
  ASSUME NEW S, NEW s \in Seq(S), NEW es
  PROVE  \E kept : kept = [i \in 0..Len(s) |-> Body(s, es, kept, i)]
<1> DEFINE P == {n \in Nat : \E kept : kept = [i \in 0..n |-> Body(s, es, kept, i)]}
<1>1. 0 \in P
  <2> DEFINE k == [i \in {0} |-> << >>]
  <2>1. k = [i \in 0..0 |-> Body(s, es, k, i)]
    BY DEF Body
  <2> QED
    BY <2>1
<1>2. ASSUME NEW n \in P
      PROVE  n + 1 \in P
  <2>1. PICK kept : kept = [i \in 0..n |-> Body(s, es, kept, i)]
    OBVIOUS
  <2> DEFINE more == [i \in 0..(n + 1) |-> IF i = n + 1 THEN Body(s, es, kept, n + 1) ELSE kept[i]]
  <2>2. ASSUME NEW i \in 0..(n + 1)
        PROVE  more[i] = Body(s, es, more, i)
    <3>1. CASE i = 0
      BY <2>1, <3>1 DEF Body
    <3>2. CASE i # 0
      <4>1. i - 1 \in 0..n /\ i - 1 # n + 1 /\ i - 1 \in 0..(n + 1)
        BY <3>2
      <4>2. more[i - 1] = kept[i - 1]
        BY <4>1
      <4>3. Body(s, es, more, i) = Body(s, es, kept, i)
        BY <3>2, <4>2 DEF Body
      <4>4. CASE i = n + 1
        BY <4>3, <4>4
      <4>5. CASE i # n + 1
        <5>1. i \in 0..n
          BY <4>5
        <5> QED
          BY <2>1, <4>3, <4>5, <5>1
      <4> QED
        BY <4>4, <4>5
    <3> QED
      BY <3>1, <3>2
  <2>3. more = [i \in 0..(n + 1) |-> Body(s, es, more, i)]
    BY <2>2
  <2> HIDE DEF more
  <2> QED
    BY <2>3
<1> HIDE DEF P
<1>3. Len(s) \in Nat /\ P \in SUBSET Nat
  BY DEF P
<1>4. \A n \in 0..Len(s) : n \in P
  BY <1>1, <1>2, <1>3, UpTo
<1>5. Len(s) \in P
  BY <1>3, <1>4
<1> QED
  BY <1>5 DEF P

LEMMA WithoutKeeps ==
  ASSUME NEW S, NEW s \in Seq(S), NEW es
  PROVE  /\ Without(s, es) \in Seq(S)
         /\ \E g : Keeps(Without(s, es), s, Len(s), es, g)
<1> DEFINE kept == CHOOSE kept : kept = [i \in 0..Len(s) |-> Body(s, es, kept, i)]
<1>1. Without(s, es) = kept[Len(s)]
  BY DEF Without, Body
<1>2. kept = [i \in 0..Len(s) |-> Body(s, es, kept, i)]
  BY KeptExists
<1> HIDE DEF kept
<1> DEFINE P == {n \in 0..Len(s) : kept[n] \in Seq(S) /\ \E g : Keeps(kept[n], s, n, es, g)}
<1>3. Len(s) \in Nat /\ P \in SUBSET Nat
  OBVIOUS
<1>4. 0 \in P
  <2>1. kept[0] = << >>
    BY <1>2, <1>3 DEF Body
  <2>2. Keeps(<< >>, s, 0, es, << >>)
    BY DEF Keeps
  <2>3. kept[0] \in Seq(S) /\ \E g : Keeps(kept[0], s, 0, es, g)
    BY <2>1, <2>2
  <2>4. 0 \in 0..Len(s)
    BY <1>3
  <2> QED
    BY <2>3, <2>4
<1>5. ASSUME NEW n \in P, n < Len(s)
      PROVE  n + 1 \in P
  <2>1. n \in Nat /\ n + 1 \in 1..Len(s) /\ n + 1 \in 0..Len(s) /\ s[n + 1] \in S
    BY <1>3, <1>5
  <2>2. kept[n + 1] = IF s[n + 1] \in es THEN kept[n] ELSE Append(kept[n], s[n + 1])
    <3>1. kept[n + 1] = Body(s, es, kept, n + 1)
      BY <1>2, <2>1
    <3>2. n + 1 # 0 /\ (n + 1) - 1 = n
      BY <2>1
    <3> QED
      BY <3>1, <3>2 DEF Body
  <2> DEFINE w == kept[n]
  <2>3. w \in Seq(S) /\ Len(w) \in Nat
    OBVIOUS
  <2>4. PICK g : Keeps(w, s, n, es, g)
    OBVIOUS
  <2> HIDE DEF w
  <2>5. CASE s[n + 1] \in es
    <3>1. Keeps(w, s, n + 1, es, g)
      BY <2>1, <2>3, <2>4, <2>5 DEF Keeps
    <3> QED
      BY <2>1, <2>2, <2>3, <2>5, <3>1 DEF w
  <2>6. CASE s[n + 1] \notin es
    <3> DEFINE v == Append(w, s[n + 1])
    <3> DEFINE h == [j \in 1..Len(v) |-> IF j = Len(v) THEN n + 1 ELSE g[j]]
    <3>1. /\ v \in Seq(S) /\ Len(v) = Len(w) + 1 /\ v[Len(v)] = s[n + 1]
          /\ \A j \in 1..Len(w) : v[j] = w[j] /\ j # Len(v) /\ j \in 1..Len(v)
          /\ \A j \in 1..Len(v) : j # Len(v) => j \in 1..Len(w)
          /\ Len(v) \in 1..Len(v)
      BY <2>1, <2>3
    <3> HIDE DEF v
    <3>2. h \in [1..Len(v) -> 1..(n + 1)]
      <4>1. \A j \in 1..Len(w) : g[j] \in 1..(n + 1)
        BY <2>1, <2>4 DEF Keeps
      <4> QED
        BY <2>1, <3>1, <4>1
    <3>3. h[Len(v)] = n + 1 /\ \A j \in 1..Len(w) : h[j] = g[j] /\ g[j] \in 1..n
      BY <2>4, <3>1 DEF Keeps
    <3> HIDE DEF h
    <3>4. \A j \in 1..Len(v) : v[j] = s[h[j]] /\ s[h[j]] \notin es
      BY <2>4, <2>6, <3>1, <3>3 DEF Keeps
    <3>5. \A j, k \in 1..Len(v) : j < k => h[j] < h[k]
      <4> SUFFICES ASSUME NEW j \in 1..Len(v), NEW k \in 1..Len(v), j < k
                   PROVE  h[j] < h[k]
        OBVIOUS
      <4>1. j \in 1..Len(w)
        BY <2>3, <3>1
      <4>2. CASE k = Len(v)
        BY <2>1, <3>3, <4>1, <4>2
      <4>3. CASE k # Len(v)
        BY <2>4, <3>1, <3>3, <4>1, <4>3 DEF Keeps
      <4> QED
        BY <4>2, <4>3
    <3>6. \A i \in 1..(n + 1) : s[i] \notin es => \E j \in 1..Len(v) : h[j] = i
      <4> SUFFICES ASSUME NEW i \in 1..(n + 1), s[i] \notin es
                   PROVE  \E j \in 1..Len(v) : h[j] = i
        OBVIOUS
      <4>1. CASE i = n + 1
        BY <3>1, <3>3, <4>1
      <4>2. CASE i # n + 1
        <5>1. i \in 1..n
          BY <2>1, <4>2
        <5> QED
          BY <2>4, <3>1, <3>3, <5>1 DEF Keeps
      <4> QED
        BY <4>1, <4>2
    <3>7. Keeps(v, s, n + 1, es, h)
      BY <3>2, <3>4, <3>5, <3>6 DEF Keeps
    <3> QED
      BY <2>1, <2>2, <2>6, <3>1, <3>7 DEF v, w
  <2> QED
    BY <2>5, <2>6
<1>6. \A n \in 0..Len(s) : n \in P
  BY <1>3, <1>4, <1>5, UpTo
<1>7. Len(s) \in P
  BY <1>3, <1>6
<1> QED
  BY <1>1, <1>7

LEMMA WithoutElements ==
  ASSUME NEW S, NEW s \in Seq(S), NEW es
  PROVE  ToSet(Without(s, es)) = ToSet(s) \ es
<1> DEFINE w == Without(s, es)
<1>1. w \in Seq(S) /\ \E g : Keeps(w, s, Len(s), es, g)
  BY WithoutKeeps
<1> HIDE DEF w
<1>2. PICK g : Keeps(w, s, Len(s), es, g)
  BY <1>1
<1>3. DOMAIN w = 1..Len(w) /\ DOMAIN s = 1..Len(s)
  BY <1>1
<1>4. ASSUME NEW j \in 1..Len(w)
      PROVE  w[j] \in ToSet(s) \ es
  BY <1>2, <1>3 DEF Keeps, ToSet
<1>5. ASSUME NEW h \in 1..Len(s), s[h] \notin es
      PROVE  s[h] \in ToSet(w)
  BY <1>2, <1>3, <1>5 DEF Keeps, ToSet
<1> QED
  BY <1>3, <1>4, <1>5 DEF ToSet, w

-----------------------------------------------------------------------------
(* Sizes of lists and sums of sizes.                                       *)

LEMMA ImageFinite ==
  ASSUME NEW S, NEW f, DOMAIN f = S, IsFiniteSet(S)
  PROVE  IsFiniteSet({f[x] : x \in S})
<1> DEFINE g == [x \in S |-> f[x]]
<1>1. g \in Surjection(S, {f[x] : x \in S})
  BY DEF Surjection
<1> QED
  BY <1>1, FS_Surjection

LEMMA ElementsFinite ==
  ASSUME NEW S, NEW s \in Seq(S)
  PROVE  IsFiniteSet(ToSet(s))
<1>1. DOMAIN s = 1..Len(s) /\ Len(s) \in Nat
  OBVIOUS
<1>2. IsFiniteSet(DOMAIN s)
  BY <1>1, FS_Interval
<1> QED
  BY <1>2, ImageFinite DEF ToSet

LEMMA ElementsCount ==
  ASSUME NEW S, NEW s \in Seq(S), \A i, j \in 1..Len(s) : s[i] = s[j] => i = j
  PROVE  Cardinality(ToSet(s)) = Len(s)
<1>1. DOMAIN s = 1..Len(s) /\ Len(s) \in Nat /\ s = [i \in 1..Len(s) |-> s[i]]
  OBVIOUS
<1>2. s \in Bijection(1..Len(s), ToSet(s))
  BY <1>1 DEF Bijection, Injection, Surjection, IsInjective, ToSet
<1>3. ExistsBijection(1..Len(s), ToSet(s))
  BY <1>2 DEF ExistsBijection
<1> QED
  BY <1>1, <1>3, FS_CountingElements

Bytes(es) == UNION {{e} \X (1..e.size) : e \in es}

LEMMA BytesFinite ==
  ASSUME NEW es, IsFiniteSet(es), \A e \in es : e.size \in Nat
  PROVE  IsFiniteSet(Bytes(es)) /\ SumOfSizes(es) = Cardinality(Bytes(es)) /\ SumOfSizes(es) \in Nat
<1> DEFINE f == [e \in es |-> {e} \X (1..e.size)]
<1>0. DOMAIN f = es /\ \A e \in es : f[e] = {e} \X (1..e.size)
  OBVIOUS
<1> HIDE DEF f
<1>1. IsFiniteSet({f[e] : e \in es})
  BY <1>0, ImageFinite
<1>2. \A e \in es : IsFiniteSet(f[e])
  <2> SUFFICES ASSUME NEW e \in es
               PROVE  IsFiniteSet({e} \X (1..e.size))
    BY <1>0
  <2>1. IsFiniteSet(1..e.size)
    BY FS_Interval
  <2>2. IsFiniteSet({e})
    BY FS_Singleton
  <2> QED
    BY <2>1, <2>2, FS_Product
<1>3. \A b \in {f[e] : e \in es} : IsFiniteSet(b)
  BY <1>2
<1>4. IsFiniteSet(UNION {f[e] : e \in es})
  BY <1>1, <1>3, FS_UNION
<1>5. Bytes(es) = UNION {f[e] : e \in es}
  BY <1>0 DEF Bytes
<1>6. IsFiniteSet(Bytes(es))
  BY <1>4, <1>5
<1>7. SumOfSizes(es) = Cardinality(Bytes(es))
  BY DEF SumOfSizes, Bytes
<1> QED
  BY <1>6, <1>7, FS_CardinalityType

LEMMA SumEmpty == SumOfSizes({}) = 0
<1>1. Bytes({}) = {}
  BY DEF Bytes
<1>2. SumOfSizes({}) = Cardinality(Bytes({}))
  BY DEF SumOfSizes, Bytes
<1> QED
  BY <1>1, <1>2, FS_EmptySet

LEMMA SumOne ==
  ASSUME NEW e, e.size \in Nat
  PROVE  SumOfSizes({e}) = e.size
<1>1. Bytes({e}) = {e} \X (1..e.size)
  BY DEF Bytes
<1>2. IsFiniteSet({e}) /\ Cardinality({e}) = 1
  BY FS_Singleton
<1>3. IsFiniteSet(1..e.size) /\ Cardinality(1..e.size) = e.size
  <2>1. Cardinality(1..e.size) = IF 1 > e.size THEN 0 ELSE e.size - 1 + 1
    BY FS_Interval
  <2>2. IsFiniteSet(1..e.size)
    BY FS_Interval
  <2> QED
    BY <2>1, <2>2
<1>4. Cardinality({e} \X (1..e.size)) = Cardinality({e}) * Cardinality(1..e.size)
  BY <1>2, <1>3, FS_Product, Zenon
<1>5. SumOfSizes({e}) = Cardinality(Bytes({e}))
  BY DEF SumOfSizes, Bytes
<1>6. SumOfSizes({e}) = 1 * e.size
  BY <1>1, <1>2, <1>3, <1>4, <1>5, Zenon
<1> QED
  BY <1>6

LEMMA SumSplit ==
  ASSUME NEW A, NEW B, IsFiniteSet(A), IsFiniteSet(B), A \cap B = {}, \A e \in A \cup B : e.size \in Nat
  PROVE  SumOfSizes(A \cup B) = SumOfSizes(A) + SumOfSizes(B)
<1>1. Bytes(A \cup B) = Bytes(A) \cup Bytes(B)
  BY DEF Bytes
<1>2. Bytes(A) \cap Bytes(B) = {}
  BY DEF Bytes
<1>3. IsFiniteSet(A \cup B)
  BY FS_Union
<1>4. /\ IsFiniteSet(Bytes(A)) /\ SumOfSizes(A) = Cardinality(Bytes(A)) /\ SumOfSizes(A) \in Nat
      /\ IsFiniteSet(Bytes(B)) /\ SumOfSizes(B) = Cardinality(Bytes(B)) /\ SumOfSizes(B) \in Nat
      /\ SumOfSizes(A \cup B) = Cardinality(Bytes(A \cup B))
  BY <1>3, BytesFinite
<1>5. Cardinality(Bytes(A) \cup Bytes(B)) = Cardinality(Bytes(A)) + Cardinality(Bytes(B)) - Cardinality({})
  BY <1>2, <1>4, FS_Union
<1>6. Cardinality({}) = 0
  BY FS_EmptySet
<1>7. SumOfSizes(A \cup B) = Cardinality(Bytes(A) \cup Bytes(B))
  BY <1>1, <1>4, Zenon
<1>8. SumOfSizes(A \cup B) = SumOfSizes(A) + SumOfSizes(B) - 0
  BY <1>4, <1>5, <1>6, <1>7, Zenon
<1> QED
  BY <1>4, <1>8

-----------------------------------------------------------------------------
(* Lists of entries.                                                       *)

Keys(s) == {s[i].key : i \in DOMAIN s}

\* No two entries of one key, or of one Set.
Distinct(s) == \A i, j \in DOMAIN s : i # j => s[i].key # s[j].key /\ s[i].value # s[j].value

\* s is in the order of use, the latest first; r has the keys used, the latest last.
InOrder(s, r) ==
  \A i, j \in DOMAIN s : i < j => \A p, q \in DOMAIN r : r[p] = s[i].key /\ r[q] = s[j].key => q < p

LEMMA EntryFields ==
  \A e \in Entries : e.key \in Key /\ e.value \in Values /\ e.value \in Nat /\ e.size \in Nat /\ e # NoEntry
<1> SUFFICES ASSUME NEW e \in Entries
             PROVE  e.key \in Key /\ e.value \in Values /\ e.value \in Nat /\ e.size \in Nat /\ e # NoEntry
  OBVIOUS
<1>1. e.key \in Key /\ e.value \in Values /\ e.size \in Size
  BY DEF Entries
<1>2. e.value \in Nat
  BY <1>1, SetsAssumption DEF Values
<1>3. e.size \in Nat
  BY <1>1, SizeAssumption
<1>4. e # NoEntry
  <2>1. DOMAIN e = {"key", "value", "size", "tags", "expires"}
    BY DEF Entries
  <2>2. DOMAIN NoEntry = {"key"}
    BY DEF NoEntry
  <2> QED
    BY <2>1, <2>2
<1> QED
  BY <1>1, <1>2, <1>3, <1>4

LEMMA DomainOfSeq ==
  ASSUME NEW S, NEW s \in Seq(S)
  PROVE  DOMAIN s = 1..Len(s) /\ Len(s) \in Nat /\ \A i \in DOMAIN s : s[i] \in S
  OBVIOUS

\* Elements at different places are different.
LEMMA DistinctCount ==
  ASSUME NEW s \in Seq(Entries), Distinct(s)
  PROVE  /\ Cardinality(ToSet(s)) = Len(s)
         /\ IsFiniteSet(ToSet(s))
         /\ \A d, e \in ToSet(s) : d # e => d.key # e.key /\ d.value # e.value
         /\ \A e \in ToSet(s) : e.size \in Nat
         /\ SumOfSizes(ToSet(s)) \in Nat
<1>1. DOMAIN s = 1..Len(s) /\ \A i \in DOMAIN s : s[i] \in Entries
  BY DomainOfSeq
<1>2. \A i, j \in 1..Len(s) : s[i] = s[j] => i = j
  BY <1>1 DEF Distinct
<1>3. \A d, e \in ToSet(s) : d # e => d.key # e.key /\ d.value # e.value
  BY <1>1 DEF Distinct, ToSet
<1>4. \A e \in ToSet(s) : e.size \in Nat
  BY <1>1, EntryFields DEF ToSet
<1>5. IsFiniteSet(ToSet(s))
  BY ElementsFinite
<1>6. Cardinality(ToSet(s)) = Len(s)
  BY <1>2, ElementsCount
<1> QED
  BY <1>3, <1>4, <1>5, <1>6, BytesFinite

LEMMA KeysOfElements ==
  ASSUME NEW s
  PROVE  Keys(s) = {e.key : e \in ToSet(s)}
  BY DEF Keys, ToSet

LEMMA WithoutList ==
  ASSUME NEW s \in Seq(Entries), Distinct(s), NEW es, es \subseteq ToSet(s)
  PROVE  LET w == Without(s, es) IN
         /\ w \in Seq(Entries)
         /\ Distinct(w)
         /\ Keys(w) = Keys(s) \ {e.key : e \in es}
         /\ Len(w) = Len(s) - Cardinality(es) /\ Cardinality(es) \in Nat
         /\ SumOfSizes(ToSet(w)) = SumOfSizes(ToSet(s)) - SumOfSizes(es)
         /\ \A r : InOrder(s, r) => InOrder(w, r)
<1> DEFINE w == Without(s, es)
<1>1. w \in Seq(Entries) /\ ToSet(w) = ToSet(s) \ es
  BY WithoutKeeps, WithoutElements
<1>2. PICK g : Keeps(w, s, Len(s), es, g)
  BY WithoutKeeps
<1> HIDE DEF w
<1>3. DOMAIN w = 1..Len(w) /\ Len(w) \in Nat /\ DOMAIN s = 1..Len(s) /\ Len(s) \in Nat
  BY <1>1, DomainOfSeq
<1>4. \A i \in DOMAIN w : g[i] \in DOMAIN s /\ w[i] = s[g[i]] /\ g[i] \in Nat
  BY <1>2, <1>3 DEF Keeps
<1>5. \A i, j \in DOMAIN w : i < j => g[i] < g[j]
  BY <1>2, <1>3 DEF Keeps
<1>6. \A i, j \in DOMAIN w : i # j => g[i] # g[j]
  <2> SUFFICES ASSUME NEW i \in DOMAIN w, NEW j \in DOMAIN w, i # j
               PROVE  g[i] # g[j]
    OBVIOUS
  <2>1. i < j \/ j < i
    BY <1>3
  <2> QED
    BY <1>4, <1>5, <2>1
<1>7. Distinct(w)
  BY <1>4, <1>6 DEF Distinct
<1>8. ASSUME NEW r, InOrder(s, r)
      PROVE  InOrder(w, r)
  BY <1>4, <1>5, <1>8 DEF InOrder
<1>9. Keys(w) = Keys(s) \ {e.key : e \in es}
  BY <1>1, KeysOfElements, DistinctCount
<1>10. IsFiniteSet(es) /\ IsFiniteSet(ToSet(w)) /\ IsFiniteSet(ToSet(s))
  BY <1>1, DistinctCount, FS_Subset
<1>11. Len(w) = Len(s) - Cardinality(es)
  <2>1. Cardinality(ToSet(s) \ es) = Cardinality(ToSet(s)) - Cardinality(ToSet(s) \cap es)
    BY <1>10, FS_Difference
  <2>2. ToSet(s) \cap es = es
    OBVIOUS
  <2>3. Cardinality(ToSet(w)) = Len(w) /\ Cardinality(ToSet(s)) = Len(s)
    BY <1>1, <1>7, DistinctCount
  <2> QED
    BY <1>1, <2>1, <2>2, <2>3
<1>12. SumOfSizes(ToSet(w)) = SumOfSizes(ToSet(s)) - SumOfSizes(es)
  <2>1. ToSet(s) = ToSet(w) \cup es /\ ToSet(w) \cap es = {}
    BY <1>1
  <2>2. \A e \in ToSet(w) \cup es : e.size \in Nat
    BY <2>1, DistinctCount
  <2>3. SumOfSizes(ToSet(w) \cup es) = SumOfSizes(ToSet(w)) + SumOfSizes(es)
    BY <1>10, <2>1, <2>2, SumSplit
  <2>4. SumOfSizes(ToSet(w)) \in Nat /\ SumOfSizes(es) \in Nat
    BY <1>10, <2>2, BytesFinite
  <2> QED
    BY <2>1, <2>3, <2>4
<1>13. Cardinality(es) \in Nat
  BY <1>10, FS_CardinalityType
<1> QED
  BY <1>1, <1>7, <1>8, <1>9, <1>11, <1>12, <1>13 DEF w

LEMMA FrontElements ==
  ASSUME NEW w \in Seq(Entries), NEW n \in Entries
  PROVE  ToSet(<<n>> \o w) = ToSet(w) \cup {n}
<1> DEFINE f == <<n>> \o w
<1>1. /\ DOMAIN f = 1..(Len(w) + 1) /\ DOMAIN w = 1..Len(w) /\ Len(w) \in Nat
      /\ f[1] = n
      /\ \A i \in 1..(Len(w) + 1) : i # 1 => i - 1 \in 1..Len(w) /\ f[i] = w[i - 1]
      /\ \A i \in 1..Len(w) : i + 1 \in 1..(Len(w) + 1) /\ f[i + 1] = w[i]
      /\ 1 \in 1..(Len(w) + 1)
  OBVIOUS
<1> HIDE DEF f
<1>2. \A i \in DOMAIN f : f[i] \in ToSet(w) \cup {n}
  BY <1>1 DEF ToSet
<1>3. \A i \in DOMAIN w : w[i] \in ToSet(f)
  <2> SUFFICES ASSUME NEW i \in 1..Len(w)
               PROVE  w[i] \in ToSet(f)
    BY <1>1
  <2>1. i + 1 \in DOMAIN f /\ f[i + 1] = w[i]
    BY <1>1
  <2> QED
    BY <2>1 DEF ToSet
<1>4. n \in ToSet(f)
  BY <1>1 DEF ToSet
<1> QED
  BY <1>2, <1>3, <1>4 DEF ToSet, f

\* The entry n in front of the list w.
LEMMA FrontList ==
  ASSUME NEW w \in Seq(Entries), Distinct(w), NEW n \in Entries,
         \A e \in ToSet(w) : e.key # n.key /\ e.value # n.value
  PROVE  LET f == <<n>> \o w IN
         /\ f \in Seq(Entries)
         /\ Distinct(f)
         /\ ToSet(f) = ToSet(w) \cup {n}
         /\ Keys(f) = Keys(w) \cup {n.key}
         /\ Len(f) = Len(w) + 1
         /\ SumOfSizes(ToSet(f)) = SumOfSizes(ToSet(w)) + n.size
<1> DEFINE f == <<n>> \o w
<1>1. /\ f \in Seq(Entries) /\ Len(f) = Len(w) + 1
      /\ f[1] = n
      /\ \A i \in 1..Len(f) : i # 1 => i - 1 \in 1..Len(w) /\ f[i] = w[i - 1]
      /\ \A i \in 1..Len(w) : i + 1 \in 1..Len(f) /\ f[i + 1] = w[i]
  OBVIOUS
<1> HIDE DEF f
<1>2. DOMAIN w = 1..Len(w) /\ Len(w) \in Nat /\ DOMAIN f = 1..Len(f) /\ Len(f) \in Nat
  BY <1>1, DomainOfSeq
<1>3. \A i \in 1..Len(w) : w[i].key # n.key /\ w[i].value # n.value
  BY <1>2 DEF ToSet
<1>4. Distinct(f)
  <2> SUFFICES ASSUME NEW i \in 1..Len(f), NEW j \in 1..Len(f), i # j
               PROVE  f[i].key # f[j].key /\ f[i].value # f[j].value
    BY <1>2 DEF Distinct
  <2>1. CASE i = 1
    <3>1. f[i] = n /\ j - 1 \in 1..Len(w) /\ f[j] = w[j - 1]
      BY <1>1, <2>1
    <3> QED
      BY <1>3, <3>1
  <2>2. CASE j = 1
    <3>1. f[j] = n /\ i - 1 \in 1..Len(w) /\ f[i] = w[i - 1]
      BY <1>1, <2>2
    <3> QED
      BY <1>3, <3>1
  <2>3. CASE i # 1 /\ j # 1
    <3>1. i - 1 \in 1..Len(w) /\ j - 1 \in 1..Len(w) /\ i - 1 # j - 1 /\ f[i] = w[i - 1] /\ f[j] = w[j - 1]
      BY <1>1, <1>2, <2>3
    <3> QED
      BY <1>2, <3>1 DEF Distinct
  <2> QED
    BY <2>1, <2>2, <2>3
<1>5. ToSet(f) = ToSet(w) \cup {n}
  BY FrontElements DEF f
<1>6. Keys(f) = Keys(w) \cup {n.key}
  BY <1>5, KeysOfElements
<1>7. SumOfSizes(ToSet(f)) = SumOfSizes(ToSet(w)) + n.size
  <2>1. n \notin ToSet(w)
    OBVIOUS
  <2>2. IsFiniteSet({n}) /\ IsFiniteSet(ToSet(w))
    BY FS_Singleton, DistinctCount
  <2>3. n.size \in Nat /\ \A e \in ToSet(w) \cup {n} : e.size \in Nat
    BY DistinctCount, EntryFields
  <2>4. SumOfSizes(ToSet(w) \cup {n}) = SumOfSizes(ToSet(w)) + SumOfSizes({n})
    BY <2>1, <2>2, <2>3, SumSplit
  <2>5. SumOfSizes({n}) = n.size
    BY <2>3, SumOne
  <2> QED
    BY <1>5, <2>4, <2>5
<1> QED
  BY <1>1, <1>4, <1>5, <1>6, <1>7 DEF f

\* The key of the entry in front was used last.
LEMMA FrontOrder ==
  ASSUME NEW w \in Seq(Entries), NEW n \in Entries, \A e \in ToSet(w) : e.key # n.key,
         NEW r \in Seq(Key), InOrder(w, r)
  PROVE  LET t == Append(Without(r, {n.key}), n.key) IN
         t \in Seq(Key) /\ InOrder(<<n>> \o w, t)
<1> DEFINE u == Without(r, {n.key})
<1> DEFINE t == Append(u, n.key)
<1> DEFINE f == <<n>> \o w
<1>1. u \in Seq(Key)
  BY WithoutKeeps
<1>2. PICK g : Keeps(u, r, Len(r), {n.key}, g)
  BY WithoutKeeps
<1> HIDE DEF u
<1>3. n.key \in Key
  BY EntryFields
<1>4. /\ t \in Seq(Key) /\ Len(t) = Len(u) + 1 /\ Len(u) \in Nat
      /\ t[Len(u) + 1] = n.key
      /\ \A p \in 1..Len(u) : t[p] = u[p]
  BY <1>1, <1>3
<1>5. /\ f \in Seq(Entries) /\ Len(f) = Len(w) + 1
      /\ f[1] = n
      /\ \A i \in 1..Len(f) : i # 1 => i - 1 \in 1..Len(w) /\ f[i] = w[i - 1]
  OBVIOUS
<1> HIDE DEF t, f
<1>6. /\ DOMAIN w = 1..Len(w) /\ Len(w) \in Nat /\ DOMAIN f = 1..Len(f) /\ Len(f) \in Nat
      /\ DOMAIN t = 1..Len(t) /\ DOMAIN r = 1..Len(r) /\ Len(r) \in Nat
  BY <1>4, <1>5, DomainOfSeq
<1>7. \A i \in 1..Len(w) : w[i].key # n.key
  BY <1>6 DEF ToSet
<1>8. \A p \in 1..Len(u) : g[p] \in 1..Len(r) /\ t[p] = r[g[p]] /\ t[p] # n.key
  BY <1>2, <1>4 DEF Keeps
<1>9. \A p, q \in 1..Len(u) : g[q] < g[p] => q < p
  <2> SUFFICES ASSUME NEW p \in 1..Len(u), NEW q \in 1..Len(u), g[q] < g[p], ~(q < p)
               PROVE  FALSE
    OBVIOUS
  <2>1. p = q \/ p < q
    BY <1>4
  <2>2. g[p] \in Nat /\ g[q] \in Nat
    BY <1>6, <1>8
  <2> QED
    BY <1>2, <2>1, <2>2 DEF Keeps
<1>10. \A a, b \in 1..Len(w) : a < b => \A x, y \in 1..Len(r) : r[x] = w[a].key /\ r[y] = w[b].key => y < x
  BY <1>6 DEF InOrder
<1>11. InOrder(f, t)
  <2> SUFFICES ASSUME NEW i \in 1..Len(f), NEW j \in 1..Len(f), i < j,
                      NEW p \in 1..Len(t), NEW q \in 1..Len(t), t[p] = f[i].key, t[q] = f[j].key
               PROVE  q < p
    BY <1>6 DEF InOrder
  <2>1. j - 1 \in 1..Len(w) /\ f[j] = w[j - 1] /\ t[q] # n.key
    BY <1>5, <1>6, <1>7
  <2>2. q \in 1..Len(u)
    BY <1>4, <2>1
  <2>3. CASE i = 1
    <3>1. t[p] = n.key
      BY <1>5, <2>3
    <3>2. p = Len(u) + 1
      BY <1>4, <1>8, <3>1
    <3> QED
      BY <1>4, <2>2, <3>2
  <2>4. CASE i # 1
    <3>1. i - 1 \in 1..Len(w) /\ f[i] = w[i - 1] /\ i - 1 < j - 1 /\ t[p] # n.key
      BY <1>5, <1>6, <1>7, <2>4
    <3>2. p \in 1..Len(u)
      BY <1>4, <3>1
    <3>3. g[q] < g[p]
      <4>1. r[g[p]] = w[i - 1].key /\ r[g[q]] = w[j - 1].key /\ g[p] \in 1..Len(r) /\ g[q] \in 1..Len(r)
        BY <1>8, <2>1, <2>2, <3>1, <3>2
      <4> QED
        BY <1>10, <2>1, <3>1, <4>1
    <3> QED
      BY <1>9, <2>2, <3>2, <3>3
  <2> QED
    BY <2>3, <2>4
<1> QED
  BY <1>4, <1>11 DEF t, f, u

-----------------------------------------------------------------------------
(* The inductive invariant.                                                *)

\* Map, list and counters describe the same entries, which fit.
ListInv ==
  /\ items = Keys(evictList)
  /\ Distinct(evictList)
  /\ currentSize = SumOfSizes(ToSet(evictList))
  /\ entryCount = Len(evictList)
  /\ Len(evictList) <= Capacity

\* The values are those of past Sets; the one that waits for room is the last, and new.
ValuesInv ==
  /\ \A e \in ToSet(evictList) : e.value <= sets
  /\ \A v \in overwritten : v <= sets
  /\ pending # NoEntry =>
       /\ pending.key \notin items
       /\ pending.value = sets
       /\ ~Stored(sets) /\ sets \notin overwritten

IInv == TypeOK /\ ListInv /\ ValuesInv /\ InOrder(evictList, recent) /\ NotifiedOnce

-----------------------------------------------------------------------------
(* The groups of steps.                                                    *)

LEMMA FoundFacts ==
  ASSUME ListInv
  PROVE  /\ \A ks : Found(ks) = {e \in ToSet(evictList) : e.key \in ks}
         /\ \A k \in items : \E e \in ToSet(evictList) : e.key = k /\ Found({k}) = {e}
         /\ \A k : k \notin items => Found({k}) = {}
<1>1. items = {e.key : e \in ToSet(evictList)}
  BY KeysOfElements DEF ListInv
<1>2. \A ks : Found(ks) = {e \in ToSet(evictList) : e.key \in ks}
  BY <1>1 DEF Found
<1>3. \A d, e \in ToSet(evictList) : d.key = e.key => d = e
  BY DEF ListInv, Distinct, ToSet
<1>4. ASSUME NEW k \in items
      PROVE  \E e \in ToSet(evictList) : e.key = k /\ Found({k}) = {e}
  BY <1>1, <1>2, <1>3
<1>5. ASSUME NEW k, k \notin items
      PROVE  Found({k}) = {}
  BY <1>1, <1>2, <1>5
<1> QED
  BY <1>2, <1>4, <1>5

LEMMA StoredFacts ==
  /\ \A v : Stored(v) <=> \E e \in ToSet(evictList) : e.value = v
  /\ \A v : Stored(v)' <=> \E e \in ToSet(evictList') : e.value = v
  BY DEF Stored, ToSet

\* removeElement, for any set of elements.
LEMMA RemoveStep ==
  ASSUME IInv, NEW es, es \subseteq ToSet(evictList), RemoveElements(es), closed' \in BOOLEAN,
         UNCHANGED <<pending, sets, overwritten, recent>>
  PROVE  IInv'
<1>1. evictList \in Seq(Entries) /\ Distinct(evictList) /\ items = Keys(evictList)
  BY DEF IInv, TypeOK, ListInv
<1>2. evictList' = Without(evictList, es)
  BY DEF RemoveElements
<1>3. /\ evictList' \in Seq(Entries)
      /\ Distinct(evictList')
      /\ Keys(evictList') = Keys(evictList) \ {e.key : e \in es}
      /\ Len(evictList') = Len(evictList) - Cardinality(es) /\ Cardinality(es) \in Nat
      /\ SumOfSizes(ToSet(evictList')) = SumOfSizes(ToSet(evictList)) - SumOfSizes(es)
      /\ InOrder(evictList, recent) => InOrder(evictList', recent)
  BY <1>1, <1>2, WithoutList
<1>4. ToSet(evictList') = ToSet(evictList) \ es
  BY <1>1, <1>2, WithoutElements
<1>5. ListInv'
  <2>1. items' = Keys(evictList')
    BY <1>1, <1>3 DEF RemoveElements
  <2>2. currentSize' = SumOfSizes(ToSet(evictList'))
    BY <1>3 DEF RemoveElements, IInv, ListInv
  <2>3. entryCount' = Len(evictList')
    BY <1>3 DEF RemoveElements, IInv, ListInv
  <2>4. Len(evictList') <= Capacity
    <3>1. Len(evictList) \in Nat /\ Len(evictList) <= Capacity /\ Capacity \in Nat
      BY <1>1, CapacityAssumption DEF IInv, ListInv
    <3> QED
      BY <1>3, <3>1
  <2> QED
    BY <1>3, <2>1, <2>2, <2>3, <2>4 DEF ListInv
<1>6. \A v \in Values : LET gone == {e \in es : e.value = v} IN
        \/ gone = {} /\ Cardinality(gone) = 0 /\ (Stored(v)' <=> Stored(v))
        \/ gone # {} /\ Cardinality(gone) = 1 /\ Stored(v) /\ ~Stored(v)'
  <2> SUFFICES ASSUME NEW v \in Values
               PROVE  LET gone == {e \in es : e.value = v} IN
                      \/ gone = {} /\ Cardinality(gone) = 0 /\ (Stored(v)' <=> Stored(v))
                      \/ gone # {} /\ Cardinality(gone) = 1 /\ Stored(v) /\ ~Stored(v)'
    OBVIOUS
  <2> DEFINE gone == {e \in es : e.value = v}
  <2>1. CASE gone = {}
    <3>1. Cardinality(gone) = 0
      BY <2>1, FS_EmptySet
    <3>2. Stored(v)' <=> Stored(v)
      BY <1>4, <2>1, StoredFacts
    <3> QED
      BY <2>1, <3>1, <3>2
  <2>2. CASE gone # {}
    <3>1. PICK e \in es : e.value = v
      BY <2>2
    <3>2. \A d \in ToSet(evictList) : d.value = v => d = e
      BY <1>1, <3>1, DistinctCount
    <3>3. gone = {e}
      BY <3>1, <3>2
    <3>4. Cardinality(gone) = 1
      BY <3>3, FS_Singleton
    <3>5. Stored(v) /\ ~Stored(v)'
      BY <1>4, <3>1, <3>2, StoredFacts
    <3> QED
      BY <2>2, <3>4, <3>5
  <2> QED
    BY <2>1, <2>2
<1>7. notified' = [v \in Values |-> notified[v] + Cardinality({e \in es : e.value = v})]
  BY DEF RemoveElements, Notify
<1>8. TypeOK'
  <2>1. notified' \in [Values -> Nat]
    <3>1. \A v \in Values : notified[v] + Cardinality({e \in es : e.value = v}) \in Nat
      <4>1. \A v \in Values : notified[v] \in Nat
        BY DEF IInv, TypeOK
      <4>2. \A v \in Values : \/ Cardinality({e \in es : e.value = v}) = 0
                              \/ Cardinality({e \in es : e.value = v}) = 1
        BY <1>6, Zenon
      <4>3. \A a, c : a \in Nat /\ (c = 0 \/ c = 1) => a + c \in Nat
        OBVIOUS
      <4> QED
        BY <4>1, <4>2, <4>3, Zenon
    <3> QED
      BY <1>7, <3>1
  <2>2. items' \subseteq Key
    BY DEF RemoveElements, IInv, TypeOK
  <2>3. currentSize' \in Nat /\ entryCount' \in Nat
    BY <1>3, <1>5, DistinctCount DEF ListInv
  <2> QED
    BY <1>3, <2>1, <2>2, <2>3 DEF IInv, TypeOK
<1>9. ValuesInv'
  <2>1. items' \subseteq items
    BY DEF RemoveElements
  <2>2. \A e \in ToSet(evictList') : e.value <= sets'
    BY <1>4 DEF IInv, ValuesInv
  <2>3. Stored(sets)' => Stored(sets)
    BY <1>4, StoredFacts
  <2> QED
    BY <2>1, <2>2, <2>3 DEF IInv, ValuesInv
<1>10. NotifiedOnce'
  <2> SUFFICES ASSUME NEW v \in Values
               PROVE  /\ notified'[v] = IF v > sets' \/ Stored(v)' \/ Waiting(v)' \/ v \in overwritten' THEN 0 ELSE 1
                      /\ v \in overwritten' => ~Stored(v)'
    BY DEF NotifiedOnce
  <2>1. /\ notified[v] = IF v > sets \/ Stored(v) \/ Waiting(v) \/ v \in overwritten THEN 0 ELSE 1
        /\ v \in overwritten => ~Stored(v)
    BY DEF IInv, NotifiedOnce
  <2>2. Waiting(v)' = Waiting(v)
    BY DEF Waiting
  <2>3. notified'[v] = notified[v] + Cardinality({e \in es : e.value = v})
    BY <1>7
  <2>4. CASE Stored(v) /\ ~Stored(v)' /\ Cardinality({e \in es : e.value = v}) = 1
    <3>1. ~(v > sets)
      <4>1. v \in Nat /\ sets \in Nat
        BY SetsAssumption DEF IInv, TypeOK, Values
      <4>2. Stored(v) => v <= sets
        BY StoredFacts DEF IInv, ValuesInv
      <4> QED
        BY <2>4, <4>1, <4>2
    <3>2. ~Waiting(v)
      BY <2>4 DEF Waiting, IInv, ValuesInv
    <3> QED
      BY <2>1, <2>2, <2>3, <2>4, <3>1, <3>2
  <2>5. CASE Cardinality({e \in es : e.value = v}) = 0 /\ (Stored(v)' <=> Stored(v))
    <3>1. notified'[v] = notified[v]
      BY <2>1, <2>3, <2>5
    <3> QED
      BY <2>1, <2>2, <2>5, <3>1
  <2> QED
    BY <1>6, <2>4, <2>5
<1> QED
  BY <1>3, <1>5, <1>8, <1>9, <1>10 DEF IInv

\* An element moves to the front with the entry n: its own, or that of a new Set of its key.
LEMMA MoveStep ==
  ASSUME IInv, Unlocked, NEW n \in Entries, NEW old \in Found({n.key}),
         evictList' = MovedToFront(n), Touch(n.key),
         currentSize' = currentSize - old.size + n.size,
         UNCHANGED <<items, entryCount, pending, closed, notified>>,
         \/ n.value = old.value /\ UNCHANGED <<sets, overwritten>>
         \/ /\ n.value = sets + 1 /\ sets' = sets + 1 /\ sets' \in 0..MaxSets
            /\ overwritten' = overwritten \cup {old.value}
  PROVE  IInv'
<1> DEFINE w == Without(evictList, {old})
<1>1. /\ evictList \in Seq(Entries) /\ Distinct(evictList) /\ items = Keys(evictList)
      /\ InOrder(evictList, recent) /\ recent \in Seq(Key) /\ sets \in Nat /\ sets' \in Nat
  BY SetsAssumption DEF IInv, TypeOK, ListInv
<1>2. Found({n.key}) = {old} /\ old \in ToSet(evictList) /\ old.key = n.key /\ old \in Entries
  <2>1. old \in ToSet(evictList) /\ old.key = n.key
    BY FoundFacts DEF IInv
  <2>2. \A d, e \in ToSet(evictList) : d.key = e.key => d = e
    BY <1>1, DistinctCount
  <2>3. old \in Entries
    BY <1>1, <2>1, DomainOfSeq DEF ToSet
  <2>4. Found({n.key}) = {e \in ToSet(evictList) : e.key \in {n.key}}
    BY FoundFacts DEF IInv
  <2> QED
    BY <2>1, <2>2, <2>3, <2>4
<1>3. evictList' = <<n>> \o w
  BY <1>2 DEF MovedToFront
<1>4. /\ w \in Seq(Entries)
      /\ Distinct(w)
      /\ Keys(w) = Keys(evictList) \ {n.key}
      /\ Len(w) = Len(evictList) - Cardinality({old}) /\ Cardinality({old}) \in Nat
      /\ SumOfSizes(ToSet(w)) = SumOfSizes(ToSet(evictList)) - SumOfSizes({old})
      /\ InOrder(w, recent)
  <2>1. {e.key : e \in {old}} = {n.key}
    BY <1>2
  <2> QED
    BY <1>1, <1>2, <2>1, WithoutList
<1>5. ToSet(w) = ToSet(evictList) \ {old}
  BY <1>1, WithoutElements
<1> HIDE DEF w
<1>6. \A e \in ToSet(evictList) : e.value \in Nat /\ e.value <= sets
  BY <1>1, DomainOfSeq, EntryFields DEF IInv, ValuesInv, ToSet
<1>7. \A e \in ToSet(w) : e.key # n.key /\ e.value # n.value
  <2> SUFFICES ASSUME NEW e \in ToSet(w)
               PROVE  e.key # n.key /\ e.value # n.value
    OBVIOUS
  <2>1. e \in ToSet(evictList) /\ e # old
    BY <1>5
  <2>2. e.key # n.key /\ e.value # old.value
    BY <1>1, <1>2, <2>1, DistinctCount
  <2>3. e.value # sets + 1
    BY <1>1, <1>6, <2>1
  <2> QED
    BY <2>2, <2>3
<1>8. /\ evictList' \in Seq(Entries)
      /\ Distinct(evictList')
      /\ ToSet(evictList') = ToSet(w) \cup {n}
      /\ Keys(evictList') = Keys(w) \cup {n.key}
      /\ Len(evictList') = Len(w) + 1
      /\ SumOfSizes(ToSet(evictList')) = SumOfSizes(ToSet(w)) + n.size
  BY <1>3, <1>4, <1>7, FrontList
<1>9. recent' \in Seq(Key) /\ InOrder(evictList', recent')
  BY <1>1, <1>3, <1>4, <1>7, FrontOrder DEF Touch
<1>10. ListInv'
  <2>1. n.key \in Keys(evictList)
    BY <1>2, KeysOfElements
  <2>2. items' = Keys(evictList')
    BY <1>1, <1>4, <1>8, <2>1
  <2>3. Cardinality({old}) = 1 /\ Len(evictList) \in Nat
    <3>1. Cardinality({old}) = 1
      BY FS_Singleton
    <3> QED
      BY <1>1, <3>1, DomainOfSeq
  <2>4. Len(evictList') = Len(evictList)
    BY <1>4, <1>8, <2>3
  <2>5. SumOfSizes({old}) = old.size /\ old.size \in Nat /\ n.size \in Nat /\ SumOfSizes(ToSet(evictList)) \in Nat
    BY <1>1, <1>2, EntryFields, SumOne, DistinctCount
  <2>6. currentSize' = SumOfSizes(ToSet(evictList'))
    BY <1>4, <1>8, <2>5 DEF IInv, ListInv
  <2> QED
    BY <1>8, <2>2, <2>4, <2>6 DEF IInv, ListInv
<1>11. TypeOK'
  <2>1. currentSize' \in Nat
    BY <1>8, <1>10, DistinctCount DEF ListInv
  <2>2. overwritten' \subseteq Values /\ sets' \in 0..MaxSets
    BY <1>2, EntryFields DEF IInv, TypeOK
  <2> QED
    BY <1>8, <1>9, <2>1, <2>2 DEF IInv, TypeOK
<1>12. ValuesInv'
  <2>1. \A e \in ToSet(evictList') : e.value <= sets'
    BY <1>1, <1>2, <1>5, <1>6, <1>8
  <2>2. \A v \in overwritten' : v <= sets'
    <3>1. \A v \in overwritten : v \in Nat /\ v <= sets
      BY SetsAssumption DEF IInv, TypeOK, ValuesInv, Values
    <3> QED
      BY <1>1, <1>2, <1>6, <3>1
  <2> QED
    BY <2>1, <2>2 DEF ValuesInv, Unlocked
<1>13. NotifiedOnce'
  <2> SUFFICES ASSUME NEW v \in Values
               PROVE  /\ notified'[v] = IF v > sets' \/ Stored(v)' \/ Waiting(v)' \/ v \in overwritten' THEN 0 ELSE 1
                      /\ v \in overwritten' => ~Stored(v)'
    BY DEF NotifiedOnce
  <2>1. /\ notified[v] = IF v > sets \/ Stored(v) \/ Waiting(v) \/ v \in overwritten THEN 0 ELSE 1
        /\ v \in overwritten => ~Stored(v)
    BY DEF IInv, NotifiedOnce
  <2>2. ~Waiting(v) /\ ~Waiting(v)' /\ v \in Nat
    BY SetsAssumption DEF Waiting, Unlocked, Values
  <2>3. \A e \in ToSet(evictList) : e.value = old.value => e = old
    BY <1>1, <1>2, DistinctCount
  <2>4. Stored(v)' <=> v = n.value \/ (Stored(v) /\ v # old.value)
    BY <1>2, <1>5, <1>8, <2>3, StoredFacts
  <2>5. Stored(old.value) /\ old.value \in Nat /\ old.value <= sets
    BY <1>2, <1>6, StoredFacts
  <2>6. CASE n.value = old.value /\ UNCHANGED <<sets, overwritten>>
    BY <2>1, <2>2, <2>4, <2>5, <2>6
  <2>7. CASE n.value = sets + 1 /\ sets' = sets + 1 /\ overwritten' = overwritten \cup {old.value}
    <3>1. v \in overwritten => v <= sets
      BY DEF IInv, ValuesInv
    <3>2. Stored(v) => v <= sets
      BY <1>6, StoredFacts
    <3>3. v > sets' => v > sets
      BY <1>1, <2>2, <2>7
    <3>4. v > sets => v > sets' \/ v = sets + 1
      BY <1>1, <2>2, <2>7
    <3>5. v \in overwritten' => ~Stored(v)'
      BY <1>1, <2>1, <2>2, <2>4, <2>5, <2>7, <3>1
    <3>6. (v > sets \/ Stored(v) \/ v \in overwritten) <=> (v > sets' \/ Stored(v)' \/ v \in overwritten')
      BY <2>4, <2>5, <2>7, <3>3, <3>4, <1>1, <2>2
    <3> QED
      BY <2>1, <2>2, <3>5, <3>6
  <2> QED
    BY <2>6, <2>7
<1> QED
  BY <1>9, <1>10, <1>11, <1>12, <1>13 DEF IInv

LEMMA NewEntry ==
  ASSUME TypeOK, sets < MaxSets, NEW k \in Key, NEW size \in Size, NEW ttl, NEW tags \in SUBSET Tag
  PROVE  [key |-> k, value |-> sets + 1, size |-> size, tags |-> tags, expires |-> ExpiresAt(ttl)] \in Entries
<1>1. sets + 1 \in Values /\ sets + 1 \in 0..MaxSets
  BY SetsAssumption DEF TypeOK, Values
<1>2. ExpiresAt(ttl) \in {"never", "later", "past"}
  BY DEF ExpiresAt
<1> QED
  BY <1>1, <1>2 DEF Entries

\* A Set of a new key starts to make room.
LEMMA RoomStep ==
  ASSUME IInv, Unlocked, NEW n \in Entries, MakeRoom(n), n.value = sets + 1, sets' = sets + 1, sets' \in 0..MaxSets,
         UNCHANGED closed
  PROVE  IInv'
<1>1. /\ UNCHANGED <<items, evictList, currentSize, entryCount, notified, overwritten, recent>>
      /\ pending' = n /\ n.key \notin items
  BY DEF MakeRoom, cache, history
<1>2. sets \in Nat /\ sets' \in Nat /\ n \in Entries /\ n # NoEntry
  BY SetsAssumption, EntryFields DEF IInv, TypeOK
<1>3. TypeOK'
  BY <1>1, <1>2 DEF IInv, TypeOK
<1>4. ListInv' /\ InOrder(evictList', recent')
  BY <1>1 DEF IInv, ListInv
<1>5. \A v : Stored(v)' <=> Stored(v)
  BY <1>1 DEF Stored
<1>6. \A e \in ToSet(evictList) : e.value \in Nat /\ e.value <= sets
  BY DomainOfSeq, EntryFields DEF IInv, TypeOK, ValuesInv, ToSet
<1>7. \A v \in overwritten : v \in Nat /\ v <= sets
  BY SetsAssumption DEF IInv, TypeOK, ValuesInv, Values
<1>8. ~Stored(sets + 1) /\ sets + 1 \notin overwritten
  <2>1. \A v \in Nat : v <= sets => v # sets + 1
    BY <1>2
  <2> QED
    BY <1>6, <1>7, <2>1, StoredFacts
<1>9. ValuesInv'
  <2>1. \A e \in ToSet(evictList') : e.value <= sets'
    BY <1>1, <1>2, <1>6
  <2>2. \A v \in overwritten' : v <= sets'
    BY <1>1, <1>2, <1>7
  <2>3. ~Stored(sets)' /\ sets' \notin overwritten'
    BY <1>1, <1>8 DEF Stored
  <2> QED
    BY <1>1, <2>1, <2>2, <2>3 DEF ValuesInv
<1>10. NotifiedOnce'
  <2> SUFFICES ASSUME NEW v \in Values
               PROVE  /\ notified'[v] = IF v > sets' \/ Stored(v)' \/ Waiting(v)' \/ v \in overwritten' THEN 0 ELSE 1
                      /\ v \in overwritten' => ~Stored(v)'
    BY DEF NotifiedOnce
  <2>1. /\ notified[v] = IF v > sets \/ Stored(v) \/ Waiting(v) \/ v \in overwritten THEN 0 ELSE 1
        /\ v \in overwritten => ~Stored(v)
    BY DEF IInv, NotifiedOnce
  <2>2. ~Waiting(v) /\ (Waiting(v)' <=> v = sets + 1)
    BY <1>1, <1>2 DEF Waiting, Unlocked
  <2>3. v > sets <=> v > sets' \/ v = sets + 1
    BY <1>2, SetsAssumption DEF Values
  <2> QED
    BY <1>1, <1>5, <2>1, <2>2, <2>3
<1> QED
  BY <1>3, <1>4, <1>9, <1>10 DEF IInv

\* Set and SetWithTags of any key.
LEMMA PutStep ==
  ASSUME IInv, NEW k \in Key, NEW size \in Size, NEW ttl, NEW tags \in SUBSET Tag, Put(k, size, ttl, tags)
  PROVE  IInv'
<1> DEFINE new == [key |-> k, value |-> sets + 1, size |-> size, tags |-> tags, expires |-> ExpiresAt(ttl)]
<1>1. Unlocked /\ sets < MaxSets /\ sets' = sets + 1 /\ UNCHANGED closed /\ (Overwrite(new) \/ MakeRoom(new))
  BY DEF Put
<1>2. new \in Entries /\ new.value = sets + 1
  BY <1>1, NewEntry DEF IInv
<1>3. sets' \in 0..MaxSets
  BY <1>1, SetsAssumption DEF IInv, TypeOK
<1> HIDE DEF new
<1>4. CASE MakeRoom(new)
  BY <1>1, <1>2, <1>3, <1>4, RoomStep
<1>5. CASE Overwrite(new)
  <2>1. PICK old \in Found({new.key}) :
          /\ evictList' = MovedToFront(new)
          /\ currentSize' = currentSize - old.size + new.size
          /\ overwritten' = overwritten \cup {old.value}
          /\ Touch(new.key)
          /\ UNCHANGED <<items, entryCount, pending, notified>>
    BY <1>5 DEF Overwrite
  <2> QED
    BY <1>1, <1>2, <1>3, <2>1, MoveStep
<1> QED
  BY <1>1, <1>4, <1>5

LEMMA HitStep ==
  ASSUME IInv, NEW k \in Key, GetHit(k)
  PROVE  IInv'
<1>1. PICK e \in Found({k}) : evictList' = MovedToFront(e)
  BY DEF GetHit
<1>2. e \in ToSet(evictList) /\ e.key = k
  BY FoundFacts DEF IInv
<1>3. e \in Entries
  BY <1>2, DomainOfSeq DEF IInv, TypeOK, ToSet
<1>4. currentSize' = currentSize - e.size + e.size
  BY <1>3, EntryFields DEF GetHit, IInv, TypeOK
<1>5. /\ Unlocked /\ Touch(e.key) /\ e \in Found({e.key})
      /\ UNCHANGED <<items, entryCount, pending, closed, notified, sets, overwritten>>
  BY <1>2 DEF GetHit
<1> QED
  BY <1>1, <1>3, <1>4, <1>5, MoveStep

\* A Set of a new key ends: the entry it brought comes to the front.
LEMMA InsertStep ==
  ASSUME IInv, Insert
  PROVE  IInv'
<1> DEFINE n == pending
<1>1. /\ pending # NoEntry /\ ~Full(n)
      /\ evictList' = <<n>> \o evictList
      /\ items' = items \cup {n.key}
      /\ currentSize' = currentSize + n.size
      /\ entryCount' = entryCount + 1
      /\ pending' = NoEntry
      /\ recent' = Append(Without(recent, {n.key}), n.key)
      /\ UNCHANGED <<closed, sets, notified, overwritten>>
  BY DEF Insert, Touch
<1>2. /\ n \in Entries
      /\ evictList \in Seq(Entries) /\ Distinct(evictList) /\ items = Keys(evictList)
      /\ InOrder(evictList, recent) /\ recent \in Seq(Key) /\ sets \in Nat
  BY <1>1, SetsAssumption DEF IInv, TypeOK, ListInv
<1>3. n.key \notin items /\ n.value = sets /\ ~Stored(sets) /\ sets \notin overwritten
  BY <1>1 DEF IInv, ValuesInv
<1> HIDE DEF n
<1>4. \A e \in ToSet(evictList) : e.key # n.key /\ e.value # n.value
  BY <1>2, <1>3, KeysOfElements, StoredFacts
<1>5. /\ evictList' \in Seq(Entries)
      /\ Distinct(evictList')
      /\ ToSet(evictList') = ToSet(evictList) \cup {n}
      /\ Keys(evictList') = Keys(evictList) \cup {n.key}
      /\ Len(evictList') = Len(evictList) + 1
      /\ SumOfSizes(ToSet(evictList')) = SumOfSizes(ToSet(evictList)) + n.size
  BY <1>1, <1>2, <1>4, FrontList
<1>6. recent' \in Seq(Key) /\ InOrder(evictList', recent')
  BY <1>1, <1>2, <1>4, FrontOrder
<1>7. ListInv'
  <2>1. items' = Keys(evictList')
    BY <1>1, <1>2, <1>5
  <2>2. currentSize' = SumOfSizes(ToSet(evictList')) /\ entryCount' = Len(evictList')
    BY <1>1, <1>5 DEF IInv, ListInv
  <2>3. Len(evictList') <= Capacity
    <3>1. Len(evictList) \in Nat /\ ~(Len(evictList) >= Capacity)
      BY <1>1, <1>2, DomainOfSeq DEF Full
    <3> QED
      BY <1>5, <3>1, CapacityAssumption
  <2> QED
    BY <1>5, <2>1, <2>2, <2>3 DEF ListInv
<1>8. TypeOK'
  <2>1. n.key \in Key /\ n.size \in Nat
    BY <1>2, EntryFields
  <2> QED
    BY <1>1, <1>5, <1>6, <2>1 DEF IInv, TypeOK
<1>9. ValuesInv'
  <2>1. \A e \in ToSet(evictList') : e.value <= sets'
    BY <1>1, <1>2, <1>3, <1>5 DEF IInv, ValuesInv
  <2> QED
    BY <1>1, <2>1 DEF IInv, ValuesInv
<1>10. NotifiedOnce'
  <2> SUFFICES ASSUME NEW v \in Values
               PROVE  /\ notified'[v] = IF v > sets' \/ Stored(v)' \/ Waiting(v)' \/ v \in overwritten' THEN 0 ELSE 1
                      /\ v \in overwritten' => ~Stored(v)'
    BY DEF NotifiedOnce
  <2>1. /\ notified[v] = IF v > sets \/ Stored(v) \/ Waiting(v) \/ v \in overwritten THEN 0 ELSE 1
        /\ v \in overwritten => ~Stored(v)
    BY DEF IInv, NotifiedOnce
  <2>2. (Waiting(v) <=> v = sets) /\ ~Waiting(v)'
    BY <1>1, <1>3 DEF Waiting, n
  <2>3. Stored(v)' <=> Stored(v) \/ v = sets
    BY <1>3, <1>5, StoredFacts
  <2> QED
    BY <1>1, <1>3, <2>1, <2>2, <2>3
<1> QED
  BY <1>6, <1>7, <1>8, <1>9, <1>10 DEF IInv

\* Every entry leaves, and its value is handed to onEvict.
LEMMA ClearStep ==
  ASSUME IInv, Clear
  PROVE  IInv'
<1>1. /\ pending = NoEntry /\ items' = {} /\ evictList' = << >> /\ currentSize' = 0 /\ entryCount' = 0
      /\ UNCHANGED <<pending, closed, sets, overwritten, recent>>
      /\ notified' = [v \in Values |-> notified[v] + Cardinality({e \in Found(Key) : e.value = v})]
  BY DEF Clear, Unlocked, Notify
<1>2. evictList \in Seq(Entries) /\ Distinct(evictList) /\ \A v \in Values : notified[v] \in Nat
  BY DEF IInv, TypeOK, ListInv
<1>3. Found(Key) = ToSet(evictList)
  <2>1. \A e \in ToSet(evictList) : e.key \in Key
    BY <1>2, DomainOfSeq, EntryFields DEF ToSet
  <2>2. Found(Key) = {e \in ToSet(evictList) : e.key \in Key}
    BY FoundFacts DEF IInv
  <2> QED
    BY <2>1, <2>2
<1>4. DOMAIN evictList' = {} /\ Len(evictList') = 0 /\ ToSet(evictList') = {} /\ evictList' \in Seq(Entries)
  BY <1>1 DEF ToSet
<1>5. ListInv' /\ InOrder(evictList', recent')
  <2>1. items' = Keys(evictList') /\ Distinct(evictList') /\ InOrder(evictList', recent')
    BY <1>1, <1>4 DEF InOrder, Distinct, Keys
  <2>2. currentSize' = SumOfSizes(ToSet(evictList')) /\ entryCount' = Len(evictList')
    BY <1>1, <1>4, SumEmpty
  <2>3. Len(evictList') <= Capacity
    BY <1>4, CapacityAssumption
  <2> QED
    BY <2>1, <2>2, <2>3 DEF ListInv
<1>6. \A v \in Values : Cardinality({e \in Found(Key) : e.value = v}) = IF Stored(v) THEN 1 ELSE 0
  <2> SUFFICES ASSUME NEW v \in Values
               PROVE  Cardinality({e \in Found(Key) : e.value = v}) = IF Stored(v) THEN 1 ELSE 0
    OBVIOUS
  <2>1. CASE Stored(v)
    <3>1. PICK e \in ToSet(evictList) : e.value = v
      BY <2>1, StoredFacts
    <3>2. {d \in Found(Key) : d.value = v} = {e}
      BY <1>2, <1>3, <3>1, DistinctCount
    <3>3. Cardinality({e}) = 1
      BY FS_Singleton
    <3> QED
      BY <2>1, <3>2, <3>3
  <2>2. CASE ~Stored(v)
    <3>1. {d \in Found(Key) : d.value = v} = {}
      BY <1>3, <2>2, StoredFacts
    <3>2. Cardinality({}) = 0
      BY FS_EmptySet
    <3> QED
      BY <2>2, <3>1, <3>2
  <2> QED
    BY <2>1, <2>2
<1>7. TypeOK'
  <2>1. \A v \in Values : notified[v] + Cardinality({e \in Found(Key) : e.value = v}) \in Nat
    <3> SUFFICES ASSUME NEW v \in Values
                 PROVE  notified[v] + Cardinality({e \in Found(Key) : e.value = v}) \in Nat
      OBVIOUS
    <3>1. Cardinality({e \in Found(Key) : e.value = v}) \in Nat
      BY <1>6
    <3> QED
      BY <1>2, <3>1
  <2>2. notified' \in [Values -> Nat]
    BY <1>1, <2>1
  <2> QED
    BY <1>1, <1>4, <2>2 DEF IInv, TypeOK
<1>8. ValuesInv'
  BY <1>1, <1>4 DEF IInv, ValuesInv
<1>9. NotifiedOnce'
  <2> SUFFICES ASSUME NEW v \in Values
               PROVE  /\ notified'[v] = IF v > sets' \/ Stored(v)' \/ Waiting(v)' \/ v \in overwritten' THEN 0 ELSE 1
                      /\ v \in overwritten' => ~Stored(v)'
    BY DEF NotifiedOnce
  <2>1. /\ notified[v] = IF v > sets \/ Stored(v) \/ Waiting(v) \/ v \in overwritten THEN 0 ELSE 1
        /\ v \in overwritten => ~Stored(v)
    BY DEF IInv, NotifiedOnce
  <2>2. ~Waiting(v) /\ ~Waiting(v)' /\ ~Stored(v)'
    BY <1>1, <1>4 DEF Waiting, Stored
  <2>3. Stored(v) => ~(v > sets)
    <3>1. v \in Nat /\ sets \in Nat
      BY SetsAssumption DEF IInv, TypeOK, Values
    <3>2. Stored(v) => v <= sets
      BY StoredFacts DEF IInv, ValuesInv
    <3> QED
      BY <3>1, <3>2
  <2>4. notified'[v] = notified[v] + (IF Stored(v) THEN 1 ELSE 0)
    BY <1>1, <1>6
  <2> QED
    BY <1>1, <1>2, <2>1, <2>2, <2>3, <2>4
<1> QED
  BY <1>5, <1>7, <1>8, <1>9 DEF IInv

\* Time passes for one entry: its key, value and size stay.
LEMMA ExpireStep ==
  ASSUME IInv, NEW k \in Key, Expire(k)
  PROVE  IInv'
<1>1. PICK i \in DOMAIN evictList : evictList' = [evictList EXCEPT ![i].expires = "past"]
  BY DEF Expire
<1>2. UNCHANGED <<items, currentSize, entryCount, pending, closed, sets, notified, overwritten, recent>>
  BY DEF Expire, history
<1>3. evictList \in Seq(Entries) /\ Distinct(evictList)
  BY DEF IInv, TypeOK, ListInv
<1> DEFINE x == [evictList[i] EXCEPT !.expires = "past"]
<1> DEFINE old == evictList[i]
<1>4. old \in Entries /\ x \in Entries /\ x.key = old.key /\ x.value = old.value /\ x.size = old.size
  <2>1. old \in Entries
    BY <1>3, DomainOfSeq
  <2> QED
    BY <2>1 DEF Entries
<1>5. /\ DOMAIN evictList' = DOMAIN evictList
      /\ evictList'[i] = x
      /\ \A j \in DOMAIN evictList : j # i => evictList'[j] = evictList[j]
      /\ evictList' \in Seq(Entries) /\ Len(evictList') = Len(evictList)
  <2>1. DOMAIN evictList = 1..Len(evictList) /\ Len(evictList) \in Nat
    BY <1>3, DomainOfSeq
  <2>2. evictList' = [j \in 1..Len(evictList) |-> IF j = i THEN x ELSE evictList[j]]
    BY <1>1, <2>1
  <2> HIDE DEF x
  <2>3. \A j \in 1..Len(evictList) : (IF j = i THEN x ELSE evictList[j]) \in Entries
    BY <1>3, <1>4
  <2>4. evictList' \in Seq(Entries) /\ Len(evictList') = Len(evictList)
    BY <2>1, <2>2, <2>3
  <2> QED
    BY <2>1, <2>2, <2>4
<1> HIDE DEF x
<1>6. \A j \in DOMAIN evictList : /\ evictList'[j].key = evictList[j].key
                                  /\ evictList'[j].value = evictList[j].value
                                  /\ evictList'[j].size = evictList[j].size
  BY <1>4, <1>5
<1>7. Keys(evictList') = Keys(evictList) /\ Distinct(evictList')
  BY <1>3, <1>5, <1>6 DEF Keys, Distinct
<1>8. InOrder(evictList', recent')
  BY <1>2, <1>5, <1>6 DEF IInv, InOrder
<1>9. \A v : Stored(v)' <=> Stored(v)
  BY <1>5, <1>6 DEF Stored
<1>10. SumOfSizes(ToSet(evictList')) = SumOfSizes(ToSet(evictList))
  <2> DEFINE rest == ToSet(evictList) \ {old}
  <2>1. old \in ToSet(evictList) /\ ToSet(evictList) = rest \cup {old}
    BY DEF ToSet
  <2>2. \A j \in DOMAIN evictList : j # i => evictList[j] # old
    BY <1>3 DEF Distinct
  <2>3. ToSet(evictList') = rest \cup {x}
    BY <1>5, <2>2 DEF ToSet
  <2>4. x \notin rest
    BY <1>3, <1>4, <2>1, DistinctCount
  <2>5. IsFiniteSet(rest) /\ \A e \in rest : e.size \in Nat
    BY <1>3, DistinctCount, FS_Subset
  <2> HIDE DEF rest
  <2>6. x.size \in Nat /\ old.size \in Nat
    BY <1>4, EntryFields
  <2>7. SumOfSizes(rest \cup {x}) = SumOfSizes(rest) + SumOfSizes({x})
    <3>1. IsFiniteSet({x})
      BY FS_Singleton
    <3>2. rest \cap {x} = {} /\ \A e \in rest \cup {x} : e.size \in Nat
      BY <2>4, <2>5, <2>6
    <3> QED
      BY <2>5, <3>1, <3>2, SumSplit
  <2>8. SumOfSizes(rest \cup {old}) = SumOfSizes(rest) + SumOfSizes({old})
    <3>1. IsFiniteSet({old})
      BY FS_Singleton
    <3>2. rest \cap {old} = {} /\ \A e \in rest \cup {old} : e.size \in Nat
      BY <2>5, <2>6 DEF rest
    <3> QED
      BY <2>5, <3>1, <3>2, SumSplit
  <2>9. SumOfSizes({x}) = SumOfSizes({old})
    BY <1>4, <2>6, SumOne
  <2> QED
    BY <2>1, <2>3, <2>7, <2>8, <2>9
<1>11. TypeOK'
  BY <1>2, <1>5 DEF IInv, TypeOK
<1>12. ListInv'
  BY <1>2, <1>5, <1>7, <1>10 DEF IInv, ListInv
<1>13. ValuesInv'
  <2>1. \A e \in ToSet(evictList') : e.value <= sets
    BY <1>5, <1>6 DEF IInv, ValuesInv, ToSet
  <2>2. Stored(sets)' <=> Stored(sets)
    BY <1>2, <1>9 DEF Stored
  <2> QED
    BY <1>2, <2>1, <2>2 DEF IInv, ValuesInv
<1>14. NotifiedOnce'
  <2>1. \A v : Waiting(v)' = Waiting(v)
    BY <1>2 DEF Waiting
  <2> QED
    BY <1>2, <1>9, <2>1 DEF IInv, NotifiedOnce
<1> QED
  BY <1>8, <1>11, <1>12, <1>13, <1>14 DEF IInv

LEMMA StutterStep ==
  ASSUME IInv, UNCHANGED <<cache, pending, sets, history>>, closed' \in BOOLEAN
  PROVE  IInv'
<1>1. UNCHANGED <<items, evictList, currentSize, entryCount, pending, sets, notified, overwritten, recent>>
  BY DEF cache, history
<1>2. TypeOK'
  BY <1>1 DEF IInv, TypeOK
<1>3. ListInv' /\ InOrder(evictList', recent')
  BY <1>1 DEF IInv, ListInv
<1>4. ValuesInv'
  BY <1>1 DEF IInv, ValuesInv, Stored
<1>5. NotifiedOnce'
  BY <1>1 DEF IInv, NotifiedOnce, Stored, Waiting
<1> QED
  BY <1>2, <1>3, <1>4, <1>5 DEF IInv

-----------------------------------------------------------------------------
(* Every step, of the cache alone and under the middleware.                *)

\* InvalidateByPrefix removes elements as the operations of the cache do.
PrefixGone(ks) ==
  /\ Unlocked
  /\ RemoveElements(Found(ks))
  /\ UNCHANGED <<pending, closed, sets, overwritten, recent>>

CacheStep == Next \/ \E ks \in SUBSET Key : PrefixGone(ks)

\* The steps by which entries leave while no Set is under way, or one by one to make room for it.
Removes(es) ==
  /\ es \subseteq ToSet(evictList)
  /\ RemoveElements(es)
  /\ UNCHANGED <<pending, closed, sets, overwritten, recent>>
  /\ pending # NoEntry => evictList # << >> /\ es = {Last(evictList)}

\* Nothing but closed changes.
Idle == UNCHANGED <<cache, pending, sets, history>> /\ closed' \in BOOLEAN

LEMMA CacheSteps ==
  ASSUME IInv, CacheStep
  PROVE  \/ \E es : Removes(es)
         \/ \E k \in Key : GetHit(k) \/ Expire(k)
         \/ \E k \in Key, size \in Size, ttl \in Int, tags \in SUBSET Tag : Put(k, size, ttl, tags)
         \/ Insert
         \/ Clear
         \/ Idle
<1>1. \A ks : Found(ks) \subseteq ToSet(evictList)
  BY DEF Found
<1>2. ASSUME NEW k \in Key, GetExpired(k) PROVE \E es : Removes(es)
  <2>1. PICK e \in Found({k}) : RemoveElements({e})
    BY <1>2 DEF GetExpired
  <2>2. Removes({e})
    BY <1>1, <1>2, <2>1 DEF Removes, GetExpired, Unlocked
  <2> QED
    BY <2>2
<1>3. ASSUME NEW k \in Key, Delete(k) PROVE \E es : Removes(es)
  <2>1. Removes(Found({k}))
    BY <1>1, <1>3 DEF Removes, Delete, Unlocked
  <2> QED
    BY <2>1
<1>4. ASSUME NEW t \in Tag, DeleteByTag(t) PROVE \E es : Removes(es)
  <2>1. Removes({e \in Found(Key) : t \in e.tags})
    BY <1>1, <1>4 DEF Removes, DeleteByTag, Unlocked
  <2> QED
    BY <2>1
<1>5. ASSUME Cleanup PROVE \E es : Removes(es)
  <2>1. Removes({e \in Found(Key) : IsExpired(e)})
    BY <1>1, <1>5 DEF Removes, Cleanup, Unlocked
  <2> QED
    BY <2>1
<1>6. ASSUME NEW ks \in SUBSET Key, PrefixGone(ks) PROVE \E es : Removes(es)
  <2>1. Removes(Found(ks))
    BY <1>1, <1>6 DEF Removes, PrefixGone, Unlocked
  <2> QED
    BY <2>1
<1>7. ASSUME EvictOldest PROVE (\E es : Removes(es)) \/ Idle
  <2>1. CASE evictList = << >>
    BY <1>7, <2>1 DEF EvictOldest, Idle, history, IInv, TypeOK
  <2>2. CASE evictList # << >>
    <3>1. Last(evictList) \in ToSet(evictList)
      <4>1. evictList \in Seq(Entries)
        BY DEF IInv, TypeOK
      <4>2. Len(evictList) \in DOMAIN evictList
        BY <2>2, <4>1
      <4> QED
        BY <4>2 DEF Last, ToSet
    <3>2. Removes({Last(evictList)})
      BY <1>7, <2>2, <3>1 DEF EvictOldest, Removes
    <3> QED
      BY <3>2
  <2> QED
    BY <2>1, <2>2
<1>8. ASSUME Close PROVE Idle
  BY <1>8 DEF Close, Idle
<1>9. ASSUME NEW k \in Key, NEW size \in Size, NEW ttl \in -1..1,
             Set(k, size, ttl) \/ \E tags \in SUBSET Tag : SetWithTags(k, size, ttl, tags)
      PROVE  \E x \in Int, tags \in SUBSET Tag : Put(k, size, x, tags)
  BY <1>9 DEF Set, SetWithTags
<1> QED
  BY <1>2, <1>3, <1>4, <1>5, <1>6, <1>7, <1>8, <1>9 DEF CacheStep, Next

LEMMA InitIInv == Init => IInv
<1> SUFFICES ASSUME Init
             PROVE  IInv
  OBVIOUS
<1>1. /\ items = {} /\ evictList = << >> /\ currentSize = 0 /\ entryCount = 0 /\ pending = NoEntry
      /\ closed = FALSE /\ sets = 0 /\ notified = [v \in Values |-> 0] /\ overwritten = {} /\ recent = << >>
  BY DEF Init
<1>2. DOMAIN evictList = {} /\ Len(evictList) = 0 /\ ToSet(evictList) = {}
  BY <1>1 DEF ToSet
<1>3. TypeOK
  <2>1. evictList \in Seq(Entries) /\ recent \in Seq(Key)
    BY <1>1
  <2>2. sets \in 0..MaxSets /\ notified \in [Values -> Nat]
    BY <1>1, SetsAssumption
  <2>3. items \subseteq Key /\ overwritten \subseteq Values /\ currentSize \in Nat /\ entryCount \in Nat
    BY <1>1
  <2> QED
    BY <1>1, <2>1, <2>2, <2>3 DEF TypeOK
<1>4. ListInv /\ InOrder(evictList, recent)
  <2>1. items = Keys(evictList) /\ Distinct(evictList) /\ InOrder(evictList, recent)
    BY <1>1, <1>2 DEF InOrder, Distinct, Keys
  <2>2. currentSize = SumOfSizes(ToSet(evictList)) /\ entryCount = Len(evictList)
    BY <1>1, <1>2, SumEmpty
  <2>3. Len(evictList) <= Capacity
    BY <1>2, CapacityAssumption
  <2> QED
    BY <2>1, <2>2, <2>3 DEF ListInv
<1>5. ValuesInv
  BY <1>1, <1>2 DEF ValuesInv
<1>6. NotifiedOnce
  <2>1. \A v \in Values : notified[v] = 0 /\ v > sets /\ v \notin overwritten
    BY <1>1, SetsAssumption DEF Values
  <2> QED
    BY <2>1 DEF NotifiedOnce
<1> QED
  BY <1>3, <1>4, <1>5, <1>6 DEF IInv

LEMMA StepIInv == IInv /\ (CacheStep \/ UNCHANGED vars) => IInv'
<1> SUFFICES ASSUME IInv, CacheStep \/ UNCHANGED vars
             PROVE  IInv'
  OBVIOUS
<1>0. closed \in BOOLEAN
  BY DEF IInv, TypeOK
<1>1. ASSUME NEW es, Removes(es) PROVE IInv'
  BY <1>0, <1>1, RemoveStep DEF Removes
<1>2. ASSUME Idle PROVE IInv'
  BY <1>2, StutterStep DEF Idle
<1>3. CASE UNCHANGED vars
  BY <1>0, <1>3, StutterStep DEF vars
<1>4. CASE CacheStep
  BY <1>1, <1>2, <1>4, CacheSteps, HitStep, ExpireStep, PutStep, InsertStep, ClearStep
<1> QED
  BY <1>3, <1>4

\* The miss in flight is for a key.
FillInv ==
  /\ fill \in [key : Key \cup {"none"}, overtaken : BOOLEAN]
  /\ fill # NoFill => fill.key \in Key

LEMMA HTTPSteps ==
  ASSUME FillInv, HTTPNext
  PROVE  CacheStep \/ UNCHANGED vars
<1>1. ASSUME NEW k \in Key, Miss(k) PROVE CacheStep \/ UNCHANGED vars
  BY <1>1 DEF Miss, CacheStep, Next
<1>2. ASSUME NEW k \in Key, Invalidate(k) PROVE CacheStep \/ UNCHANGED vars
  BY <1>2 DEF Invalidate, CacheStep, Next
<1>3. ASSUME NEW k \in Key, GetHit(k) \/ GetExpired(k) \/ Expire(k) PROVE CacheStep
  BY <1>3 DEF CacheStep, Next
<1>4. ASSUME NEW k \in Key, NEW size \in Size, NEW ttl \in -1..0, NEW tags \in SUBSET Tag,
             SetWithTags(k, size, ttl, tags)
      PROVE  CacheStep
  <2>1. ttl \in -1..1
    OBVIOUS
  <2> QED
    BY <1>4, <2>1 DEF CacheStep, Next
<1>5. ASSUME NEW size \in Size, StoreResponse(size) PROVE CacheStep
  <2>1. fill.key \in Key /\ Set(fill.key, size, 1) /\ 1 \in -1..1
    BY <1>5 DEF StoreResponse, FillInv
  <2> QED
    BY <2>1 DEF CacheStep, Next
<1>6. ASSUME PassResponse PROVE UNCHANGED vars
  BY <1>6 DEF PassResponse
<1>7. ASSUME NEW ks \in Prefix, InvalidateByPrefix(ks) PROVE CacheStep
  <2>1. ks \in SUBSET Key
    BY HTTPAssumption
  <2>2. PrefixGone(ks)
    BY <1>7 DEF InvalidateByPrefix, PrefixGone
  <2> QED
    BY <2>1, <2>2 DEF CacheStep
<1>8. ASSUME Clear \/ EvictOldest \/ Insert \/ Cleanup \/ Close \/ \E t \in Tag : DeleteByTag(t) PROVE CacheStep
  BY <1>8 DEF CacheStep, Next
<1> QED
  BY <1>1, <1>2, <1>3, <1>4, <1>5, <1>6, <1>7, <1>8 DEF HTTPNext

LEMMA StepFill ==
  ASSUME FillInv, HTTPNext
  PROVE  FillInv'
<1>1. ASSUME NEW k \in Key, fill' = [key |-> k, overtaken |-> FALSE] PROVE FillInv'
  BY <1>1 DEF FillInv
<1>2. ASSUME fill' = NoFill PROVE FillInv'
  BY <1>2 DEF FillInv, NoFill
<1>3. ASSUME NEW ks \in SUBSET Key, Overtake(ks) PROVE FillInv'
  <2>1. CASE fill.key \in ks
    <3>1. fill' = [fill EXCEPT !.overtaken = TRUE] /\ fill.key \in Key
      BY <1>3, <2>1 DEF Overtake
    <3> QED
      BY <3>1 DEF FillInv
  <2>2. CASE fill.key \notin ks
    <3>1. fill' = fill
      BY <1>3, <2>2 DEF Overtake
    <3> QED
      BY <3>1 DEF FillInv
  <2> QED
    BY <2>1, <2>2
<1>4. ASSUME UNCHANGED http PROVE FillInv'
  BY <1>4 DEF http, FillInv
<1>5. ASSUME NEW k \in Key, Miss(k) PROVE FillInv'
  BY <1>1, <1>5 DEF Miss
<1>6. ASSUME NEW k \in Key, Invalidate(k) PROVE FillInv'
  <2>1. {k} \in SUBSET Key /\ Overtake({k})
    BY <1>6 DEF Invalidate
  <2> QED
    BY <1>3, <2>1
<1>7. ASSUME NEW ks \in Prefix, InvalidateByPrefix(ks) PROVE FillInv'
  <2>1. ks \in SUBSET Key /\ Overtake(ks)
    BY <1>7, HTTPAssumption DEF InvalidateByPrefix
  <2> QED
    BY <1>3, <2>1
<1>8. ASSUME Overtake(Key) PROVE FillInv'
  BY <1>3, <1>8
<1>9. ASSUME PassResponse \/ \E size \in Size : StoreResponse(size) PROVE FillInv'
  BY <1>2, <1>9 DEF PassResponse, StoreResponse
<1> QED
  BY <1>4, <1>5, <1>6, <1>7, <1>8, <1>9 DEF HTTPNext

-----------------------------------------------------------------------------
(* The theorems.                                                           *)

\* The inductive invariant holds of the cache that the HTTP middleware shares with the application.
THEOREM Invariance == HTTPSpec => [](IInv /\ FillInv)
<1>1. HTTPInit => IInv /\ FillInv
  BY InitIInv DEF HTTPInit, FillInv, NoFill
<1>2. IInv /\ FillInv /\ [HTTPNext]_httpVars => (IInv /\ FillInv)'
  <2> SUFFICES ASSUME IInv, FillInv, [HTTPNext]_httpVars
               PROVE  IInv' /\ FillInv'
    OBVIOUS
  <2>1. CASE UNCHANGED httpVars
    BY <2>1, StepIInv DEF httpVars, http, FillInv
  <2>2. CASE HTTPNext
    BY <2>2, HTTPSteps, StepFill, StepIInv
  <2> QED
    BY <2>1, <2>2
<1> QED
  BY <1>1, <1>2, PTL DEF HTTPSpec

\* And of the LRUCache when the application uses it alone.
THEOREM InvarianceAlone == Spec => []IInv
<1>1. IInv /\ [Next]_vars => IInv'
  BY StepIInv DEF CacheStep
<1> QED
  BY <1>1, InitIInv, PTL DEF Spec

\* The counters of removeElement and Set never go negative, and whatever waits for room is an entry.
THEOREM CacheTypeCorrect == HTTPSpec => []TypeOK
<1>1. IInv => TypeOK
  BY DEF IInv
<1> QED
  BY <1>1, Invariance, PTL

LEMMA IInvAccounting == IInv => Accounting
<1> SUFFICES ASSUME IInv
             PROVE  Accounting
  OBVIOUS
<1>1. /\ evictList \in Seq(Entries) /\ Distinct(evictList) /\ items = Keys(evictList)
      /\ currentSize = SumOfSizes(ToSet(evictList)) /\ entryCount = Len(evictList)
  BY DEF IInv, TypeOK, ListInv
<1>2. DOMAIN evictList = 1..Len(evictList) /\ Len(evictList) \in Nat /\ \A i \in DOMAIN evictList : evictList[i] \in Entries
  BY <1>1, DomainOfSeq
<1> DEFINE ks == [i \in 1..Len(evictList) |-> evictList[i].key]
<1>3. ks \in Seq(Key) /\ Len(ks) = Len(evictList)
  <2>1. \A i \in 1..Len(evictList) : evictList[i].key \in Key
    BY <1>2, EntryFields
  <2> QED
    BY <1>2, <2>1
<1>4. ToSet(ks) = items
  BY <1>1, <1>2 DEF ToSet, Keys
<1>5. \A i, j \in 1..Len(ks) : ks[i] = ks[j] => i = j
  BY <1>1, <1>2, <1>3 DEF Distinct
<1> HIDE DEF ks
<1>6. Cardinality(items) = Len(evictList)
  BY <1>3, <1>4, <1>5, ElementsCount
<1> QED
  BY <1>1, <1>6 DEF Accounting, Keys

\* The map, the list, the sum of the sizes and the number of entries describe the same entries,
\* whatever was evicted, overwritten, expired, deleted by tag, invalidated by prefix or cleared.
THEOREM AccountingHolds == HTTPSpec => []Accounting
  BY IInvAccounting, Invariance, PTL

THEOREM AccountingAlone == Spec => []Accounting
  BY IInvAccounting, InvarianceAlone, PTL

\* No value handed to Set is lost: it is held, was overwritten, or onEvict got it exactly once, however
\* Sets, evictions, expiry, deletions and Clear are ordered.
THEOREM NotifiedOnceHolds == HTTPSpec => []NotifiedOnce
<1>1. IInv => NotifiedOnce
  BY DEF IInv
<1> QED
  BY <1>1, Invariance, PTL

LEMMA StepEvicts ==
  ASSUME IInv, CacheStep \/ UNCHANGED vars, pending # NoEntry,
         NEW gone \in items \ items', NEW kept \in items \cap items',
         NEW i \in DOMAIN recent, NEW j \in DOMAIN recent, recent[i] = gone, recent[j] = kept
  PROVE  i < j
<1>1. CASE \E es : Removes(es)
  <2>1. PICK es : Removes(es)
    BY <1>1
  <2> DEFINE last == Last(evictList)
  <2>2. evictList # << >> /\ evictList \in Seq(Entries) /\ items = Keys(evictList) /\ RemoveElements({last})
    BY <2>1 DEF Removes, IInv, TypeOK, ListInv
  <2>3. /\ DOMAIN evictList = 1..Len(evictList) /\ Len(evictList) \in 1..Len(evictList)
        /\ last = evictList[Len(evictList)]
    BY <2>2 DEF Last
  <2>4. items' = items \ {last.key}
    BY <2>2 DEF RemoveElements
  <2> HIDE DEF last
  <2>5. gone = last.key /\ kept # last.key
    BY <2>4
  <2>6. PICK p \in DOMAIN evictList : evictList[p].key = kept
    BY <2>2 DEF Keys
  <2>7. p < Len(evictList)
    BY <2>3, <2>5, <2>6
  <2> QED
    BY <2>3, <2>5, <2>6, <2>7 DEF IInv, InOrder
<1>2. ASSUME items \subseteq items' PROVE FALSE
  BY <1>2
<1>3. CASE UNCHANGED vars \/ Idle \/ Insert \/ \E k \in Key : GetHit(k) \/ Expire(k)
  BY <1>2, <1>3 DEF vars, cache, Idle, Insert, GetHit, Expire
<1>4. CASE Clear \/ \E k \in Key, size \in Size, ttl \in Int, tags \in SUBSET Tag : Put(k, size, ttl, tags)
  BY <1>4 DEF Clear, Put, Unlocked
<1> QED
  BY <1>1, <1>3, <1>4, CacheSteps

\* evictOldest, the only step that removes entries while a Set makes room, takes the key whose last
\* use is the longest ago.
THEOREM EvictsLeastRecentHolds == HTTPSpec => EvictsLeastRecent
<1> DEFINE Least == pending # NoEntry =>
                      \A gone \in items \ items', kept \in items \cap items' :
                         \A i, j \in DOMAIN recent : recent[i] = gone /\ recent[j] = kept => i < j
<1>1. IInv /\ FillInv /\ [HTTPNext]_httpVars => [Least]_vars
  <2> SUFFICES ASSUME IInv, FillInv, [HTTPNext]_httpVars
               PROVE  Least
    OBVIOUS
  <2>1. CacheStep \/ UNCHANGED vars
    BY HTTPSteps DEF httpVars
  <2> QED
    BY <2>1, StepEvicts
<1> QED
  BY <1>1, Invariance, PTL DEF HTTPSpec, EvictsLeastRecent

-----------------------------------------------------------------------------
(* The refinement.                                                         *)

\* What AsMap puts for store and puts.
Holds == [k \in Key |-> IF Found({k}) = {} THEN 0 ELSE (CHOOSE e \in Found({k}) : TRUE).value]

Done == IF pending = NoEntry THEN sets ELSE sets - 1

\* Holds describes the entries in the list, which are not more than fit.
HoldsInv ==
  /\ \A e \in ToSet(evictList) : e.key \in items /\ Holds[e.key] = e.value
  /\ \A k \in Key : k \notin items => Holds[k] = 0
  /\ \A k \in items : \E e \in ToSet(evictList) : e.key = k
  /\ Cardinality({k \in Key : Holds[k] # 0}) <= Capacity

LEMMA HoldsFacts == IInv => HoldsInv
<1> SUFFICES ASSUME IInv
             PROVE  HoldsInv
  OBVIOUS
<1>1. ListInv /\ items \subseteq Key /\ \A e \in ToSet(evictList) : e \in Entries
  BY DomainOfSeq DEF IInv, TypeOK, ToSet
<1>2. items = {e.key : e \in ToSet(evictList)}
  BY <1>1, KeysOfElements DEF ListInv
<1>3. \A d, e \in ToSet(evictList) : d.key = e.key => d = e
  BY <1>1 DEF ListInv, Distinct, ToSet
<1>4. ASSUME NEW e \in ToSet(evictList)
      PROVE  e.key \in items /\ Holds[e.key] = e.value
  <2>1. e.key \in items /\ e.key \in Key
    BY <1>1, <1>2
  <2>2. Found({e.key}) = {e}
    BY <1>1, <1>3, <2>1, FoundFacts
  <2>3. (CHOOSE x \in Found({e.key}) : TRUE) = e /\ Found({e.key}) # {}
    BY <2>2
  <2> QED
    BY <2>1, <2>3 DEF Holds
<1>5. ASSUME NEW k \in Key, k \notin items
      PROVE  Holds[k] = 0
  BY <1>1, <1>5, FoundFacts DEF Holds
<1>6. {k \in Key : Holds[k] # 0} = items
  <2>1. \A e \in ToSet(evictList) : e.value # 0
    <3>1. \A v \in Values : v # 0
      BY DEF Values
    <3> QED
      BY <1>1, <3>1, EntryFields
  <2> QED
    BY <1>1, <1>2, <1>4, <1>5, <2>1
<1>7. Cardinality(items) <= Capacity
  BY <1>1, IInvAccounting DEF Accounting, ListInv
<1> QED
  BY <1>2, <1>4, <1>5, <1>6, <1>7 DEF HoldsInv

LEMMA HoldsFactsNext == IInv' => HoldsInv'
  BY HoldsFacts, PTL

\* A value that was held before for the key is held now, or none.
LEMMA HoldsStep ==
  ASSUME IInv, IInv', NEW k \in Key,
         \A e \in ToSet(evictList') : e.key = k => \E d \in ToSet(evictList) : d.key = k /\ d.value = e.value
  PROVE  Holds'[k] \in {0, Holds[k]}
<1>1. CASE k \notin items'
  BY <1>1, HoldsFactsNext DEF HoldsInv
<1>2. CASE k \in items'
  <2>1. PICK e \in ToSet(evictList') : e.key = k
    BY <1>2, HoldsFactsNext DEF HoldsInv
  <2>2. PICK d \in ToSet(evictList) : d.key = k /\ d.value = e.value
    BY <2>1
  <2>3. Holds[k] = d.value /\ Holds'[k] = e.value
    BY <2>1, <2>2, HoldsFacts, HoldsFactsNext DEF HoldsInv
  <2> QED
    BY <2>2, <2>3
<1> QED
  BY <1>1, <1>2

LEMMA SameCardinality == \A S : AsMap!Cardinality(S) = Cardinality(S)
  BY Zenon DEF Cardinality, AsMap!Cardinality

\* Every entry of the new list was there, perhaps with another expiry: the map may have forgotten some.
LEMMA ForgetStep ==
  ASSUME IInv, IInv', Done' = Done,
         \A e \in ToSet(evictList') : \E d \in ToSet(evictList) : d.key = e.key /\ d.value = e.value
  PROVE  AsMap!Next
<1>1. \A k \in Key : Holds'[k] \in {0, Holds[k]}
  <2> SUFFICES ASSUME NEW k \in Key
               PROVE  Holds'[k] \in {0, Holds[k]}
    OBVIOUS
  <2>1. \A e \in ToSet(evictList') : e.key = k => \E d \in ToSet(evictList) : d.key = k /\ d.value = e.value
    OBVIOUS
  <2> QED
    BY <2>1, HoldsStep
<1>2. Cardinality({k \in Key : Holds'[k] # 0}) <= Capacity
  BY HoldsFactsNext DEF HoldsInv
<1> QED
  BY <1>1, <1>2, SameCardinality DEF AsMap!Next, AsMap!Forget, AsMap!Forgets, AsMap!Held, Holds, Done

\* The new list holds the value of the Set that ended, for its key; the other entries were there.
LEMMA StoreStep ==
  ASSUME IInv, IInv', Done' = Done + 1, NEW n \in ToSet(evictList'), n.value = Done', n.key \in Key,
         \A e \in ToSet(evictList') : e # n => e \in ToSet(evictList) /\ e.key # n.key
  PROVE  AsMap!Next
<1>1. \A k \in Key \ {n.key} : Holds'[k] \in {0, Holds[k]}
  <2> SUFFICES ASSUME NEW k \in Key \ {n.key}
               PROVE  Holds'[k] \in {0, Holds[k]}
    OBVIOUS
  <2>1. \A e \in ToSet(evictList') : e.key = k => \E d \in ToSet(evictList) : d.key = k /\ d.value = e.value
    OBVIOUS
  <2> QED
    BY <2>1, HoldsStep
<1>2. Holds'[n.key] = Done'
  BY HoldsFactsNext DEF HoldsInv
<1>3. Cardinality({k \in Key : Holds'[k] # 0}) <= Capacity
  BY HoldsFactsNext DEF HoldsInv
<1>4. AsMap!Put(n.key)
  BY <1>1, <1>2 DEF AsMap!Put, AsMap!Forgets, Holds, Done
<1> QED
  BY <1>3, <1>4, SameCardinality DEF AsMap!Next, AsMap!Held, Holds

LEMMA StepRefines ==
  ASSUME IInv, IInv', CacheStep
  PROVE  AsMap!Next
<1>1. evictList \in Seq(Entries) /\ sets \in Nat
  BY SetsAssumption DEF IInv, TypeOK
<1>2. ASSUME NEW es, Removes(es) PROVE AsMap!Next
  <2>1. ToSet(evictList') = ToSet(evictList) \ es
    BY <1>1, <1>2, WithoutElements DEF Removes, RemoveElements
  <2>2. Done' = Done
    BY <1>2 DEF Removes, Done
  <2> QED
    BY <2>1, <2>2, ForgetStep
<1>3. ASSUME NEW k \in Key, GetHit(k) PROVE AsMap!Next
  <2>1. PICK e \in Found({k}) : evictList' = MovedToFront(e)
    BY <1>3 DEF GetHit
  <2>2. e \in ToSet(evictList)
    BY DEF Found
  <2> DEFINE w == Without(evictList, Found({e.key}))
  <2>3. w \in Seq(Entries) /\ ToSet(w) \subseteq ToSet(evictList)
    BY <1>1, WithoutKeeps, WithoutElements
  <2>4. ToSet(evictList') = ToSet(w) \cup {e}
    <3>1. e \in Entries
      BY <1>1, <2>2, DomainOfSeq DEF ToSet
    <3>2. evictList' = <<e>> \o w
      BY <2>1 DEF MovedToFront
    <3> HIDE DEF w
    <3>3. ToSet(<<e>> \o w) = ToSet(w) \cup {e}
      BY <2>3, <3>1, FrontElements
    <3> QED
      BY <3>2, <3>3
  <2>5. Done' = Done
    BY <1>3 DEF GetHit, Done
  <2> HIDE DEF w
  <2> QED
    BY <2>2, <2>3, <2>4, <2>5, ForgetStep
<1>4. ASSUME NEW k \in Key, Expire(k) PROVE AsMap!Next
  <2>1. PICK i \in DOMAIN evictList : evictList' = [evictList EXCEPT ![i].expires = "past"]
    BY <1>4 DEF Expire
  <2>2. \A j \in DOMAIN evictList : evictList'[j].key = evictList[j].key /\ evictList'[j].value = evictList[j].value
    <3>1. \A j \in DOMAIN evictList : evictList[j] \in Entries
      BY <1>1, DomainOfSeq
    <3> QED
      BY <2>1, <3>1 DEF Entries
  <2>3. DOMAIN evictList' = DOMAIN evictList
    BY <2>1
  <2>4. \A e \in ToSet(evictList') : \E d \in ToSet(evictList) : d.key = e.key /\ d.value = e.value
    BY <2>2, <2>3 DEF ToSet
  <2>5. Done' = Done
    BY <1>4 DEF Expire, Done
  <2> QED
    BY <2>4, <2>5, ForgetStep
<1>5. ASSUME Clear \/ Idle PROVE AsMap!Next
  <2>1. ToSet(evictList') \subseteq ToSet(evictList)
    BY <1>5 DEF Clear, Idle, cache, ToSet
  <2>2. Done' = Done
    BY <1>5 DEF Clear, Idle, Done
  <2> QED
    BY <2>1, <2>2, ForgetStep
<1>6. ASSUME NEW k \in Key, NEW size \in Size, NEW ttl, NEW tags \in SUBSET Tag, Put(k, size, ttl, tags) PROVE AsMap!Next
  <2> DEFINE new == [key |-> k, value |-> sets + 1, size |-> size, tags |-> tags, expires |-> ExpiresAt(ttl)]
  <2>1. pending = NoEntry /\ sets < MaxSets /\ sets' = sets + 1 /\ (Overwrite(new) \/ MakeRoom(new))
    BY <1>6 DEF Put, Unlocked
  <2>2. new \in Entries /\ new.value = sets + 1 /\ new.key \in Key
    BY <2>1, NewEntry DEF IInv
  <2> HIDE DEF new
  <2>3. CASE MakeRoom(new)
    <3>1. UNCHANGED evictList /\ pending' # NoEntry
      BY <2>2, <2>3, EntryFields DEF MakeRoom, cache
    <3>2. Done' = Done
      BY <1>1, <2>1, <3>1 DEF Done
    <3> QED
      BY <3>1, <3>2, ForgetStep
  <2>4. CASE Overwrite(new)
    <3> DEFINE w == Without(evictList, Found({new.key}))
    <3>1. evictList' = <<new>> \o w /\ pending' = NoEntry
      BY <2>1, <2>4 DEF Overwrite, MovedToFront
    <3>2. w \in Seq(Entries) /\ ToSet(w) = ToSet(evictList) \ Found({new.key})
      BY <1>1, WithoutKeeps, WithoutElements
    <3> HIDE DEF w
    <3>3. ToSet(evictList') = ToSet(w) \cup {new}
      <4>1. new \in Entries /\ w \in Seq(Entries)
        BY <2>2, <3>2
      <4>2. ToSet(<<new>> \o w) = ToSet(w) \cup {new}
        BY <4>1, FrontElements
      <4> QED
        BY <3>1, <4>2
    <3>4. \A e \in ToSet(w) : e \in ToSet(evictList) /\ e.key # new.key
      BY <3>2, FoundFacts DEF IInv
    <3>5. Done' = Done + 1 /\ new.value = Done'
      BY <2>1, <2>2, <3>1 DEF Done
    <3> QED
      BY <2>2, <3>3, <3>4, <3>5, StoreStep
  <2> QED
    BY <2>1, <2>3, <2>4
<1>7. ASSUME Insert PROVE AsMap!Next
  <2>1. evictList' = <<pending>> \o evictList /\ pending' = NoEntry /\ sets' = sets /\ pending # NoEntry
    BY <1>7 DEF Insert
  <2>2. pending \in Entries /\ pending.key \in Key /\ pending.value = sets /\ pending.key \notin items
    BY <2>1, EntryFields DEF IInv, TypeOK, ValuesInv
  <2>3. ToSet(evictList') = ToSet(evictList) \cup {pending}
    BY <1>1, <2>1, <2>2, FrontElements
  <2>4. \A e \in ToSet(evictList) : e.key # pending.key
    BY <2>2, KeysOfElements DEF IInv, ListInv
  <2>5. Done' = Done + 1 /\ pending.value = Done'
    BY <1>1, <2>1, <2>2 DEF Done
  <2> QED
    BY <2>2, <2>3, <2>4, <2>5, StoreStep
<1> QED
  BY <1>2, <1>3, <1>4, <1>5, <1>6, <1>7, CacheSteps

LEMMA InitRefines ==
  ASSUME Init
  PROVE  AsMap!Init
<1>1. \A ks : Found(ks) = {}
  BY DEF Init, Found
<1> QED
  BY <1>1 DEF Init, AsMap!Init

\* A cache that evicts, expires, tags and calls back is, to its callers, a bounded map that may forget:
\* a Get never returns anything but the value of the last Set of its key.
THEOREM CacheImplementsMap == HTTPSpec => ImplementsMap
<1>1. HTTPInit => AsMap!Init
  BY InitRefines DEF HTTPInit
<1>2. IInv /\ FillInv /\ [HTTPNext]_httpVars => [AsMap!Next]_(AsMap!vars)
  <2> SUFFICES ASSUME IInv, FillInv, [HTTPNext]_httpVars
               PROVE  [AsMap!Next]_(AsMap!vars)
    OBVIOUS
  <2>1. CASE CacheStep
    BY <2>1, StepRefines, StepIInv
  <2>2. CASE UNCHANGED vars
    BY <2>2 DEF vars, cache, AsMap!vars, Found
  <2> QED
    BY <2>1, <2>2, HTTPSteps DEF httpVars
<1> QED
  BY <1>1, <1>2, Invariance, PTL DEF HTTPSpec, ImplementsMap, AsMap!Spec

-----------------------------------------------------------------------------
(* The loop of Set.                                                        *)

\* As long as a Set whose value can fit has to make room, there is an entry that its loop can evict.
VictimLeft == pending # NoEntry /\ ~Spins /\ Full(pending) => evictList # << >>

\* Every round that finds an entry takes exactly one, and while the Set holds mu nothing adds one: with
\* VictimLeft and at most Capacity entries, the loop ends after at most Capacity rounds.  (SetReturns
\* needs in addition that the caller goes on.)
RoundsEvict ==
  [][pending # NoEntry =>
       /\ EvictOldest /\ evictList # << >> => Len(evictList') = Len(evictList) - 1
       /\ (pending' = pending /\ Len(evictList') <= Len(evictList)) \/ pending' = NoEntry]_vars

\* A Set whose value is larger than the limit is never done with its loop, and mu is never free again.
SpinsForEver == [][Spins => Spins']_vars

\* With an empty list there is room for whatever is not larger than the limit.
LEMMA EmptyHasRoom ==
  ASSUME IInv, pending # NoEntry, ~Spins, evictList = << >>
  PROVE  ~Full(pending)
<1>1. currentSize = 0
  <2>1. ToSet(evictList) = {}
    BY DEF ToSet
  <2> QED
    BY <2>1, SumEmpty DEF IInv, ListInv
<1>2. pending.size \in Nat
  BY EntryFields DEF IInv, TypeOK
<1>3. Len(evictList) = 0
  OBVIOUS
<1> QED
  BY <1>1, <1>2, <1>3, CapacityAssumption, SizeAssumption DEF Full, Spins

\* A round with an entry to take.
LEMMA RoundTakesOne ==
  ASSUME IInv, evictList # << >>, RemoveElements({Last(evictList)})
  PROVE  Len(evictList') = Len(evictList) - 1
<1>1. evictList \in Seq(Entries) /\ Distinct(evictList)
  BY DEF IInv, TypeOK, ListInv
<1>2. Last(evictList) \in ToSet(evictList)
  <2>1. Len(evictList) \in DOMAIN evictList
    BY <1>1
  <2> QED
    BY <2>1 DEF Last, ToSet
<1> DEFINE last == Last(evictList)
<1>3. evictList' = Without(evictList, {last})
  BY DEF RemoveElements
<1> HIDE DEF last
<1>4. Len(Without(evictList, {last})) = Len(evictList) - Cardinality({last})
  BY <1>1, <1>2, WithoutList DEF last
<1>5. Cardinality({last}) = 1
  BY FS_Singleton
<1> QED
  BY <1>3, <1>4, <1>5

LEMMA StepRounds ==
  ASSUME IInv, CacheStep \/ UNCHANGED vars, pending # NoEntry
  PROVE  /\ EvictOldest /\ evictList # << >> => Len(evictList') = Len(evictList) - 1
         /\ (pending' = pending /\ Len(evictList') <= Len(evictList)) \/ pending' = NoEntry
         /\ Spins => Spins'
<1>1. ASSUME EvictOldest, evictList # << >>
      PROVE  Len(evictList') = Len(evictList) - 1
  BY <1>1, RoundTakesOne DEF EvictOldest
<1>2. evictList \in Seq(Entries) /\ Len(evictList) \in Nat
  BY DEF IInv, TypeOK
<1>3. \/ pending' = pending /\ Len(evictList') <= Len(evictList)
      \/ Insert
  <2>1. ASSUME NEW es, Removes(es)
        PROVE  pending' = pending /\ Len(evictList') <= Len(evictList)
    <3>1. RemoveElements({Last(evictList)}) /\ evictList # << >> /\ pending' = pending
      BY <2>1 DEF Removes
    <3> QED
      BY <1>2, <3>1, RoundTakesOne
  <2>2. ASSUME NEW k \in Key, Expire(k)
        PROVE  pending' = pending /\ Len(evictList') <= Len(evictList)
    BY <1>2, <2>2 DEF Expire
  <2>3. ASSUME NEW k \in Key
        PROVE  ~GetHit(k) /\ \A size, ttl, tags : ~Put(k, size, ttl, tags)
    BY DEF GetHit, Put, Unlocked
  <2>4. ~Clear
    BY DEF Clear, Unlocked
  <2>5. ASSUME Idle \/ UNCHANGED vars
        PROVE  pending' = pending /\ Len(evictList') <= Len(evictList)
    BY <1>2, <2>5 DEF Idle, vars, cache
  <2> QED
    BY <2>1, <2>2, <2>3, <2>4, <2>5, CacheSteps
<1>4. Spins => ~Insert
  BY EntryFields, SizeAssumption DEF Spins, Insert, Full, IInv, TypeOK
<1>5. Insert => pending' = NoEntry
  BY DEF Insert
<1> QED
  BY <1>1, <1>3, <1>4, <1>5 DEF Spins

\* A Set whose value can fit never goes round its loop in vain.
THEOREM VictimLeftHolds == HTTPSpec => []VictimLeft
<1>1. IInv => VictimLeft
  BY EmptyHasRoom DEF VictimLeft
<1> QED
  BY <1>1, Invariance, PTL

\* And it takes at most as many rounds as the cache has places, whatever else happens.
THEOREM RoundsEvictHolds == HTTPSpec => RoundsEvict
<1> DEFINE Rounds == pending # NoEntry =>
                       /\ EvictOldest /\ evictList # << >> => Len(evictList') = Len(evictList) - 1
                       /\ (pending' = pending /\ Len(evictList') <= Len(evictList)) \/ pending' = NoEntry
<1>1. IInv /\ FillInv /\ [HTTPNext]_httpVars => [Rounds]_vars
  <2> SUFFICES ASSUME IInv, FillInv, [HTTPNext]_httpVars
               PROVE  Rounds
    OBVIOUS
  <2>1. CacheStep \/ UNCHANGED vars
    BY HTTPSteps DEF httpVars
  <2> QED
    BY <2>1, StepRounds
<1> QED
  BY <1>1, Invariance, PTL DEF HTTPSpec, RoundsEvict

\* What Full compares is not only a bound for the list: the Set of a value above the limit keeps mu for
\* ever, and no Get, Delete or Cleanup happens again.
THEOREM SpinsForEverHolds == HTTPSpec => SpinsForEver
<1>1. IInv /\ FillInv /\ [HTTPNext]_httpVars => [Spins => Spins']_vars
  <2> SUFFICES ASSUME IInv, FillInv, [HTTPNext]_httpVars, Spins
               PROVE  Spins'
    OBVIOUS
  <2>1. CacheStep \/ UNCHANGED vars
    BY HTTPSteps DEF httpVars
  <2>2. pending # NoEntry
    BY DEF Spins
  <2> QED
    BY <2>1, <2>2, StepRounds
<1> QED
  BY <1>1, Invariance, PTL DEF HTTPSpec, SpinsForEver

-----------------------------------------------------------------------------
(* Responses that were overtaken.                                          *)

\* The entries of the cache and the one a Set makes room for.
Held == ToSet(evictList) \cup (IF pending = NoEntry THEN {} ELSE {pending})

\* The values in stale are those of past Sets, and all that are held have a time to live: the
\* middleware stores every response with its own DefaultTTL.
StaleExpires ==
  /\ \A v \in stale : v \in Nat /\ v <= sets
  /\ \A e \in Held : e.value \in stale => e.expires # "never"

LEMMA MovedElements ==
  ASSUME IInv, NEW n \in Entries
  PROVE  ToSet(MovedToFront(n)) \subseteq ToSet(evictList) \cup {n}
<1> DEFINE w == Without(evictList, Found({n.key}))
<1>1. evictList \in Seq(Entries)
  BY DEF IInv, TypeOK
<1>2. w \in Seq(Entries) /\ ToSet(w) \subseteq ToSet(evictList)
  BY <1>1, WithoutKeeps, WithoutElements
<1>3. MovedToFront(n) = <<n>> \o w
  BY DEF MovedToFront
<1> HIDE DEF w
<1> QED
  BY <1>2, <1>3, FrontElements

\* A Set brings one entry, with the value after the last one.
LEMMA PutHeld ==
  ASSUME IInv, NEW k \in Key, NEW size \in Size, NEW ttl, NEW tags \in SUBSET Tag, Put(k, size, ttl, tags)
  PROVE  /\ sets' = sets + 1
         /\ \E new : /\ new.value = sets + 1 /\ new.expires = ExpiresAt(ttl)
                     /\ Held' \subseteq Held \cup {new}
<1> DEFINE new == [key |-> k, value |-> sets + 1, size |-> size, tags |-> tags, expires |-> ExpiresAt(ttl)]
<1>1. Unlocked /\ sets < MaxSets /\ sets' = sets + 1 /\ (Overwrite(new) \/ MakeRoom(new))
  BY DEF Put
<1>2. new \in Entries /\ new.value = sets + 1 /\ new.expires = ExpiresAt(ttl)
  BY <1>1, NewEntry DEF IInv
<1> HIDE DEF new
<1>3. CASE Overwrite(new)
  <2>1. evictList' = MovedToFront(new) /\ pending' = pending
    BY <1>3 DEF Overwrite
  <2>2. ToSet(evictList') \subseteq ToSet(evictList) \cup {new}
    BY <1>2, <2>1, MovedElements
  <2>3. Held' \subseteq Held \cup {new}
    BY <2>1, <2>2 DEF Held
  <2> QED
    BY <1>1, <1>2, <2>3
<1>4. CASE MakeRoom(new)
  <2>1. pending' = new /\ evictList' = evictList
    BY <1>4 DEF MakeRoom, cache
  <2>2. Held' \subseteq Held \cup {new}
    BY <2>1 DEF Held
  <2> QED
    BY <1>1, <1>2, <2>2
<1> QED
  BY <1>1, <1>3, <1>4

\* What a Get, a removal, the clock or the end of a Set leaves was there.
Remains ==
  /\ sets' = sets
  /\ \A e \in Held' : \E d \in Held : e.value = d.value /\ e.expires \in {d.expires, "past"}

LEMMA OldHeld ==
  ASSUME IInv, CacheStep
  PROVE  \/ Remains
         \/ \E k \in Key, size \in Size, ttl \in Int, tags \in SUBSET Tag : Put(k, size, ttl, tags)
<1>1. evictList \in Seq(Entries)
  BY DEF IInv, TypeOK
<1>2. ASSUME Held' \subseteq Held, sets' = sets
      PROVE  Remains
  BY <1>2 DEF Remains
<1>3. ASSUME NEW es, Removes(es)
      PROVE  Remains
  <2>1. evictList' = Without(evictList, es) /\ pending' = pending /\ sets' = sets
    BY <1>3 DEF Removes, RemoveElements
  <2>2. ToSet(evictList') \subseteq ToSet(evictList)
    BY <1>1, <2>1, WithoutElements
  <2>3. Held' \subseteq Held
    BY <2>1, <2>2 DEF Held
  <2> QED
    BY <1>2, <2>1, <2>3
<1>4. ASSUME NEW k \in Key, GetHit(k)
      PROVE  Remains
  <2>1. PICK e \in Found({k}) : evictList' = MovedToFront(e)
    BY <1>4 DEF GetHit
  <2>2. e \in ToSet(evictList) /\ e \in Entries
    BY <1>1, DomainOfSeq DEF Found, ToSet
  <2>3. ToSet(evictList') \subseteq ToSet(evictList)
    BY <2>1, <2>2, MovedElements
  <2>4. pending' = pending /\ sets' = sets
    BY <1>4 DEF GetHit
  <2>5. Held' \subseteq Held
    BY <2>3, <2>4 DEF Held
  <2> QED
    BY <1>2, <2>4, <2>5
<1>5. ASSUME NEW k \in Key, Expire(k)
      PROVE  Remains
  <2>1. PICK i \in DOMAIN evictList : evictList' = [evictList EXCEPT ![i].expires = "past"]
    BY <1>5 DEF Expire
  <2>2. pending' = pending /\ sets' = sets
    BY <1>5 DEF Expire
  <2>3. ASSUME NEW e \in ToSet(evictList')
        PROVE  \E d \in ToSet(evictList) : e.value = d.value /\ e.expires \in {d.expires, "past"}
    <3>1. PICK j \in DOMAIN evictList : e = evictList'[j]
      BY <1>1, <2>1, <2>3 DEF ToSet
    <3>2. evictList[j] \in Entries /\ evictList[j] \in ToSet(evictList)
      BY <1>1, DomainOfSeq DEF ToSet
    <3>3. e = evictList[j] \/ e = [evictList[j] EXCEPT !.expires = "past"]
      BY <1>1, <2>1, <3>1
    <3>4. e.value = evictList[j].value /\ e.expires \in {evictList[j].expires, "past"}
      BY <3>2, <3>3 DEF Entries
    <3> QED
      BY <3>2, <3>4
  <2> QED
    BY <2>2, <2>3 DEF Remains, Held
<1>6. ASSUME Insert
      PROVE  Remains
  <2>1. evictList' = <<pending>> \o evictList /\ pending # NoEntry /\ pending' = NoEntry /\ sets' = sets
    BY <1>6 DEF Insert
  <2>2. pending \in Entries
    BY <2>1 DEF IInv, TypeOK
  <2>3. ToSet(evictList') = ToSet(evictList) \cup {pending}
    BY <1>1, <2>1, <2>2, FrontElements
  <2>4. Held' \subseteq Held
    BY <2>1, <2>3 DEF Held
  <2> QED
    BY <1>2, <2>1, <2>4
<1>7. ASSUME Clear
      PROVE  Remains
  <2>1. evictList' = << >> /\ pending' = pending /\ sets' = sets
    BY <1>7 DEF Clear
  <2>2. ToSet(evictList') = {}
    BY <2>1 DEF ToSet
  <2>3. Held' \subseteq Held
    BY <2>1, <2>2 DEF Held
  <2> QED
    BY <1>2, <2>1, <2>3
<1>8. ASSUME Idle
      PROVE  Remains
  <2>1. evictList' = evictList /\ pending' = pending /\ sets' = sets
    BY <1>8 DEF Idle, cache
  <2>2. Held' \subseteq Held
    BY <2>1 DEF Held
  <2> QED
    BY <1>2, <2>1, <2>2
<1> QED
  BY <1>3, <1>4, <1>5, <1>6, <1>7, <1>8, CacheSteps

LEMMA StaleSteps ==
  ASSUME HTTPNext
  PROVE  (\E size \in Size : StoreResponse(size)) \/ stale' = stale
  BY DEF HTTPNext, Miss, Invalidate, Overtake, PassResponse, InvalidateByPrefix, http

LEMMA StepStale ==
  ASSUME IInv, FillInv, StaleExpires, HTTPNext
  PROVE  StaleExpires'
<1>1. sets \in Nat
  BY SetsAssumption DEF IInv, TypeOK
<1>2. ASSUME NEW size \in Size, StoreResponse(size)
      PROVE  StaleExpires'
  <2>1. fill.key \in Key /\ Put(fill.key, size, 1, {}) /\ stale' \subseteq stale \cup {sets + 1}
    BY <1>2 DEF StoreResponse, FillInv, Set
  <2>2. /\ sets' = sets + 1
        /\ \E new : /\ new.value = sets + 1 /\ new.expires = ExpiresAt(1)
                    /\ Held' \subseteq Held \cup {new}
    BY <2>1, PutHeld
  <2>3. ExpiresAt(1) = "later"
    BY DEF ExpiresAt
  <2>4. ASSUME NEW e \in Held', e.value \in stale'
        PROVE  e.expires # "never"
    <3>1. \A d \in Held : d.value <= sets
      <4>1. evictList \in Seq(Entries)
        BY DEF IInv, TypeOK
      <4> QED
        BY <4>1, <1>1 DEF Held, IInv, ValuesInv
    <3> QED
      BY <1>1, <2>1, <2>2, <2>3, <2>4, <3>1 DEF StaleExpires
  <2>5. \A v \in stale' : v \in Nat /\ v <= sets'
    BY <1>1, <2>1, <2>2 DEF StaleExpires
  <2> QED
    BY <2>4, <2>5 DEF StaleExpires
<1>3. ASSUME stale' = stale, CacheStep
      PROVE  StaleExpires'
  <2>1. CASE Remains
    <3>1. \A v \in stale' : v \in Nat /\ v <= sets'
      BY <1>3, <2>1 DEF Remains, StaleExpires
    <3>2. ASSUME NEW e \in Held', e.value \in stale'
          PROVE  e.expires # "never"
      BY <1>3, <2>1, <3>2 DEF Remains, StaleExpires
    <3> QED
      BY <3>1, <3>2 DEF StaleExpires
  <2>2. ASSUME NEW k \in Key, NEW size \in Size, NEW ttl, NEW tags \in SUBSET Tag, Put(k, size, ttl, tags)
        PROVE  StaleExpires'
    <3>1. PICK new : new.value = sets + 1 /\ sets' = sets + 1 /\ Held' \subseteq Held \cup {new}
      BY <2>2, PutHeld
    <3>2. \A v \in stale' : v \in Nat /\ v <= sets' /\ v # new.value
      BY <1>1, <1>3, <3>1 DEF StaleExpires
    <3>3. ASSUME NEW e \in Held', e.value \in stale'
          PROVE  e.expires # "never"
      BY <1>3, <3>1, <3>2, <3>3 DEF StaleExpires
    <3> QED
      BY <3>2, <3>3 DEF StaleExpires
  <2> QED
    BY <1>3, <2>1, <2>2, OldHeld
<1>4. ASSUME stale' = stale, UNCHANGED vars
      PROVE  StaleExpires'
  BY <1>4 DEF StaleExpires, Held, vars, cache
<1> QED
  BY <1>2, <1>3, <1>4, StaleSteps, HTTPSteps

\* A response that was overtaken by an invalidation of its key is never held without a time to live,
\* whatever else the application stores under whichever keys: the middleware stores with its own.
THEOREM StaleExpiresHolds == HTTPSpec => []StaleExpires
<1>1. HTTPInit => StaleExpires
  BY DEF HTTPInit, Init, StaleExpires, Held, ToSet
<1>2. IInv /\ FillInv /\ StaleExpires /\ [HTTPNext]_httpVars => StaleExpires'
  <2> SUFFICES ASSUME IInv, FillInv, StaleExpires, UNCHANGED httpVars
               PROVE  StaleExpires'
    BY StepStale
  <2> QED
    BY DEF StaleExpires, Held, httpVars, http, vars, cache
<1> QED
  BY <1>1, <1>2, Invariance, PTL DEF HTTPSpec
=============================================================================
