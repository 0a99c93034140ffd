----------------------------- MODULE PmemProofs -----------------------------
(***************************************************************************)
(* The safety of Pmem for any pages, ranges, lengths and orders of calls.  *)
(* The first part says what the operators of Bmap and Pmem compute, for    *)
(* any map, list of regions and range; the second has the inductive        *)
(* invariant, what every operation does to it, and the theorems that       *)
(* follow from it.                                                         *)
(***************************************************************************)
EXTENDS Pmem, TLAPS

(***************************************************************************)
(* What the proofs use of the naturals and of finite sets.  It is a        *)
(* hypothesis of the lemmas and is discharged from the library's theorems  *)
(* before the last theorems, by lemma Library.                             *)
(***************************************************************************)
Least == \A T : T \subseteq Nat /\ T # {} => \E x \in T : \A y \in T : x <= y
Intervals == \A a, b \in Int : /\ IsFiniteSet(a .. b)
                             /\ Cardinality(a .. b) = IF a > b THEN 0 ELSE (b - a) + 1
Subsets == \A S, T : IsFiniteSet(S) /\ T \subseteq S =>
             /\ IsFiniteSet(T) /\ Cardinality(T) <= Cardinality(S)
             /\ Cardinality(S) = Cardinality(T) => S = T
Cardinals == \A S : IsFiniteSet(S) => Cardinality(S) \in Nat
Unions == \A S, T : IsFiniteSet(S) /\ IsFiniteSet(T) =>
            /\ IsFiniteSet(S \cup T)
            /\ Cardinality(S \cup T) =
                 Cardinality(S) + Cardinality(T) - Cardinality(S \cap T)
Additions == \A S, x : IsFiniteSet(S) =>
               /\ IsFiniteSet(S \cup {x})
               /\ Cardinality(S \cup {x}) =
                    IF x \in S THEN Cardinality(S) ELSE Cardinality(S) + 1
Shifts == \A V : V \subseteq Int /\ IsFiniteSet(V) => \A start \in Int :
            /\ IsFiniteSet({page - start : page \in V})
            /\ Cardinality({page - start : page \in V}) = Cardinality(V)
Facts == /\ Least /\ Intervals /\ Subsets /\ Cardinals /\ Unions /\ Additions /\ Shifts
         /\ IsFiniteSet({}) /\ Cardinality({}) = 0

\* A nonempty set of naturals has a least element.
LEMMA LeastNat ==
  ASSUME Facts, NEW T, T \subseteq Nat, T # {}
  PROVE  \E x \in T : \A y \in T : x <= y
BY Zenon DEF Facts, Least

\* The cardinality facts, one by one.
LEMMA FiniteInterval ==
  ASSUME Facts, NEW a \in Int, NEW b \in Int
  PROVE  IsFiniteSet(a .. b) /\ Cardinality(a .. b) = IF a > b THEN 0 ELSE (b - a) + 1
BY Zenon DEF Facts, Intervals

LEMMA FiniteSubset ==
  ASSUME Facts, NEW S, IsFiniteSet(S), NEW T \in SUBSET S
  PROVE  /\ IsFiniteSet(T) /\ Cardinality(T) <= Cardinality(S)
         /\ Cardinality(S) = Cardinality(T) => S = T
<1>1. T \subseteq S
  BY Zenon
<1>. QED BY <1>1, Zenon DEF Facts, Subsets

LEMMA FiniteCardinalityType ==
  ASSUME Facts, NEW S, IsFiniteSet(S)
  PROVE  Cardinality(S) \in Nat
BY Zenon DEF Facts, Cardinals

LEMMA FiniteUnion ==
  ASSUME Facts, NEW S, IsFiniteSet(S), NEW T, IsFiniteSet(T)
  PROVE  /\ IsFiniteSet(S \cup T)
         /\ Cardinality(S \cup T) =
              Cardinality(S) + Cardinality(T) - Cardinality(S \cap T)
BY Zenon DEF Facts, Unions

LEMMA FiniteEmptySet ==
  ASSUME Facts
  PROVE  IsFiniteSet({}) /\ Cardinality({}) = 0
BY Zenon DEF Facts

LEMMA FiniteAddElement ==
  ASSUME Facts, NEW S, NEW x, IsFiniteSet(S)
  PROVE  /\ IsFiniteSet(S \cup {x})
         /\ Cardinality(S \cup {x}) =
              IF x \in S THEN Cardinality(S) ELSE Cardinality(S) + 1
BY Zenon DEF Facts, Additions

\* What Min of FiniteSetsExt returns.
LEMMA MinProperties ==
  ASSUME Facts, NEW T, T \subseteq Nat, T # {}
  PROVE  Min(T) \in T /\ \A y \in T : Min(T) <= y
<1>1. \E x \in T : \A y \in T : x <= y
  BY LeastNat, Zenon
<1>. QED BY <1>1, Zenon DEF Min

(***************************************************************************)
(* Induction over an interval, for a set that is closed under successors.  *)
(***************************************************************************)
LEMMA IntervalInduction ==
  ASSUME Facts, NEW lo \in Int, NEW hi \in Int, NEW T, lo \in T,
         \A n \in (lo + 1) .. hi : n - 1 \in T => n \in T
  PROVE  \A n \in lo .. hi : n \in T
<1> DEFINE Bad == {k \in Nat : lo + k <= hi /\ lo + k \notin T}
<1>1. Bad = {}
  <2> SUFFICES ASSUME Bad # {}
               PROVE  FALSE
    OBVIOUS
  <2>1. PICK k \in Bad : \A j \in Bad : k <= j
    <3>1. Bad \subseteq Nat
      OBVIOUS
    <3>. HIDE DEF Bad
    <3>. QED BY <3>1, LeastNat, Zenon
  <2>2. k # 0
    OBVIOUS
  <2>3. k - 1 \in Nat /\ k - 1 \notin Bad /\ lo + (k - 1) <= hi
    BY <2>1, <2>2
  <2>4. lo + (k - 1) \in T
    BY <2>3
  <2>5. lo + k \in (lo + 1) .. hi /\ (lo + k) - 1 = lo + (k - 1)
    BY <2>2
  <2>. QED BY <2>4, <2>5
<1>2. ASSUME NEW n \in lo .. hi
      PROVE  n \in T
  <2>1. n - lo \in Nat /\ lo + (n - lo) = n /\ n <= hi
    OBVIOUS
  <2>2. n - lo \notin Bad
    BY <1>1, Zenon
  <2>. QED BY <2>1, <2>2
<1>. QED BY <1>2

\* The function that starts with a at lo and goes on by step.
Computes(f, lo, hi, S, a, step) ==
  /\ f \in [lo .. hi -> S]
  /\ f[lo] = a
  /\ \A n \in (lo + 1) .. hi : f[n] = step[<<n, f[n - 1]>>]

(***************************************************************************)
(* A recursive function over an interval exists, if every step stays in S. *)
(***************************************************************************)
LEMMA Recursion ==
  ASSUME Facts, NEW lo \in Int, NEW hi \in Int, lo <= hi, NEW S, NEW a \in S,
         NEW step \in [(lo .. hi) \X S -> S]
  PROVE  \E f : Computes(f, lo, hi, S, a, step)
<1> DEFINE Solves(f, m) == /\ f \in [lo .. m -> S]
                           /\ f[lo] = a
                           /\ \A n \in (lo + 1) .. m : f[n] = step[<<n, f[n - 1]>>]
           T == {m \in lo .. hi : \E f : Solves(f, m)}
<1>1. lo \in T
  <2>1. Solves([n \in lo .. lo |-> a], lo)
    OBVIOUS
  <2>2. \E f : Solves(f, lo)
    BY <2>1, Zenon
  <2>3. lo \in lo .. hi
    OBVIOUS
  <2>. QED BY <2>2, <2>3, Zenon
<1>2. ASSUME NEW m \in (lo + 1) .. hi, m - 1 \in T
      PROVE  m \in T
  <2>1. PICK f : Solves(f, m - 1)
    BY <1>2
  <2> DEFINE g == [n \in lo .. m |-> IF n = m THEN step[<<m, f[m - 1]>>] ELSE f[n]]
  <2>2. f[m - 1] \in S /\ \A n \in lo .. (m - 1) : f[n] \in S
    BY <2>1
  <2>3. step[<<m, f[m - 1]>>] \in S
    BY <2>2
  <2>4. g \in [lo .. m -> S]
    BY <2>2, <2>3
  <2>5. g[lo] = a
    BY <2>1
  <2>6. g[m] = step[<<m, f[m - 1]>>] /\ \A n \in lo .. (m - 1) : g[n] = f[n]
    OBVIOUS
  <2> HIDE DEF g
  <2>7. ASSUME NEW n \in (lo + 1) .. m
        PROVE  g[n] = step[<<n, g[n - 1]>>]
    <3>1. g[n - 1] = f[n - 1]
      BY <2>6
    <3>2. CASE n = m
      BY <2>6, <3>1, <3>2, Zenon
    <3>3. CASE n # m
      <4>1. n \in (lo + 1) .. (m - 1) /\ n \in lo .. (m - 1)
        BY <3>3
      <4>2. f[n] = step[<<n, f[n - 1]>>] /\ g[n] = f[n]
        BY <2>1, <2>6, <4>1, Zenon
      <4>. QED BY <3>1, <4>2, Zenon
    <3>. QED BY <3>2, <3>3
  <2>8. Solves(g, m)
    BY <2>4, <2>5, <2>7
  <2>9. m \in lo .. hi
    OBVIOUS
  <2>. QED BY <2>8, <2>9, Zenon
<1>3. hi \in lo .. hi
  OBVIOUS
<1>4. hi \in T
  <2>1. \A n \in (lo + 1) .. hi : n - 1 \in T => n \in T
    BY <1>2
  <2>. HIDE DEF T
  <2>. QED BY <1>1, <1>3, <2>1, IntervalInduction
<1>. QED BY <1>4, Zenon DEF Computes
-----------------------------------------------------------------------------
Maps == [bits : Nat \ {0}, storage : SUBSET Nat, set_cnt : Int, hint : Nat]

\* A map with other bits and another counter.
LEMMA UpdateMap ==
  ASSUME NEW b \in Maps, NEW st, NEW k
  PROVE  [b EXCEPT !.storage = st, !.set_cnt = k]
           = [bits |-> b.bits, storage |-> st, set_cnt |-> k, hint |-> b.hint]
<1>1. b = [bits |-> b.bits, storage |-> b.storage, set_cnt |-> b.set_cnt, hint |-> b.hint]
  BY DEF Maps
<1>2. [b EXCEPT !.storage = st]
        = [bits |-> b.bits, storage |-> st, set_cnt |-> b.set_cnt, hint |-> b.hint]
  BY <1>1
<1>3. ASSUME NEW c, c = [bits |-> b.bits, storage |-> st, set_cnt |-> b.set_cnt, hint |-> b.hint]
      PROVE  [c EXCEPT !.set_cnt = k]
               = [bits |-> b.bits, storage |-> st, set_cnt |-> k, hint |-> b.hint]
  BY <1>3
<1>. QED BY <1>2, <1>3, Zenon

\* In a map of no more bits than an int has, a bit but for the last is alone in
\* its mask, and the mask of the last has no other bit of the map (bmap.c:76).
LEMMA MaskOfBit ==
  ASSUME NEW bit \in 0 .. (IntBits - 1)
  PROVE  /\ bit \in Mask(bit) /\ Mask(bit) \subseteq Nat
         /\ \A i \in 0 .. (IntBits - 1) : i \in Mask(bit) => i = bit
         /\ bit < IntBits - 1 => Mask(bit) = {bit}
<1>1. IntBits \in Nat \ {0} /\ WordBits \in Nat \ {0} /\ IntBits <= WordBits
  BY WidthAssumption
<1>2. bit % WordBits = bit /\ bit % IntBits = bit
  BY <1>1
<1>3. Mask(bit) = IF bit = IntBits - 1 THEN bit .. (WordBits - 1) ELSE {bit}
  <2>1. Mask(bit) = IF bit % IntBits = IntBits - 1
                    THEN ((bit - bit) + (bit % IntBits)) .. ((bit - bit) + WordBits - 1)
                    ELSE {(bit - bit) + (bit % IntBits)}
    BY <1>2, Zenon DEF Mask
  <2>2. (bit - bit) + (bit % IntBits) = bit /\ (bit - bit) + WordBits - 1 = WordBits - 1
    BY <1>1, <1>2
  <2>. QED BY <1>2, <2>1, <2>2, Zenon
<1>. QED BY <1>1, <1>3

\* What bmap_set and the loop of bmap_fill do to a map b of no more bits than an
\* int has, from start up to but without end, which is in the map.
LEMMA SetBit ==
  ASSUME NEW b \in Maps, NEW bit \in Nat, bit + 1 < b.bits, b.bits <= IntBits
  PROVE  /\ bmap_set(b, bit, TRUE) =
              [bits |-> b.bits, storage |-> b.storage \union {bit},
               set_cnt |-> b.set_cnt + 1, hint |-> b.hint]
         /\ bmap_set(b, bit, FALSE) =
              [bits |-> b.bits, storage |-> b.storage \ {bit},
               set_cnt |-> b.set_cnt - 1, hint |-> b.hint]
<1>1. Mask(bit) = {bit}
  <2>1. bit \in 0 .. (IntBits - 1) /\ bit < IntBits - 1
    BY WidthAssumption DEF Maps
  <2>. QED BY <2>1, MaskOfBit
<1>2. ~(bit > b.bits)
  BY DEF Maps
<1>. QED BY <1>1, <1>2, Zenon DEF bmap_set, Maps

\* The map b with the bits from start up to but without end set or cleared.
Filled(b, value, start, end) ==
  [bits |-> b.bits,
   storage |-> IF value THEN b.storage \union (start .. (end - 1))
               ELSE b.storage \ (start .. (end - 1)),
   set_cnt |-> IF value THEN b.set_cnt + (end - start) ELSE b.set_cnt - (end - start),
   hint |-> b.hint]

\* One round of the loop of bmap_fill.
LEMMA FilledNext ==
  ASSUME NEW b \in Maps, NEW start \in Nat, NEW n \in Nat, start < n,
         n < b.bits, b.bits <= IntBits
  PROVE  /\ bmap_set(Filled(b, TRUE, start, n - 1), n - 1, TRUE) = Filled(b, TRUE, start, n)
         /\ bmap_set(Filled(b, FALSE, start, n - 1), n - 1, FALSE) = Filled(b, FALSE, start, n)
<1> DEFINE on == Filled(b, TRUE, start, n - 1)
           off == Filled(b, FALSE, start, n - 1)
<1>1. n - 1 \in Nat /\ (n - 1) + 1 < b.bits
  OBVIOUS
<1>2. /\ on = [bits |-> b.bits, storage |-> b.storage \union (start .. ((n - 1) - 1)),
               set_cnt |-> b.set_cnt + ((n - 1) - start), hint |-> b.hint]
      /\ off = [bits |-> b.bits, storage |-> b.storage \ (start .. ((n - 1) - 1)),
                set_cnt |-> b.set_cnt - ((n - 1) - start), hint |-> b.hint]
  BY DEF Filled
<1> HIDE DEF on, off
<1>3. /\ on \in Maps /\ on.bits = b.bits
      /\ off \in Maps /\ off.bits = b.bits
  BY <1>1, <1>2 DEF Maps
<1>4. bmap_set(on, n - 1, TRUE) =
        [bits |-> on.bits, storage |-> on.storage \union {n - 1},
         set_cnt |-> on.set_cnt + 1, hint |-> on.hint]
  BY <1>1, <1>3, SetBit, Zenon
<1>5. bmap_set(off, n - 1, FALSE) =
        [bits |-> off.bits, storage |-> off.storage \ {n - 1},
         set_cnt |-> off.set_cnt - 1, hint |-> off.hint]
  BY <1>1, <1>3, SetBit, Zenon
<1>6. /\ on.storage \union {n - 1} = b.storage \union (start .. (n - 1))
      /\ off.storage \ {n - 1} = b.storage \ (start .. (n - 1))
  BY <1>2
<1>7. /\ on.set_cnt + 1 = b.set_cnt + (n - start) /\ on.hint = b.hint
      /\ off.set_cnt - 1 = b.set_cnt - (n - start) /\ off.hint = b.hint
  BY <1>2 DEF Maps
<1>8. bmap_set(on, n - 1, TRUE) = Filled(b, TRUE, start, n)
  BY <1>3, <1>4, <1>6, <1>7, Zenon DEF Filled
<1>9. bmap_set(off, n - 1, FALSE) = Filled(b, FALSE, start, n)
  BY <1>3, <1>5, <1>6, <1>7, Zenon DEF Filled
<1>. QED BY <1>8, <1>9, Zenon DEF on, off

LEMMA FillEffect ==
  ASSUME Facts, NEW b \in Maps, NEW start \in Nat, NEW end \in Nat, start <= end,
         end < b.bits, b.bits <= IntBits, NEW value \in BOOLEAN
  PROVE  bmap_fill(b, value, start, end) = Filled(b, value, start, end)
<1> DEFINE D(h) == [n \in start .. end |->
                      IF n = start THEN b ELSE bmap_set(h[n - 1], n - 1, value)]
           g == [n \in start .. end |-> Filled(b, value, start, n)]
           f == CHOOSE h : h = D(h)
<1>0. start \in start .. end /\ end \in start .. end
  OBVIOUS
<1>1. g = D(g)
  <2>1. ASSUME NEW n \in start .. end
        PROVE  g[n] = IF n = start THEN b ELSE bmap_set(g[n - 1], n - 1, value)
    <3>1. CASE n = start
      <4>1. Filled(b, TRUE, start, start) = b /\ Filled(b, FALSE, start, start) = b
        <5>1. start .. (start - 1) = {} /\ start - start = 0
          OBVIOUS
        <5>2. Filled(b, TRUE, start, start) = b
          BY <5>1 DEF Filled, Maps
        <5>3. Filled(b, FALSE, start, start) = b
          BY <5>1 DEF Filled, Maps
        <5>. QED BY <5>2, <5>3, Zenon
      <4>. QED BY <3>1, <4>1, Zenon
    <3>2. CASE n # start
      <4>1. n \in Nat /\ start < n /\ n < b.bits /\ n - 1 \in start .. end
        BY <3>2 DEF Maps
      <4>2. /\ bmap_set(Filled(b, TRUE, start, n - 1), n - 1, TRUE)
                 = Filled(b, TRUE, start, n)
            /\ bmap_set(Filled(b, FALSE, start, n - 1), n - 1, FALSE)
                 = Filled(b, FALSE, start, n)
        BY <4>1, FilledNext, Zenon
      <4>. QED BY <3>2, <4>1, <4>2, Zenon
    <3>. QED BY <3>1, <3>2
  <2>. QED BY <2>1, Zenon
<1>2. f = D(f)
  BY <1>1, Zenon
<1>3. bmap_fill(b, value, start, end) = f[end]
  <2>1. FillOk(b, start, end)
    BY DEF FillOk, Maps
  <2>. QED BY <2>1, Zenon DEF bmap_fill
<1> HIDE DEF f
<1>4. f[end] = g[end]
  <2> DEFINE T == {n \in start .. end : f[n] = g[n]}
  <2>1. start \in T
    BY <1>0, <1>1, <1>2, Zenon
  <2>2. ASSUME NEW n \in (start + 1) .. end, n - 1 \in T
        PROVE  n \in T
    <3>1. n \in start .. end /\ n # start
      OBVIOUS
    <3>2. f[n - 1] = g[n - 1]
      BY <2>2, Zenon
    <3>3. D(f)[n] = D(g)[n]
      BY <3>1, <3>2, Zenon
    <3>. QED BY <1>1, <1>2, <3>1, <3>3, Zenon
  <2>4. end \in T
    <3>. HIDE DEF T
    <3>. QED BY <2>1, <2>2, <1>0, IntervalInduction
  <2>. QED BY <2>4, Zenon
<1>. QED BY <1>0, <1>3, <1>4, Zenon

\* A new map has all bits clear, and counts none (bmap.c:45).
LEMMA InitEffect ==
  ASSUME Facts, NEW bits \in Nat \ {0}
  PROVE  bmap_init(bits) = [bits |-> bits, storage |-> {}, set_cnt |-> 0, hint |-> 0]
<1> DEFINE Swept(n) == [bits |-> bits, storage |-> {}, set_cnt |-> 0 - n, hint |-> 0]
           b == [bits |-> bits, storage |-> {}, set_cnt |-> 0, hint |-> 0]
           D(h) == [n \in 0 .. (bits - 1) |->
                      IF n = 0 THEN b ELSE bmap_set(h[n - 1], n - 1, FALSE)]
           g == [n \in 0 .. (bits - 1) |-> Swept(n)]
           f == CHOOSE h : h = D(h)
<1>0. 0 \in 0 .. (bits - 1) /\ bits - 1 \in 0 .. (bits - 1)
  OBVIOUS
<1>1. g = D(g)
  <2>1. ASSUME NEW n \in 0 .. (bits - 1)
        PROVE  Swept(n) = IF n = 0 THEN b ELSE bmap_set(g[n - 1], n - 1, FALSE)
    <3>1. CASE n = 0
      BY <3>1
    <3>2. CASE n # 0
      <4>1. n - 1 \in 0 .. (bits - 1) /\ ~(n - 1 > bits) /\ (0 - (n - 1)) - 1 = 0 - n
        BY <3>2
      <4>2. g[n - 1] = Swept(n - 1)
        BY <4>1, Zenon
      <4>3. bmap_set(Swept(n - 1), n - 1, FALSE) =
              [Swept(n - 1) EXCEPT !.storage = @ \ Mask(n - 1), !.set_cnt = @ - 1]
        BY <4>1 DEF bmap_set
      <4>4. [Swept(n - 1) EXCEPT !.storage = @ \ Mask(n - 1), !.set_cnt = @ - 1]
              = Swept(n)
        <5>1. {} \ Mask(n - 1) = {}
          OBVIOUS
        <5>2. Swept(n - 1) \in Maps
          BY <4>1 DEF Maps
        <5>3. \A st, k : [Swept(n - 1) EXCEPT !.storage = st, !.set_cnt = k] =
                           [bits |-> Swept(n - 1).bits, storage |-> st, set_cnt |-> k,
                            hint |-> Swept(n - 1).hint]
          <6>. HIDE DEF Swept
          <6>. QED BY <5>2, UpdateMap, Zenon
        <5>4. /\ Swept(n - 1).bits = bits /\ Swept(n - 1).storage = {}
              /\ Swept(n - 1).set_cnt = 0 - (n - 1) /\ Swept(n - 1).hint = 0
          OBVIOUS
        <5>5. [Swept(n - 1) EXCEPT !.storage = @ \ Mask(n - 1), !.set_cnt = @ - 1]
                = [bits |-> bits, storage |-> {}, set_cnt |-> 0 - n, hint |-> 0]
          <6>. HIDE DEF Swept
          <6>1. [Swept(n - 1) EXCEPT !.storage = @ \ Mask(n - 1), !.set_cnt = @ - 1]
                  = [bits |-> Swept(n - 1).bits, storage |-> Swept(n - 1).storage \ Mask(n - 1),
                     set_cnt |-> Swept(n - 1).set_cnt - 1, hint |-> Swept(n - 1).hint]
            BY <5>3, Zenon
          <6>2. Swept(n - 1).storage \ Mask(n - 1) = {} /\ Swept(n - 1).set_cnt - 1 = 0 - n
            BY <4>1, <5>1, <5>4, Zenon
          <6>. QED BY <5>4, <6>1, <6>2, Zenon
        <5>. QED BY <5>5, Zenon
      <4>. HIDE DEF Swept, g
      <4>. QED BY <3>2, <4>2, <4>3, <4>4, Zenon
    <3>. QED BY <3>1, <3>2, Zenon
  <2>. QED BY <2>1, Zenon
<1>2. f = D(f)
  BY <1>1, Zenon
<1>3. bmap_fill(b, FALSE, 0, bits - 1) = f[bits - 1]
  <2>1. FillOk(b, 0, bits - 1)
    BY DEF FillOk
  <2>. QED BY <2>1, Zenon DEF bmap_fill
<1> HIDE DEF f, Swept, b
<1>4. f[bits - 1] = g[bits - 1]
  <2> DEFINE T == {n \in 0 .. (bits - 1) : f[n] = g[n]}
  <2>1. 0 \in T
    BY <1>0, <1>1, <1>2, Zenon
  <2>2. ASSUME NEW n \in (0 + 1) .. (bits - 1), n - 1 \in T
        PROVE  n \in T
    <3>1. n \in 0 .. (bits - 1) /\ n # 0
      OBVIOUS
    <3>2. f[n - 1] = g[n - 1]
      BY <2>2, Zenon
    <3>3. D(f)[n] = D(g)[n]
      BY <3>1, <3>2, Zenon
    <3>. QED BY <1>1, <1>2, <3>1, <3>3, Zenon
  <2>3. bits - 1 \in T
    <3>1. 0 \in Int /\ bits - 1 \in Int
      OBVIOUS
    <3>. HIDE DEF T
    <3>. QED BY <2>1, <2>2, <3>1, <1>0, IntervalInduction
  <2>. QED BY <2>3, Zenon
<1>5. bmap_fill(b, FALSE, 0, bits - 1) = Swept(bits - 1)
  BY <1>0, <1>3, <1>4, Zenon
<1>6. bmap_init(bits) = [bmap_fill(b, FALSE, 0, bits - 1) EXCEPT !.set_cnt = 0]
  BY Zenon DEF bmap_init, b
<1>7. [Swept(bits - 1) EXCEPT !.set_cnt = 0]
        = [bits |-> bits, storage |-> {}, set_cnt |-> 0, hint |-> 0]
  BY DEF Swept
<1>. QED BY <1>5, <1>6, <1>7, Zenon
-----------------------------------------------------------------------------
(***************************************************************************)
(* What the forward loop of bmap_search counts: the zero bits before a     *)
(* bit, down to where the loop began or to a bit that is set.              *)
(***************************************************************************)
LEMMA CountedSteps ==
  ASSUME Facts, NEW b \in Maps, NEW start \in Nat, start <= b.bits
  PROVE  /\ Counted(b, start) \in [start .. b.bits -> Nat]
         /\ Counted(b, start)[start] = 0
         /\ \A at \in (start + 1) .. b.bits :
              Counted(b, start)[at] =
                IF bmap_get(b, at - 1) THEN 0 ELSE Counted(b, start)[at - 1] + 1
<1> DEFINE D(h) == [at \in start .. b.bits |->
                      IF at = start THEN 0
                      ELSE IF bmap_get(b, at - 1) THEN 0 ELSE h[at - 1] + 1]
           f == CHOOSE h : h = D(h)
           step == [x \in (start .. b.bits) \X Nat |->
                      IF bmap_get(b, x[1] - 1) THEN 0 ELSE x[2] + 1]
<1>0. start \in Int /\ b.bits \in Int
  BY DEF Maps
<1>1. step \in [(start .. b.bits) \X Nat -> Nat]
  OBVIOUS
<1>2. PICK g : Computes(g, start, b.bits, Nat, 0, step)
  <2>1. 0 \in Nat
    OBVIOUS
  <2>. HIDE DEF step
  <2>. QED BY <1>0, <1>1, <2>1, Recursion, Zenon
<1>3. \A at \in (start + 1) .. b.bits :
        g[at] = IF bmap_get(b, at - 1) THEN 0 ELSE g[at - 1] + 1
  <2> SUFFICES ASSUME NEW at \in (start + 1) .. b.bits
               PROVE  g[at] = IF bmap_get(b, at - 1) THEN 0 ELSE g[at - 1] + 1
    OBVIOUS
  <2>1. at \in start .. b.bits /\ g[at - 1] \in Nat
    BY <1>0, <1>2 DEF Computes
  <2>2. step[<<at, g[at - 1]>>] = IF bmap_get(b, at - 1) THEN 0 ELSE g[at - 1] + 1
    BY <2>1
  <2>. QED BY <1>2, <2>2, Zenon DEF Computes
<1>4. g = D(g)
  BY <1>0, <1>2, <1>3 DEF Computes
<1>5. f = D(f)
  BY <1>4, Zenon
<1>6. Counted(b, start) = f
  BY Zenon DEF Counted
<1> HIDE DEF f
<1>7. /\ DOMAIN f = start .. b.bits
      /\ f[start] = 0
      /\ \A at \in (start + 1) .. b.bits :
           f[at] = IF bmap_get(b, at - 1) THEN 0 ELSE f[at - 1] + 1
  BY <1>0, <1>5
<1>8. \A at \in start .. b.bits : f[at] \in Nat
  <2> DEFINE T == {at \in start .. b.bits : f[at] \in Nat}
  <2>1. start \in T
    BY <1>0, <1>7
  <2>2. \A at \in (start + 1) .. b.bits : at - 1 \in T => at \in T
    BY <1>0, <1>7
  <2>3. \A at \in start .. b.bits : at \in T
    <3>. HIDE DEF T
    <3>. QED BY <1>0, <2>1, <2>2, IntervalInduction, Zenon
  <2>. QED BY <2>3
<1>9. f \in [start .. b.bits -> Nat]
  BY <1>5, <1>8, Zenon
<1>. QED BY <1>6, <1>7, <1>9

\* The numbers con that a loop from start on counts are right at a bit.
CountsRun(b, start, con, at) ==
  /\ con[at] \in 0 .. (at - start)
  /\ \A i \in (at - con[at]) .. (at - 1) : ~bmap_get(b, i)
  /\ con[at] = at - start \/ bmap_get(b, (at - con[at]) - 1)
  /\ \A j \in 0 .. con[at] : con[at - j] = con[at] - j

LEMMA CountedRuns ==
  ASSUME Facts, NEW b \in Maps, NEW start \in Nat, start <= b.bits,
         NEW at \in start .. b.bits
  PROVE  CountsRun(b, start, Counted(b, start), at)
<1> USE DEF CountsRun
<1> DEFINE con == Counted(b, start)
           Good(n) == CountsRun(b, start, con, n)
           T == {n \in start .. b.bits : Good(n)}
<1>0. start \in Int /\ b.bits \in Int
  BY DEF Maps
<1>1. /\ con \in [start .. b.bits -> Nat]
      /\ con[start] = 0
      /\ \A n \in (start + 1) .. b.bits :
           con[n] = IF bmap_get(b, n - 1) THEN 0 ELSE con[n - 1] + 1
  BY CountedSteps
<1> HIDE DEF con
<1>2. start \in T
  BY <1>0, <1>1
<1>3. ASSUME NEW n \in (start + 1) .. b.bits, n - 1 \in T
      PROVE  n \in T
  <2>1. n \in start .. b.bits /\ n - 1 \in start .. b.bits /\ Good(n - 1)
    BY <1>0, <1>3
  <2>2. CASE bmap_get(b, n - 1)
    <3>1. con[n] = 0
      BY <1>1, <2>2
    <3>2. n - 0 = n /\ 0 .. 0 = {0} /\ n .. (n - 1) = {} /\ 0 \in 0 .. (n - start)
      BY <1>0
    <3>3. con[n] \in 0 .. (n - start) /\ bmap_get(b, (n - con[n]) - 1)
      BY <2>2, <3>1, <3>2, Zenon
    <3>4. \A i \in (n - con[n]) .. (n - 1) : ~bmap_get(b, i)
      BY <3>1, <3>2
    <3>5. \A j \in 0 .. con[n] : con[n - j] = con[n] - j
      BY <3>1, <3>2
    <3>. QED BY <2>1, <3>3, <3>4, <3>5, Zenon
  <2>3. CASE ~bmap_get(b, n - 1)
    <3> DEFINE m == n - 1
               c == con[m]
    <3>1. con[n] = c + 1 /\ c \in 0 .. (m - start) /\ m \in Int /\ n = m + 1 /\ c \in Int
      <4>1. c \in 0 .. (m - start)
        BY <2>1, Zenon
      <4>2. con[n] = con[n - 1] + 1
        BY <1>1, <2>3, Zenon
      <4>. QED BY <1>0, <4>1, <4>2
    <3>2. con[n] \in 0 .. (n - start)
      BY <1>0, <3>1
    <3>3. ASSUME NEW i \in (n - con[n]) .. (n - 1)
          PROVE  ~bmap_get(b, i)
      <4>1. i = m \/ i \in (m - c) .. (m - 1)
        BY <3>1
      <4>. QED BY <2>1, <2>3, <4>1
    <3>4. con[n] = n - start \/ bmap_get(b, (n - con[n]) - 1)
      <4>1. (c = m - start => con[n] = n - start) /\ n - con[n] = m - c
        BY <1>0, <3>1
      <4>. QED BY <2>1, <4>1
    <3>5. ASSUME NEW j \in 0 .. con[n]
          PROVE  con[n - j] = con[n] - j
      <4>1. CASE j = 0
        BY <3>1, <4>1
      <4>2. CASE j # 0
        <5>1. j - 1 \in 0 .. c /\ m - (j - 1) = n - j /\ c - (j - 1) = con[n] - j
          BY <3>1, <4>2
        <5>2. con[m - (j - 1)] = c - (j - 1)
          BY <2>1, <5>1
        <5>. QED BY <5>1, <5>2
      <4>. QED BY <4>1, <4>2
    <3>. QED BY <2>1, <3>2, <3>3, <3>4, <3>5
  <2>. QED BY <2>2, <2>3
<1>4. at \in T
  <2>. HIDE DEF T
  <2>. QED BY <1>0, <1>2, <1>3, IntervalInduction, Zenon
<1>. QED BY <1>4, Zenon DEF con

\* The n bits from i on are clear.
Free(b, i, n) == \A bit \in i .. (i + n - 1) : ~bmap_get(b, bit)

\* What a search from a bit on finds: a run of cnt zero bits if that ends in the
\* map, and none is before it; one that would not end in the map only if the
\* last bit is zero.
Finds(b, from, cnt, idx) ==
  /\ idx \in Nat /\ idx >= from
  /\ idx + cnt <= b.bits => Free(b, idx, cnt)
  /\ idx < b.bits /\ idx + cnt > b.bits => ~bmap_get(b, b.bits - 1)
  /\ \A i \in Nat : i >= from /\ i + cnt <= b.bits /\ Free(b, i, cnt) => idx <= i

(***************************************************************************)
(* The forward loop of bmap_search finds the first run (bmap.c:137-156).   *)
(***************************************************************************)
LEMMA SearchFromFinds ==
  ASSUME Facts, NEW b \in Maps, NEW from \in Nat, NEW cnt \in Nat \ {0}
  PROVE  Finds(b, from, cnt, SearchFrom(b, from, cnt))
<1> DEFINE con == Counted(b, from)
           full == {at \in from .. (b.bits - 1) : con[at + 1] = cnt}
           bits == b.bits
<1>0. bits \in Nat \ {0}
  BY DEF Maps
<1> HIDE DEF bits
<1>1. SearchFrom(b, from, cnt) =
        IF full # {} THEN Min(full) - (cnt - 1)
        ELSE IF from < bits THEN bits - (con[bits] - 1)
        ELSE from - (0 - 1)
  <2>1. Ends(b, from, cnt) = IF full # {} THEN <<Min(full), cnt>>
                             ELSE IF from < bits THEN <<bits, con[bits]>>
                             ELSE <<from, 0>>
    BY Zenon DEF Ends, bits
  <2>2. SearchFrom(b, from, cnt) = Ends(b, from, cnt)[1] - (Ends(b, from, cnt)[2] - 1)
    BY Zenon DEF SearchFrom
  <2>. HIDE DEF full, con
  <2>. QED BY <2>1, <2>2
<1>2. CASE from >= bits
  <2>1. full = {}
    BY <1>0, <1>2 DEF bits
  <2>2. SearchFrom(b, from, cnt) = from + 1
    <3>. HIDE DEF full, con
    <3>. QED BY <1>0, <1>1, <1>2, <2>1
  <2>3. Finds(b, from, cnt, from + 1)
    BY <1>0, <1>2 DEF Finds, bits
  <2>. QED BY <2>2, <2>3, Zenon
<1>3. CASE from < bits
  <2>1. ASSUME NEW at \in from .. bits
        PROVE  /\ con[at] \in 0 .. (at - from)
               /\ \A i \in (at - con[at]) .. (at - 1) : ~bmap_get(b, i)
               /\ con[at] = at - from \/ bmap_get(b, (at - con[at]) - 1)
               /\ \A j \in 0 .. con[at] : con[at - j] = con[at] - j
    <3>1. from <= b.bits /\ at \in from .. b.bits
      BY <1>0, <1>3 DEF bits
    <3>2. CountsRun(b, from, con, at)
      BY <3>1, CountedRuns
    <3>. QED BY <3>2, Zenon DEF CountsRun
  <2> HIDE DEF con
  <2>2. ASSUME NEW x \in from .. bits, con[x] >= cnt
        PROVE  \E at \in full : at < x
    <3> DEFINE j == con[x] - cnt
               at == (x - j) - 1
    <3>1. con[x] \in 0 .. (x - from) /\ j \in 0 .. con[x] /\ con[x - j] = con[x] - j
      <4>1. con[x] \in 0 .. (x - from)
        BY <2>1
      <4>2. j \in 0 .. con[x]
        BY <2>2, <4>1
      <4>. QED BY <2>1, <4>1, <4>2, Zenon
    <3>2. /\ at \in from .. (bits - 1) /\ at < x /\ at + 1 = x - j
          /\ con[x] - j = cnt
      BY <1>0, <2>2, <3>1
    <3>3. con[at + 1] = cnt
      BY <3>1, <3>2, Zenon
    <3>4. at \in full
      BY <3>2, <3>3 DEF bits
    <3>. HIDE DEF full, at
    <3>. QED BY <3>2, <3>4
  <2>3. ASSUME NEW i \in Nat, i >= from, i + cnt <= bits, Free(b, i, cnt)
        PROVE  \E at \in full : at < i + cnt
    <3> DEFINE x == i + cnt
    <3>1. x \in from .. bits /\ x \in Int /\ x - from >= cnt
      BY <1>0, <2>3
    <3>2. con[x] \in 0 .. (x - from)
      BY <2>1, <3>1, Zenon
    <3>3. con[x] = x - from \/ bmap_get(b, (x - con[x]) - 1)
      BY <2>1, <3>1, Zenon
    <3>4. con[x] >= cnt
      <4> SUFFICES ASSUME con[x] < cnt
                   PROVE  FALSE
        BY <3>1, <3>2
      <4>1. con[x] # x - from
        BY <3>1, <3>2
      <4>2. (x - con[x]) - 1 \in i .. (i + cnt - 1)
        BY <3>1, <3>2
      <4>. QED BY <2>3, <3>3, <4>1, <4>2, Zenon DEF Free
    <3>. QED BY <2>2, <3>1, <3>4, Zenon
  <2>4. CASE full = {}
    <3> DEFINE c == con[bits]
               idx == bits - (c - 1)
    <3>1. /\ bits \in from .. bits /\ SearchFrom(b, from, cnt) = idx
      <4>. HIDE DEF full, con
      <4>. QED BY <1>0, <1>1, <1>3, <2>4
    <3>2. c \in 0 .. (bits - from) /\ c < cnt
      <4>1. c \in 0 .. (bits - from)
        BY <2>1, <3>1, Zenon
      <4>2. ~(c >= cnt)
        BY <2>2, <2>4, <3>1
      <4>. QED BY <1>0, <1>3, <4>1, <4>2
    <3>3. idx \in Nat /\ idx >= from /\ ~(idx + cnt <= bits)
      BY <1>0, <1>3, <3>2
    <3>4. ASSUME idx < bits
          PROVE  ~bmap_get(b, bits - 1)
      <4>1. bits - 1 \in (bits - c) .. (bits - 1)
        BY <1>0, <3>2, <3>4
      <4>. QED BY <2>1, <3>1, <4>1, Zenon
    <3>5. \A i \in Nat : ~(i >= from /\ i + cnt <= bits /\ Free(b, i, cnt))
      BY <2>3, <2>4
    <3>. HIDE DEF idx
    <3>6. Finds(b, from, cnt, idx)
      BY <3>3, <3>4, <3>5, Zenon DEF Finds, bits
    <3>. QED BY <3>1, <3>6, Zenon
  <2>5. CASE full # {}
    <3> DEFINE at == Min(full)
               idx == at - (cnt - 1)
    <3>1. at \in full /\ \A y \in full : at <= y
      <4>1. full \subseteq Nat
        BY <1>0 DEF bits
      <4>. HIDE DEF full
      <4>. QED BY <2>5, <4>1, MinProperties, Zenon
    <3>2. at \in from .. (bits - 1) /\ con[at + 1] = cnt /\ at + 1 \in from .. bits
      BY <1>0, <3>1 DEF bits
    <3>3. SearchFrom(b, from, cnt) = idx
      BY <1>1, <2>5, Zenon
    <3> HIDE DEF at
    <3>4. cnt \in 0 .. (at + 1 - from)
      <4>1. con[at + 1] \in 0 .. (at + 1 - from)
        BY <2>1, <3>2
      <4>. QED BY <3>2, <4>1, Zenon
    <3>5. \A i \in (at + 1 - cnt) .. (at + 1 - 1) : ~bmap_get(b, i)
      <4>1. \A i \in (at + 1 - con[at + 1]) .. (at + 1 - 1) : ~bmap_get(b, i)
        BY <2>1, <3>2
      <4>. QED BY <3>2, <4>1
    <3>6. /\ idx \in Nat /\ idx >= from /\ idx + cnt = at + 1 /\ idx + cnt <= bits
          /\ at + 1 - cnt = idx /\ at + 1 - 1 = at /\ idx + cnt - 1 = at
      BY <1>0, <3>2, <3>4
    <3>7. Free(b, idx, cnt)
      BY <3>5, <3>6, Zenon DEF Free
    <3>8. ASSUME NEW i \in Nat, i >= from, i + cnt <= bits, Free(b, i, cnt)
          PROVE  idx <= i
      <4>1. PICK y \in full : y < i + cnt
        BY <2>3, <3>8
      <4>2. at <= y /\ y \in Int /\ at \in Int
        BY <3>1, <3>2, <4>1
      <4>. QED BY <4>1, <4>2
    <3>9. ~(idx + cnt > bits)
      BY <1>0, <3>6
    <3>. HIDE DEF idx
    <3>10. Finds(b, from, cnt, idx)
      BY <3>6, <3>7, <3>8, <3>9, Zenon DEF Finds, bits
    <3>. QED BY <3>3, <3>10, Zenon
  <2>. QED BY <2>4, <2>5
<1>. QED BY <1>0, <1>2, <1>3

\* What a search by the hint, and then from zero, finds.
SearchResult(b, cnt, idx) ==
  /\ idx \in Nat
  /\ idx + cnt <= b.bits => Free(b, idx, cnt)
  /\ idx < b.bits /\ idx + cnt >= b.bits => ~bmap_get(b, b.bits - 1)
  /\ b.hint >= b.bits \/ idx >= b.bits =>
       \A i \in Nat : i + cnt <= b.bits /\ Free(b, i, cnt) => idx <= i

LEMMA SearchEffect ==
  ASSUME Facts, NEW b \in Maps, NEW cnt \in Nat \ {0}
  PROVE  SearchResult(b, cnt, bmap_search(b, cnt))
<1> DEFINE a == SearchFrom(b, b.hint, cnt)
           z == SearchFrom(b, 0, cnt)
<1>0. b.bits \in Nat \ {0} /\ b.hint \in Nat /\ 0 \in Nat
  BY DEF Maps
<1>1. Finds(b, b.hint, cnt, a) /\ Finds(b, 0, cnt, z)
  BY <1>0, SearchFromFinds
<1>2. bmap_search(b, cnt) = IF a < b.bits THEN a ELSE z
  BY Zenon DEF bmap_search
<1> HIDE DEF a, z
<1>3. ASSUME NEW idx, NEW from \in Nat, Finds(b, from, cnt, idx),
             idx < b.bits, idx + cnt >= b.bits
      PROVE  ~bmap_get(b, b.bits - 1)
  <2>0. idx \in Nat
    BY <1>3 DEF Finds
  <2>1. CASE idx + cnt > b.bits
    BY <1>3, <2>1 DEF Finds
  <2>2. CASE idx + cnt = b.bits
    <3>1. Free(b, idx, cnt)
      BY <1>0, <1>3, <2>2 DEF Finds
    <3>2. b.bits - 1 \in idx .. (idx + cnt - 1)
      BY <1>0, <2>0, <2>2
    <3>. QED BY <3>1, <3>2 DEF Free
  <2>. QED BY <1>0, <1>3, <2>0, <2>1, <2>2
<1>4. CASE a < b.bits
  <2>1. a \in Nat /\ a >= b.hint
    BY <1>1 DEF Finds
  <2>2. ~(b.hint >= b.bits) /\ ~(a >= b.bits)
    BY <1>0, <1>4, <2>1
  <2>3. a + cnt >= b.bits => ~bmap_get(b, b.bits - 1)
    BY <1>0, <1>1, <1>3, <1>4
  <2>4. a + cnt <= b.bits => Free(b, a, cnt)
    BY <1>1 DEF Finds
  <2>5. SearchResult(b, cnt, a)
    BY <2>1, <2>2, <2>3, <2>4 DEF SearchResult
  <2>. QED BY <1>2, <1>4, <2>5, Zenon
<1>5. CASE ~(a < b.bits)
  <2>1. z \in Nat /\ (z + cnt <= b.bits => Free(b, z, cnt))
    BY <1>1 DEF Finds
  <2>2. z < b.bits /\ z + cnt >= b.bits => ~bmap_get(b, b.bits - 1)
    BY <1>0, <1>1, <1>3
  <2>3. \A i \in Nat : i + cnt <= b.bits /\ Free(b, i, cnt) => z <= i
    BY <1>1 DEF Finds
  <2>4. SearchResult(b, cnt, z)
    BY <2>1, <2>2, <2>3 DEF SearchResult
  <2>. QED BY <1>2, <1>5, <2>4, Zenon
<1>. QED BY <1>4, <1>5
-----------------------------------------------------------------------------
Regions == [start : Nat, map : Maps]

\* The region r has become q by the allocation of n pages from the page at on,
\* which were not marked, or in no way that matters.
TakenFrom(r, q, at, n) ==
  LET bit == at - r.start
  IN  /\ at \in Nat /\ bit \in Nat /\ bit + n < r.map.bits /\ Free(r.map, bit, n)
      /\ q \in Regions /\ q.start = r.start /\ q.map.bits = r.map.bits
      /\ q.map.storage = r.map.storage \union (bit .. (bit + n - 1))
      /\ q.map.set_cnt = r.map.set_cnt + n

SameMarks(r, q) ==
  /\ q \in Regions /\ q.start = r.start /\ q.map.bits = r.map.bits
  /\ q.map.storage = r.map.storage /\ q.map.set_cnt = r.map.set_cnt

\* A region that gives a block has marked it, and one that does not has changed
\* nothing but its hint, which a refused run leaves behind the map.
LEMMA TriedEffect ==
  ASSUME Facts, NEW r \in Regions, r.map.bits <= IntBits, NEW n \in Nat \ {0},
         NEW use \in BOOLEAN
  PROVE  /\ Gives(r, n, use) =>
              TakenFrom(r, Tried(r, n, use), r.start + bmap_search(r.map, n), n)
         /\ ~Gives(r, n, use) =>
              /\ SameMarks(r, Tried(r, n, use))
              /\ Searched(r, n, use) => Tried(r, n, use).map.hint >= r.map.bits
<1> DEFINE b == r.map
           idx == bmap_search(b, n)
           h == [bits |-> b.bits, storage |-> b.storage, set_cnt |-> b.set_cnt,
                 hint |-> idx + n]
<1>0. r.start \in Nat /\ b \in Maps /\ b.bits <= IntBits
  BY DEF Regions
<1>1. SearchResult(b, n, idx)
  BY <1>0, SearchEffect
<1>2. idx \in Nat /\ b.bits \in Nat \ {0} /\ b.storage \in SUBSET Nat /\ b.set_cnt \in Int
  BY <1>0, <1>1 DEF SearchResult, Maps
<1>3. [b EXCEPT !.hint = idx + n] = h
  <2>. HIDE DEF idx
  <2>. QED BY <1>0 DEF Maps
<1>4. Gives(r, n, use) <=> Searched(r, n, use) /\ idx < b.bits /\ idx + n < b.bits
  BY Zenon DEF Gives, FillOk
<1>5. Searched(r, n, use) => idx < b.bits
  BY Zenon DEF Searched
<1>6. Searched(r, n, use) =>
        Tried(r, n, use) = [r EXCEPT !.map = bmap_fill(h, TRUE, idx, idx + n)]
  BY <1>3, Zenon DEF Tried
<1>7. ~Searched(r, n, use) => Tried(r, n, use) = r
  BY Zenon DEF Tried
<1> HIDE DEF idx
<1>8. h \in Maps /\ h.bits = b.bits
  BY <1>2 DEF Maps
<1> HIDE DEF b, h
<1>9. CASE Gives(r, n, use)
  <2> DEFINE q == Tried(r, n, use)
             m == bmap_fill(h, TRUE, idx, idx + n)
             at == r.start + idx
  <2>1. Searched(r, n, use) /\ idx + n \in Nat /\ idx <= idx + n /\ idx + n < h.bits
    BY <1>2, <1>4, <1>8, <1>9
  <2>2. m = Filled(h, TRUE, idx, idx + n)
    BY <1>0, <1>2, <1>8, <2>1, FillEffect, Zenon
  <2>3. /\ m.bits = b.bits /\ m.storage = b.storage \union (idx .. (idx + n - 1))
        /\ m.set_cnt = b.set_cnt + n /\ m \in Maps
    <3>1. m = [bits |-> h.bits, storage |-> h.storage \union (idx .. (idx + n - 1)),
               set_cnt |-> h.set_cnt + (idx + n - idx), hint |-> h.hint]
      <4>1. Filled(h, TRUE, idx, idx + n) =
              [bits |-> h.bits, storage |-> h.storage \union (idx .. (idx + n - 1)),
               set_cnt |-> h.set_cnt + (idx + n - idx), hint |-> h.hint]
        <5>. HIDE DEF m, q
        <5>. QED BY <1>2, <1>8 DEF Filled, Maps
      <4>. QED BY <2>2, <4>1, Zenon
    <3>2. h.storage = b.storage /\ h.set_cnt = b.set_cnt /\ h.hint = idx + n
      BY DEF h
    <3>. HIDE DEF m
    <3>. QED BY <1>2, <1>8, <3>1, <3>2 DEF Maps
  <2>4. q = [r EXCEPT !.map = m]
    BY <1>6, <2>1, Zenon
  <2> HIDE DEF q, m
  <2>5. q \in Regions /\ q.start = r.start /\ q.map = m
    BY <1>0, <2>3, <2>4 DEF Regions
  <2>6. Free(b, idx, n)
    BY <1>1, <1>2, <1>4, <1>9 DEF SearchResult
  <2>7. at - r.start = idx
    BY <1>0, <1>2
  <2>8. TakenFrom(r, q, at, n)
    <3>1. idx \in Nat /\ idx + n < b.bits /\ Free(b, idx, n)
      BY <1>2, <1>4, <1>9, <2>6
    <3>2. at \in Nat
      BY <1>0, <3>1
    <3>. HIDE DEF at
    <3>. QED BY <2>3, <2>5, <2>7, <3>1, <3>2, Zenon DEF TakenFrom, b
  <2>. QED BY <1>9, <2>8, Zenon DEF q, at, idx, b
<1>10. CASE ~Gives(r, n, use) /\ ~Searched(r, n, use)
  BY <1>0, <1>7, <1>10 DEF SameMarks
<1>11. CASE ~Gives(r, n, use) /\ Searched(r, n, use)
  <2> DEFINE q == Tried(r, n, use)
  <2>1. idx < b.bits /\ idx + n >= b.bits
    BY <1>2, <1>4, <1>5, <1>11
  <2>2. bmap_fill(h, TRUE, idx, idx + n) = h
    <3>1. ~FillOk(h, idx, idx + n)
      BY <1>2, <1>8, <2>1 DEF FillOk
    <3>. QED BY <3>1, Zenon DEF bmap_fill
  <2>3. q = [r EXCEPT !.map = h]
    BY <1>6, <1>11, <2>2, Zenon
  <2> HIDE DEF q
  <2>4. q \in Regions /\ q.start = r.start /\ q.map = h
    BY <1>0, <1>8, <2>3 DEF Regions
  <2>5. h.storage = b.storage /\ h.set_cnt = b.set_cnt /\ h.hint = idx + n
    BY DEF h
  <2>6. SameMarks(r, q)
    BY <1>8, <2>4, <2>5, Zenon DEF SameMarks, b
  <2>7. q.map.hint >= b.bits
    BY <2>1, <2>4, <2>5, Zenon
  <2>. QED BY <1>11, <2>6, <2>7, Zenon DEF q, b
<1>. QED BY <1>9, <1>10, <1>11

\* The regions of a list: typed, small enough for the masks of bmap_set, and of
\* pages there are.
RegionList(rs, N) ==
  /\ N \in Nat /\ rs \in [1 .. N -> Regions]
  /\ \A i \in 1 .. N : rs[i].map.bits <= IntBits
  /\ \A i \in 1 .. N : Holds(rs[i]) \subseteq Pages

\* What is left of the regions by the allocation of n pages from at on, or by
\* an attempt.
BlockTaken(rs, qs, N, at, n) ==
  \E k \in 1 .. N :
    /\ TakenFrom(rs[k], qs[k], at, n)
    /\ \A i \in (1 .. N) \ {k} : SameMarks(rs[i], qs[i])

NothingTaken(rs, qs, N) == \A i \in 1 .. N : SameMarks(rs[i], qs[i])

\* What pmem_alloc_helper returns: a block is taken, or no region gives one.
HelperResult(rs, N, n, use, H) ==
  /\ H.regs = [i \in 1 .. N |-> H.regs[i]]
  /\ H.at = None => /\ NothingTaken(rs, H.regs, N)
                    /\ \A i \in 1 .. N : /\ ~Gives(rs[i], n, use)
                                         /\ H.regs[i] = Tried(rs[i], n, use)
  /\ H.at # None => BlockTaken(rs, H.regs, N, H.at, n)

LEMMA HelperEffect ==
  ASSUME Facts,
         NEW rs, NEW N, RegionList(rs, N), NEW n \in Nat \ {0}, NEW use \in BOOLEAN
  PROVE  HelperResult(rs, N, n, use, pmem_alloc_helper(rs, n, use))
<1> SUFFICES ASSUME NEW H, H = pmem_alloc_helper(rs, n, use)
             PROVE  HelperResult(rs, N, n, use, H)
  OBVIOUS
<1> USE DEF HelperResult
<1> DEFINE gives == {i \in 1 .. N : Gives(rs[i], n, use)}
           k == Min(gives)
<1>0. /\ N \in Nat /\ DOMAIN rs = 1 .. N
      /\ \A i \in 1 .. N : rs[i] \in Regions /\ rs[i].map.bits <= IntBits
  BY DEF RegionList
<1>1. /\ H.regs = [i \in 1 .. N |-> IF \A j \in gives : i <= j
                                    THEN Tried(rs[i], n, use) ELSE rs[i]]
      /\ H.at = IF gives = {} THEN None ELSE rs[k].start + bmap_search(rs[k].map, n)
  <2>1. H = [regs |-> [i \in 1 .. N |-> IF \A j \in gives : i <= j
                                        THEN Tried(rs[i], n, use) ELSE rs[i]],
             at |-> IF gives = {} THEN None ELSE rs[k].start + bmap_search(rs[k].map, n)]
    BY <1>0, Zenon DEF pmem_alloc_helper
  <2>. HIDE DEF gives, k
  <2>. QED BY <2>1
<1>2. ASSUME NEW i \in 1 .. N
      PROVE  /\ Gives(rs[i], n, use) =>
                  TakenFrom(rs[i], Tried(rs[i], n, use),
                            rs[i].start + bmap_search(rs[i].map, n), n)
             /\ ~Gives(rs[i], n, use) => SameMarks(rs[i], Tried(rs[i], n, use))
  BY <1>0, TriedEffect
<1>3. \A i \in 1 .. N : SameMarks(rs[i], rs[i])
  BY <1>0 DEF SameMarks
<1>4. CASE gives = {}
  <2>1. \A i \in 1 .. N : ~Gives(rs[i], n, use)
    BY <1>4
  <2>2. H.at = None /\ \A i \in 1 .. N : H.regs[i] = Tried(rs[i], n, use)
    <3>. HIDE DEF gives
    <3>. QED BY <1>1, <1>4
  <2>. QED BY <1>1, <1>2, <2>1, <2>2, Zenon DEF NothingTaken
<1>5. CASE gives # {}
  <2>1. k \in gives /\ \A j \in gives : k <= j
    <3>1. gives \subseteq Nat
      BY <1>0
    <3>. HIDE DEF gives
    <3>. QED BY <1>5, <3>1, MinProperties, Zenon
  <2>2. k \in 1 .. N /\ Gives(rs[k], n, use)
    BY <2>1
  <2>3. H.at = rs[k].start + bmap_search(rs[k].map, n)
    <3>. HIDE DEF gives, k
    <3>. QED BY <1>1, <1>5
  <2>4. H.regs[k] = Tried(rs[k], n, use)
    <3>. HIDE DEF gives, k
    <3>. QED BY <1>1, <2>1, <2>2
  <2>5. ASSUME NEW i \in (1 .. N) \ {k}
        PROVE  SameMarks(rs[i], H.regs[i])
    <3>1. CASE \A j \in gives : i <= j
      <4>1. ~Gives(rs[i], n, use)
        <5>1. i <= k /\ i # k /\ i \in 1 .. N
          BY <2>1, <3>1
        <5>2. i \notin gives
          <6>. HIDE DEF gives, k
          <6>. QED BY <1>0, <2>1, <2>2, <5>1
        <5>. QED BY <5>1, <5>2
      <4>2. H.regs[i] = Tried(rs[i], n, use)
        <5>. HIDE DEF gives, k
        <5>. QED BY <1>1, <3>1
      <4>. QED BY <1>2, <4>1, <4>2
    <3>2. CASE ~\A j \in gives : i <= j
      <4>1. H.regs[i] = rs[i]
        <5>. HIDE DEF gives, k
        <5>. QED BY <1>1, <3>2
      <4>. QED BY <1>3, <4>1
    <3>. QED BY <3>1, <3>2
  <2> HIDE DEF gives, k
  <2>6. TakenFrom(rs[k], H.regs[k], H.at, n)
    BY <1>2, <2>2, <2>3, <2>4
  <2>7. BlockTaken(rs, H.regs, N, H.at, n)
    BY <2>2, <2>5, <2>6, Zenon DEF BlockTaken
  <2>8. H.at \in Pages
    <3>1. /\ H.at - rs[k].start \in Nat
          /\ (H.at - rs[k].start) + n < rs[k].map.bits
      BY <2>6, Zenon DEF TakenFrom
    <3>2. rs[k].start \in Nat /\ rs[k].map.bits \in Nat /\ bmap_search(rs[k].map, n) \in Nat
      <4>1. rs[k].map \in Maps
        BY <1>0, <2>2 DEF Regions
      <4>2. SearchResult(rs[k].map, n, bmap_search(rs[k].map, n))
        BY <4>1, SearchEffect
      <4>. QED BY <1>0, <2>2, <4>1, <4>2, Zenon DEF Regions, Maps, SearchResult
    <3>3. H.at \in Holds(rs[k])
      BY <2>3, <3>1, <3>2 DEF Holds, End
    <3>. QED BY <2>2, <3>3 DEF RegionList
  <2>9. H.at # None
    BY <2>8, PmemAssumption
  <2>. QED BY <1>1, <2>7, <2>9
<1>. QED BY <1>4, <1>5

\* The two attempts of pmem_alloc.
Hinted(n) == pmem_alloc_helper(regs, n, TRUE)
Any(n) == IF Hinted(n).at # None THEN Hinted(n)
          ELSE pmem_alloc_helper(Hinted(n).regs, n, FALSE)

LEMMA SameRegions ==
  ASSUME NEW rs, NEW qs, NEW N, RegionList(rs, N), NothingTaken(rs, qs, N),
         qs = [i \in 1 .. N |-> qs[i]]
  PROVE  RegionList(qs, N)
<1>1. \A i \in 1 .. N : /\ qs[i] \in Regions /\ qs[i].map.bits = rs[i].map.bits
                        /\ qs[i].start = rs[i].start
  BY DEF NothingTaken, SameMarks
<1>2. N \in Nat /\ qs \in [1 .. N -> Regions]
  BY <1>1 DEF RegionList
<1>3. \A i \in 1 .. N : Holds(qs[i]) = Holds(rs[i])
  BY <1>1, Zenon DEF Holds, End
<1>. QED BY <1>1, <1>2, <1>3 DEF RegionList

LEMMA AllocEffect ==
  ASSUME Facts, NEW N, RegionList(regs, N), NEW n \in Nat \ {0}
  PROVE  /\ Any(n).regs = [i \in 1 .. N |-> Any(n).regs[i]]
         /\ Any(n).at = None => NothingTaken(regs, Any(n).regs, N)
         /\ Any(n).at # None => BlockTaken(regs, Any(n).regs, N, Any(n).at, n)
<1> DEFINE H == Hinted(n)
           K == pmem_alloc_helper(H.regs, n, FALSE)
<1>1. /\ H.regs = [i \in 1 .. N |-> H.regs[i]]
      /\ H.at = None => NothingTaken(regs, H.regs, N)
      /\ H.at # None => BlockTaken(regs, H.regs, N, H.at, n)
  <2>1. HelperResult(regs, N, n, TRUE, H)
    BY HelperEffect, Zenon DEF Hinted
  <2>. HIDE DEF H
  <2>. QED BY <2>1, Zenon DEF HelperResult
<1>2. Any(n) = IF H.at # None THEN H ELSE K
  BY Zenon DEF Any
<1> HIDE DEF H
<1>3. CASE H.at # None
  BY <1>1, <1>2, <1>3, Zenon
<1>4. CASE H.at = None
  <2>1. NothingTaken(regs, H.regs, N)
    BY <1>1, <1>4
  <2>2. RegionList(H.regs, N)
    BY <1>1, <2>1, SameRegions
  <2>3. /\ K.regs = [i \in 1 .. N |-> K.regs[i]]
        /\ K.at = None => NothingTaken(H.regs, K.regs, N)
        /\ K.at # None => BlockTaken(H.regs, K.regs, N, K.at, n)
    <3>1. HelperResult(H.regs, N, n, FALSE, K)
      BY <2>2, HelperEffect, Zenon
    <3>. HIDE DEF K
    <3>. QED BY <3>1, Zenon DEF HelperResult
  <2>4. Any(n) = K
    BY <1>2, <1>4, Zenon
  <2> HIDE DEF K
  <2>5. ASSUME NothingTaken(H.regs, K.regs, N)
        PROVE  NothingTaken(regs, K.regs, N)
    BY <2>1, <2>5 DEF NothingTaken, SameMarks
  <2>6. ASSUME BlockTaken(H.regs, K.regs, N, K.at, n)
        PROVE  BlockTaken(regs, K.regs, N, K.at, n)
    <3>1. PICK k \in 1 .. N :
            /\ TakenFrom(H.regs[k], K.regs[k], K.at, n)
            /\ \A i \in (1 .. N) \ {k} : SameMarks(H.regs[i], K.regs[i])
      BY <2>6 DEF BlockTaken
    <3>2. \A i \in (1 .. N) \ {k} : SameMarks(regs[i], K.regs[i])
      BY <2>1, <3>1 DEF NothingTaken, SameMarks
    <3>3. SameMarks(regs[k], H.regs[k])
      BY <2>1 DEF NothingTaken
    <3>4. \A bit : bmap_get(H.regs[k].map, bit) <=> bmap_get(regs[k].map, bit)
      BY <3>3, Zenon DEF SameMarks, bmap_get
    <3>5. TakenFrom(regs[k], K.regs[k], K.at, n)
      BY <3>1, <3>3, <3>4, Zenon DEF TakenFrom, SameMarks, Free
    <3>. QED BY <3>2, <3>5, Zenon DEF BlockTaken
  <2>. QED BY <2>3, <2>4, <2>5, <2>6, Zenon
<1>. QED BY <1>3, <1>4
-----------------------------------------------------------------------------
\* The bits of a map that are set.
Marks(b) == {bit \in 0 .. (b.bits - 1) : bit \in b.storage}

LEMMA IntervalSize ==
  ASSUME Facts, NEW lo \in Int, NEW hi \in Int, lo <= hi + 1
  PROVE  IsFiniteSet(lo .. hi) /\ Cardinality(lo .. hi) = hi - lo + 1
<1>1. /\ IsFiniteSet(lo .. hi)
      /\ Cardinality(lo .. hi) = IF lo > hi THEN 0 ELSE hi - lo + 1
  BY FiniteInterval, Zenon
<1>. QED BY <1>1

LEMMA DisjointUnion ==
  ASSUME Facts, NEW S, NEW T, IsFiniteSet(S), IsFiniteSet(T), S \intersect T = {}
  PROVE  /\ IsFiniteSet(S \union T)
         /\ Cardinality(S \union T) = Cardinality(S) + Cardinality(T)
         /\ Cardinality(S) \in Nat /\ Cardinality(T) \in Nat
<1>1. /\ IsFiniteSet(S \union T)
      /\ Cardinality(S \union T) = Cardinality(S) + Cardinality(T) - Cardinality(S \intersect T)
  BY FiniteUnion, Zenon
<1>2. Cardinality(S \intersect T) = 0
  BY FiniteEmptySet, Zenon
<1>3. Cardinality(S) \in Nat /\ Cardinality(T) \in Nat
  BY FiniteCardinalityType, Zenon
<1>. QED BY <1>1, <1>2, <1>3

LEMMA DivideBound ==
  ASSUME NEW a \in Nat, NEW b \in Nat \ {0}
  PROVE  a \div b \in Nat /\ (a \div b) * b <= a
OBVIOUS

\* Where the counter is right, a region with a run of n bits and its last bit free
\* is not passed over for its filling degree.
LEMMA RoomForRun ==
  ASSUME Facts, NEW r \in Regions, NEW n \in Nat \ {0}, NEW at \in Nat,
         r.map.set_cnt = Cardinality(Marks(r.map)),
         at + n < r.map.bits, Free(r.map, at, n), ~bmap_get(r.map, r.map.bits - 1)
  PROVE  HasRoom(r, n, TRUE)
<1> DEFINE b == r.map
           bits == b.bits
           run == at .. (at + n - 1)
           M == Marks(b)
<1>0. bits \in Nat \ {0} /\ b \in Maps
  BY DEF Regions, Maps
<1>1. /\ IsFiniteSet(run) /\ Cardinality(run) = n
      /\ IsFiniteSet(0 .. (bits - 1)) /\ Cardinality(0 .. (bits - 1)) = bits
  <2>1. at \in Int /\ at + n - 1 \in Int /\ at <= (at + n - 1) + 1 /\ (at + n - 1) - at + 1 = n
    OBVIOUS
  <2>2. 0 \in Int /\ bits - 1 \in Int /\ 0 <= (bits - 1) + 1 /\ (bits - 1) - 0 + 1 = bits
    BY <1>0
  <2>. QED BY <2>1, <2>2, IntervalSize, Zenon
<1>2. bits - 1 \notin run /\ bits - 1 \notin M /\ run \intersect M = {}
  <2>1. bits - 1 \notin run
    BY <1>0
  <2>2. bits - 1 \notin M
    BY <1>0 DEF Marks, bmap_get
  <2>3. ASSUME NEW bit \in run
        PROVE  bit \notin M
    BY <1>0 DEF Marks, bmap_get, Free
  <2>. QED BY <2>1, <2>2, <2>3
<1>3. M \subseteq 0 .. (bits - 1) /\ run \subseteq 0 .. (bits - 1) /\ bits - 1 \in 0 .. (bits - 1)
  BY <1>0 DEF Marks
<1> HIDE DEF M, run, bits, b
<1>4. IsFiniteSet(M) /\ Cardinality(M) \in Nat
  BY <1>1, <1>3, FiniteSubset, FiniteCardinalityType, Zenon
<1>5. /\ IsFiniteSet(M \union run)
      /\ Cardinality(M \union run) = Cardinality(M) + n
  BY <1>1, <1>2, <1>4, DisjointUnion, Zenon
<1>6. /\ IsFiniteSet((M \union run) \union {bits - 1})
      /\ Cardinality((M \union run) \union {bits - 1}) = Cardinality(M) + n + 1
  BY <1>2, <1>5, FiniteAddElement
<1>7. Cardinality((M \union run) \union {bits - 1}) <= bits
  BY <1>1, <1>3, FiniteSubset, ZenonT(60)
<1>8. b.set_cnt = Cardinality(M) /\ b.set_cnt \in Nat /\ b.set_cnt + n + 1 <= bits
  BY <1>4, <1>6, <1>7 DEF M, b
<1> DEFINE d == (b.set_cnt * 100) \div bits
<1>9. d \in Nat /\ d * bits <= b.set_cnt * 100
  BY <1>0, <1>8, DivideBound
<1> HIDE DEF d
<1>10. bits * (100 - d) > n * 100
  BY <1>0, <1>8, <1>9
<1>. QED BY <1>10, Zenon DEF HasRoom, bmap_fdeg, d, bits, b

(***************************************************************************)
(* When both attempts find nothing, no region has n free pages in a row    *)
(* before its last one: a region that the first attempt searched has its   *)
(* hint behind the map and is searched from zero in the second one, and    *)
(* one that it passed over has no more than n free pages.                  *)
(***************************************************************************)
LEMMA FatalFull ==
  ASSUME Facts, NEW N, RegionList(regs, N), NEW n \in Nat \ {0}, Any(n).at = None,
         \A i \in 1 .. N : regs[i].map.set_cnt = Cardinality(Marks(regs[i].map)),
         NEW i \in 1 .. N, NEW at \in Nat, at + n < Any(n).regs[i].map.bits
  PROVE  ~Free(Any(n).regs[i].map, at, n)
<1> DEFINE H == Hinted(n)
           K == pmem_alloc_helper(H.regs, n, FALSE)
<1>1. HelperResult(regs, N, n, TRUE, H)
  BY HelperEffect, Zenon DEF Hinted
<1>2. Any(n) = IF H.at # None THEN H ELSE K
  BY Zenon DEF Any
<1> HIDE DEF H
<1>3. H.at = None /\ Any(n) = K /\ K.at = None
  <2>. HIDE DEF K
  <2>. QED BY <1>2, Zenon
<1>4. RegionList(H.regs, N)
  BY <1>1, <1>3, SameRegions DEF HelperResult
<1>5. HelperResult(H.regs, N, n, FALSE, K)
  BY <1>4, HelperEffect, Zenon
<1> HIDE DEF K
<1> DEFINE r == regs[i]
           q == H.regs[i]
           b == r.map
           c == q.map
           idx == bmap_search(b, n)
           jdx == bmap_search(c, n)
<1>6. /\ SameMarks(r, q) /\ q = Tried(r, n, TRUE) /\ ~Gives(r, n, TRUE)
      /\ SameMarks(q, K.regs[i]) /\ ~Gives(q, n, FALSE)
  BY <1>1, <1>3, <1>5, Zenon DEF HelperResult, NothingTaken
<1>7. /\ r \in Regions /\ q \in Regions /\ b \in Maps /\ c \in Maps
      /\ b.bits <= IntBits
  BY <1>4 DEF RegionList, Regions
<1>8. /\ c.bits = b.bits /\ c.storage = b.storage
      /\ K.regs[i].map.bits = b.bits /\ K.regs[i].map.storage = b.storage
      /\ b.bits \in Nat /\ c.hint \in Nat
  BY <1>6, <1>7, Zenon DEF SameMarks, Maps
<1>9. SearchResult(b, n, idx) /\ SearchResult(c, n, jdx)
  BY <1>7, SearchEffect
<1>10. Searched(r, n, TRUE) => c.hint >= b.bits
  BY <1>6, <1>7, TriedEffect, Zenon
<1>11. /\ Gives(q, n, FALSE) <=> /\ HasRoom(q, n, FALSE) /\ jdx < c.bits
                                 /\ jdx + n < c.bits
       /\ Searched(r, n, TRUE) <=> HasRoom(r, n, TRUE) /\ idx < b.bits
  BY Zenon DEF Gives, FillOk, Searched
<1>12. HasRoom(q, n, FALSE)
  BY DEF HasRoom
<1>13. at + n < b.bits
  BY <1>3, <1>8, Zenon
<1> SUFFICES ASSUME Free(Any(n).regs[i].map, at, n)
             PROVE  FALSE
  OBVIOUS
<1>14. Free(b, at, n) /\ Free(c, at, n)
  BY <1>3, <1>8, Zenon DEF Free, bmap_get
<1> HIDE DEF idx, jdx, c, b, q, r
<1>15. jdx \in Nat /\ idx \in Nat
  BY <1>9 DEF SearchResult
<1>16. ~(jdx >= c.bits) /\ ~(c.hint >= c.bits /\ jdx + n >= c.bits)
  <2>1. ASSUME c.hint >= c.bits \/ jdx >= c.bits
        PROVE  jdx <= at
    BY <1>8, <1>9, <1>13, <1>14, <2>1 DEF SearchResult
  <2>. QED BY <1>8, <1>13, <1>15, <2>1
<1>17. jdx < c.bits /\ jdx + n >= c.bits
  <2>1. ~(jdx < c.bits /\ jdx + n < c.bits)
    BY <1>6, <1>11, <1>12, Zenon
  <2>. QED BY <1>8, <1>15, <1>16, <2>1
<1>18. ~Searched(r, n, TRUE)
  BY <1>8, <1>10, <1>16, <1>17, Zenon
<1>19. ~bmap_get(b, b.bits - 1)
  <2>1. ~bmap_get(c, c.bits - 1)
    BY <1>9, <1>17 DEF SearchResult
  <2>. QED BY <1>8, <2>1, Zenon DEF bmap_get
<1>20. HasRoom(r, n, TRUE)
  BY <1>7, <1>13, <1>14, <1>19, RoomForRun, Zenon DEF b, r
<1>21. idx >= b.bits
  <2>1. ~(idx < b.bits)
    BY <1>11, <1>18, <1>20, Zenon
  <2>. QED BY <1>8, <1>15, <2>1
<1>22. idx <= at
  BY <1>8, <1>9, <1>13, <1>14, <1>21 DEF SearchResult
<1>. QED BY <1>8, <1>13, <1>15, <1>21, <1>22
-----------------------------------------------------------------------------
(***************************************************************************)
(* pmem_add: what is left of a range when no region holds one of its ends. *)
(***************************************************************************)
Clear(rs, N, x) ==
  \A i \in 1 .. N : ~StartsIn(rs[i], x[1]) /\ ~EndsIn(rs[i], x[1], x[2])

\* x is a part of y.
PartOf(x, y) == x[1] >= y[1] /\ x[1] + x[2] <= y[1] + y[2]

\* One round leaves a part, and a shorter one unless it was the last.
LEMMA RecheckEffect ==
  ASSUME Facts,
         NEW rs, NEW N \in Nat, rs \in [1 .. N -> Regions], NEW x \in Nat \X Nat
  PROVE  /\ Recheck(rs, x) \in Nat \X Nat
         /\ PartOf(Recheck(rs, x), x)
         /\ Recheck(rs, x) = x \/ Recheck(rs, x)[2] < x[2]
         /\ x[2] > 0 /\ Recheck(rs, x) = x => Clear(rs, N, x)
<1> DEFINE hits == {i \in 1 .. N : StartsIn(rs[i], x[1]) \/ EndsIn(rs[i], x[1], x[2])}
           k == Min(hits)
           r == rs[k]
           y == Recheck(rs, x)
<1>1. DOMAIN rs = 1 .. N
  OBVIOUS
<1>2. y = IF hits = {} THEN x
          ELSE IF ~StartsIn(r, x[1]) THEN <<x[1], r.start - x[1]>>
          ELSE IF x[1] + x[2] <= End(r) THEN <<x[1], 0>>
          ELSE <<End(r), x[2] - (End(r) - x[1])>>
  BY <1>1, Zenon DEF Recheck
<1>3. CASE hits = {}
  <2>1. y = x
    BY <1>2, <1>3, Zenon
  <2>2. Clear(rs, N, x)
    BY <1>3, Zenon DEF Clear
  <2>. QED BY <2>1, <2>2 DEF PartOf
<1>4. CASE hits # {}
  <2>1. k \in 1 .. N /\ (StartsIn(r, x[1]) \/ EndsIn(r, x[1], x[2]))
    <3>1. hits \subseteq Nat
      OBVIOUS
    <3>2. k \in hits
      <4>. HIDE DEF hits
      <4>. QED BY <1>4, <3>1, MinProperties, Zenon
    <3>. QED BY <3>2, Zenon
  <2>2. r.start \in Nat /\ End(r) \in Nat /\ r.start < End(r)
    <3>1. r \in Regions
      BY <2>1, Zenon
    <3>. HIDE DEF r
    <3>. QED BY <3>1 DEF Regions, Maps, End
  <2>. HIDE DEF r, hits, y
  <2>3. PICK a \in Nat, l \in Nat : x = <<a, l>>
    OBVIOUS
  <2>4. x[1] = a /\ x[2] = l
    BY <2>3
  <2>5. (StartsIn(r, a) <=> a >= r.start /\ a < End(r))
        /\ (EndsIn(r, a, l) <=> a + l > r.start /\ a + l < End(r))
    BY DEF StartsIn, EndsIn, pmem_reg_contains
  <2>6. y = IF ~StartsIn(r, a) THEN <<a, r.start - a>>
            ELSE IF a + l <= End(r) THEN <<a, 0>>
            ELSE <<End(r), l - (End(r) - a)>>
    BY <1>2, <1>4, <2>4, Zenon
  <2>7. y \in Nat \X Nat /\ y[1] >= a /\ y[1] + y[2] <= a + l
        /\ (l > 0 => y[2] < l) /\ (l = 0 => y = <<a, 0>>)
    <3>1. StartsIn(r, a) \/ EndsIn(r, a, l)
      BY <2>1, <2>4, Zenon
    <3>2. CASE ~StartsIn(r, a)
      <4>1. y = <<a, r.start - a>>
        BY <2>6, <3>2, Zenon
      <4>2. a < r.start /\ r.start < a + l /\ l > 0
        BY <2>2, <2>5, <3>1, <3>2
      <4>. QED BY <2>2, <4>1, <4>2
    <3>3. CASE StartsIn(r, a) /\ a + l <= End(r)
      <4>1. y = <<a, 0>>
        BY <2>6, <3>3, Zenon
      <4>. QED BY <4>1
    <3>4. CASE StartsIn(r, a) /\ ~(a + l <= End(r))
      <4>1. y = <<End(r), l - (End(r) - a)>>
        BY <2>6, <3>4, Zenon
      <4>2. a < End(r) /\ End(r) < a + l /\ l > 0
        BY <2>2, <2>5, <3>4
      <4>. QED BY <2>2, <4>1, <4>2
    <3>. QED BY <3>2, <3>3, <3>4, Zenon
  <2>8. PartOf(y, x)
    BY <2>4, <2>7 DEF PartOf
  <2>9. l = 0 => y = x
    BY <2>3, <2>7
  <2>10. l > 0 => y # x
    BY <2>4, <2>7
  <2>11. y = x \/ y[2] < x[2]
    BY <2>4, <2>7, <2>9
  <2>. QED BY <2>4, <2>7, <2>8, <2>10, <2>11 DEF y
<1>. QED BY <1>3, <1>4, Zenon

LEMMA TrimmedEffect ==
  ASSUME Facts, NEW rs, NEW N \in Nat, rs \in [1 .. N -> Regions],
         NEW start \in Nat, NEW length \in Nat
  PROVE  /\ Trimmed(rs, start, length) \in Nat \X Nat
         /\ PartOf(Trimmed(rs, start, length), <<start, length>>)
         /\ Trimmed(rs, start, length)[2] > 0 => Clear(rs, N, Trimmed(rs, start, length))
<1> DEFINE a == <<start, length>>
           S == Nat \X Nat
           D(h) == [k \in 0 .. length |-> IF k = 0 THEN a ELSE Recheck(rs, h[k - 1])]
           f == CHOOSE h : h = D(h)
           step == [z \in (0 .. length) \X S |-> Recheck(rs, z[2])]
           x == Trimmed(rs, start, length)
<1>0. 0 \in Int /\ length \in Int /\ 0 <= length /\ a \in S
      /\ 0 \in 0 .. length /\ length \in 0 .. length
  OBVIOUS
<1>1. step \in [(0 .. length) \X S -> S]
  <2>1. \A z \in (0 .. length) \X S : z[2] \in S
    OBVIOUS
  <2>2. \A z \in (0 .. length) \X S : Recheck(rs, z[2]) \in S
    BY <2>1, RecheckEffect
  <2>. QED BY <2>2, Zenon
<1>2. PICK g : Computes(g, 0, length, S, a, step)
  <2>. HIDE DEF S, step, a
  <2>. QED BY <1>0, <1>1, Recursion, Zenon
<1>3. g \in [0 .. length -> S] /\ g[0] = a
      /\ \A k \in (0 + 1) .. length : g[k] = step[<<k, g[k - 1]>>]
  BY <1>2, Zenon DEF Computes
<1>4. \A k \in 1 .. length : g[k] = Recheck(rs, g[k - 1])
  <2>. SUFFICES ASSUME NEW k \in 1 .. length
                PROVE  g[k] = Recheck(rs, g[k - 1])
    OBVIOUS
  <2>1. k \in (0 + 1) .. length /\ k \in 0 .. length /\ k - 1 \in 0 .. length
    OBVIOUS
  <2>2. g[k - 1] \in S
    BY <1>3, <2>1, Zenon
  <2>3. <<k, g[k - 1]>> \in (0 .. length) \X S
    BY <2>1, <2>2, Zenon
  <2>4. step[<<k, g[k - 1]>>] = Recheck(rs, <<k, g[k - 1]>>[2])
    BY <2>3, Zenon
  <2>5. <<k, g[k - 1]>>[2] = g[k - 1]
    OBVIOUS
  <2>. HIDE DEF step, S
  <2>. QED BY <1>3, <2>1, <2>4, <2>5, Zenon
<1>. HIDE DEF step
<1>5. g = D(g)
  <2>1. \A k \in 0 .. length : k = 0 \/ k \in 1 .. length
    OBVIOUS
  <2>2. \A k \in 0 .. length : g[k] = IF k = 0 THEN a ELSE Recheck(rs, g[k - 1])
    BY <1>3, <1>4, <2>1, Zenon
  <2>3. g = [k \in 0 .. length |-> g[k]]
    BY <1>3, Zenon
  <2>. HIDE DEF a
  <2>. QED BY <2>2, <2>3, Zenon
<1>6. f = D(f)
  BY <1>5, Zenon
<1>7. x = f[length]
  BY Zenon DEF Trimmed
<1>. HIDE DEF f, x, a
<1>8. f[0] = a /\ \A k \in 1 .. length : f[k] = Recheck(rs, f[k - 1])
  <2>1. \A k \in 1 .. length : k \in 0 .. length /\ k # 0
    OBVIOUS
  <2>. QED BY <1>0, <1>6, <2>1, Zenon
<1>. DEFINE Fits(y, k) == /\ y \in S /\ PartOf(y, a)
                          /\ y[2] <= length - k \/ Recheck(rs, y) = y
            T == {k \in 0 .. length : Fits(f[k], k)}
<1>9. 0 \in T
  <2>1. Fits(a, 0)
    BY <1>0 DEF PartOf, a
  <2>. QED BY <1>0, <1>8, <2>1, Zenon
<1>10. ASSUME NEW k \in (0 + 1) .. length, k - 1 \in T
       PROVE  k \in T
  <2>1. Fits(f[k - 1], k - 1) /\ f[k] = Recheck(rs, f[k - 1])
    BY <1>8, <1>10
  <2>0. k \in 0 .. length
    OBVIOUS
  <2>. SUFFICES ASSUME NEW y, NEW w, y = f[k - 1], w = f[k]
                PROVE  Fits(w, k)
    <3>. HIDE DEF Fits
    <3>. QED BY <2>0, Zenon
  <2>2. /\ w = Recheck(rs, y) /\ y \in S /\ PartOf(y, a)
        /\ y[2] <= length - (k - 1) \/ w = y
    BY <2>1, Zenon
  <2>3. w \in S /\ PartOf(w, y) /\ (w = y \/ w[2] < y[2])
    BY <2>2, RecheckEffect, ZenonT(60)
  <2>4. w = y => Recheck(rs, w) = w
    BY <2>2, Zenon
  <2>5. PartOf(w, a)
    <3>1. w[1] \in Nat /\ w[2] \in Nat /\ y[1] \in Nat /\ y[2] \in Nat
          /\ a[1] \in Nat /\ a[2] \in Nat
      BY <1>0, <2>2, <2>3
    <3>. QED BY <2>2, <2>3, <3>1, SMTT(30) DEF PartOf
  <2>6. w = y \/ w[2] <= length - k
    <3>1. w[2] \in Nat /\ y[2] \in Nat
      BY <2>2, <2>3
    <3>. QED BY <2>2, <2>3, <3>1
  <2>. QED BY <2>3, <2>4, <2>5, <2>6, Zenon
<1>11. length \in T
  <2>. HIDE DEF T
  <2>. QED BY <1>0, <1>9, <1>10, IntervalInduction, Zenon
<1>12. Fits(x, length)
  BY <1>7, <1>11, Zenon
<1>13. x[2] > 0 => Clear(rs, N, x)
  <2>1. x \in S /\ (x[2] <= length - length \/ Recheck(rs, x) = x)
    BY <1>12, Zenon
  <2>2. x[2] \in Nat
    BY <2>1
  <2>3. x[2] > 0 => Recheck(rs, x) = x
    BY <2>1, <2>2
  <2>. QED BY <2>1, <2>3, RecheckEffect, Zenon
<1>. QED BY <1>12, <1>13, Zenon DEF x, a
-----------------------------------------------------------------------------
(***************************************************************************)
(* pmem_reserve: the region a page is come to in holds the page, and in a  *)
(* list in ascending order no page of a region is skipped.                 *)
(***************************************************************************)
Sorted == \A i, j \in DOMAIN regs : i < j => End(regs[i]) <= regs[j].start

\* The region among those from the k-th on that holds a page, 0 if none does.
NextHit(k, page) ==
  LET hits == {i \in DOMAIN regs : i >= k /\ pmem_reg_contains(regs[i], page)}
  IN  IF hits = {} THEN 0 ELSE Min(hits)

LEMMA NextHitEffect ==
  ASSUME Facts,
         NEW N \in Nat, regs \in [1 .. N -> Regions], NEW k \in 0 .. N, NEW page \in Int
  PROVE  /\ NextHit(k, page) \in 0 .. N
         /\ NextHit(k, page) # 0 => /\ NextHit(k, page) >= k
                                    /\ pmem_reg_contains(regs[NextHit(k, page)], page)
         /\ NextHit(k, page) = 0 =>
              \A i \in 1 .. N : i >= k => ~pmem_reg_contains(regs[i], page)
<1> DEFINE hits == {i \in 1 .. N : i >= k /\ pmem_reg_contains(regs[i], page)}
<1>1. NextHit(k, page) = IF hits = {} THEN 0 ELSE Min(hits)
  <2>1. DOMAIN regs = 1 .. N
    OBVIOUS
  <2>. QED BY <2>1, Zenon DEF NextHit
<1>2. CASE hits = {}
  <2>1. NextHit(k, page) = 0
    BY <1>1, <1>2, Zenon
  <2>2. 0 \in 0 .. N
    OBVIOUS
  <2>. QED BY <1>2, <2>1, <2>2, Zenon
<1>3. CASE hits # {}
  <2>1. hits \subseteq Nat
    OBVIOUS
  <2>2. NextHit(k, page) \in hits
    <3>. HIDE DEF hits
    <3>. QED BY <1>1, <1>3, <2>1, MinProperties, Zenon
  <2>3. NextHit(k, page) \in 1 .. N /\ NextHit(k, page) >= k
        /\ pmem_reg_contains(regs[NextHit(k, page)], page)
    BY <2>2, Zenon
  <2>4. \A i \in 1 .. N : i \in 0 .. N /\ i # 0
    OBVIOUS
  <2>. QED BY <2>3, <2>4, Zenon
<1>. QED BY <1>2, <1>3, Zenon

\* The steps of the search for the pages of a range.
Visits(visit, addr, length, N) ==
  /\ visit \in [(addr - 1) .. (addr + length - 1) -> 0 .. N]
  /\ visit[addr - 1] = 0
  /\ \A page \in addr .. (addr + length - 1) : visit[page] = NextHit(visit[page - 1], page)

LEMMA VisitedSteps ==
  ASSUME Facts, NEW N \in Nat, regs \in [1 .. N -> Regions],
         NEW addr \in Nat, NEW length \in Nat
  PROVE  Visits(Visited(addr, length), addr, length, N)
<1> DEFINE lo == addr - 1
           hi == addr + length - 1
           S == 0 .. N
           Hits(h, page) == {i \in DOMAIN regs : /\ i >= h[page - 1]
                                                 /\ pmem_reg_contains(regs[i], page)}
           D(h) == [page \in lo .. hi |->
                      IF page < addr \/ Hits(h, page) = {} THEN 0 ELSE Min(Hits(h, page))]
           f == CHOOSE h : h = D(h)
           step == [z \in (lo .. hi) \X S |-> NextHit(z[2], z[1])]
<1>0. /\ lo \in Int /\ hi \in Int /\ lo <= hi /\ 0 \in S /\ lo + 1 = addr
      /\ lo \in lo .. hi /\ lo < addr
      /\ \A page \in addr .. hi : ~(page < addr) /\ page \in lo .. hi /\ page - 1 \in lo .. hi
      /\ \A page \in lo .. hi : page = lo \/ page \in addr .. hi
  OBVIOUS
<1>1. step \in [(lo .. hi) \X S -> S]
  <2>1. \A z \in (lo .. hi) \X S : z[2] \in S /\ z[1] \in Int
    OBVIOUS
  <2>2. \A z \in (lo .. hi) \X S : NextHit(z[2], z[1]) \in S
    BY <2>1, NextHitEffect
  <2>. QED BY <2>2, Zenon
<1>2. PICK g : Computes(g, lo, hi, S, 0, step)
  <2>. HIDE DEF S, step, lo, hi
  <2>. QED BY <1>0, <1>1, Recursion, Zenon
<1>3. g \in [lo .. hi -> S] /\ g[lo] = 0
      /\ \A page \in addr .. hi : g[page] = step[<<page, g[page - 1]>>]
  <2>. HIDE DEF S, step, lo, hi
  <2>. QED BY <1>0, <1>2, Zenon DEF Computes
<1>4. \A page \in addr .. hi : g[page] = NextHit(g[page - 1], page)
  <2>. SUFFICES ASSUME NEW page \in addr .. hi
                PROVE  g[page] = NextHit(g[page - 1], page)
    OBVIOUS
  <2>1. <<page, g[page - 1]>> \in (lo .. hi) \X S
    <3>. HIDE DEF S, lo, hi, step
    <3>. QED BY <1>0, <1>3, Zenon
  <2>2. step[<<page, g[page - 1]>>] = NextHit(<<page, g[page - 1]>>[2], <<page, g[page - 1]>>[1])
    BY <2>1, Zenon
  <2>3. <<page, g[page - 1]>>[2] = g[page - 1] /\ <<page, g[page - 1]>>[1] = page
    OBVIOUS
  <2>. HIDE DEF step, S, lo, hi
  <2>. QED BY <1>3, <2>2, <2>3, Zenon
<1>. HIDE DEF step
<1>5. \A h : \A page \in addr .. hi :
        NextHit(h[page - 1], page) =
          IF page < addr \/ Hits(h, page) = {} THEN 0 ELSE Min(Hits(h, page))
  <2>. HIDE DEF lo, hi
  <2>. QED BY <1>0, Zenon DEF NextHit
<1>6. g = D(g)
  <2>. HIDE DEF lo, hi, Hits, S
  <2>1. \A page \in lo .. hi :
          g[page] = IF page < addr \/ Hits(g, page) = {} THEN 0 ELSE Min(Hits(g, page))
    BY <1>0, <1>3, <1>4, <1>5, ZenonT(60)
  <2>2. g = [page \in lo .. hi |-> g[page]]
    BY <1>3, Zenon
  <2>. QED BY <2>1, <2>2, Zenon
<1>7. f = D(f)
  <2>. HIDE DEF Hits
  <2>. QED BY <1>6, Zenon
<1>8. Visited(addr, length) = f
  BY Zenon DEF Visited
<1>. HIDE DEF f
<1>9. f[lo] = 0 /\ \A page \in addr .. hi : f[page] = NextHit(f[page - 1], page)
  <2>. HIDE DEF lo, hi, Hits
  <2>. QED BY <1>0, <1>5, <1>7, Zenon
<1>. DEFINE T == {page \in lo .. hi : f[page] = g[page]}
<1>10. \A page \in lo .. hi : page \in T
  <2>1. lo \in T
    <3>. HIDE DEF lo, hi
    <3>. QED BY <1>0, <1>3, <1>9, Zenon
  <2>2. ASSUME NEW page \in (lo + 1) .. hi, page - 1 \in T
        PROVE  page \in T
    <3>. HIDE DEF lo, hi
    <3>1. page \in addr .. hi
      BY <1>0, <2>2, Zenon
    <3>2. g[page] = NextHit(g[page - 1], page) /\ f[page] = NextHit(f[page - 1], page)
      BY <1>4, <1>9, <3>1, Zenon
    <3>3. f[page - 1] = g[page - 1]
      BY <2>2, Zenon
    <3>4. page \in lo .. hi
      BY <1>0, <3>1, Zenon
    <3>. QED BY <3>2, <3>3, <3>4, Zenon
  <2>. HIDE DEF lo, hi, T
  <2>. QED BY <1>0, <2>1, <2>2, IntervalInduction, SMTT(20)
<1>11. f = g
  <2>1. f = [page \in lo .. hi |-> f[page]]
    BY <1>7, Zenon
  <2>2. g = [page \in lo .. hi |-> g[page]]
    BY <1>3, Zenon
  <2>. HIDE DEF lo, hi
  <2>. QED BY <1>10, <2>1, <2>2, Zenon
<1>. QED BY <1>3, <1>4, <1>8, <1>11, Zenon DEF Visits

LEMMA VisitedEffect ==
  ASSUME Facts, NEW N \in Nat, regs \in [1 .. N -> Regions],
         NEW addr \in Nat, NEW length \in Nat, NEW page \in addr .. (addr + length - 1)
  PROVE  LET v == Visited(addr, length)[page]
         IN  /\ v \in 0 .. N
             /\ v # 0 => pmem_reg_contains(regs[v], page)
             /\ v = 0 /\ Sorted => \A i \in 1 .. N : ~pmem_reg_contains(regs[i], page)
<1> DEFINE visit == Visited(addr, length)
           v == visit[page]
           u == visit[page - 1]
<1>1. Visits(visit, addr, length, N)
  BY VisitedSteps
<1>. HIDE DEF visit
<1>2. u \in 0 .. N /\ v = NextHit(u, page) /\ page \in Int
  <2>1. page \in Int /\ page - 1 \in (addr - 1) .. (addr + length - 1)
    OBVIOUS
  <2>. QED BY <1>1, <2>1, Zenon DEF Visits
<1>3. u # 0 => pmem_reg_contains(regs[u], page - 1)
  <2>1. CASE page = addr
    BY <1>1, <2>1, Zenon DEF Visits
  <2>2. CASE page # addr
    <3>1. /\ page - 1 \in addr .. (addr + length - 1) /\ page - 1 \in Int
          /\ (page - 1) - 1 \in (addr - 1) .. (addr + length - 1)
      BY <2>2
    <3>2. visit[(page - 1) - 1] \in 0 .. N /\ u = NextHit(visit[(page - 1) - 1], page - 1)
      BY <1>1, <3>1, Zenon DEF Visits
    <3>. QED BY <3>1, <3>2, NextHitEffect, Zenon
  <2>. QED BY <2>1, <2>2
<1>4. /\ v \in 0 .. N /\ (v # 0 => pmem_reg_contains(regs[v], page))
      /\ v = 0 => \A i \in 1 .. N : i >= u => ~pmem_reg_contains(regs[i], page)
  <2>. HIDE DEF u, v
  <2>1. /\ NextHit(u, page) \in 0 .. N
        /\ NextHit(u, page) # 0 => pmem_reg_contains(regs[NextHit(u, page)], page)
        /\ NextHit(u, page) = 0 =>
             \A i \in 1 .. N : i >= u => ~pmem_reg_contains(regs[i], page)
    BY <1>2, NextHitEffect, Zenon
  <2>. QED BY <1>2, <2>1, Zenon
<1>5. ASSUME v = 0, Sorted, NEW i \in 1 .. N, pmem_reg_contains(regs[i], page)
      PROVE  FALSE
  <2>1. ~(i >= u)
    BY <1>4, <1>5, Zenon
  <2>2. u # 0 /\ u \in 1 .. N /\ i < u
    BY <1>2, <2>1
  <2>3. End(regs[i]) <= regs[u].start
    <3>1. DOMAIN regs = 1 .. N
      OBVIOUS
    <3>. QED BY <1>5, <2>2, <3>1, Zenon DEF Sorted
  <2>4. pmem_reg_contains(regs[u], page - 1)
    BY <1>3, <2>2, Zenon
  <2>5. regs[i] \in Regions /\ regs[u] \in Regions
    BY <2>2
  <2>6. \A r \in Regions : r.start \in Int /\ End(r) \in Int
    BY DEF Regions, Maps, End
  <2>7. page >= regs[i].start /\ page < End(regs[i]) /\ page - 1 >= regs[u].start
    BY <1>5, <2>4, Zenon DEF pmem_reg_contains
  <2>. QED BY <1>2, <2>3, <2>5, <2>6, <2>7
<1>. QED BY <1>4, <1>5, Zenon DEF visit

\* Setting a bit marks that bit and no other one of the map.
LEMMA MarkBit ==
  ASSUME NEW b \in Maps, NEW bit \in 0 .. (IntBits - 1)
  PROVE  /\ bmap_set(b, bit, TRUE) \in Maps
         /\ bmap_set(b, bit, TRUE).bits = b.bits
         /\ bit < b.bits /\ b.bits <= IntBits =>
              /\ Marks(bmap_set(b, bit, TRUE)) = Marks(b) \union {bit}
              /\ bmap_set(b, bit, TRUE).set_cnt = b.set_cnt + 1
<1>1. /\ bit \in Mask(bit) /\ Mask(bit) \subseteq Nat
      /\ \A i \in 0 .. (IntBits - 1) : i \in Mask(bit) => i = bit
  BY MaskOfBit
<1>2. IntBits \in Nat /\ bit \in Nat /\ b.bits \in Nat
  BY WidthAssumption DEF Maps
<1>. DEFINE c == [bits |-> b.bits, storage |-> b.storage \union Mask(bit),
                  set_cnt |-> b.set_cnt + 1, hint |-> b.hint]
<1>3. bmap_set(b, bit, TRUE) = IF bit > b.bits THEN b ELSE c
  <2>1. \A st, k : [b EXCEPT !.storage = st, !.set_cnt = k] =
                     [bits |-> b.bits, storage |-> st, set_cnt |-> k, hint |-> b.hint]
    BY UpdateMap, Zenon
  <2>2. [b EXCEPT !.storage = @ \union Mask(bit), !.set_cnt = @ + 1] = c
    BY <2>1, Zenon
  <2>. HIDE DEF c
  <2>. QED BY <2>2, Zenon DEF bmap_set
<1>4. c \in Maps /\ c.bits = b.bits /\ c.set_cnt = b.set_cnt + 1
      /\ c.storage = b.storage \union Mask(bit)
  BY <1>1 DEF Maps
<1>. HIDE DEF c
<1>5. ASSUME bit < b.bits, b.bits <= IntBits
      PROVE  Marks(c) = Marks(b) \union {bit}
  <2>1. \A i : i \in 0 .. (b.bits - 1) =>
                 (i \in c.storage <=> i \in b.storage \/ i = bit)
    BY <1>1, <1>2, <1>4, <1>5
  <2>2. bit \in 0 .. (b.bits - 1)
    BY <1>2, <1>5
  <2>. QED BY <1>4, <2>1, <2>2, Zenon DEF Marks
<1>6. bit < b.bits => ~(bit > b.bits)
  BY <1>2
<1>. QED BY <1>3, <1>4, <1>5, <1>6, Zenon

\* The pages of a range that are come to in region i.
Seen(i, addr, length) ==
  {page \in addr .. (addr + length - 1) : Visited(addr, length)[page] = i}

\* The map b has become c by marking the pages V, of which none is counted twice.
MarksPages(b, c, start, V) ==
  /\ c \in Maps /\ c.bits = b.bits
  /\ Marks(c) = Marks(b) \union {page - start : page \in V}
  /\ IsFiniteSet(V) /\ c.set_cnt = b.set_cnt + Cardinality(V)

LEMMA MarksNext ==
  ASSUME Facts, NEW b \in Maps, NEW c, NEW start \in Nat, NEW V, NEW page,
         MarksPages(b, c, start, V), page \notin V,
         page - start \in 0 .. (b.bits - 1), b.bits <= IntBits
  PROVE  MarksPages(b, bmap_set(c, page - start, TRUE), start, V \union {page})
<1> DEFINE d == bmap_set(c, page - start, TRUE)
<1>1. page - start \in 0 .. (IntBits - 1) /\ page - start < c.bits /\ c.bits <= IntBits
      /\ c \in Maps
  BY WidthAssumption DEF MarksPages, Maps
<1>2. /\ d \in Maps /\ d.bits = c.bits
      /\ Marks(d) = Marks(c) \union {page - start} /\ d.set_cnt = c.set_cnt + 1
  BY <1>1, MarkBit, Zenon
<1>. HIDE DEF d
<1>3. Marks(d) = Marks(b) \union {p - start : p \in V \union {page}}
  BY <1>2, Zenon DEF MarksPages
<1>4. /\ IsFiniteSet(V \union {page}) /\ Cardinality(V) \in Nat
      /\ Cardinality(V \union {page}) = Cardinality(V) + 1
  BY FiniteAddElement, FiniteCardinalityType, Zenon DEF MarksPages
<1>5. d.set_cnt = b.set_cnt + Cardinality(V \union {page})
  <2>1. b.set_cnt \in Int
    BY DEF Maps
  <2>. QED BY <1>2, <1>4, <2>1 DEF MarksPages
<1>. QED BY <1>2, <1>3, <1>4, <1>5, Zenon DEF MarksPages, d

LEMMA MarkedEffect ==
  ASSUME Facts, NEW N \in Nat, regs \in [1 .. N -> Regions], NEW i \in 1 .. N,
         regs[i].map.bits <= IntBits, NEW addr \in Nat, NEW length \in Nat
  PROVE  MarksPages(regs[i].map, Marked(i, addr, length), regs[i].start,
                    Seen(i, addr, length))
<1> DEFINE lo == addr - 1
           hi == addr + length - 1
           start == regs[i].start
           b == regs[i].map
           visit == Visited(addr, length)
           D(h) == [page \in lo .. hi |->
                      IF page < addr THEN b
                      ELSE IF visit[page] = i THEN bmap_set(h[page - 1], page - start, TRUE)
                      ELSE h[page - 1]]
           f == CHOOSE h : h = D(h)
           Step(page, c) == IF page < addr \/ visit[page] # i THEN c
                            ELSE bmap_set(c, page - start, TRUE)
           step == [z \in (lo .. hi) \X Maps |-> Step(z[1], z[2])]
<1>0. /\ lo \in Int /\ hi \in Int /\ lo <= hi /\ lo + 1 = addr
      /\ lo \in lo .. hi /\ lo < addr /\ hi \in lo .. hi
      /\ \A page \in addr .. hi : ~(page < addr) /\ page \in lo .. hi /\ page - 1 \in lo .. hi
      /\ \A page \in lo .. hi : page < addr \/ page \in addr .. hi
      /\ \A page \in lo .. hi : page < addr => page = lo
  OBVIOUS
<1>1. regs[i] \in Regions /\ start \in Nat /\ b \in Maps /\ b.bits <= IntBits
  BY DEF Regions
<1>2. \A page \in addr .. hi : visit[page] = i => page - start \in 0 .. (b.bits - 1)
  <2>1. \A page \in addr .. hi : i # 0 /\ page \in Int
    OBVIOUS
  <2>2. \A page \in addr .. hi : visit[page] = i => pmem_reg_contains(regs[i], page)
    BY <2>1, VisitedEffect, Zenon
  <2>3. ASSUME NEW page \in Int, pmem_reg_contains(regs[i], page)
        PROVE  page - start \in 0 .. (b.bits - 1)
    <3>1. b.bits \in Nat
      BY <1>1 DEF Maps
    <3>2. page >= start /\ page < start + b.bits
      BY <2>3, Zenon DEF pmem_reg_contains, End
    <3>. HIDE DEF b, start
    <3>. QED BY <1>1, <3>1, <3>2
  <2>. HIDE DEF visit, b, start
  <2>. QED BY <2>1, <2>2, <2>3, Zenon
<1>. HIDE DEF visit, b, start
<1>3. step \in [(lo .. hi) \X Maps -> Maps]
  <2>1. ASSUME NEW page \in lo .. hi, NEW c \in Maps
        PROVE  Step(page, c) \in Maps
    <3>1. CASE page < addr \/ visit[page] # i
      BY <3>1, Zenon
    <3>2. CASE ~(page < addr) /\ visit[page] = i
      <4>1. page \in addr .. hi
        BY <1>0, <3>2, Zenon
      <4>2. page - start \in 0 .. (IntBits - 1)
        BY <1>1, <1>2, <3>2, <4>1, WidthAssumption DEF Maps
      <4>3. bmap_set(c, page - start, TRUE) \in Maps
        BY <4>2, MarkBit, Zenon
      <4>. QED BY <3>2, <4>3, Zenon
    <3>. QED BY <3>1, <3>2, Zenon
  <2>2. \A z \in (lo .. hi) \X Maps : z[1] \in lo .. hi /\ z[2] \in Maps
    OBVIOUS
  <2>. HIDE DEF Step
  <2>. QED BY <2>1, <2>2, Zenon
<1>4. PICK g : Computes(g, lo, hi, Maps, b, step)
  <2>. HIDE DEF step, lo, hi
  <2>. QED BY <1>0, <1>1, <1>3, Recursion, Zenon
<1>5. g \in [lo .. hi -> Maps] /\ g[lo] = b
      /\ \A page \in addr .. hi : g[page] = step[<<page, g[page - 1]>>]
  <2>. HIDE DEF step, lo, hi
  <2>. QED BY <1>0, <1>4, Zenon DEF Computes
<1>6. \A page \in addr .. hi : g[page] = Step(page, g[page - 1])
  <2>. SUFFICES ASSUME NEW page \in addr .. hi
                PROVE  g[page] = Step(page, g[page - 1])
    BY Zenon
  <2>. HIDE DEF Step
  <2>1. <<page, g[page - 1]>> \in (lo .. hi) \X Maps
    <3>. HIDE DEF lo, hi, step
    <3>. QED BY <1>0, <1>5, Zenon
  <2>2. step[<<page, g[page - 1]>>] = Step(<<page, g[page - 1]>>[1], <<page, g[page - 1]>>[2])
    BY <2>1, Zenon
  <2>3. <<page, g[page - 1]>>[2] = g[page - 1] /\ <<page, g[page - 1]>>[1] = page
    OBVIOUS
  <2>. HIDE DEF step, lo, hi
  <2>. QED BY <1>5, <2>2, <2>3, Zenon
<1>. HIDE DEF step
<1>7. g = D(g)
  <2>. HIDE DEF lo, hi
  <2>1. \A page \in lo .. hi :
          g[page] = IF page < addr THEN b
                    ELSE IF visit[page] = i THEN bmap_set(g[page - 1], page - start, TRUE)
                    ELSE g[page - 1]
    BY <1>0, <1>5, <1>6, Zenon
  <2>2. g = [page \in lo .. hi |-> g[page]]
    BY <1>5, Zenon
  <2>. QED BY <2>1, <2>2, Zenon
<1>8. f = D(f)
  BY <1>7, Zenon
<1>9. Marked(i, addr, length) = f[hi]
  BY Zenon DEF Marked, visit, b, start
<1>. HIDE DEF f
<1>10. f[lo] = b /\ \A page \in addr .. hi : f[page] = Step(page, f[page - 1])
  <2>. HIDE DEF lo, hi
  <2>. QED BY <1>0, <1>8, Zenon
<1>. DEFINE V(m) == {page \in addr .. m : visit[page] = i}
            T == {m \in lo .. hi : MarksPages(b, f[m], start, V(m))}
<1>11. lo \in T
  <2>1. V(lo) = {}
    OBVIOUS
  <2>2. IsFiniteSet(V(lo)) /\ Cardinality(V(lo)) = 0
    BY <2>1, FiniteEmptySet, Zenon
  <2>3. {page - start : page \in V(lo)} = {}
    BY <2>1, Zenon
  <2>4. b.set_cnt = b.set_cnt + 0
    BY <1>1 DEF Maps
  <2>5. MarksPages(b, b, start, V(lo))
    <3>. HIDE DEF V
    <3>. QED BY <1>1, <2>2, <2>3, <2>4, Zenon DEF MarksPages
  <2>. HIDE DEF V, lo, hi
  <2>. QED BY <1>0, <1>10, <2>5, Zenon
<1>12. ASSUME NEW m \in (lo + 1) .. hi, m - 1 \in T
       PROVE  m \in T
  <2>1. m \in addr .. hi /\ m \in lo .. hi /\ ~(m < addr)
    BY <1>0
  <2>2. MarksPages(b, f[m - 1], start, V(m - 1)) /\ f[m] = Step(m, f[m - 1])
    BY <1>10, <1>12, <2>1, Zenon
  <2>3. CASE visit[m] # i
    <3>1. V(m) = V(m - 1)
      BY <2>1, <2>3
    <3>. HIDE DEF V, lo, hi
    <3>. QED BY <2>1, <2>2, <2>3, <3>1, Zenon
  <2>4. CASE visit[m] = i
    <3>1. V(m) = V(m - 1) \union {m} /\ m \notin V(m - 1)
      BY <2>1, <2>4, SMTT(20)
    <3>. HIDE DEF V
    <3>2. MarksPages(b, bmap_set(f[m - 1], m - start, TRUE), start, V(m - 1) \union {m})
      BY <1>1, <1>2, <2>1, <2>2, <2>4, <3>1, MarksNext, Zenon
    <3>. HIDE DEF lo, hi
    <3>. QED BY <2>1, <2>2, <2>4, <3>1, <3>2, Zenon
  <2>. QED BY <2>3, <2>4, Zenon
<1>13. hi \in T
  <2>. HIDE DEF T, lo, hi
  <2>. QED BY <1>0, <1>11, <1>12, IntervalInduction, Zenon
<1>14. MarksPages(b, f[hi], start, V(hi))
  <2>. HIDE DEF lo, hi, V
  <2>. QED BY <1>13, Zenon
<1>. QED BY <1>9, <1>14, Zenon DEF Seen, b, start, visit

-----------------------------------------------------------------------------
(***************************************************************************)
(* The inductive invariant, as a predicate of the list of regions, the     *)
(* owners, the live blocks and the reserved pages.                         *)
(***************************************************************************)
BlockPages(b) == b[1] .. (b[1] + b[2] - 1)

OwnedBy(bs, p) == \E b \in bs : p \in BlockPages(b)

\* The block is in the region, ends before its last page, and is marked there.
Within(b, r) ==
  /\ b[1] - r.start \in Nat /\ (b[1] - r.start) + b[2] < r.map.bits
  /\ \A p \in BlockPages(b) : p - r.start \in Marks(r.map)

Apart(rs, N) ==
  \A i, j \in 1 .. N : i # j => Holds(rs[i]) \intersect Holds(rs[j]) = {}

BlocksMarked(rs, N, bs) == \A b \in bs : \E i \in 1 .. N : Within(b, rs[i])

BlocksApart(bs) ==
  \A b, c \in bs : b # c => BlockPages(b) \intersect BlockPages(c) = {}

CountsMarks(rs, N) ==
  \A i \in 1 .. N : rs[i].map.set_cnt = Cardinality(Marks(rs[i].map))

MarksUsed(rs, N, bs, rv) ==
  \A i \in 1 .. N : \A bit \in Marks(rs[i].map) :
    OwnedBy(bs, rs[i].start + bit) \/ rs[i].start + bit \in rv

OwnersOf(bs) == [p \in Pages |-> IF OwnedBy(bs, p) THEN 1 ELSE 0]

Good(rs, N, os, bs, rv) ==
  /\ RegionList(rs, N)
  /\ Apart(rs, N)
  /\ bs \subseteq Pages \X Counts /\ \A b \in bs : b[1] \in Nat
  /\ BlocksMarked(rs, N, bs)
  /\ BlocksApart(bs)
  /\ os = OwnersOf(bs)
  /\ CountsMarks(rs, N)
  /\ MarksUsed(rs, N, bs, rv)

\* What is known of the reserved pages if the list is in ascending order.
Kept(rs, N, bs, rv) ==
  \A p \in rv : /\ ~OwnedBy(bs, p)
                /\ \A i \in 1 .. N : p \in Holds(rs[i]) => p - rs[i].start \in Marks(rs[i].map)

\* The facts about a region's pages, bits and marks that the steps below use.
LEMMA RegionFacts ==
  ASSUME Facts, NEW rs, NEW N, RegionList(rs, N), NEW i \in 1 .. N
  PROVE  /\ rs[i] \in Regions /\ rs[i].start \in Nat /\ rs[i].map \in Maps
         /\ rs[i].map.bits \in Nat \ {0} /\ rs[i].map.bits <= IntBits
         /\ \A p \in Holds(rs[i]) : p \in Nat /\ p \in Pages
         /\ \A p \in Int : p \in Holds(rs[i]) <=> p - rs[i].start \in 0 .. (rs[i].map.bits - 1)
         /\ \A p \in Int : p \in Holds(rs[i]) <=> pmem_reg_contains(rs[i], p)
         /\ Marks(rs[i].map) \subseteq 0 .. (rs[i].map.bits - 1)
         /\ IsFiniteSet(Marks(rs[i].map))
<1> DEFINE r == rs[i]
<1>1. r \in Regions /\ r.map.bits <= IntBits /\ Holds(r) \subseteq Pages
  BY DEF RegionList
<1>. HIDE DEF r
<1>2. r.start \in Nat /\ r.map \in Maps /\ r.map.bits \in Nat \ {0}
  BY <1>1 DEF Regions, Maps
<1>3. \A p \in Holds(r) : p \in Nat /\ p \in Pages
  BY <1>1, <1>2 DEF Holds, End
<1>4. \A p \in Int : /\ p \in Holds(r) <=> p - r.start \in 0 .. (r.map.bits - 1)
                     /\ p \in Holds(r) <=> pmem_reg_contains(r, p)
  BY <1>2 DEF Holds, End, pmem_reg_contains
<1>5. Marks(r.map) \subseteq 0 .. (r.map.bits - 1)
  BY Zenon DEF Marks
<1>6. IsFiniteSet(Marks(r.map))
  <2>1. 0 \in Int /\ r.map.bits - 1 \in Int /\ 0 <= (r.map.bits - 1) + 1
    BY <1>2
  <2>2. IsFiniteSet(0 .. (r.map.bits - 1))
    BY <2>1, IntervalSize, Zenon
  <2>. QED BY <1>5, <2>2, FiniteSubset, Zenon
<1>. QED BY <1>1, <1>2, <1>3, <1>4, <1>5, <1>6, Zenon DEF r

\* Pages that several regions hold do not exist.
LEMMA OneRegion ==
  ASSUME NEW rs, NEW N, Apart(rs, N), NEW i \in 1 .. N, NEW j \in 1 .. N, NEW p,
         p \in Holds(rs[i]), p \in Holds(rs[j])
  PROVE  i = j
BY Zenon DEF Apart

\* A page of a live block is a page of the region that the block is in.
LEMMA WithinHolds ==
  ASSUME Facts, NEW rs, NEW N, RegionList(rs, N), NEW i \in 1 .. N,
         NEW b \in Nat \X (Nat \ {0}), Within(b, rs[i]), NEW p \in BlockPages(b)
  PROVE  p \in Holds(rs[i]) /\ p \in Nat /\ p - rs[i].start \in Marks(rs[i].map)
<1>1. rs[i].start \in Nat /\ rs[i].map.bits \in Nat
  BY RegionFacts
<1>2. b[1] \in Nat /\ b[2] \in Nat
  OBVIOUS
<1>3. p - rs[i].start \in Marks(rs[i].map)
  BY Zenon DEF Within
<1>4. p \in b[1] .. (b[1] + b[2] - 1) /\ b[1] - rs[i].start \in Nat
      /\ (b[1] - rs[i].start) + b[2] < rs[i].map.bits
  BY Zenon DEF Within, BlockPages
<1>5. p \in Nat /\ p >= rs[i].start /\ p <= rs[i].start + rs[i].map.bits - 1
  BY <1>1, <1>2, <1>4
<1>6. p \in Holds(rs[i])
  BY <1>1, <1>5 DEF Holds, End
<1>. QED BY <1>3, <1>5, <1>6

\* A page that somebody owns is marked in the region that holds it.
LEMMA OwnedMarked ==
  ASSUME Facts, NEW rs, NEW N, NEW os, NEW bs, NEW rv, Good(rs, N, os, bs, rv),
         NEW p, OwnedBy(bs, p)
  PROVE  /\ p \in Nat /\ p \in Pages
         /\ \E i \in 1 .. N : p \in Holds(rs[i]) /\ p - rs[i].start \in Marks(rs[i].map)
         /\ \A i \in 1 .. N : p \in Holds(rs[i]) => p - rs[i].start \in Marks(rs[i].map)
<1>1. PICK b \in bs : p \in BlockPages(b)
  BY Zenon DEF OwnedBy
<1>2. PICK i \in 1 .. N : Within(b, rs[i])
  BY Zenon DEF Good, BlocksMarked
<1>3. b \in Nat \X (Nat \ {0})
  <2>1. b \in Pages \X Counts /\ b[1] \in Nat /\ Counts \subseteq Nat \ {0}
    BY PmemAssumption, Zenon DEF Good
  <2>. QED BY <2>1, Zenon
<1>4. RegionList(rs, N) /\ Apart(rs, N)
  BY Zenon DEF Good
<1>5. p \in Holds(rs[i]) /\ p \in Nat /\ p - rs[i].start \in Marks(rs[i].map)
  BY <1>1, <1>2, <1>3, <1>4, WithinHolds
<1>6. p \in Pages
  BY <1>4, <1>5, RegionFacts, Zenon
<1>7. \A j \in 1 .. N : p \in Holds(rs[j]) => j = i
  BY <1>4, <1>5, OneRegion, Zenon
<1>. QED BY <1>5, <1>6, <1>7, Zenon

\* Only the maps change, and not their sizes.
SameShape(rs, qs, N) ==
  /\ qs \in [1 .. N -> Regions]
  /\ \A i \in 1 .. N : qs[i].start = rs[i].start /\ qs[i].map.bits = rs[i].map.bits

SameHolds(rs, qs, N) ==
  /\ RegionList(qs, N) /\ Apart(qs, N)
  /\ \A i \in 1 .. N : Holds(qs[i]) = Holds(rs[i])

LEMMA ShapeKept ==
  ASSUME NEW rs, NEW qs, NEW N, RegionList(rs, N), Apart(rs, N), SameShape(rs, qs, N)
  PROVE  SameHolds(rs, qs, N)
<1>1. \A i \in 1 .. N : Holds(qs[i]) = Holds(rs[i])
  BY Zenon DEF SameShape, Holds, End
<1>2. Apart(qs, N)
  BY <1>1, Zenon DEF Apart
<1>3. RegionList(qs, N)
  BY <1>1, Zenon DEF RegionList, SameShape
<1>. QED BY <1>1, <1>2, <1>3, Zenon DEF SameHolds

\* An attempt to allocate that finds nothing changes nothing that matters.
LEMMA NothingKept ==
  ASSUME NEW rs, NEW qs, NEW N, NEW os, NEW bs, NEW rv, Good(rs, N, os, bs, rv),
         NothingTaken(rs, qs, N), qs = [i \in 1 .. N |-> qs[i]]
  PROVE  /\ Good(qs, N, os, bs, rv)
         /\ Kept(rs, N, bs, rv) => Kept(qs, N, bs, rv)
<1>1. \A i \in 1 .. N : /\ qs[i] \in Regions /\ qs[i].start = rs[i].start
                        /\ qs[i].map.bits = rs[i].map.bits
                        /\ qs[i].map.set_cnt = rs[i].map.set_cnt
                        /\ qs[i].map.storage = rs[i].map.storage
  BY Zenon DEF NothingTaken, SameMarks
<1>2. SameShape(rs, qs, N)
  BY <1>1, Zenon DEF SameShape
<1>3. \A i \in 1 .. N : Marks(qs[i].map) = Marks(rs[i].map)
  BY <1>1, Zenon DEF Marks
<1>4. /\ RegionList(qs, N) /\ Apart(qs, N)
      /\ \A i \in 1 .. N : Holds(qs[i]) = Holds(rs[i])
  <2>1. SameHolds(rs, qs, N)
    BY <1>2, ShapeKept, Zenon DEF Good
  <2>. QED BY <2>1, Zenon DEF SameHolds
<1>5. \A b : \A i \in 1 .. N : Within(b, rs[i]) => Within(b, qs[i])
  BY <1>1, <1>3, Zenon DEF Within
<1>6. BlocksMarked(qs, N, bs)
  BY <1>5, Zenon DEF Good, BlocksMarked
<1>7. CountsMarks(qs, N)
  BY <1>1, <1>3, Zenon DEF Good, CountsMarks
<1>8. MarksUsed(qs, N, bs, rv)
  BY <1>1, <1>3, Zenon DEF Good, MarksUsed
<1>9. Good(qs, N, os, bs, rv)
  BY <1>4, <1>6, <1>7, <1>8, Zenon DEF Good
<1>10. Kept(rs, N, bs, rv) => Kept(qs, N, bs, rv)
  BY <1>1, <1>3, <1>4, Zenon DEF Kept
<1>. QED BY <1>9, <1>10

\* The marks and the counter of the region that gives a block.
LEMMA TakenMarks ==
  ASSUME Facts,
         NEW r \in Regions, NEW q, NEW at, NEW n \in Nat \ {0}, TakenFrom(r, q, at, n),
         r.map.set_cnt = Cardinality(Marks(r.map)), IsFiniteSet(Marks(r.map)), at \in Int
  PROVE  LET run == (at - r.start) .. ((at - r.start) + n - 1)
         IN  /\ Marks(q.map) = Marks(r.map) \union run
             /\ Marks(r.map) \intersect run = {}
             /\ q.map.set_cnt = Cardinality(Marks(q.map))
<1> DEFINE bit == at - r.start
           run == bit .. (bit + n - 1)
           bits == r.map.bits
<1>1. /\ bit \in Nat /\ bit + n < bits /\ Free(r.map, bit, n)
      /\ q.map.bits = bits /\ q.map.storage = r.map.storage \union run
      /\ q.map.set_cnt = r.map.set_cnt + n
  BY Zenon DEF TakenFrom
<1>2. bits \in Nat /\ run \subseteq 0 .. (bits - 1) /\ \A i \in run : i <= bits
  <2>1. bits \in Nat
    BY DEF Regions, Maps
  <2>. HIDE DEF bit, bits
  <2>. QED BY <1>1, <2>1
<1>3. \A i \in run : ~(i \in r.map.storage)
  BY <1>1, <1>2, Zenon DEF Free, bmap_get
<1>4. IsFiniteSet(run) /\ Cardinality(run) = n
  <2>1. bit \in Int /\ bit + n - 1 \in Int /\ bit <= (bit + n - 1) + 1 /\ (bit + n - 1) - bit + 1 = n
    <3>. HIDE DEF bit
    <3>. QED BY <1>1
  <2>. HIDE DEF bit
  <2>. QED BY <2>1, IntervalSize
<1>. HIDE DEF run, bit
<1>5. Marks(q.map) = Marks(r.map) \union run
  BY <1>1, <1>2, Zenon DEF Marks
<1>6. Marks(r.map) \intersect run = {}
  BY <1>3, Zenon DEF Marks
<1>7. Cardinality(Marks(q.map)) = Cardinality(Marks(r.map)) + n
  BY <1>4, <1>5, <1>6, DisjointUnion, Zenon
<1>. QED BY <1>1, <1>5, <1>6, <1>7, Zenon DEF run, bit

\* The allocation of a block.
LEMMA AllocKept ==
  ASSUME Facts,
         NEW rs, NEW qs, NEW N, NEW os, NEW bs, NEW rv, Good(rs, N, os, bs, rv),
         NEW at, NEW n \in Counts, BlockTaken(rs, qs, N, at, n), at \in Int,
         qs = [i \in 1 .. N |-> qs[i]],
         NEW ps, ps = [p \in Pages |-> IF p \in at .. (at + n - 1)
                                       THEN os[p] + 1 ELSE os[p]]
  PROVE  /\ Good(qs, N, ps, bs \union {<<at, n>>}, rv)
         /\ Kept(rs, N, bs, rv) => Kept(qs, N, bs \union {<<at, n>>}, rv)
<1> DEFINE new == <<at, n>>
           cs == bs \union {new}
<1>0. n \in Nat \ {0} /\ RegionList(rs, N) /\ Apart(rs, N)
      /\ BlockPages(new) = at .. (at + n - 1)
  BY PmemAssumption DEF Good, BlockPages
<1>1. PICK k \in 1 .. N : /\ TakenFrom(rs[k], qs[k], at, n)
                          /\ \A i \in (1 .. N) \ {k} : SameMarks(rs[i], qs[i])
  BY Zenon DEF BlockTaken
<1>. DEFINE run == (at - rs[k].start) .. ((at - rs[k].start) + n - 1)
<1>2. /\ at - rs[k].start \in Nat /\ (at - rs[k].start) + n < rs[k].map.bits
  BY <1>1, Zenon DEF TakenFrom
<1>3. \A i \in 1 .. N : /\ qs[i] \in Regions /\ qs[i].start = rs[i].start
                        /\ qs[i].map.bits = rs[i].map.bits
  BY <1>1, Zenon DEF TakenFrom, SameMarks
<1>4. /\ Marks(qs[k].map) = Marks(rs[k].map) \union run
      /\ Marks(rs[k].map) \intersect run = {}
      /\ qs[k].map.set_cnt = Cardinality(Marks(qs[k].map))
  <2>1. /\ rs[k] \in Regions /\ IsFiniteSet(Marks(rs[k].map))
        /\ rs[k].map.set_cnt = Cardinality(Marks(rs[k].map))
    BY <1>0, RegionFacts, Zenon DEF Good, CountsMarks
  <2>. QED BY <1>0, <1>1, <2>1, TakenMarks, ZenonT(60)
<1>5. \A i \in 1 .. N : i # k => /\ Marks(qs[i].map) = Marks(rs[i].map)
                                 /\ qs[i].map.set_cnt = rs[i].map.set_cnt
  BY <1>1, Zenon DEF SameMarks, Marks
<1>6. /\ rs[k].start \in Nat /\ rs[k].map.bits \in Nat /\ at \in Nat
      /\ \A p \in Int : p \in at .. (at + n - 1) <=> p - rs[k].start \in run
      /\ at \in at .. (at + n - 1)
  <2>1. rs[k].start \in Nat /\ rs[k].map.bits \in Nat /\ at \in Nat
    BY <1>0, <1>1, RegionFacts, SMTT(20) DEF TakenFrom
  <2>2. at \in at .. (at + n - 1)
    BY <1>0, <2>1
  <2>3. \A st \in Nat : \A p \in Int : p \in at .. (at + n - 1) <=>
          p - st \in (at - st) .. ((at - st) + n - 1)
    BY <1>0, <2>1, SMTT(20)
  <2>. QED BY <2>1, <2>2, <2>3, Zenon
<1>7. \A p \in at .. (at + n - 1) : /\ p \in Int /\ p \in Holds(rs[k]) /\ p \in Pages
                                    /\ p - rs[k].start \in run
  <2>1. \A p \in at .. (at + n - 1) :
          p \in Int /\ p - rs[k].start \in 0 .. (rs[k].map.bits - 1)
    <3>1. ASSUME NEW st \in Nat, NEW bits \in Nat, at - st \in Nat, (at - st) + n < bits,
                 NEW p \in at .. (at + n - 1)
          PROVE  p \in Int /\ p - st \in 0 .. (bits - 1)
      <4>1. at \in Nat /\ n \in Nat
        BY <1>0, <1>6
      <4>. QED BY <3>1, <4>1, SMTT(20)
    <3>. QED BY <1>2, <1>6, <3>1, Zenon
  <2>. QED BY <1>0, <1>6, <2>1, RegionFacts, Zenon
<1>. HIDE DEF run
<1>8. \A p \in at .. (at + n - 1) : ~OwnedBy(bs, p)
  BY <1>4, <1>7, OwnedMarked, Zenon
<1>9. \A i \in 1 .. N : Marks(rs[i].map) \subseteq Marks(qs[i].map)
  BY <1>4, <1>5, Zenon
<1>10. SameShape(rs, qs, N)
  BY <1>3, Zenon DEF SameShape
<1>11. /\ RegionList(qs, N) /\ Apart(qs, N)
       /\ \A i \in 1 .. N : Holds(qs[i]) = Holds(rs[i])
  <2>1. SameHolds(rs, qs, N)
    BY <1>0, <1>10, ShapeKept, Zenon
  <2>. QED BY <2>1, Zenon DEF SameHolds
<1>12. new \in Pages \X Counts /\ new[1] \in Nat /\ new[1] = at /\ new[2] = n
  BY <1>6, <1>7
<1>. HIDE DEF new
<1>13. cs \subseteq Pages \X Counts /\ \A b \in cs : b[1] \in Nat
  BY <1>12, Zenon DEF Good
<1>14. BlocksMarked(qs, N, cs)
  <2>1. \A b : \A i \in 1 .. N : Within(b, rs[i]) => Within(b, qs[i])
    BY <1>3, <1>9, Zenon DEF Within
  <2>2. \A p \in BlockPages(new) : p - qs[k].start \in Marks(qs[k].map)
    BY <1>0, <1>3, <1>4, <1>7, Zenon
  <2>3. Within(new, qs[k])
    BY <1>2, <1>3, <1>12, <2>2, Zenon DEF Within
  <2>. QED BY <2>1, <2>3, Zenon DEF Good, BlocksMarked
<1>15. \A c \in bs : BlockPages(c) \intersect BlockPages(new) = {}
  BY <1>0, <1>8, Zenon DEF OwnedBy
<1>16. BlocksApart(cs)
  BY <1>15, Zenon DEF Good, BlocksApart
<1>17. \A p : OwnedBy(cs, p) <=> OwnedBy(bs, p) \/ p \in at .. (at + n - 1)
  BY <1>0, Zenon DEF OwnedBy
<1>18. ps = OwnersOf(cs)
  <2>1. \A p \in Pages : os[p] = IF OwnedBy(bs, p) THEN 1 ELSE 0
    BY Zenon DEF Good, OwnersOf
  <2>2. 0 + 1 = 1
    OBVIOUS
  <2>3. \A p \in Pages : (IF p \in at .. (at + n - 1) THEN os[p] + 1 ELSE os[p])
                           = IF OwnedBy(cs, p) THEN 1 ELSE 0
    BY <1>8, <1>17, <2>1, <2>2, Zenon
  <2>. QED BY <2>3, Zenon DEF OwnersOf
<1>19. CountsMarks(qs, N)
  BY <1>4, <1>5, Zenon DEF Good, CountsMarks
<1>20. MarksUsed(qs, N, cs, rv)
  <2>1. \A bit \in run : rs[k].start + bit \in at .. (at + n - 1)
    <3>1. \A st \in Nat : \A bit \in (at - st) .. ((at - st) + n - 1) :
            st + bit \in at .. (at + n - 1)
      BY <1>0, <1>6, SMTT(20)
    <3>. QED BY <1>6, <3>1, Zenon DEF run
  <2>2. ASSUME NEW i \in 1 .. N, NEW bit \in Marks(qs[i].map)
        PROVE  OwnedBy(cs, qs[i].start + bit) \/ qs[i].start + bit \in rv
    <3>1. CASE bit \in Marks(rs[i].map)
      BY <1>3, <1>17, <2>2, <3>1, Zenon DEF Good, MarksUsed
    <3>2. CASE bit \notin Marks(rs[i].map)
      <4>1. i = k /\ bit \in run
        BY <1>4, <1>5, <2>2, <3>2, Zenon
      <4>. QED BY <1>3, <1>17, <2>1, <4>1, Zenon
    <3>. QED BY <3>1, <3>2
  <2>. QED BY <2>2, Zenon DEF MarksUsed
<1>21. Good(qs, N, ps, cs, rv)
  BY <1>11, <1>13, <1>14, <1>16, <1>18, <1>19, <1>20, Zenon DEF Good
<1>22. ASSUME Kept(rs, N, bs, rv), NEW p \in rv
       PROVE  /\ ~OwnedBy(cs, p)
              /\ \A i \in 1 .. N : p \in Holds(qs[i]) => p - qs[i].start \in Marks(qs[i].map)
  <2>1. /\ ~OwnedBy(bs, p)
        /\ \A i \in 1 .. N : p \in Holds(rs[i]) => p - rs[i].start \in Marks(rs[i].map)
    BY <1>22, Zenon DEF Kept
  <2>2. p \notin at .. (at + n - 1)
    BY <1>4, <1>7, <2>1, Zenon
  <2>. QED BY <1>3, <1>9, <1>11, <1>17, <2>1, <2>2, Zenon
<1>23. Kept(rs, N, bs, rv) => Kept(qs, N, cs, rv)
  BY <1>22, Zenon DEF Kept
<1>. QED BY <1>21, <1>23 DEF new

\* Taking a set of marks away takes as many off.
LEMMA SubsetDifference ==
  ASSUME Facts, NEW M, NEW R, IsFiniteSet(M), R \subseteq M
  PROVE  Cardinality(M \ R) = Cardinality(M) - Cardinality(R)
<1>1. IsFiniteSet(R) /\ IsFiniteSet(M \ R)
  <2>1. M \ R \subseteq M
    OBVIOUS
  <2>. QED BY <2>1, FiniteSubset, Zenon
<1>2. (M \ R) \union R = M /\ (M \ R) \intersect R = {}
  OBVIOUS
<1>3. /\ Cardinality(M) = Cardinality(M \ R) + Cardinality(R)
      /\ Cardinality(M \ R) \in Nat /\ Cardinality(R) \in Nat
  BY <1>1, <1>2, DisjointUnion, Zenon
<1>. QED BY <1>3

(***************************************************************************)
(* pmem_free takes the marks of the block away, and no others: the first   *)
(* region that holds the block's page is the one the block is in.          *)
(***************************************************************************)
Cleared(rs, qs, N, k, b) ==
  LET run == (b[1] - rs[k].start) .. ((b[1] - rs[k].start) + b[2] - 1)
  IN  /\ k \in 1 .. N /\ Within(b, rs[k])
      /\ SameShape(rs, qs, N)
      /\ \A i \in 1 .. N : i # k => qs[i] = rs[i]
      /\ Marks(qs[k].map) = Marks(rs[k].map) \ run
      /\ qs[k].map.set_cnt = rs[k].map.set_cnt - b[2]
      /\ run \subseteq Marks(rs[k].map)

LEMMA ReleaseEffect ==
  ASSUME Facts,
         NEW N, RegionList(regs, N), Apart(regs, N), NEW b \in Nat \X (Nat \ {0}),
         NEW k \in 1 .. N, Within(b, regs[k])
  PROVE  Cleared(regs, Release(b[1], b[2]), N, k, b)
<1> DEFINE page == b[1]
           n == b[2]
           hits == {j \in 1 .. N : pmem_reg_contains(regs[j], page)}
           r == regs[k]
           bit == page - r.start
           run == bit .. (bit + n - 1)
           qs == Release(page, n)
           fill == bmap_fill(r.map, FALSE, bit, bit + n)
<1>0. DOMAIN regs = 1 .. N /\ page \in Nat /\ n \in Nat \ {0} /\ N \in Nat
      /\ \A i \in 1 .. N : regs[i] \in Regions
  BY DEF RegionList
<1>1. page \in BlockPages(b)
  BY <1>0 DEF BlockPages
<1>2. page \in Holds(r)
  BY <1>1, WithinHolds
<1>3. Min(hits) = k
  <2>1. k \in hits
    <3>1. page \in Int
      BY <1>0
    <3>. HIDE DEF page
    <3>. QED BY <1>2, <3>1, RegionFacts, Zenon
  <2>2. hits \subseteq Nat
    OBVIOUS
  <2>3. Min(hits) \in hits
    <3>1. hits # {}
      BY <2>1, Zenon
    <3>. HIDE DEF hits
    <3>. QED BY <2>2, <3>1, MinProperties, Zenon
  <2>4. Min(hits) \in 1 .. N /\ pmem_reg_contains(regs[Min(hits)], page)
    BY <2>3, Zenon
  <2>. HIDE DEF hits
  <2>5. page \in Holds(regs[Min(hits)])
    <3>1. page \in Int
      BY <1>0
    <3>. QED BY <2>4, <3>1, RegionFacts, Zenon
  <2>. QED BY <1>2, <2>4, <2>5, OneRegion, Zenon
<1>4. qs = [regs EXCEPT ![k].map = fill]
  <2>. HIDE DEF r
  <2>1. qs = [regs EXCEPT ![Min(hits)].map =
                bmap_fill(@, FALSE, page - regs[Min(hits)].start,
                          page - regs[Min(hits)].start + n)]
    BY <1>0, Zenon DEF Release
  <2>. HIDE DEF hits
  <2>. QED BY <1>3, <2>1, Zenon DEF r
<1>5. bit \in Nat /\ bit + n < r.map.bits /\ r.map \in Maps /\ r.map.bits <= IntBits
      /\ r.map.bits \in Nat
  BY RegionFacts DEF Within
<1>6. fill = Filled(r.map, FALSE, bit, bit + n)
  <2>1. bit + n \in Nat /\ bit <= bit + n /\ FALSE \in BOOLEAN
    BY <1>0, <1>5
  <2>. HIDE DEF r, bit, n
  <2>. QED BY <1>5, <2>1, FillEffect, Zenon
<1>. HIDE DEF fill
<1>7. /\ fill \in Maps /\ fill.bits = r.map.bits
      /\ fill.storage = r.map.storage \ (bit .. (bit + n - 1))
      /\ fill.set_cnt = r.map.set_cnt - n
  <2>. HIDE DEF bit, n
  <2>1. (bit + n) - bit = n /\ (bit + n) - 1 = bit + n - 1
    BY <1>0, <1>5
  <2>. HIDE DEF r
  <2>2. Filled(r.map, FALSE, bit, bit + n) =
          [bits |-> r.map.bits, storage |-> r.map.storage \ (bit .. ((bit + n) - 1)),
           set_cnt |-> r.map.set_cnt - ((bit + n) - bit), hint |-> r.map.hint]
    <3>1. \A x, y : (IF FALSE THEN x ELSE y) = y
      OBVIOUS
    <3>. QED BY <3>1, Zenon DEF Filled
  <2>3. fill = [bits |-> r.map.bits, storage |-> r.map.storage \ (bit .. (bit + n - 1)),
                set_cnt |-> r.map.set_cnt - n, hint |-> r.map.hint]
    BY <1>6, <2>1, <2>2, Zenon
  <2>4. /\ r.map.bits \in Nat \ {0} /\ r.map.storage \subseteq Nat
        /\ r.map.set_cnt \in Int /\ r.map.hint \in Nat
    BY <1>5 DEF Maps
  <2>5. /\ fill.bits = r.map.bits
        /\ fill.storage = r.map.storage \ (bit .. (bit + n - 1))
        /\ fill.set_cnt = r.map.set_cnt - n
    BY <2>3
  <2>6. fill \in Maps
    BY <1>0, <2>3, <2>4 DEF Maps
  <2>. QED BY <2>5, <2>6
<1>8. /\ \A i \in 1 .. N : i # k => qs[i] = regs[i]
      /\ qs[k] = [start |-> r.start, map |-> fill]
      /\ qs = [i \in 1 .. N |-> qs[i]]
  <2>1. r \in Regions
    BY <1>0
  <2>2. [r EXCEPT !.map = fill] = [start |-> r.start, map |-> fill]
    <3>. HIDE DEF r
    <3>. QED BY <2>1 DEF Regions
  <2>3. regs \in [1 .. N -> Regions]
    BY DEF RegionList
  <2>4. qs = [regs EXCEPT ![k] = [r EXCEPT !.map = fill]]
    BY <1>4, Zenon
  <2>. HIDE DEF r, qs
  <2>. QED BY <2>2, <2>3, <2>4, Zenon
<1>9. SameShape(regs, qs, N)
  <2>1. qs[k] \in Regions /\ qs[k].start = r.start /\ qs[k].map = fill
    <3>1. r.start \in Nat
      BY RegionFacts
    <3>. HIDE DEF r, qs
    <3>. QED BY <1>7, <1>8, <3>1 DEF Regions
  <2>. HIDE DEF qs
  <2>. QED BY <1>0, <1>7, <1>8, <2>1, Zenon DEF SameShape
<1>10. Marks(qs[k].map) = Marks(r.map) \ run /\ qs[k].map.set_cnt = r.map.set_cnt - n
  <2>1. qs[k].map = fill
    <3>. HIDE DEF r, qs
    <3>. QED BY <1>8
  <2>. HIDE DEF qs, bit, r, n
  <2>. QED BY <1>7, <2>1, Zenon DEF Marks
<1>11. run \subseteq Marks(r.map)
  <2>1. \A i \in run : r.start + i \in BlockPages(b) /\ (r.start + i) - r.start = i
    <3>1. r.start \in Nat
      BY RegionFacts
    <3>2. ASSUME NEW st \in Nat, NEW a \in Nat, NEW m \in Nat,
                 NEW i \in (a - st) .. ((a - st) + m - 1)
          PROVE  st + i \in a .. (a + m - 1) /\ (st + i) - st = i
      OBVIOUS
    <3>3. n \in Nat
      BY <1>0
    <3>. HIDE DEF r
    <3>. QED BY <1>0, <3>1, <3>2, <3>3, Zenon DEF BlockPages
  <2>2. \A i \in run : (r.start + i) - r.start \in Marks(r.map)
    BY <2>1, Zenon DEF Within
  <2>. HIDE DEF run, r
  <2>. QED BY <2>1, <2>2, Zenon
<1>. HIDE DEF qs
<1>. QED BY <1>8, <1>9, <1>10, <1>11, Zenon DEF Cleared, qs

LEMMA FreeKept ==
  ASSUME Facts,
         NEW rs, NEW qs, NEW N, NEW os, NEW bs, NEW rv, Good(rs, N, os, bs, rv),
         NEW b \in bs, NEW k, Cleared(rs, qs, N, k, b),
         NEW ps, ps = [p \in Pages |-> IF p \in b[1] .. (b[1] + b[2] - 1)
                                       THEN os[p] - 1 ELSE os[p]]
  PROVE  /\ Good(qs, N, ps, bs \ {b}, rv)
         /\ Kept(rs, N, bs, rv) => Kept(qs, N, bs \ {b}, rv)
<1> DEFINE cs == bs \ {b}
           run == (b[1] - rs[k].start) .. ((b[1] - rs[k].start) + b[2] - 1)
<1>0. /\ b[1] \in Nat /\ b[2] \in Nat \ {0} /\ b[2] \in Int
      /\ RegionList(rs, N) /\ Apart(rs, N)
  <2>1. b \in Pages \X Counts /\ b[1] \in Nat /\ RegionList(rs, N) /\ Apart(rs, N)
    BY Zenon DEF Good
  <2>2. b[2] \in Counts
    BY <2>1
  <2>3. b[2] \in Nat \ {0}
    BY <2>2, PmemAssumption, Zenon
  <2>. QED BY <2>1, <2>3
<1>1. /\ k \in 1 .. N /\ Within(b, rs[k]) /\ SameShape(rs, qs, N)
      /\ \A i \in 1 .. N : i # k => qs[i] = rs[i]
      /\ Marks(qs[k].map) = Marks(rs[k].map) \ run
      /\ qs[k].map.set_cnt = rs[k].map.set_cnt - b[2]
      /\ run \subseteq Marks(rs[k].map)
  BY Zenon DEF Cleared
<1>2. rs[k].start \in Nat /\ IsFiniteSet(Marks(rs[k].map))
      /\ b[1] - rs[k].start \in Nat
  BY <1>0, <1>1, RegionFacts DEF Within
<1>3. /\ \A p \in Int : p - rs[k].start \in run => p \in BlockPages(b)
      /\ \A i \in run : rs[k].start + i \in BlockPages(b)
      /\ \A i \in Int : rs[k].start + i \in BlockPages(b) => i \in run
  BY <1>0, <1>2 DEF BlockPages
<1>4. /\ RegionList(qs, N) /\ Apart(qs, N)
      /\ \A i \in 1 .. N : Holds(qs[i]) = Holds(rs[i])
      /\ \A i \in 1 .. N : qs[i].start = rs[i].start /\ qs[i].map.bits = rs[i].map.bits
  <2>1. /\ RegionList(qs, N) /\ Apart(qs, N)
        /\ \A i \in 1 .. N : Holds(qs[i]) = Holds(rs[i])
    <3>1. SameHolds(rs, qs, N)
      BY <1>0, <1>1, ShapeKept, Zenon
    <3>. QED BY <3>1, Zenon DEF SameHolds
  <2>2. \A i \in 1 .. N : qs[i].start = rs[i].start /\ qs[i].map.bits = rs[i].map.bits
    BY <1>1, Zenon DEF SameShape
  <2>. QED BY <2>1, <2>2, Zenon
<1>5. qs[k].map.set_cnt = Cardinality(Marks(qs[k].map))
  <2>1. Cardinality(run) = b[2]
    <3>1. /\ b[1] - rs[k].start \in Int /\ (b[1] - rs[k].start) + b[2] - 1 \in Int
          /\ b[1] - rs[k].start <= ((b[1] - rs[k].start) + b[2] - 1) + 1
          /\ ((b[1] - rs[k].start) + b[2] - 1) - (b[1] - rs[k].start) + 1 = b[2]
      BY <1>0, <1>2
    <3>. QED BY <3>1, IntervalSize
  <2>2. rs[k].map.set_cnt = Cardinality(Marks(rs[k].map))
    BY <1>1, Zenon DEF Good, CountsMarks
  <2>. HIDE DEF run
  <2>3. Cardinality(Marks(rs[k].map) \ run) = Cardinality(Marks(rs[k].map)) - Cardinality(run)
    BY <1>1, <1>2, SubsetDifference, Zenon
  <2>. QED BY <1>1, <2>1, <2>2, <2>3, Zenon
<1>. HIDE DEF run
<1>6. \A i \in 1 .. N : Marks(qs[i].map) \subseteq Marks(rs[i].map)
  BY <1>1, Zenon
<1>7. \A p \in Int : p \notin BlockPages(b) => \A i \in 1 .. N :
        p - rs[i].start \in Marks(rs[i].map) => p - rs[i].start \in Marks(qs[i].map)
  BY <1>1, <1>3, Zenon
<1>8. \A p : OwnedBy(cs, p) <=> OwnedBy(bs, p) /\ p \notin BlockPages(b)
  BY Zenon DEF OwnedBy, Good, BlocksApart
<1>9. cs \subseteq Pages \X Counts /\ (\A c \in cs : c[1] \in Nat)
      /\ BlocksApart(cs)
  BY Zenon DEF Good, BlocksApart
<1>10. BlocksMarked(qs, N, cs)
  <2>1. ASSUME NEW c \in cs
        PROVE  \E i \in 1 .. N : Within(c, qs[i])
    <3>1. PICK i \in 1 .. N : Within(c, rs[i])
      BY Zenon DEF Good, BlocksMarked
    <3>2. c[1] \in Nat /\ c[2] \in Nat /\ BlockPages(c) \intersect BlockPages(b) = {}
      BY PmemAssumption, Zenon DEF Good, BlocksApart
    <3>3. \A p \in BlockPages(c) : p \in Int
      BY <3>2 DEF BlockPages
    <3>4. \A p \in BlockPages(c) : p - qs[i].start \in Marks(qs[i].map)
      BY <1>4, <1>7, <3>1, <3>2, <3>3, Zenon DEF Within
    <3>5. Within(c, qs[i])
      BY <1>4, <3>1, <3>4, Zenon DEF Within
    <3>. QED BY <3>5
  <2>. QED BY <2>1, Zenon DEF BlocksMarked
<1>11. ps = OwnersOf(cs)
  <2>1. \A p \in Pages : os[p] = IF OwnedBy(bs, p) THEN 1 ELSE 0
    BY Zenon DEF Good, OwnersOf
  <2>2. 1 - 1 = 0
    OBVIOUS
  <2>3. \A p : p \in b[1] .. (b[1] + b[2] - 1) <=> p \in BlockPages(b)
    BY Zenon DEF BlockPages
  <2>4. \A p \in BlockPages(b) : OwnedBy(bs, p)
    BY Zenon DEF OwnedBy
  <2>5. \A p \in Pages : (IF p \in b[1] .. (b[1] + b[2] - 1) THEN os[p] - 1 ELSE os[p])
                           = IF OwnedBy(cs, p) THEN 1 ELSE 0
    BY <1>8, <2>1, <2>2, <2>3, <2>4, ZenonT(60)
  <2>. QED BY <2>5, Zenon DEF OwnersOf
<1>12. CountsMarks(qs, N)
  BY <1>1, <1>5, Zenon DEF Good, CountsMarks
<1>13. MarksUsed(qs, N, cs, rv)
  <2>1. ASSUME NEW i \in 1 .. N, NEW bit \in Marks(qs[i].map)
        PROVE  OwnedBy(cs, rs[i].start + bit) \/ rs[i].start + bit \in rv
    <3>1. bit \in Marks(rs[i].map) /\ rs[i].start \in Nat /\ bit \in Int
          /\ rs[i].start + bit \in Int /\ rs[i].start + bit \in Holds(rs[i])
      <4>1. bit \in Marks(rs[i].map)
        BY <1>6, <2>1, Zenon
      <4>2. /\ rs[i].start \in Nat /\ rs[i].map.bits \in Nat
            /\ bit \in 0 .. (rs[i].map.bits - 1)
        BY <1>0, <4>1, RegionFacts
      <4>. QED BY <4>1, <4>2 DEF Holds, End
    <3>2. OwnedBy(bs, rs[i].start + bit) \/ rs[i].start + bit \in rv
      BY <3>1, Zenon DEF Good, MarksUsed
    <3>3. rs[i].start + bit \notin BlockPages(b)
      <4>1. ASSUME rs[i].start + bit \in BlockPages(b)
            PROVE  FALSE
        <5>1. rs[i].start + bit \in Holds(rs[k])
          <6>1. b \in Nat \X (Nat \ {0})
            <7>1. b \in Pages \X Counts
              BY DEF Good
            <7>. QED BY <1>0, <7>1
          <6>. QED BY <1>0, <1>1, <4>1, <6>1, WithinHolds, ZenonT(60)
        <5>2. i = k
          BY <1>0, <1>1, <3>1, <5>1, OneRegion, Zenon
        <5>3. bit \in run
          BY <1>3, <3>1, <4>1, <5>2, Zenon
        <5>. QED BY <1>1, <2>1, <5>2, <5>3, ZenonT(60)
      <4>. QED BY <4>1
    <3>. QED BY <1>8, <3>2, <3>3, Zenon
  <2>. QED BY <1>4, <2>1, Zenon DEF MarksUsed
<1>14. Good(qs, N, ps, cs, rv)
  BY <1>4, <1>9, <1>10, <1>11, <1>12, <1>13, ZenonT(60) DEF Good
<1>15. ASSUME Kept(rs, N, bs, rv), NEW p \in rv
       PROVE  /\ ~OwnedBy(cs, p)
              /\ \A i \in 1 .. N : p \in Holds(qs[i]) => p - qs[i].start \in Marks(qs[i].map)
  <2>1. /\ ~OwnedBy(bs, p)
        /\ \A i \in 1 .. N : p \in Holds(rs[i]) => p - rs[i].start \in Marks(rs[i].map)
    BY <1>15, Zenon DEF Kept
  <2>2. p \notin BlockPages(b)
    BY <2>1, Zenon DEF OwnedBy
  <2>3. \A i \in 1 .. N : p \in Holds(rs[i]) => p \in Int
    BY <1>0, RegionFacts
  <2>. QED BY <1>4, <1>7, <1>8, <2>1, <2>2, <2>3, ZenonT(60)
<1>16. Kept(rs, N, bs, rv) => Kept(qs, N, cs, rv)
  BY <1>15, Zenon DEF Kept
<1>. QED BY <1>14, <1>16

\* Pages and their bits are as many.
LEMMA ShiftSize ==
  ASSUME Facts, NEW V, V \subseteq Int, IsFiniteSet(V), NEW start \in Int
  PROVE  /\ IsFiniteSet({page - start : page \in V})
         /\ Cardinality({page - start : page \in V}) = Cardinality(V)
BY Zenon DEF Facts, Shifts

(***************************************************************************)
(* A reservation that succeeds marks pages that were not marked, so it     *)
(* counts every one of them once; in a list in ascending order it marks    *)
(* all of the range that regions hold.                                     *)
(***************************************************************************)
LEMMA ReserveKept ==
  ASSUME Facts, NEW N, Good(regs, N, owners, blocks, reserved),
         NEW addr \in Nat, NEW length \in Nat, ~Taken(addr, length),
         NEW qs, qs = [i \in DOMAIN regs |-> [regs[i] EXCEPT !.map = Marked(i, addr, length)]],
         NEW rv, rv = reserved \union (addr .. (addr + length - 1))
  PROVE  /\ Good(qs, N, owners, blocks, rv)
         /\ Sorted /\ Kept(regs, N, blocks, reserved) => Kept(qs, N, blocks, rv)
<1> DEFINE range == addr .. (addr + length - 1)
           V(i) == Seen(i, addr, length)
           Off(i) == {page - regs[i].start : page \in V(i)}
           visit == Visited(addr, length)
<1>0. /\ RegionList(regs, N) /\ Apart(regs, N) /\ N \in Nat
      /\ regs \in [1 .. N -> Regions] /\ DOMAIN regs = 1 .. N
  <2>1. RegionList(regs, N) /\ Apart(regs, N)
    BY Zenon DEF Good
  <2>. QED BY <2>1 DEF RegionList
<1>1. \A i \in 1 .. N : MarksPages(regs[i].map, Marked(i, addr, length), regs[i].start, V(i))
  <2>1. \A i \in 1 .. N : regs[i].map.bits <= IntBits
    BY <1>0, Zenon DEF RegionList
  <2>. QED BY <1>0, <2>1, MarkedEffect, Zenon
<1>2. \A i \in 1 .. N : qs[i] = [start |-> regs[i].start, map |-> Marked(i, addr, length)]
  <2>1. \A i \in 1 .. N : qs[i] = [regs[i] EXCEPT !.map = Marked(i, addr, length)]
    BY <1>0, Zenon
  <2>2. \A r \in Regions : \A m :
          [r EXCEPT !.map = m] = [start |-> r.start, map |-> m]
    BY DEF Regions
  <2>. QED BY <1>0, <2>1, <2>2, Zenon
<1>3. \A i \in 1 .. N :
        /\ qs[i] \in Regions /\ qs[i].start = regs[i].start
        /\ qs[i].map.bits = regs[i].map.bits
        /\ Marks(qs[i].map) = Marks(regs[i].map) \union Off(i)
        /\ qs[i].map.set_cnt = regs[i].map.set_cnt + Cardinality(V(i))
        /\ IsFiniteSet(V(i))
  <2>. SUFFICES ASSUME NEW i \in 1 .. N, NEW m, m = Marked(i, addr, length)
                PROVE  /\ qs[i] \in Regions /\ qs[i].start = regs[i].start
                       /\ qs[i].map.bits = regs[i].map.bits
                       /\ Marks(qs[i].map) = Marks(regs[i].map) \union Off(i)
                       /\ qs[i].map.set_cnt = regs[i].map.set_cnt + Cardinality(V(i))
                       /\ IsFiniteSet(V(i))
    BY Zenon
  <2>1. MarksPages(regs[i].map, m, regs[i].start, V(i))
    BY <1>1, Zenon
  <2>2. qs[i] = [start |-> regs[i].start, map |-> m]
    BY <1>2, Zenon
  <2>3. regs[i].start \in Nat /\ m \in Maps
    BY <1>0, <2>1, RegionFacts DEF MarksPages
  <2>4. qs[i] \in Regions /\ qs[i].start = regs[i].start /\ qs[i].map = m
    BY <2>2, <2>3 DEF Regions
  <2>. HIDE DEF V
  <2>. QED BY <2>1, <2>4, Zenon DEF MarksPages
<1>4. qs = [i \in 1 .. N |-> qs[i]]
  BY <1>0, Zenon
<1>5. SameShape(regs, qs, N)
  BY <1>3, <1>4, Zenon DEF SameShape
<1>6. /\ RegionList(qs, N) /\ Apart(qs, N)
      /\ \A i \in 1 .. N : Holds(qs[i]) = Holds(regs[i])
  <2>1. SameHolds(regs, qs, N)
    BY <1>0, <1>5, ShapeKept, Zenon
  <2>. QED BY <2>1, Zenon DEF SameHolds
<1>7. \A page \in range : \A i \in 1 .. N :
        visit[page] = i => /\ page \in Holds(regs[i])
                           /\ page - regs[i].start \notin Marks(regs[i].map)
  <2>. SUFFICES ASSUME NEW page \in range, NEW i \in 1 .. N, visit[page] = i
                PROVE  /\ page \in Holds(regs[i])
                       /\ page - regs[i].start \notin Marks(regs[i].map)
    OBVIOUS
  <2>1. i # 0 /\ page \in Int
    OBVIOUS
  <2>2. pmem_reg_contains(regs[i], page)
    BY <1>0, <2>1, VisitedEffect, Zenon
  <2>3. page \in Holds(regs[i])
    BY <1>0, <2>1, <2>2, RegionFacts, Zenon
  <2>4. ~bmap_get(regs[i].map, page - regs[i].start)
    BY <1>0, Zenon DEF Taken
  <2>5. page - regs[i].start <= regs[i].map.bits
    <3>1. regs[i].start \in Nat /\ regs[i].map.bits \in Nat
      BY <1>0, RegionFacts
    <3>. QED BY <2>1, <2>2, <3>1, SMTT(20) DEF pmem_reg_contains, End
  <2>. HIDE DEF visit
  <2>. QED BY <2>3, <2>4, <2>5, Zenon DEF bmap_get, Marks
<1>8. \A i \in 1 .. N : Marks(regs[i].map) \intersect Off(i) = {}
  BY <1>7, Zenon DEF Seen
<1>9. CountsMarks(qs, N)
  <2>. SUFFICES ASSUME NEW i \in 1 .. N
                PROVE  qs[i].map.set_cnt = Cardinality(Marks(qs[i].map))
    BY Zenon DEF CountsMarks
  <2>1. V(i) \subseteq Int /\ regs[i].start \in Int
    <3>1. regs[i].start \in Nat
      BY <1>0, RegionFacts
    <3>2. V(i) \subseteq range
      BY Zenon DEF Seen
    <3>3. range \subseteq Int
      OBVIOUS
    <3>. HIDE DEF V, range
    <3>. QED BY <3>1, <3>2, <3>3
  <2>2. IsFiniteSet(Off(i)) /\ Cardinality(Off(i)) = Cardinality(V(i))
    <3>. HIDE DEF V
    <3>. QED BY <1>3, <2>1, ShiftSize, Zenon
  <2>3. /\ IsFiniteSet(Marks(regs[i].map))
        /\ regs[i].map.set_cnt = Cardinality(Marks(regs[i].map))
    BY <1>0, RegionFacts, Zenon DEF Good, CountsMarks
  <2>. HIDE DEF V, Off
  <2>4. Cardinality(Marks(qs[i].map)) = Cardinality(Marks(regs[i].map)) + Cardinality(Off(i))
    <3>1. Cardinality(Marks(regs[i].map) \union Off(i))
            = Cardinality(Marks(regs[i].map)) + Cardinality(Off(i))
      BY <1>8, <2>2, <2>3, DisjointUnion, ZenonT(60)
    <3>. QED BY <1>3, <3>1, Zenon
  <2>. QED BY <1>3, <2>2, <2>3, <2>4, Zenon
<1>10. \A i \in 1 .. N : Marks(regs[i].map) \subseteq Marks(qs[i].map)
  <2>. HIDE DEF Off
  <2>. QED BY <1>3, Zenon
<1>11. BlocksMarked(qs, N, blocks)
  <2>1. \A b : \A i \in 1 .. N : Within(b, regs[i]) => Within(b, qs[i])
    BY <1>3, <1>10, ZenonT(60) DEF Within
  <2>. QED BY <2>1, Zenon DEF Good, BlocksMarked
<1>12. MarksUsed(qs, N, blocks, rv)
  <2>1. ASSUME NEW i \in 1 .. N, NEW bit \in Marks(qs[i].map)
        PROVE  OwnedBy(blocks, regs[i].start + bit) \/ regs[i].start + bit \in rv
    <3>1. CASE bit \in Marks(regs[i].map)
      BY <3>1, Zenon DEF Good, MarksUsed
    <3>2. CASE bit \in Off(i)
      <4>1. PICK page \in V(i) : bit = page - regs[i].start
        BY <3>2, Zenon
      <4>2. page \in range
        BY Zenon DEF Seen
      <4>3. regs[i].start + bit = page
        <5>1. regs[i].start \in Nat
          BY <1>0, RegionFacts
        <5>. HIDE DEF V
        <5>. QED BY <4>1, <4>2, <5>1, SMTT(20)
      <4>. QED BY <4>2, <4>3, Zenon
    <3>. HIDE DEF Off
    <3>. QED BY <1>3, <2>1, <3>1, <3>2, ZenonT(60)
  <2>. QED BY <1>3, <2>1, Zenon DEF MarksUsed
<1>13. Good(qs, N, owners, blocks, rv)
  BY <1>6, <1>9, <1>11, <1>12, Zenon DEF Good
<1>14. ASSUME Sorted, NEW page \in range, NEW i \in 1 .. N, page \in Holds(regs[i])
       PROVE  visit[page] = i
  <2>1. page \in Int
    OBVIOUS
  <2>2. pmem_reg_contains(regs[i], page)
    BY <1>0, <1>14, <2>1, RegionFacts, Zenon
  <2>3. /\ visit[page] \in 0 .. N /\ visit[page] # 0
        /\ pmem_reg_contains(regs[visit[page]], page)
    BY <1>0, <1>14, <2>2, VisitedEffect, ZenonT(60)
  <2>. HIDE DEF visit
  <2>4. visit[page] \in 1 .. N
    BY <1>0, <2>3
  <2>5. page \in Holds(regs[visit[page]])
    BY <1>0, <2>1, <2>3, <2>4, RegionFacts, Zenon
  <2>. QED BY <1>0, <1>14, <2>4, <2>5, OneRegion, ZenonT(60)
<1>15. ASSUME Sorted, Kept(regs, N, blocks, reserved), NEW p \in rv
       PROVE  /\ ~OwnedBy(blocks, p)
              /\ \A i \in 1 .. N : p \in Holds(qs[i]) => p - qs[i].start \in Marks(qs[i].map)
  <2>1. CASE p \in reserved
    BY <1>3, <1>6, <1>10, <1>15, <2>1, Zenon DEF Kept
  <2>2. CASE p \in range
    <3>1. \A i \in 1 .. N : p \in Holds(regs[i]) =>
            visit[p] = i /\ p - regs[i].start \notin Marks(regs[i].map)
      BY <1>7, <1>14, <1>15, <2>2, Zenon
    <3>2. ~OwnedBy(blocks, p)
      BY <3>1, OwnedMarked, Zenon
    <3>3. \A i \in 1 .. N : p \in Holds(regs[i]) => p - regs[i].start \in Off(i)
      BY <2>2, <3>1, Zenon DEF Seen
    <3>. HIDE DEF Off
    <3>. QED BY <1>3, <1>6, <3>2, <3>3, Zenon
  <2>. QED BY <1>15, <2>1, <2>2, Zenon
<1>16. Sorted /\ Kept(regs, N, blocks, reserved) => Kept(qs, N, blocks, rv)
  BY <1>15, Zenon DEF Kept
<1>. QED BY <1>13, <1>16

(***************************************************************************)
(* pmem_add: the new region is apart from the others if it does not        *)
(* enclose one of them.                                                    *)
(***************************************************************************)
Encloses(r, q) == r.start < q.start /\ End(q) <= End(r)

LEMMA AddKept ==
  ASSUME Facts, NEW N, Good(regs, N, owners, blocks, {}), NEW add \in Adds,
         NEW r \in Regions, r.map.set_cnt = 0, Marks(r.map) = {},
         r.start = Trimmed(regs, add[1], add[2])[1],
         r.map.bits = Trimmed(regs, add[1], add[2])[2],
         r.map.bits <= IntBits, \A i \in 1 .. N : ~Encloses(r, regs[i]),
         NEW qs, qs = [i \in 1 .. (N + 1) |-> IF i = N + 1 THEN r ELSE regs[i]]
  PROVE  Good(qs, N + 1, owners, blocks, {})
<1> DEFINE x == Trimmed(regs, add[1], add[2])
<1>0. /\ RegionList(regs, N) /\ Apart(regs, N) /\ N \in Nat
      /\ regs \in [1 .. N -> Regions]
  <2>1. RegionList(regs, N) /\ Apart(regs, N)
    BY Zenon DEF Good
  <2>. QED BY <2>1, SMTT(20) DEF RegionList
<1>1. add[1] \in Nat /\ add[2] \in Nat /\ add[1] .. (add[1] + add[2] - 1) \subseteq Pages
  BY PmemAssumption
<1>2. r.start \in Nat /\ r.map.bits \in Nat \ {0}
  BY DEF Regions, Maps
<1>3. /\ x \in Nat \X Nat /\ PartOf(x, <<add[1], add[2]>>)
      /\ x[2] > 0 => Clear(regs, N, x)
  BY <1>0, <1>1, TrimmedEffect, ZenonT(60)
<1>. HIDE DEF x
<1>4. x[1] = r.start /\ x[2] = r.map.bits
  BY Zenon DEF x
<1>5. Holds(r) \subseteq Pages
  <2>1. r.start >= add[1] /\ r.start + r.map.bits <= add[1] + add[2]
    BY <1>3, <1>4 DEF PartOf
  <2>2. Holds(r) \subseteq add[1] .. (add[1] + add[2] - 1)
    BY <1>1, <1>2, <2>1, SMTT(20) DEF Holds, End
  <2>. QED BY <1>1, <2>2, ZenonT(60)
<1>6. \A i \in 1 .. N : Holds(r) \intersect Holds(regs[i]) = {}
  <2>. SUFFICES ASSUME NEW i \in 1 .. N, NEW p \in Holds(r), p \in Holds(regs[i])
                PROVE  FALSE
    BY Zenon
  <2>1. x[2] > 0
    BY <1>2, <1>4
  <2>2. ~StartsIn(regs[i], r.start) /\ ~EndsIn(regs[i], r.start, r.map.bits)
    BY <1>3, <1>4, <2>1, ZenonT(60) DEF Clear
  <2>3. regs[i].start \in Nat /\ regs[i].map.bits \in Nat
    BY <1>0, RegionFacts
  <2>4. ~Encloses(r, regs[i])
    BY Zenon
  <2>5. /\ p \in r.start .. ((r.start + r.map.bits) - 1)
        /\ p \in regs[i].start .. ((regs[i].start + regs[i].map.bits) - 1)
    BY Zenon DEF Holds, End
  <2>6. ASSUME NEW s1 \in Nat, NEW n1 \in Nat, NEW s2 \in Nat, NEW n2 \in Nat,
               p \in s1 .. ((s1 + n1) - 1), p \in s2 .. ((s2 + n2) - 1),
               ~(s1 >= s2 /\ s1 < s2 + n2), ~(s1 + n1 > s2 /\ s1 + n1 < s2 + n2),
               ~(s1 < s2 /\ s2 + n2 <= s1 + n1)
        PROVE  FALSE
    BY <2>6
  <2>7. /\ ~(r.start >= regs[i].start /\ r.start < regs[i].start + regs[i].map.bits)
        /\ ~(/\ r.start + r.map.bits > regs[i].start
             /\ r.start + r.map.bits < regs[i].start + regs[i].map.bits)
        /\ ~(/\ r.start < regs[i].start
             /\ regs[i].start + regs[i].map.bits <= r.start + r.map.bits)
    BY <2>2, <2>4, Zenon DEF StartsIn, EndsIn, pmem_reg_contains, Encloses, End
  <2>8. r.map.bits \in Nat
    BY <1>2
  <2>. QED BY <1>2, <2>3, <2>5, <2>6, <2>7, <2>8, Zenon
<1>7. /\ qs[N + 1] = r /\ \A i \in 1 .. N : qs[i] = regs[i] /\ i \in 1 .. (N + 1)
      /\ \A i \in 1 .. (N + 1) : i = N + 1 \/ i \in 1 .. N
      /\ N + 1 \in Nat /\ qs \in [1 .. (N + 1) -> Regions] /\ N + 1 \in 1 .. (N + 1)
  BY <1>0
<1>8. RegionList(qs, N + 1)
  <2>1. \A i \in 1 .. (N + 1) : qs[i].map.bits <= IntBits /\ Holds(qs[i]) \subseteq Pages
    BY <1>0, <1>5, <1>7, Zenon DEF RegionList
  <2>. QED BY <1>7, <2>1, Zenon DEF RegionList
<1>9. Apart(qs, N + 1)
  BY <1>0, <1>6, <1>7, ZenonT(60) DEF Apart
<1>10. BlocksMarked(qs, N + 1, blocks)
  BY <1>7, Zenon DEF Good, BlocksMarked
<1>11. CountsMarks(qs, N + 1)
  <2>1. Cardinality({}) = 0
    BY FiniteEmptySet, Zenon
  <2>. QED BY <1>7, <2>1, Zenon DEF Good, CountsMarks
<1>12. MarksUsed(qs, N + 1, blocks, {})
  BY <1>7, Zenon DEF Good, MarksUsed
<1>. QED BY <1>8, <1>9, <1>10, <1>11, <1>12, ZenonT(60) DEF Good
-----------------------------------------------------------------------------
(***************************************************************************)
(* What the theorems ask of the regions: no map has more bits than an int, *)
(* whose width the shift of bmap_set has (bmap.c:76), and no region that   *)
(* pmem_add has added encloses an earlier one, which its checks of the two *)
(* ends of a range do not notice (pmem.c:153-175).  Sorted is asked where  *)
(* reservations are concerned: pmem_reserve goes on with the regions       *)
(* behind the one it has left (pmem.c:277).                                *)
(***************************************************************************)
Sound ==
  /\ \A i \in DOMAIN regs : regs[i].map.bits <= IntBits
  /\ \A i, j \in DOMAIN regs : i < j => ~Encloses(regs[j], regs[i])

PInv ==
  /\ regs \in Seq(Regions)
  /\ Good(regs, Len(regs), owners, blocks, reserved)
  /\ reserved \subseteq Pages
  /\ phase \in {"run", "fatal"}
  /\ FatalOnlyIfFull

RInv == Kept(regs, Len(regs), blocks, reserved)

LEMMA ListAsFunction ==
  ASSUME NEW N \in Nat, NEW qs, qs \in [1 .. N -> Regions]
  PROVE  qs \in Seq(Regions) /\ Len(qs) = N
OBVIOUS

\* A new region has nothing marked.
Fresh(r, start, bits) ==
  /\ r \in Regions /\ r.start = start /\ r.map.bits = bits
  /\ r.map.set_cnt = 0 /\ Marks(r.map) = {}

LEMMA NewRegion ==
  ASSUME Facts, NEW start \in Nat, NEW bits \in Nat \ {0}
  PROVE  Fresh([start |-> start, map |-> bmap_init(bits)], start, bits)
<1>. DEFINE r == [start |-> start, map |-> bmap_init(bits)]
<1>1. bmap_init(bits) = [bits |-> bits, storage |-> {}, set_cnt |-> 0, hint |-> 0]
  BY InitEffect
<1>2. r = [start |-> start, map |-> [bits |-> bits, storage |-> {}, set_cnt |-> 0, hint |-> 0]]
  BY <1>1, Zenon
<1>. HIDE DEF r
<1>3. /\ r \in Regions /\ r.start = start /\ r.map.bits = bits
      /\ r.map.set_cnt = 0 /\ Marks(r.map) = {}
  BY <1>2 DEF Regions, Maps, Marks
<1>. QED BY <1>3, Zenon DEF Fresh, r

LEMMA InitPInv ==
  ASSUME Facts, Init, Sound
  PROVE  PInv /\ RInv
<1> DEFINE r == [start |-> FirstStart, map |-> bmap_init(FirstBits)]
<1>1. /\ r \in Regions /\ r.start = FirstStart /\ r.map.bits = FirstBits
      /\ r.map.set_cnt = 0 /\ Marks(r.map) = {}
  <2>1. FirstStart \in Nat /\ FirstBits \in Nat \ {0}
    BY PmemAssumption, Zenon
  <2>2. Fresh(r, FirstStart, FirstBits)
    BY <2>1, NewRegion, Zenon
  <2>. HIDE DEF r
  <2>. QED BY <2>2, Zenon DEF Fresh
<1>. HIDE DEF r
<1>2. regs = <<r>> /\ owners = [p \in Pages |-> 0] /\ blocks = {} /\ reserved = {}
      /\ phase = "run"
  BY Zenon DEF Init, r
<1>3. regs \in Seq(Regions) /\ Len(regs) = 1 /\ regs[1] = r /\ regs \in [1 .. 1 -> Regions]
      /\ DOMAIN regs = 1 .. 1 /\ 1 \in 1 .. 1 /\ \A i \in 1 .. 1 : i = 1
  BY <1>1, <1>2
<1>4. r.map.bits <= IntBits
  BY <1>3, Zenon DEF Sound
<1>5. Holds(r) \subseteq Pages
  <2>1. Holds(r) = FirstStart .. ((FirstStart + FirstBits) - 1)
    BY <1>1, Zenon DEF Holds, End
  <2>. QED BY <2>1, PmemAssumption
<1>6. RegionList(regs, 1)
  <2>1. 1 \in Nat
    OBVIOUS
  <2>. QED BY <1>3, <1>4, <1>5, <2>1, Zenon DEF RegionList
<1>7. CountsMarks(regs, 1)
  <2>1. Cardinality({}) = 0
    BY FiniteEmptySet, Zenon
  <2>. QED BY <1>1, <1>3, <2>1, Zenon DEF CountsMarks
<1>8. owners = OwnersOf(blocks)
  BY <1>2, Zenon DEF OwnersOf, OwnedBy
<1>9. Good(regs, 1, owners, blocks, reserved)
  <2>1. blocks \subseteq Pages \X Counts /\ \A b \in blocks : b[1] \in Nat
    BY <1>2, Zenon
  <2>2. Apart(regs, 1)
    BY <1>3, Zenon DEF Apart
  <2>3. BlocksMarked(regs, 1, blocks) /\ BlocksApart(blocks)
    BY <1>2, Zenon DEF BlocksMarked, BlocksApart
  <2>4. MarksUsed(regs, 1, blocks, reserved)
    BY <1>1, <1>3, Zenon DEF MarksUsed
  <2>. QED BY <1>6, <1>7, <1>8, <2>1, <2>2, <2>3, <2>4, Zenon DEF Good
<1>10. PInv
  <2>1. phase \in {"run", "fatal"} /\ FatalOnlyIfFull /\ reserved \subseteq Pages
    <3>1. phase # "fatal"
      BY <1>2
    <3>. QED BY <1>2, <3>1, Zenon DEF FatalOnlyIfFull
  <2>. QED BY <1>3, <1>9, <2>1, Zenon DEF PInv
<1>11. RInv
  BY <1>2, <1>3, Zenon DEF RInv, Kept
<1>. QED BY <1>10, <1>11

LEMMA AddStep ==
  ASSUME Facts, PInv, Sound, Sound', pmem_add
  PROVE  PInv' /\ RInv'
<1>0. /\ regs \in Seq(Regions) /\ Good(regs, Len(regs), owners, blocks, reserved)
      /\ Len(regs) \in Nat /\ DOMAIN regs = 1 .. Len(regs) /\ reserved = {}
      /\ phase \in {"run", "fatal"} /\ phase = "run"
  BY DEF PInv, pmem_add
<1>. DEFINE N == Len(regs)
<1>1. PICK add \in Adds :
        /\ Trimmed(regs, add[1], add[2])[2] > 0
        /\ regs' = Append(regs, [start |-> Trimmed(regs, add[1], add[2])[1],
                                 map |-> bmap_init(Trimmed(regs, add[1], add[2])[2])])
  BY Zenon DEF pmem_add
<1>. DEFINE x == Trimmed(regs, add[1], add[2])
            r == [start |-> x[1], map |-> bmap_init(x[2])]
<1>2. x[1] \in Nat /\ x[2] \in Nat \ {0}
  <2>1. regs \in [1 .. N -> Regions]
    BY <1>0
  <2>2. add[1] \in Nat /\ add[2] \in Nat
    BY PmemAssumption
  <2>3. x \in Nat \X Nat
    BY <1>0, <2>1, <2>2, TrimmedEffect, Zenon
  <2>. HIDE DEF x
  <2>. QED BY <1>1, <2>3 DEF x
<1>3. /\ r \in Regions /\ r.start = x[1] /\ r.map.bits = x[2]
      /\ r.map.set_cnt = 0 /\ Marks(r.map) = {}
  <2>. HIDE DEF x
  <2>1. Fresh(r, x[1], x[2])
    BY <1>2, NewRegion, Zenon
  <2>. HIDE DEF r
  <2>. QED BY <2>1, Zenon DEF Fresh
<1>4. regs' = Append(regs, r)
  BY <1>1, Zenon
<1>. HIDE DEF r
<1>5. /\ regs' \in Seq(Regions) /\ Len(regs') = N + 1
      /\ regs' = [i \in 1 .. (N + 1) |-> IF i = N + 1 THEN r ELSE regs[i]]
      /\ DOMAIN regs' = 1 .. (N + 1) /\ N + 1 \in 1 .. (N + 1)
      /\ regs'[N + 1] = r
      /\ \A i \in 1 .. N : i \in 1 .. (N + 1) /\ i < N + 1 /\ regs'[i] = regs[i]
  <2>1. /\ Append(regs, r) \in Seq(Regions) /\ Len(Append(regs, r)) = N + 1
        /\ DOMAIN Append(regs, r) = 1 .. (N + 1)
        /\ Append(regs, r)[N + 1] = r
        /\ \A i \in 1 .. N : Append(regs, r)[i] = regs[i]
    BY <1>0, <1>3, SMTT(20)
  <2>2. /\ N + 1 \in 1 .. (N + 1)
        /\ \A i \in 1 .. N : i \in 1 .. (N + 1) /\ i < N + 1 /\ i # N + 1
        /\ \A i \in 1 .. (N + 1) : i = N + 1 \/ i \in 1 .. N
    BY <1>0
  <2>. HIDE DEF N
  <2>3. \A i \in 1 .. (N + 1) : regs'[i] = IF i = N + 1 THEN r ELSE regs[i]
    BY <1>4, <2>1, <2>2, ZenonT(60)
  <2>4. regs' = [i \in 1 .. (N + 1) |-> regs'[i]]
    <3>1. ASSUME NEW l \in Seq(Regions)
          PROVE  l = [i \in DOMAIN l |-> l[i]]
      OBVIOUS
    <3>. QED BY <1>4, <2>1, <3>1, Zenon
  <2>5. regs' = [i \in 1 .. (N + 1) |-> IF i = N + 1 THEN r ELSE regs[i]]
    BY <2>3, <2>4, Zenon
  <2>. QED BY <1>4, <2>1, <2>2, <2>5, ZenonT(60)
<1>6. r.map.bits <= IntBits /\ \A i \in 1 .. N : ~Encloses(r, regs[i])
  <2>1. /\ \A i \in DOMAIN regs' : regs'[i].map.bits <= IntBits
        /\ \A i, j \in DOMAIN regs' : i < j => ~Encloses(regs'[j], regs'[i])
    BY Zenon DEF Sound, Encloses, End
  <2>. HIDE DEF N
  <2>. QED BY <1>5, <2>1, Zenon
<1>7. Good(regs', N + 1, owners, blocks, {})
  <2>1. Good(regs, N, owners, blocks, {})
    BY <1>0, Zenon
  <2>. HIDE DEF N
  <2>. QED BY <1>3, <1>5, <1>6, <2>1, AddKept, Zenon
<1>8. owners' = owners /\ blocks' = blocks /\ reserved' = {} /\ phase' = "run"
  BY <1>0 DEF pmem_add
<1>9. PInv'
  <2>1. phase' # "fatal"
    BY <1>8
  <2>2. FatalOnlyIfFull'
    BY <2>1, Zenon DEF FatalOnlyIfFull
  <2>3. phase' \in {"run", "fatal"} /\ {} \subseteq Pages
    BY <1>8
  <2>. QED BY <1>5, <1>7, <1>8, <2>2, <2>3, ZenonT(60) DEF PInv
<1>10. RInv'
  BY <1>8, Zenon DEF RInv, Kept
<1>. QED BY <1>9, <1>10

LEMMA AllocStep ==
  ASSUME Facts, PInv, Sound, pmem_alloc
  PROVE  PInv' /\ (RInv => RInv')
<1> DEFINE N == Len(regs)
<1>0. /\ regs \in Seq(Regions) /\ Good(regs, N, owners, blocks, reserved)
      /\ N \in Nat /\ phase = "run" /\ reserved' = reserved /\ reserved \subseteq Pages
      /\ RegionList(regs, N) /\ CountsMarks(regs, N)
  <2>1. regs \in Seq(Regions) /\ Good(regs, N, owners, blocks, reserved)
        /\ reserved \subseteq Pages
    BY Zenon DEF PInv
  <2>2. phase = "run" /\ reserved' = reserved
    BY DEF pmem_alloc
  <2>3. N \in Nat
    BY <2>1
  <2>4. RegionList(regs, N) /\ CountsMarks(regs, N)
    BY <2>1, Zenon DEF Good
  <2>. QED BY <2>1, <2>2, <2>3, <2>4, SMTT(20)
<1>1. PICK n \in Counts :
        /\ regs' = Any(n).regs
        /\ IF Any(n).at = None
           THEN /\ phase' = "fatal"
                /\ UNCHANGED <<owners, blocks>>
           ELSE /\ owners' = [p \in Pages |->
                                IF p \in Any(n).at .. (Any(n).at + n - 1)
                                THEN owners[p] + 1 ELSE owners[p]]
                /\ blocks' = blocks \union {<<Any(n).at, n>>}
                /\ UNCHANGED phase
  BY Zenon DEF pmem_alloc, Any, Hinted
<1>2. n \in Nat \ {0}
  BY PmemAssumption
<1>3. /\ regs' = [i \in 1 .. N |-> regs'[i]]
      /\ Any(n).at = None => NothingTaken(regs, regs', N)
      /\ Any(n).at # None => BlockTaken(regs, regs', N, Any(n).at, n)
  <2>. HIDE DEF N
  <2>1. /\ Any(n).regs = [i \in 1 .. N |-> Any(n).regs[i]]
        /\ Any(n).at = None => NothingTaken(regs, Any(n).regs, N)
        /\ Any(n).at # None => BlockTaken(regs, Any(n).regs, N, Any(n).at, n)
    BY <1>0, <1>2, AllocEffect
  <2>2. regs' = Any(n).regs
    BY <1>1, Zenon
  <2>. QED BY <2>1, <2>2, ZenonT(60)
<1>4. ASSUME Good(regs', N, owners', blocks', reserved)
      PROVE  regs' \in Seq(Regions) /\ Len(regs') = N /\ DOMAIN regs' = 1 .. N
             /\ Good(regs', Len(regs'), owners', blocks', reserved')
  <2>1. regs' \in [1 .. N -> Regions]
    BY <1>4, Zenon DEF Good, RegionList
  <2>2. regs' \in Seq(Regions) /\ Len(regs') = N
    BY <1>0, <2>1, ListAsFunction
  <2>. HIDE DEF N
  <2>. QED BY <1>0, <1>4, <2>1, <2>2, Zenon
<1>. HIDE DEF N
<1>5. CASE Any(n).at = None
  <2>1. phase' = "fatal" /\ owners' = owners /\ blocks' = blocks
    BY <1>1, <1>5, Zenon
  <2>2. /\ Good(regs', N, owners', blocks', reserved)
        /\ Kept(regs, N, blocks, reserved) => Kept(regs', N, blocks', reserved)
    BY <1>0, <1>3, <1>5, <2>1, NothingKept, ZenonT(60)
  <2>3. regs' \in Seq(Regions) /\ Len(regs') = N /\ DOMAIN regs' = 1 .. N
        /\ Good(regs', Len(regs'), owners', blocks', reserved')
    BY <1>4, <2>2, Zenon
  <2>4. FatalOnlyIfFull'
    <3>1. ASSUME NEW i \in 1 .. N, NEW at \in 0 .. (regs'[i].map.bits - n - 1)
          PROVE  \E bit \in at .. (at + n - 1) : bmap_get(regs'[i].map, bit)
      <4>1. at \in Nat /\ at + n < regs'[i].map.bits
        <5>1. regs'[i].map.bits \in Nat
          BY <2>2, RegionFacts DEF Good
        <5>. QED BY <1>2, <3>1, <5>1, SMTT(20)
      <4>2. ~Free(regs'[i].map, at, n)
        BY <1>0, <1>1, <1>2, <1>5, <4>1, FatalFull, ZenonT(60) DEF CountsMarks
      <4>. QED BY <4>2, Zenon DEF Free
    <3>. QED BY <2>3, <3>1, Zenon DEF FatalOnlyIfFull
  <2>5. PInv'
    <3>1. phase' \in {"run", "fatal"}
      BY <2>1
    <3>. QED BY <1>0, <2>3, <2>4, <3>1, ZenonT(60) DEF PInv
  <2>6. RInv => RInv'
    BY <1>0, <2>2, <2>3, ZenonT(60) DEF RInv, N
  <2>. QED BY <2>5, <2>6
<1>6. CASE Any(n).at # None
  <2>1. /\ owners' = [p \in Pages |-> IF p \in Any(n).at .. (Any(n).at + n - 1)
                                      THEN owners[p] + 1 ELSE owners[p]]
        /\ blocks' = blocks \union {<<Any(n).at, n>>} /\ phase' = phase
    BY <1>1, <1>6, Zenon
  <2>2. Any(n).at \in Int
    <3>1. PICK k \in 1 .. N : TakenFrom(regs[k], regs'[k], Any(n).at, n)
      BY <1>3, <1>6, Zenon DEF BlockTaken
    <3>2. Any(n).at \in Nat
      BY <3>1, Zenon DEF TakenFrom
    <3>. QED BY <3>2
  <2>3. /\ Good(regs', N, owners', blocks', reserved)
        /\ Kept(regs, N, blocks, reserved) => Kept(regs', N, blocks', reserved)
    BY <1>0, <1>3, <1>6, <2>1, <2>2, AllocKept, ZenonT(60)
  <2>4. regs' \in Seq(Regions) /\ Len(regs') = N
        /\ Good(regs', Len(regs'), owners', blocks', reserved')
    BY <1>4, <2>3, Zenon
  <2>5. PInv'
    <3>1. phase' \in {"run", "fatal"} /\ phase' # "fatal"
      BY <1>0, <2>1, SMTT(20)
    <3>. QED BY <1>0, <2>4, <3>1, Zenon DEF PInv, FatalOnlyIfFull
  <2>6. RInv => RInv'
    BY <1>0, <2>3, <2>4, Zenon DEF RInv, N
  <2>. QED BY <2>5, <2>6
<1>. QED BY <1>5, <1>6, Zenon

LEMMA ReserveStep ==
  ASSUME Facts, PInv, Sound, pmem_reserve
  PROVE  PInv' /\ (Sorted /\ RInv => RInv')
<1> DEFINE N == Len(regs)
<1>0. /\ regs \in Seq(Regions) /\ Good(regs, N, owners, blocks, reserved)
      /\ N \in Nat /\ phase = "run" /\ reserved \subseteq Pages
      /\ owners' = owners /\ blocks' = blocks /\ phase' = phase
  BY DEF PInv, pmem_reserve
<1>. HIDE DEF N
<1>1. PICK r \in Reserves :
        /\ ~Taken(r[1], r[2])
        /\ regs' = [i \in DOMAIN regs |-> [regs[i] EXCEPT !.map = Marked(i, r[1], r[2])]]
        /\ reserved' = reserved \union (r[1] .. (r[1] + r[2] - 1))
  BY Zenon DEF pmem_reserve
<1>2. r[1] \in Nat /\ r[2] \in Nat /\ r[1] .. (r[1] + r[2] - 1) \subseteq Pages
  BY PmemAssumption
<1>3. /\ Good(regs', N, owners, blocks, reserved')
      /\ Sorted /\ Kept(regs, N, blocks, reserved) => Kept(regs', N, blocks, reserved')
  BY <1>0, <1>1, <1>2, ReserveKept, ZenonT(60)
<1>4. regs' \in [1 .. N -> Regions]
  BY <1>3, Zenon DEF Good, RegionList
<1>5. regs' \in Seq(Regions) /\ Len(regs') = N
  BY <1>0, <1>4, ListAsFunction, SMTT(20)
<1>6. PInv'
  <2>1. phase' \in {"run", "fatal"} /\ phase' # "fatal"
    BY <1>0
  <2>2. reserved' \subseteq Pages
    BY <1>0, <1>1, <1>2, Zenon
  <2>. QED BY <1>0, <1>3, <1>5, <2>1, <2>2, Zenon DEF PInv, FatalOnlyIfFull
<1>7. Sorted /\ RInv => RInv'
  BY <1>0, <1>3, <1>5, Zenon DEF RInv, N
<1>. QED BY <1>6, <1>7, SMTT(20)

LEMMA FreeStep ==
  ASSUME Facts, PInv, Sound, pmem_free
  PROVE  PInv' /\ (RInv => RInv')
<1> DEFINE N == Len(regs)
<1>0. /\ regs \in Seq(Regions) /\ Good(regs, N, owners, blocks, reserved)
      /\ N \in Nat /\ phase = "run" /\ reserved \subseteq Pages
      /\ reserved' = reserved /\ phase' = phase
  BY DEF PInv, pmem_free
<1>. HIDE DEF N
<1>1. PICK b \in blocks :
        /\ regs' = Release(b[1], b[2])
        /\ blocks' = blocks \ {b}
        /\ owners' = [p \in Pages |-> IF p \in b[1] .. (b[1] + b[2] - 1)
                                      THEN owners[p] - 1 ELSE owners[p]]
  BY Zenon DEF pmem_free
<1>2. b \in Nat \X (Nat \ {0})
  <2>1. b \in Pages \X Counts /\ b[1] \in Nat /\ Counts \subseteq Nat \ {0}
    BY <1>0, PmemAssumption, Zenon DEF Good
  <2>. QED BY <2>1, Zenon
<1>3. RegionList(regs, N) /\ Apart(regs, N)
  BY <1>0, Zenon DEF Good
<1>4. PICK k \in 1 .. N : Within(b, regs[k])
  BY <1>0, Zenon DEF Good, BlocksMarked
<1>5. Cleared(regs, regs', N, k, b)
  BY <1>1, <1>2, <1>3, <1>4, ReleaseEffect, Zenon
<1>6. /\ Good(regs', N, owners', blocks', reserved)
      /\ Kept(regs, N, blocks, reserved) => Kept(regs', N, blocks', reserved)
  <2>1. owners' = [p \in Pages |-> IF p \in b[1] .. (b[1] + b[2] - 1)
                                    THEN owners[p] - 1 ELSE owners[p]]
    BY <1>1, ZenonT(60)
  <2>2. /\ Good(regs', N, owners', blocks \ {b}, reserved)
        /\ Kept(regs, N, blocks, reserved) => Kept(regs', N, blocks \ {b}, reserved)
    BY <1>0, <1>5, <2>1, FreeKept, SMTT(20)
  <2>. QED BY <1>1, <2>2, ZenonT(60)
<1>7. regs' \in [1 .. N -> Regions]
  BY <1>6, Zenon DEF Good, RegionList
<1>8. regs' \in Seq(Regions) /\ Len(regs') = N
  BY <1>0, <1>7, ListAsFunction, SMTT(20)
<1>9. PInv'
  <2>1. phase' \in {"run", "fatal"} /\ phase' # "fatal"
    BY <1>0
  <2>. QED BY <1>0, <1>6, <1>8, <2>1, ZenonT(60) DEF PInv, FatalOnlyIfFull
<1>10. RInv => RInv'
  BY <1>0, <1>6, <1>8, Zenon DEF RInv, N
<1>. QED BY <1>9, <1>10

LEMMA PInvStep ==
  ASSUME Facts, PInv, Sound, Sound', [Next]_vars
  PROVE  PInv' /\ (Sorted /\ RInv => RInv')
<1>1. CASE pmem_add
  BY <1>1, AddStep
<1>2. CASE pmem_alloc
  BY <1>2, AllocStep
<1>3. CASE pmem_reserve
  BY <1>3, ReserveStep, SMTT(20)
<1>4. CASE pmem_free
  BY <1>4, FreeStep
<1>5. CASE UNCHANGED vars
  <2>1. /\ regs' = regs /\ owners' = owners /\ blocks' = blocks
        /\ reserved' = reserved /\ phase' = phase
    BY <1>5 DEF vars
  <2>2. PInv'
    BY <2>1, Zenon DEF PInv, FatalOnlyIfFull
  <2>3. RInv => RInv'
    BY <2>1, Zenon DEF RInv
  <2>. QED BY <2>2, <2>3
<1>. QED BY <1>1, <1>2, <1>3, <1>4, <1>5, ZenonT(60) DEF Next, Halt
-----------------------------------------------------------------------------
-----------------------------------------------------------------------------
INSTANCE FiniteSetTheorems
INSTANCE WellFoundedInduction

\* The facts are theorems of the library.
LEMMA Library == Facts
<1>1. Least
  <2> SUFFICES ASSUME NEW T, T \subseteq Nat, T # {}
               PROVE  \E x \in T : \A y \in T : x <= y
    BY Zenon DEF Least
  <2>1. PICK x \in T : \A y \in T : ~(<<y, x>> \in OpToRel(<, Nat))
    BY WFMin, NatLessThanWellFounded, Zenon
  <2>2. \A y \in T : ~(y < x)
    BY <2>1, Zenon DEF OpToRel
  <2>. QED BY <2>2
<1>2. Intervals
  BY FS_Interval DEF Intervals
<1>3. Subsets
  BY FS_Subset, Zenon DEF Subsets
<1>4. Cardinals
  BY FS_CardinalityType, Zenon DEF Cardinals
<1>5. Unions
  <2> SUFFICES ASSUME NEW S, NEW T, IsFiniteSet(S), IsFiniteSet(T)
               PROVE  /\ IsFiniteSet(S \cup T)
                      /\ Cardinality(S \cup T) =
                           Cardinality(S) + Cardinality(T) - Cardinality(S \cap T)
    BY Zenon DEF Unions
  <2>. QED BY FS_Union
<1>6. Additions
  BY FS_AddElement, Zenon DEF Additions
<1>7. Shifts
  <2> SUFFICES ASSUME NEW V, V \subseteq Int, IsFiniteSet(V), NEW start \in Int
               PROVE  /\ IsFiniteSet({page - start : page \in V})
                      /\ Cardinality({page - start : page \in V}) = Cardinality(V)
    BY Zenon DEF Shifts
  <2> DEFINE W == {page - start : page \in V}
             F == [page \in V |-> page - start]
  <2>1. F \in [V -> W]
    BY Zenon
  <2>2. \A a, b \in V : F[a] = F[b] => a = b
    OBVIOUS
  <2>3. \A w \in W : \E a \in V : F[a] = w
    BY Zenon
  <2>. HIDE DEF F, W
  <2>4. F \in Injection(V, W)
    <3>1. DOMAIN F = V
      BY <2>1, Zenon
    <3>. QED BY <2>1, <2>2, <3>1, Zenon DEF Injection, IsInjective
  <2>5. F \in Surjection(V, W)
    BY <2>1, <2>3, Zenon DEF Surjection
  <2>6. ExistsBijection(V, W)
    BY <2>4, <2>5, Zenon DEF ExistsBijection, Bijection
  <2>. QED BY <2>6, FS_Bijection, Zenon DEF W
<1>. QED BY <1>1, <1>2, <1>3, <1>4, <1>5, <1>6, <1>7, FS_EmptySet, Zenon DEF Facts

LEMMA InvariantHolds == Spec /\ []Sound => []PInv
<1>1. Init /\ Sound => PInv
  BY Library, InitPInv
<1>2. PInv /\ Sound /\ Sound' /\ [Next]_vars => PInv'
  BY Library, PInvStep
<1>. QED BY <1>1, <1>2, PTL DEF Spec

LEMMA ReservedHolds == Spec /\ [](Sound /\ Sorted) => [](PInv /\ RInv)
<1>1. Init /\ (Sound /\ Sorted) => PInv /\ RInv
  BY Library, InitPInv
<1>2. (PInv /\ RInv) /\ (Sound /\ Sorted) /\ (Sound /\ Sorted)' /\ [Next]_vars
        => (PInv /\ RInv)'
  BY Library, PInvStep
<1>. QED BY <1>1, <1>2, PTL DEF Spec

\* What the invariant says of the list that is in the state.
LEMMA ListFacts ==
  ASSUME PInv
  PROVE  /\ Good(regs, Len(regs), owners, blocks, reserved)
         /\ DOMAIN regs = 1 .. Len(regs) /\ RegionList(regs, Len(regs))
         /\ \A p \in Pages : owners[p] = IF OwnedBy(blocks, p) THEN 1 ELSE 0
<1>1. regs \in Seq(Regions) /\ Good(regs, Len(regs), owners, blocks, reserved)
  BY Zenon DEF PInv
<1>2. DOMAIN regs = 1 .. Len(regs)
  BY <1>1
<1>3. RegionList(regs, Len(regs)) /\ owners = OwnersOf(blocks)
  BY <1>1, Zenon DEF Good
<1>. QED BY <1>1, <1>2, <1>3, ZenonT(60) DEF OwnersOf

(***************************************************************************)
(* A page that a live block holds is marked in the bitmap of the region    *)
(* that holds it (pmem.c:28), for every memory map whose regions are       *)
(* Sound, every order of calls and every length.                           *)
(***************************************************************************)
THEOREM HeldPagesAreMarked == Spec /\ []Sound => []HeldIsMarked
<1>1. ASSUME PInv
      PROVE  HeldIsMarked
  <2>. SUFFICES ASSUME NEW i \in DOMAIN regs, NEW p \in Holds(regs[i]), owners[p] > 0
                PROVE  bmap_get(regs[i].map, p - regs[i].start)
    BY Zenon DEF HeldIsMarked
  <2>1. /\ Good(regs, Len(regs), owners, blocks, reserved)
        /\ i \in 1 .. Len(regs) /\ RegionList(regs, Len(regs))
        /\ \A q \in Pages : owners[q] = IF OwnedBy(blocks, q) THEN 1 ELSE 0
    BY <1>1, ListFacts, ZenonT(60)
  <2>2. p \in Pages /\ p \in Nat /\ regs[i].start \in Nat /\ regs[i].map.bits \in Nat
    <3>1. /\ regs[i].start \in Nat /\ regs[i].map.bits \in Nat \ {0}
          /\ \A q \in Holds(regs[i]) : q \in Nat /\ q \in Pages
      BY Library, <2>1, RegionFacts, Zenon
    <3>. QED BY <3>1, Zenon
  <2>3. OwnedBy(blocks, p)
    <3>1. ~OwnedBy(blocks, p) => owners[p] = 0
      BY <2>1, <2>2, Zenon
    <3>2. ~(0 > 0)
      OBVIOUS
    <3>. QED BY <3>1, <3>2, Zenon
  <2>4. p - regs[i].start \in Marks(regs[i].map)
    BY Library, <2>1, <2>3, OwnedMarked, ZenonT(60)
  <2>5. p - regs[i].start <= regs[i].map.bits /\ p - regs[i].start \in regs[i].map.storage
    <3>1. p - regs[i].start \in 0 .. (regs[i].map.bits - 1)
          /\ p - regs[i].start \in regs[i].map.storage
      BY <2>4, ZenonT(60) DEF Marks
    <3>. QED BY <2>2, <3>1, SMTT(20)
  <2>. QED BY <2>5, Zenon DEF bmap_get
<1>. QED BY <1>1, InvariantHolds, PTL

(***************************************************************************)
(* No page is handed out twice (pmem.c:229), and no page is in two regions *)
(* (pmem.c:153-175), for regions that are Sound.                           *)
(***************************************************************************)
THEOREM PagesAreGivenOnce == Spec /\ []Sound => []NoPageTwice
<1>1. ASSUME PInv
      PROVE  NoPageTwice
  <2>1. /\ Good(regs, Len(regs), owners, blocks, reserved)
        /\ DOMAIN regs = 1 .. Len(regs)
        /\ \A p \in Pages : owners[p] = IF OwnedBy(blocks, p) THEN 1 ELSE 0
    BY <1>1, ListFacts, ZenonT(60)
  <2>2. 0 <= 1 /\ 1 <= 1
    OBVIOUS
  <2>3. \A p \in Pages : owners[p] <= 1
    BY <2>1, <2>2, Zenon
  <2>. QED BY <2>1, <2>3, ZenonT(60) DEF NoPageTwice, Good, Apart
<1>. QED BY <1>1, InvariantHolds, PTL

(***************************************************************************)
(* The kernel stops for want of memory only if no region has a free run of *)
(* the length asked for (pmem.c:246-255), for regions that are Sound: the  *)
(* hints and the filling degrees never hide one.                           *)
(***************************************************************************)
THEOREM StopsOnlyIfFull == Spec /\ []Sound => []FatalOnlyIfFull
<1>1. PInv => FatalOnlyIfFull
  BY Zenon DEF PInv
<1>. QED BY <1>1, InvariantHolds, PTL

(***************************************************************************)
(* "no pmem_alloc() call will ever return a block within the given range"  *)
(* (pmem.h:58-60): true of every list of Sound regions in ascending order. *)
(***************************************************************************)
THEOREM ReservedIsNeverAllocated ==
  Spec /\ [](Sound /\ Sorted) => []ReservedNeverAllocated
<1>1. ASSUME PInv, RInv
      PROVE  ReservedNeverAllocated
  <2>1. reserved \subseteq Pages
        /\ \A p \in Pages : owners[p] = IF OwnedBy(blocks, p) THEN 1 ELSE 0
    BY <1>1, ListFacts, Zenon DEF PInv
  <2>2. \A p \in reserved : ~OwnedBy(blocks, p)
    BY <1>1, ZenonT(60) DEF RInv, Kept
  <2>. QED BY <2>1, <2>2, Zenon DEF ReservedNeverAllocated
<1>. QED BY <1>1, ReservedHolds, PTL

(***************************************************************************)
(* The counter of a region is the number of its pages that are held or     *)
(* reserved (bmap.c:77, pmem_info): true of every list of Sound regions in *)
(* ascending order.                                                        *)
(***************************************************************************)
THEOREM CountersAreRight == Spec /\ [](Sound /\ Sorted) => []CountsArePages
<1>1. ASSUME PInv, RInv
      PROVE  CountsArePages
  <2>1. /\ Good(regs, Len(regs), owners, blocks, reserved)
        /\ DOMAIN regs = 1 .. Len(regs) /\ RegionList(regs, Len(regs))
        /\ \A p \in Pages : owners[p] = IF OwnedBy(blocks, p) THEN 1 ELSE 0
    BY <1>1, ListFacts, ZenonT(60)
  <2>2. ASSUME NEW i \in 1 .. Len(regs)
        PROVE  /\ regs[i].map.set_cnt =
                    Cardinality({p \in Holds(regs[i]) : owners[p] > 0 \/ p \in reserved})
               /\ Holds(regs[i]) \subseteq Pages
               /\ regs[i].map.storage \subseteq Nat
               /\ regs[i].map.set_cnt \in 0 .. regs[i].map.bits
               /\ regs[i].map.hint \in Nat
    <3>. DEFINE r == regs[i]
                U == {p \in Holds(r) : owners[p] > 0 \/ p \in reserved}
                M == Marks(r.map)
    <3>1. /\ r.start \in Nat /\ r.map \in Maps /\ r.map.bits \in Nat \ {0}
          /\ M \subseteq 0 .. (r.map.bits - 1) /\ IsFiniteSet(M)
      BY Library, <2>1, RegionFacts, ZenonT(60)
    <3>2. \A p \in Holds(r) : p \in Int /\ p \in Pages
      BY Library, <2>1, RegionFacts, SMTT(20)
    <3>3. \A p \in Holds(r) : p - r.start \in M =>
            OwnedBy(blocks, p) \/ p \in reserved
      <4>1. \A p \in Holds(r) : r.start + (p - r.start) = p
        <5>. HIDE DEF r
        <5>. QED BY <3>1, <3>2
      <4>2. \A bit \in M : OwnedBy(blocks, r.start + bit) \/ r.start + bit \in reserved
        BY <2>1, Zenon DEF Good, MarksUsed
      <4>. HIDE DEF r, M
      <4>. QED BY <4>1, <4>2, ZenonT(60)
    <3>4. \A p \in Holds(r) : OwnedBy(blocks, p) \/ p \in reserved => p - r.start \in M
      <4>1. \A p \in Holds(r) : OwnedBy(blocks, p) => p - r.start \in M
        BY Library, <2>1, OwnedMarked, Zenon
      <4>2. \A p \in Holds(r) : p \in reserved => p - r.start \in M
        BY <1>1, Zenon DEF RInv, Kept
      <4>. QED BY <4>1, <4>2, Zenon
    <3>5. \A p \in Holds(r) : p \in U <=> p - r.start \in M
      <4>1. 1 > 0 /\ ~(0 > 0)
        OBVIOUS
      <4>2. \A p \in Holds(r) : owners[p] > 0 <=> OwnedBy(blocks, p)
        BY <2>1, <3>2, <4>1, Zenon
      <4>. HIDE DEF r, M
      <4>. QED BY <3>3, <3>4, <4>2, ZenonT(60)
    <3>. HIDE DEF r, M
    <3>6. U \subseteq Holds(r) /\ U \subseteq Int
      BY <3>2, Zenon
    <3>. HIDE DEF U
    <3>7. M = {p - r.start : p \in U}
      <4>1. \A bit \in M : r.start + bit \in Holds(r) /\ (r.start + bit) - r.start = bit
        BY <3>1, SMTT(20) DEF Holds, End
      <4>. QED BY <3>5, <3>6, <4>1, Zenon
    <3>8. Cardinality(M) = Cardinality(U)
      <4>1. IsFiniteSet(U)
        <5>1. /\ r.start \in Int /\ End(r) - 1 \in Int /\ r.start <= (End(r) - 1) + 1
          BY <3>1 DEF End
        <5>2. IsFiniteSet(Holds(r))
          BY Library, <5>1, IntervalSize, Zenon DEF Holds
        <5>. QED BY <3>6, <5>2, FS_Subset, ZenonT(60)
      <4>2. r.start \in Int
        BY <3>1
      <4>. QED BY Library, <3>6, <3>7, <4>1, <4>2, ShiftSize, Zenon
    <3>9. r.map.set_cnt = Cardinality(M)
      BY <2>1, Zenon DEF Good, CountsMarks, r, M
    <3>10. r.map.set_cnt \in 0 .. r.map.bits
      <4>1. /\ 0 \in Int /\ r.map.bits - 1 \in Int /\ 0 <= (r.map.bits - 1) + 1
            /\ (r.map.bits - 1) - 0 + 1 = r.map.bits
        BY <3>1
      <4>2. IsFiniteSet(0 .. (r.map.bits - 1)) /\ Cardinality(0 .. (r.map.bits - 1)) = r.map.bits
        BY Library, <4>1, IntervalSize, ZenonT(60)
      <4>3. Cardinality(M) \in Nat /\ Cardinality(M) <= Cardinality(0 .. (r.map.bits - 1))
        BY <3>1, <4>2, FS_Subset, FS_CardinalityType, Zenon
      <4>. QED BY <3>1, <3>9, <4>2, <4>3, SMTT(20)
    <3>11. r.map.storage \subseteq Nat /\ r.map.hint \in Nat
      BY <3>1, SMTT(20) DEF Maps
    <3>12. Holds(r) \subseteq Pages
      BY <3>2, Zenon
    <3>. QED BY <3>8, <3>9, <3>10, <3>11, <3>12, ZenonT(60) DEF r, U
  <2>3. TypeOK
    <3>1. owners \in [Pages -> Nat]
      <4>1. owners = [p \in Pages |-> IF OwnedBy(blocks, p) THEN 1 ELSE 0]
        BY <2>1, Zenon DEF Good, OwnersOf
      <4>2. 0 \in Nat /\ 1 \in Nat
        OBVIOUS
      <4>3. \A p \in Pages : (IF OwnedBy(blocks, p) THEN 1 ELSE 0) \in Nat
        BY <4>2, ZenonT(60)
      <4>. QED BY <4>1, <4>3, ZenonT(60)
    <3>2. blocks \subseteq Pages \X Counts /\ reserved \subseteq Pages
          /\ phase \in {"run", "fatal"}
      BY <1>1, <2>1, ZenonT(60) DEF Good, PInv
    <3>. QED BY <2>1, <2>2, <3>1, <3>2, Zenon DEF TypeOK
  <2>. QED BY <2>1, <2>2, <2>3, ZenonT(60) DEF CountsArePages
<1>. QED BY <1>1, ReservedHolds, PTL
=============================================================================
