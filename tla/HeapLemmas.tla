----------------------------- MODULE HeapLemmas -----------------------------
(***************************************************************************)
(* What the operations of the heap do to its tags, its statistics and the  *)
(* holders of its blocks, for any clients, sizes and size of a page.       *)
(***************************************************************************)
EXTENDS Heap, TLAPS

(***************************************************************************)
(* What the proofs use of the naturals and of finite sets.  It is a        *)
(* hypothesis of the lemmas and is discharged from the library's theorems  *)
(* in HeapProofs, by lemma Library.                                        *)
(***************************************************************************)
Least == \A T : T \subseteq Nat /\ T # {} => \E x \in T : \A y \in T : x <= y
Intervals == \A a, b \in Int : /\ IsFiniteSet(a .. b)
                             /\ Cardinality(a .. b) = IF a > b THEN 0 ELSE (b - a) + 1
Subsets == \A S, T : IsFiniteSet(S) /\ T \subseteq S =>
             /\ IsFiniteSet(T) /\ Cardinality(T) <= Cardinality(S)
             /\ Cardinality(S) = Cardinality(T) => S = T
Cardinals == \A S : IsFiniteSet(S) => Cardinality(S) \in Nat
Unions == \A S, T : IsFiniteSet(S) /\ IsFiniteSet(T) =>
            /\ IsFiniteSet(S \cup T)
            /\ Cardinality(S \cup T) =
                 Cardinality(S) + Cardinality(T) - Cardinality(S \cap T)
Additions == \A S, x : IsFiniteSet(S) =>
               /\ IsFiniteSet(S \cup {x})
               /\ Cardinality(S \cup {x}) =
                    IF x \in S THEN Cardinality(S) ELSE Cardinality(S) + 1
Facts == /\ Least /\ Intervals /\ Subsets /\ Cardinals /\ Unions /\ Additions
         /\ IsFiniteSet({}) /\ Cardinality({}) = 0

\* A nonempty set of naturals has a least element.
LEMMA LeastNat ==
  ASSUME Facts, NEW T, T \subseteq Nat, T # {}
  PROVE  \E x \in T : \A y \in T : x <= y
BY Zenon DEF Facts, Least

\* The cardinality facts, one by one.
LEMMA FiniteInterval ==
  ASSUME Facts, NEW a \in Int, NEW b \in Int
  PROVE  IsFiniteSet(a .. b) /\ Cardinality(a .. b) = IF a > b THEN 0 ELSE (b - a) + 1
BY Zenon DEF Facts, Intervals

LEMMA FiniteSubset ==
  ASSUME Facts, NEW S, IsFiniteSet(S), NEW T \in SUBSET S
  PROVE  /\ IsFiniteSet(T) /\ Cardinality(T) <= Cardinality(S)
         /\ Cardinality(S) = Cardinality(T) => S = T
<1>1. T \subseteq S
  BY Zenon
<1>. QED BY <1>1, Zenon DEF Facts, Subsets

LEMMA FiniteCardinalityType ==
  ASSUME Facts, NEW S, IsFiniteSet(S)
  PROVE  Cardinality(S) \in Nat
BY Zenon DEF Facts, Cardinals

LEMMA FiniteUnion ==
  ASSUME Facts, NEW S, IsFiniteSet(S), NEW T, IsFiniteSet(T)
  PROVE  /\ IsFiniteSet(S \cup T)
         /\ Cardinality(S \cup T) =
              Cardinality(S) + Cardinality(T) - Cardinality(S \cap T)
BY Zenon DEF Facts, Unions

LEMMA FiniteEmptySet ==
  ASSUME Facts
  PROVE  IsFiniteSet({}) /\ Cardinality({}) = 0
BY Zenon DEF Facts

LEMMA FiniteAddElement ==
  ASSUME Facts, NEW S, NEW x, IsFiniteSet(S)
  PROVE  /\ IsFiniteSet(S \cup {x})
         /\ Cardinality(S \cup {x}) =
              IF x \in S THEN Cardinality(S) ELSE Cardinality(S) + 1
BY Zenon DEF Facts, Additions

\* Induction downwards from n to 0, for a set.
LEMMA DownInduction ==
  ASSUME Facts,
         NEW n \in Nat, NEW T, n \in T, \A k \in 0 .. (n - 1) : k + 1 \in T => k \in T
  PROVE  \A k \in 0 .. n : k \in T
<1> DEFINE Bad == {j \in Nat : j <= n /\ n - j \notin T}
<1>1. Bad = {}
  <2> SUFFICES ASSUME Bad # {}
               PROVE  FALSE
    OBVIOUS
  <2>1. PICK j \in Bad : \A i \in Bad : j <= i
    <3>1. Bad \subseteq Nat
      OBVIOUS
    <3>. HIDE DEF Bad
    <3>. QED BY <3>1, LeastNat, Zenon
  <2>2. j # 0 /\ j <= n /\ n - j \notin T
    OBVIOUS
  <2>3. j - 1 \in Nat /\ j - 1 \notin Bad
    BY <2>1, <2>2
  <2>4. n - (j - 1) \in T
    BY <2>2, <2>3
  <2>5. n - j \in 0 .. (n - 1) /\ (n - j) + 1 = n - (j - 1)
    BY <2>2
  <2>. QED BY <2>2, <2>4, <2>5
<1>2. ASSUME NEW k \in 0 .. n
      PROVE  k \in T
  <2>1. n - k \in Nat /\ n - (n - k) = k /\ n - k <= n
    OBVIOUS
  <2>2. n - k \notin Bad
    BY <1>1
  <2>. QED BY <2>1, <2>2
<1>. QED BY <1>2

\* A nonempty bounded set of naturals has a greatest element.
LEMMA GreatestNat ==
  ASSUME Facts, NEW n \in Nat, NEW T, T \subseteq 0 .. n, T # {}
  PROVE  \E x \in T : \A y \in T : y <= x
<1> DEFINE U == {n - x : x \in T}
<1>1. U \subseteq Nat /\ U # {}
  <2>1. PICK t \in T : TRUE
    BY Zenon
  <2>2. n - t \in U
    BY <2>1
  <2>3. ASSUME NEW u \in U
        PROVE  u \in Nat
    <3>1. PICK x \in T : u = n - x
      OBVIOUS
    <3>. QED BY <3>1
  <2>. QED BY <2>2, <2>3
<1> HIDE DEF U
<1>2. PICK u \in U : \A v \in U : u <= v
  BY <1>1, LeastNat, Zenon
<1>3. PICK x \in T : u = n - x
  BY DEF U
<1>4. ASSUME NEW y \in T
      PROVE  y <= x
  <2>1. n - y \in U
    BY DEF U
  <2>2. u <= n - y
    BY <1>2, <2>1
  <2>. QED BY <1>3, <2>2
<1>. QED BY <1>4

(***************************************************************************)
(* A function over 0 .. n that is defined at h in terms of a greater       *)
(* argument nxt[h], or by base where it stops.                             *)
(***************************************************************************)
Descends(f, n, S, stop, base, nxt, step) ==
  /\ f \in [0 .. n -> S]
  /\ \A h \in 0 .. n : f[h] = IF h \in stop THEN base[h] ELSE step[<<h, f[nxt[h]]>>]

LEMMA DownRecursion ==
  ASSUME Facts, NEW n \in Nat, NEW S, NEW stop, NEW base \in [0 .. n -> S],
         NEW nxt \in [0 .. n -> Int], NEW step \in [(0 .. n) \X S -> S],
         \A h \in 0 .. n : h \notin stop => nxt[h] \in (h + 1) .. n
  PROVE  \E f : Descends(f, n, S, stop, base, nxt, step)
<1> DEFINE Solves(f, k) ==
             /\ f \in [k .. n -> S]
             /\ \A h \in k .. n : f[h] = IF h \in stop THEN base[h] ELSE step[<<h, f[nxt[h]]>>]
           T == {k \in 0 .. n : \E f : Solves(f, k)}
<1>1. n \in T
  <2> DEFINE g == [h \in n .. n |-> base[n]]
  <2>1. n \in stop
    <3>1. n \in 0 .. n /\ ~\E x \in (n + 1) .. n : TRUE
      OBVIOUS
    <3>. QED BY <3>1
  <2>2. g \in [n .. n -> S] /\ \A h \in n .. n : g[h] = base[h] /\ h \in stop
    BY <2>1
  <2>3. Solves(g, n)
    <3>. HIDE DEF g
    <3>. QED BY <2>2
  <2>4. n \in 0 .. n
    OBVIOUS
  <2>. QED BY <2>3, <2>4, Zenon
<1>2. ASSUME NEW k \in 0 .. (n - 1), k + 1 \in T
      PROVE  k \in T
  <2>1. PICK f : Solves(f, k + 1)
    BY <1>2, Zenon
  <2> DEFINE v == IF k \in stop THEN base[k] ELSE step[<<k, f[nxt[k]]>>]
             g == [h \in k .. n |-> IF h = k THEN v ELSE f[h]]
  <2>2. k \in 0 .. n /\ (k \notin stop => nxt[k] \in (k + 1) .. n)
    OBVIOUS
  <2>3. k \notin stop => f[nxt[k]] \in S
    BY <2>1, <2>2
  <2>4. v \in S
    <3>1. CASE k \in stop
      BY <2>2, <3>1
    <3>2. CASE k \notin stop
      <4>1. <<k, f[nxt[k]]>> \in (0 .. n) \X S
        BY <2>2, <2>3, <3>2
      <4>. QED BY <3>2, <4>1
    <3>. QED BY <3>1, <3>2
  <2> HIDE DEF v
  <2>5. g \in [k .. n -> S] /\ g[k] = v /\ \A h \in (k + 1) .. n : g[h] = f[h]
    BY <2>1, <2>4
  <2> HIDE DEF g
  <2>6. ASSUME NEW h \in k .. n
        PROVE  g[h] = IF h \in stop THEN base[h] ELSE step[<<h, g[nxt[h]]>>]
    <3>1. h \notin stop => nxt[h] \in (k + 1) .. n
      OBVIOUS
    <3>2. h \notin stop => g[nxt[h]] = f[nxt[h]]
      BY <2>5, <3>1
    <3>3. CASE h = k
      BY <2>5, <3>2, <3>3, Zenon DEF v
    <3>4. CASE h # k
      <4>1. h \in (k + 1) .. n
        BY <3>4
      <4>2. f[h] = IF h \in stop THEN base[h] ELSE step[<<h, f[nxt[h]]>>]
        BY <2>1, <4>1, Zenon
      <4>. QED BY <2>5, <3>2, <4>1, <4>2, Zenon
    <3>. QED BY <3>3, <3>4
  <2>7. Solves(g, k)
    BY <2>5, <2>6, Zenon
  <2>. QED BY <2>2, <2>7, Zenon
<1>3. 0 \in 0 .. n
  OBVIOUS
<1>4. 0 \in T
  <2>1. \A k \in 0 .. (n - 1) : k + 1 \in T => k \in T
    BY <1>2, Zenon
  <2>. HIDE DEF T
  <2>. QED BY <1>1, <1>3, <2>1, DownInduction
<1>. QED BY <1>4, Zenon DEF Descends
-----------------------------------------------------------------------------
(***************************************************************************)
(* The words of a heap, and a tag that one of them holds.                  *)
(***************************************************************************)
Mem == [Words -> TagType]
Limit == MaxPages * PageSize

IsTag(t, s, p, f) == t.sz = s /\ t.present = p /\ t.footer = f

LEMMA LimitType == Limit \in Nat /\ Words = 0 .. (Limit - 1)
BY PagesAssumption DEF Limit, Words

LEMMA MemFacts ==
  ASSUME NEW m \in Mem, NEW w \in Words
  PROVE  m[w].sz \in 0 .. Limit /\ m[w].present \in {0, 1} /\ m[w].footer \in {0, 1}
BY DEF Mem, TagType, Limit

\* q is m, but for the words from lo to hi - 1.
Outside(m, q, lo, hi) == \A w \in Words : (w < lo \/ w >= hi) => q[w] = m[w]

\* A block from at to end - 1.
Block(q, at, end, p) ==
  IsTag(q[at], end - at - 2, p, 0) /\ IsTag(q[end - 1], end - at - 2, p, 1)

\* HEAP_BL_SET writes a block.
LEMMA SetEffect ==
  ASSUME NEW m \in Mem, NEW h \in Nat, NEW s \in Nat, h + 2 + s <= Limit, NEW p \in {0, 1}
  PROVE  /\ HEAP_BL_SET(m, h, s, p) \in Mem
         /\ Block(HEAP_BL_SET(m, h, s, p), h, h + 2 + s, p)
         /\ \A w \in Words : w # h /\ w # h + 1 + s => HEAP_BL_SET(m, h, s, p)[w] = m[w]
<1> DEFINE f == h + 1 + s
           a == Tag(s, p, 0)
           b == Tag(s, p, 1)
           q == HEAP_BL_SET(m, h, s, p)
<1>1. h \in Words /\ f \in Words /\ h # f
  BY LimitType
<1>2. a \in TagType /\ b \in TagType
  BY LimitType DEF TagType, Tag, Limit
<1>3. IsTag(a, s, p, 0) /\ IsTag(b, s, p, 1)
  BY DEF IsTag, Tag
<1>4. q = [m EXCEPT ![h] = a, ![f] = b]
  BY Zenon DEF HEAP_BL_SET
<1> HIDE DEF a, b, q
<1>5. q \in Mem /\ q[h] = a /\ q[f] = b /\ \A w \in Words : w # h /\ w # f => q[w] = m[w]
  BY <1>1, <1>2, <1>4 DEF Mem
<1>6. Block(q, h, h + 2 + s, p)
  <2>1. (h + 2 + s) - h - 2 = s /\ (h + 2 + s) - 1 = f
    OBVIOUS
  <2>. QED BY <1>3, <1>5, <2>1 DEF Block
<1>. QED BY <1>5, <1>6 DEF q

\* Clear touches only the data of a block.
LEMMA ClearEffect ==
  ASSUME NEW m \in Mem, NEW h \in Words
  PROVE  /\ Clear(m, h) \in Mem
         /\ \A w \in Words : w \notin (h + 1) .. (h + m[h].sz) => Clear(m, h)[w] = m[w]
<1>1. Junk \in TagType
  BY LimitType DEF Junk, Tag, TagType, Limit
<1>2. DOMAIN m = Words /\ \A w \in Words : m[w] \in TagType
  BY DEF Mem
<1>. QED BY <1>1, <1>2, Zenon DEF Clear, Mem
-----------------------------------------------------------------------------
(***************************************************************************)
(* The blocks with headers B tile the words from a to b - 1: they follow   *)
(* each other, and each ends with a footer that repeats its header.        *)
(***************************************************************************)
After(m, h) == h + 2 + m[h].sz

Tile(m, b, B, h) ==
  /\ m[h].footer = 0
  /\ After(m, h) <= b
  /\ IsTag(m[After(m, h) - 1], m[h].sz, m[h].present, 1)
  /\ After(m, h) = b \/ After(m, h) \in B

Tiling(m, a, b, B) ==
  /\ a \in Nat /\ b \in Nat /\ a <= b /\ b <= Limit
  /\ B \subseteq a .. (b - 1)
  /\ a < b => a \in B
  /\ \A h \in B : Tile(m, b, B, h)
  /\ \A g, h \in B : g < h => After(m, g) <= h

LEMMA TilingFacts ==
  ASSUME NEW m \in Mem, NEW a, NEW b, NEW B, Tiling(m, a, b, B), NEW h \in B
  PROVE  /\ a \in Nat /\ b \in Nat /\ a <= b /\ b <= Limit
         /\ h \in Nat /\ h \in Words /\ a <= h /\ h < b
         /\ m[h].sz \in Nat /\ m[h].present \in {0, 1}
         /\ After(m, h) \in Nat /\ h + 2 <= After(m, h) /\ After(m, h) <= b
         /\ After(m, h) - 1 \in Words
<1>1. /\ a \in Nat /\ b \in Nat /\ a <= b /\ b <= Limit /\ h \in a .. (b - 1)
      /\ After(m, h) <= b
  BY Zenon DEF Tiling, Tile
<1>2. h \in Words /\ h \in Nat /\ a <= h /\ h < b
  BY <1>1, LimitType
<1>3. m[h].sz \in Nat /\ m[h].present \in {0, 1}
  BY <1>2, MemFacts, LimitType
<1>4. After(m, h) \in Nat /\ h + 2 <= After(m, h)
  BY <1>2, <1>3 DEF After
<1>5. After(m, h) - 1 \in Words
  BY <1>1, <1>2, <1>4, LimitType
<1>. QED BY <1>1, <1>2, <1>3, <1>4, <1>5

\* One block.
LEMMA TilingOne ==
  ASSUME NEW m \in Mem, NEW a \in Nat, NEW b \in Nat, a + 2 <= b, b <= Limit, NEW p,
         Block(m, a, b, p)
  PROVE  Tiling(m, a, b, {a})
<1>1. /\ m[a].sz = b - a - 2 /\ m[a].present = p /\ m[a].footer = 0
      /\ IsTag(m[b - 1], b - a - 2, p, 1)
  BY Zenon DEF Block, IsTag
<1>2. After(m, a) = b
  BY <1>1 DEF After
<1>3. Tile(m, b, {a}, a)
  BY <1>1, <1>2 DEF Tile
<1>4. {a} \subseteq a .. (b - 1) /\ a <= b /\ \A g, h \in {a} : ~(g < h)
  OBVIOUS
<1>. QED BY <1>3, <1>4 DEF Tiling

\* Two tilings, one behind the other.
LEMMA TilingJoin ==
  ASSUME NEW m \in Mem, NEW a, NEW b, NEW c, NEW B, NEW C,
         Tiling(m, a, b, B), Tiling(m, b, c, C)
  PROVE  Tiling(m, a, c, B \union C)
<1> DEFINE D == B \union C
<1>1. /\ a \in Nat /\ b \in Nat /\ c \in Nat /\ a <= b /\ b <= c /\ c <= Limit
      /\ B \subseteq a .. (b - 1) /\ C \subseteq b .. (c - 1)
      /\ (a < b => a \in B) /\ (b < c => b \in C)
  BY Zenon DEF Tiling
<1>2. a <= c /\ D \subseteq a .. (c - 1) /\ (a < c => a \in D)
  BY <1>1
<1>3. ASSUME NEW h \in D
      PROVE  Tile(m, c, D, h)
  <2>1. CASE h \in B
    <3>1. Tile(m, b, B, h)
      BY <2>1, Zenon DEF Tiling
    <3>2. After(m, h) \in Nat
      BY <2>1, TilingFacts, Zenon
    <3>3. After(m, h) <= c /\ (After(m, h) = c \/ After(m, h) \in D)
      BY <1>1, <3>1, <3>2 DEF Tile
    <3>. QED BY <3>1, <3>3, Zenon DEF Tile
  <2>2. CASE h \in C
    <3>1. Tile(m, c, C, h)
      BY <2>2, Zenon DEF Tiling
    <3>. QED BY <3>1, Zenon DEF Tile
  <2>. QED BY <2>1, <2>2
<1>4. ASSUME NEW g \in D, NEW h \in D, g < h
      PROVE  After(m, g) <= h
  <2>1. CASE g \in B /\ h \in B
    BY <1>4, <2>1, Zenon DEF Tiling
  <2>2. CASE g \in C /\ h \in C
    BY <1>4, <2>2, Zenon DEF Tiling
  <2>3. CASE g \in B /\ h \in C
    <3>1. After(m, g) \in Nat /\ After(m, g) <= b
      BY <2>3, TilingFacts, Zenon
    <3>. QED BY <1>1, <2>3, <3>1
  <2>4. CASE g \in C /\ h \in B
    BY <1>1, <1>4, <2>4
  <2>. QED BY <2>1, <2>2, <2>3, <2>4
<1> HIDE DEF D
<1>5. Tiling(m, a, c, D)
  BY <1>1, <1>2, <1>3, <1>4, Zenon DEF Tiling
<1>. QED BY <1>5, Zenon DEF D

\* A tiling is cut at a header, or at its end.
Before(B, c) == {h \in B : h < c}
Behind(B, c) == {h \in B : h >= c}

LEMMA TilingCut ==
  ASSUME NEW m \in Mem, NEW a, NEW b, NEW B, Tiling(m, a, b, B),
         NEW c, c \in B \/ c = b
  PROVE  Tiling(m, a, c, Before(B, c)) /\ Tiling(m, c, b, Behind(B, c))
<1> DEFINE C == {h \in B : h < c}
           D == {h \in B : h >= c}
<1>1. /\ a \in Nat /\ b \in Nat /\ a <= b /\ b <= Limit
      /\ B \subseteq a .. (b - 1) /\ (a < b => a \in B)
  BY Zenon DEF Tiling
<1>2. c \in Nat /\ a <= c /\ c <= b
  <2>1. CASE c \in B
    <3>1. c \in a .. (b - 1)
      BY <1>1, <2>1
    <3>. QED BY <1>1, <3>1
  <2>2. CASE c = b
    BY <1>1, <2>2
  <2>. QED BY <2>1, <2>2
<1>3. /\ C \subseteq a .. (c - 1) /\ (a < c => a \in C) /\ c <= Limit
      /\ D \subseteq c .. (b - 1) /\ (c < b => c \in D)
      /\ B = C \union D
  <2>1. ASSUME NEW h \in B
        PROVE  h \in Nat /\ a <= h /\ h < b /\ (h < c \/ h >= c)
    <3>1. h \in a .. (b - 1)
      BY <1>1
    <3>. QED BY <1>1, <1>2, <3>1
  <2>2. ASSUME NEW h \in C
        PROVE  h \in a .. (c - 1)
    BY <1>1, <1>2, <2>1
  <2>3. ASSUME NEW h \in D
        PROVE  h \in c .. (b - 1)
    BY <1>1, <1>2, <2>1
  <2>4. a < c => a \in C
    BY <1>1, <1>2
  <2>5. c < b => c \in D
    BY <1>1, <1>2
  <2>6. B = C \union D
    BY <2>1, Zenon
  <2>7. c <= Limit
    BY <1>1, <1>2, LimitType
  <2>. QED BY <2>2, <2>3, <2>4, <2>5, <2>6, <2>7, Zenon
<1>4. ASSUME NEW h \in B
      PROVE  /\ Tile(m, b, B, h) /\ After(m, h) \in Nat /\ h \in Nat /\ h < After(m, h)
             /\ After(m, h) <= b
             /\ h < c => After(m, h) <= c
  <2>1. Tile(m, b, B, h)
    BY Zenon DEF Tiling
  <2>2. After(m, h) \in Nat /\ h \in Nat /\ h + 2 <= After(m, h) /\ After(m, h) <= b
    BY TilingFacts, Zenon
  <2>3. c \in B /\ h < c => After(m, h) <= c
    BY Zenon DEF Tiling
  <2>. QED BY <2>1, <2>2, <2>3
<1>5. ASSUME NEW h \in C
      PROVE  Tile(m, c, C, h)
  <2>1. h \in B /\ h < c
    OBVIOUS
  <2>2. After(m, h) <= c /\ (After(m, h) = c \/ After(m, h) \in C)
    <3>1. After(m, h) = b \/ After(m, h) \in B
      BY <1>4, <2>1, Zenon DEF Tile
    <3>. QED BY <1>2, <1>4, <2>1, <3>1
  <2>. QED BY <1>4, <2>1, <2>2, Zenon DEF Tile
<1>6. ASSUME NEW h \in D
      PROVE  Tile(m, b, D, h)
  <2>1. h \in B /\ h >= c
    OBVIOUS
  <2>2. After(m, h) = b \/ After(m, h) \in D
    <3>1. After(m, h) = b \/ After(m, h) \in B
      BY <1>4, <2>1, Zenon DEF Tile
    <3>. QED BY <1>2, <1>4, <2>1, <3>1
  <2>. QED BY <1>4, <2>1, <2>2, Zenon DEF Tile
<1>7. \A g, h \in B : g < h => After(m, g) <= h
  BY Zenon DEF Tiling
<1>8. C \subseteq B /\ D \subseteq B
  OBVIOUS
<1> HIDE DEF C, D
<1>9. Tiling(m, a, c, C)
  BY <1>1, <1>2, <1>3, <1>5, <1>7, <1>8, Zenon DEF Tiling
<1>10. Tiling(m, c, b, D)
  BY <1>1, <1>2, <1>3, <1>6, <1>7, <1>8, Zenon DEF Tiling
<1>. QED BY <1>9, <1>10, Zenon DEF C, D, Before, Behind

\* A tiling does not depend on words outside it.
LEMMA TilingFrame ==
  ASSUME Facts,
         NEW m \in Mem, NEW q \in Mem, NEW a, NEW b, NEW B, Tiling(m, a, b, B),
         \A w \in Words : a <= w /\ w < b => q[w] = m[w]
  PROVE  Tiling(q, a, b, B)
<1>1. ASSUME NEW h \in B
      PROVE  Tile(q, b, B, h) /\ After(q, h) = After(m, h)
  <2>1. /\ a \in Nat /\ b \in Nat /\ h \in Nat /\ h \in Words /\ a <= h /\ h < b
        /\ After(m, h) \in Nat /\ h + 2 <= After(m, h) /\ After(m, h) <= b
        /\ After(m, h) - 1 \in Words
    BY TilingFacts, ZenonT(60)
  <2>2. q[h] = m[h]
    BY <2>1
  <2>3. q[After(m, h) - 1] = m[After(m, h) - 1]
    <3> DEFINE w == After(m, h) - 1
    <3>1. w \in Words /\ a <= w /\ w < b
      BY <2>1
    <3>. HIDE DEF w
    <3>2. q[w] = m[w]
      BY <3>1
    <3>. QED BY <3>2 DEF w
  <2>4. After(q, h) = After(m, h)
    BY <2>2, Zenon DEF After
  <2>5. Tile(m, b, B, h)
    BY Zenon DEF Tiling
  <2>. QED BY <2>2, <2>3, <2>4, <2>5, Zenon DEF Tile
<1>. QED BY <1>1, Zenon DEF Tiling
\* What is true of a block if it is true of those behind it, is true of all.
LEMMA TilingInduction ==
  ASSUME Facts, NEW m \in Mem, NEW a, NEW b, NEW B, Tiling(m, a, b, B), NEW T,
         \A h \in B : (\A g \in B : g > h => g \in T) => h \in T
  PROVE  B \subseteq T
<1> DEFINE Bad == {h \in B : h \notin T}
<1> SUFFICES ASSUME Bad # {}
             PROVE  FALSE
  BY Zenon
<1>1. a \in Nat /\ b \in Nat /\ B \subseteq a .. (b - 1)
  BY Zenon DEF Tiling
<1>2. Bad \subseteq 0 .. b
  <2>1. B \subseteq 0 .. b
    BY <1>1
  <2>. QED BY <2>1, Zenon
<1>3. PICK x \in Bad : \A y \in Bad : y <= x
  <2>. HIDE DEF Bad
  <2>. QED BY <1>1, <1>2, GreatestNat, Zenon
<1>4. ASSUME NEW g \in B, g > x
      PROVE  g \in T
  <2>1. g \in Nat /\ x \in Nat
    BY <1>1
  <2>2. ~(g <= x)
    BY <1>4, <2>1
  <2>. QED BY <1>3, <2>2, Zenon
<1>. QED BY <1>4, Zenon

\* There is a last block, and one before every block but the first.
LEMMA BlockBefore ==
  ASSUME Facts, NEW m \in Mem, NEW a, NEW b, NEW B, Tiling(m, a, b, B),
         NEW c, c \in B \/ c = b, c # a
  PROVE  \E g \in B : After(m, g) = c
<1> DEFINE C == {h \in B : h < c}
<1>1. /\ a \in Nat /\ b \in Nat /\ a <= b
      /\ B \subseteq a .. (b - 1) /\ (a < b => a \in B)
  BY Zenon DEF Tiling
<1>2. c \in Nat /\ a < c /\ c <= b
  <2>1. CASE c \in B
    <3>1. c \in a .. (b - 1)
      BY <1>1, <2>1
    <3>. QED BY <1>1, <3>1
  <2>2. CASE c = b
    BY <1>1, <2>2
  <2>. QED BY <2>1, <2>2
<1>3. C \subseteq 0 .. b /\ a \in C
  <2>1. B \subseteq 0 .. b
    BY <1>1
  <2>2. a \in C
    BY <1>1, <1>2
  <2>. QED BY <2>1, <2>2, Zenon
<1>4. PICK g \in C : \A y \in C : y <= g
  <2>1. C # {}
    BY <1>3, Zenon
  <2>. HIDE DEF C
  <2>. QED BY <1>1, <1>3, <2>1, GreatestNat, Zenon
<1>5. g \in B /\ g < c
  OBVIOUS
<1>6. /\ After(m, g) \in Nat /\ g + 2 <= After(m, g) /\ g \in Nat
      /\ After(m, g) = b \/ After(m, g) \in B
      /\ c \in B => After(m, g) <= c
      /\ After(m, g) <= b
  <2>1. Tile(m, b, B, g)
    BY <1>5, Zenon DEF Tiling
  <2>2. c \in B => After(m, g) <= c
    BY <1>5, Zenon DEF Tiling
  <2>3. After(m, g) \in Nat /\ g + 2 <= After(m, g) /\ g \in Nat
    BY <1>5, TilingFacts, Zenon
  <2>. QED BY <2>1, <2>2, <2>3, Zenon DEF Tile
<1>7. After(m, g) <= c
  BY <1>6
<1>8. ~(After(m, g) < c)
  <2> SUFFICES ASSUME After(m, g) < c
               PROVE  FALSE
    OBVIOUS
  <2>1. After(m, g) \in B
    BY <1>2, <1>6
  <2>2. After(m, g) \in C
    BY <2>1
  <2>3. After(m, g) <= g
    BY <1>4, <2>2, Zenon
  <2>. QED BY <1>6, <2>3
<1>. QED BY <1>2, <1>5, <1>6, <1>7, <1>8
-----------------------------------------------------------------------------
\* HEAP_BL_NEXT and HEAP_BL_HAS_NEXT, in terms of the end of a block.
LEMMA NextFacts ==
  ASSUME NEW m \in Mem, NEW h \in Words, NEW mark \in Nat
  PROVE  /\ HEAP_BL_NEXT(m, h) = After(m, h)
         /\ HEAP_BL_H2F(m, h) = After(m, h) - 1
         /\ HEAP_BL_HAS_NEXT(m, mark, h) <=> After(m, h) < mark
         /\ After(m, h) \in Nat /\ h + 2 <= After(m, h)
<1>1. m[h].sz \in Nat /\ h \in Nat
  BY MemFacts, LimitType
<1>2. HEAP_BL_NEXT(m, h) = After(m, h) /\ HEAP_BL_H2F(m, h) = After(m, h) - 1
  BY <1>1 DEF HEAP_BL_NEXT, HEAP_BL_H2F, After
<1>3. HEAP_BL_HAS_NEXT(m, mark, h) <=> After(m, h) < mark
  BY <1>2, Zenon DEF HEAP_BL_HAS_NEXT
<1>4. After(m, h) \in Nat /\ h + 2 <= After(m, h)
  BY <1>1 DEF After
<1>. QED BY <1>2, <1>3, <1>4

\* The search for a block that fits ends at one, or at the last block.
Stops(m, mark, n, h) == Fits(m, h, n) \/ ~HEAP_BL_HAS_NEXT(m, mark, h)

LEMMA ScanEffect ==
  ASSUME Facts,
         NEW m \in Mem, NEW mark, NEW B, Tiling(m, 0, mark, B), NEW from \in B, NEW n
  PROVE  /\ Scan(m, mark, from, n) \in B /\ from <= Scan(m, mark, from, n)
         /\ \/ Fits(m, Scan(m, mark, from, n), n)
            \/ After(m, Scan(m, mark, from, n)) = mark
<1> DEFINE k == mark - 1
           D(f) == [h \in 0 .. (mark - 1) |->
                      IF Fits(m, h, n) \/ ~HEAP_BL_HAS_NEXT(m, mark, h) THEN h
                      ELSE f[HEAP_BL_NEXT(m, h)]]
           scan == CHOOSE f : f = D(f)
           stop == {h \in 0 .. k : Stops(m, mark, n, h)}
           base == [h \in 0 .. k |-> h]
           nxt == [h \in 0 .. k |-> HEAP_BL_NEXT(m, h)]
           step == [z \in (0 .. k) \X (0 .. k) |-> z[2]]
<1>1. mark \in Nat /\ mark <= Limit /\ B \subseteq 0 .. k /\ k \in Nat /\ 0 .. k \subseteq Words
  <2>1. mark \in Nat /\ mark <= Limit /\ from \in Nat /\ from < mark
    BY TilingFacts, Zenon
  <2>2. B \subseteq 0 .. (mark - 1)
    BY Zenon DEF Tiling
  <2>. QED BY <2>1, <2>2, LimitType
<1>2. ASSUME NEW h \in 0 .. k
      PROVE  /\ HEAP_BL_NEXT(m, h) = After(m, h) /\ After(m, h) \in Nat /\ h + 2 <= After(m, h)
             /\ HEAP_BL_HAS_NEXT(m, mark, h) <=> After(m, h) < mark
  BY <1>1, NextFacts, Zenon
<1>3. \E f : f = D(f)
  <2>1. base \in [0 .. k -> 0 .. k] /\ step \in [(0 .. k) \X (0 .. k) -> 0 .. k]
    OBVIOUS
  <2>2. nxt \in [0 .. k -> Int]
    BY <1>2
  <2>3. \A h \in 0 .. k : h \notin stop => nxt[h] \in (h + 1) .. k
    <3> SUFFICES ASSUME NEW h \in 0 .. k, h \notin stop
                 PROVE  nxt[h] \in (h + 1) .. k
      OBVIOUS
    <3>1. HEAP_BL_HAS_NEXT(m, mark, h)
      BY Zenon DEF Stops
    <3>2. nxt[h] = After(m, h)
      BY <1>2
    <3>. HIDE DEF nxt
    <3>. QED BY <1>1, <1>2, <3>1, <3>2
  <2>4. \A h \in 0 .. k : nxt[h] = HEAP_BL_NEXT(m, h) /\ base[h] = h
    OBVIOUS
  <2>5. \A h \in 0 .. k, v \in 0 .. k : step[<<h, v>>] = v
    OBVIOUS
  <2>6. \A h \in 0 .. k : h \in stop <=> Fits(m, h, n) \/ ~HEAP_BL_HAS_NEXT(m, mark, h)
    BY Zenon DEF Stops
  <2> HIDE DEF base, step, nxt, stop
  <2>7. PICK f : Descends(f, k, 0 .. k, stop, base, nxt, step)
    BY <1>1, <2>1, <2>2, <2>3, DownRecursion, Zenon
  <2>8. f \in [0 .. k -> 0 .. k]
    BY <2>7, Zenon DEF Descends
  <2>9. ASSUME NEW h \in 0 .. k
        PROVE  f[h] = IF Fits(m, h, n) \/ ~HEAP_BL_HAS_NEXT(m, mark, h) THEN h
                      ELSE f[HEAP_BL_NEXT(m, h)]
    <3>1. f[h] = IF h \in stop THEN base[h] ELSE step[<<h, f[nxt[h]]>>]
      BY <2>7, Zenon DEF Descends
    <3>2. CASE h \in stop
      BY <2>4, <2>6, <3>1, <3>2, ZenonT(60)
    <3>3. CASE h \notin stop
      <4>1. nxt[h] \in 0 .. k
        BY <2>3, <3>3
      <4>2. f[nxt[h]] \in 0 .. k
        BY <2>8, <4>1
      <4>3. f[h] = f[nxt[h]]
        BY <2>5, <3>1, <3>3, <4>2, SMTT(20)
      <4>4. nxt[h] = HEAP_BL_NEXT(m, h)
        BY <2>4, Zenon
      <4>. QED BY <2>6, <3>3, <4>3, <4>4, ZenonT(60)
    <3>. QED BY <3>2, <3>3
  <2>10. f = D(f)
    <3>1. f = [h \in 0 .. k |-> f[h]]
      BY <2>8
    <3>2. f = [h \in 0 .. k |-> IF Fits(m, h, n) \/ ~HEAP_BL_HAS_NEXT(m, mark, h) THEN h
                                ELSE f[HEAP_BL_NEXT(m, h)]]
      BY <2>9, <3>1, Zenon
    <3>. QED BY <3>2, Zenon DEF k
  <2>. QED BY <2>10, Zenon
<1>4. scan = D(scan)
  BY <1>3, Zenon
<1>5. Scan(m, mark, from, n) = scan[from]
  BY Zenon DEF Scan
<1> HIDE DEF scan
<1>6. \A h \in 0 .. k : scan[h] = IF Fits(m, h, n) \/ ~HEAP_BL_HAS_NEXT(m, mark, h) THEN h
                                   ELSE scan[HEAP_BL_NEXT(m, h)]
  BY <1>4, Zenon
<1> HIDE DEF k
<1> DEFINE Right(h) == /\ scan[h] \in B /\ h <= scan[h]
                       /\ Fits(m, scan[h], n) \/ After(m, scan[h]) = mark
           T == {h \in B : Right(h)}
<1>7. ASSUME NEW h \in B, \A g \in B : g > h => Right(g)
      PROVE  Right(h)
  <2>1. h \in 0 .. k /\ h \in Nat /\ Tile(m, mark, B, h)
    <3>1. Tile(m, mark, B, h)
      BY Zenon DEF Tiling
    <3>. QED BY <1>1, <3>1
  <2>2. CASE Fits(m, h, n)
    <3>1. scan[h] = h
      BY <1>6, <2>1, <2>2, Zenon
    <3>. QED BY <2>1, <2>2, <3>1
  <2>3. CASE ~HEAP_BL_HAS_NEXT(m, mark, h)
    <3>1. scan[h] = h
      BY <1>6, <2>1, <2>3, Zenon
    <3>2. After(m, h) = mark
      BY <1>1, <1>2, <2>1, <2>3, SMTT(20) DEF Tile
    <3>. QED BY <2>1, <3>1, <3>2
  <2>4. CASE ~Fits(m, h, n) /\ HEAP_BL_HAS_NEXT(m, mark, h)
    <3> DEFINE g == After(m, h)
    <3>1. scan[h] = scan[g]
      BY <1>2, <1>6, <2>1, <2>4, ZenonT(60)
    <3>2. g < mark /\ g \in Nat /\ h < g
      BY <1>2, <2>1, <2>4, SMTT(20)
    <3>3. g \in B
      BY <1>1, <2>1, <3>2 DEF Tile
    <3> HIDE DEF g
    <3>4. Right(g)
      BY <1>7, <2>1, <3>2, <3>3, SMTT(20)
    <3>5. scan[g] \in Nat
      <4>1. scan[g] \in 0 .. k
        BY <1>1, <3>4, Zenon
      <4>. QED BY <4>1
    <3>. QED BY <2>1, <3>1, <3>2, <3>4, <3>5, SMTT(20)
  <2>. QED BY <2>2, <2>3, <2>4
<1>8. B \subseteq T
  <2>1. ASSUME NEW h \in B, \A g \in B : g > h => g \in T
        PROVE  h \in T
    BY <1>7, <2>1, Zenon
  <2>. HIDE DEF T
  <2>. QED BY <2>1, TilingInduction, Zenon
<1>9. Right(from)
  BY <1>8, Zenon
<1>. QED BY <1>5, <1>9, Zenon

\* The walk over the headers passes exactly the blocks that tile the heap.
LEMMA HeadersEffect ==
  ASSUME Facts, NEW m \in Mem, NEW mark, NEW B, Tiling(m, 0, mark, B), mark # 0
  PROVE  HeadersOf(m, mark) = B
<1> DEFINE k == mark - 1
           D(f) == [h \in 0 .. (mark - 1) |->
                      {h} \cup IF HEAP_BL_HAS_NEXT(m, mark, h) THEN f[HEAP_BL_NEXT(m, h)] ELSE {}]
           walk == CHOOSE f : f = D(f)
           S == SUBSET (0 .. k)
           stop == {h \in 0 .. k : ~HEAP_BL_HAS_NEXT(m, mark, h)}
           base == [h \in 0 .. k |-> {h}]
           nxt == [h \in 0 .. k |-> HEAP_BL_NEXT(m, h)]
           step == [z \in (0 .. k) \X S |-> {z[1]} \cup z[2]]
<1>1. mark \in Nat /\ mark <= Limit /\ B \subseteq 0 .. k /\ k \in Nat /\ 0 .. k \subseteq Words
  <2>1. mark \in Nat /\ mark <= Limit /\ B \subseteq 0 .. (mark - 1)
    BY Zenon DEF Tiling
  <2>. QED BY <2>1, LimitType
<1>2. ASSUME NEW h \in 0 .. k
      PROVE  /\ HEAP_BL_NEXT(m, h) = After(m, h) /\ After(m, h) \in Nat /\ h + 2 <= After(m, h)
             /\ HEAP_BL_HAS_NEXT(m, mark, h) <=> After(m, h) < mark
  BY <1>1, NextFacts, Zenon
<1>3. \E f : f = D(f)
  <2>1. base \in [0 .. k -> S] /\ step \in [(0 .. k) \X S -> S]
    OBVIOUS
  <2>2. nxt \in [0 .. k -> Int]
    BY <1>2
  <2>3. \A h \in 0 .. k : h \notin stop => nxt[h] \in (h + 1) .. k
    <3> SUFFICES ASSUME NEW h \in 0 .. k, h \notin stop
                 PROVE  nxt[h] \in (h + 1) .. k
      OBVIOUS
    <3>1. HEAP_BL_HAS_NEXT(m, mark, h)
      BY Zenon
    <3>2. nxt[h] = After(m, h)
      BY <1>2
    <3>. HIDE DEF nxt
    <3>. QED BY <1>1, <1>2, <3>1, <3>2
  <2>4. \A h \in 0 .. k : nxt[h] = HEAP_BL_NEXT(m, h) /\ base[h] = {h}
    OBVIOUS
  <2>5. \A h \in 0 .. k, v \in S : step[<<h, v>>] = {h} \cup v
    BY Zenon
  <2>6. \A h \in 0 .. k : h \in stop <=> ~HEAP_BL_HAS_NEXT(m, mark, h)
    BY Zenon
  <2> HIDE DEF base, step, nxt, stop, S
  <2>7. PICK f : Descends(f, k, S, stop, base, nxt, step)
    BY <1>1, <2>1, <2>2, <2>3, DownRecursion, Zenon
  <2>8. f \in [0 .. k -> S]
    BY <2>7, Zenon DEF Descends
  <2>9. ASSUME NEW h \in 0 .. k
        PROVE  f[h] = {h} \cup IF HEAP_BL_HAS_NEXT(m, mark, h) THEN f[HEAP_BL_NEXT(m, h)] ELSE {}
    <3>1. f[h] = IF h \in stop THEN base[h] ELSE step[<<h, f[nxt[h]]>>]
      BY <2>7, Zenon DEF Descends
    <3>2. CASE h \in stop
      BY <2>4, <2>6, <3>1, <3>2, Zenon
    <3>3. CASE h \notin stop
      <4>1. nxt[h] \in 0 .. k
        BY <2>3, <3>3
      <4>2. f[nxt[h]] \in S
        BY <2>8, <4>1, SMTT(20)
      <4>3. f[h] = {h} \cup f[nxt[h]]
        BY <2>5, <3>1, <3>3, <4>2, SMTT(20)
      <4>4. nxt[h] = HEAP_BL_NEXT(m, h)
        BY <2>4, Zenon
      <4>. QED BY <2>6, <3>3, <4>3, <4>4, ZenonT(60)
    <3>. QED BY <3>2, <3>3
  <2>10. f = D(f)
    <3>1. f = [h \in 0 .. k |-> f[h]]
      BY <2>8
    <3>2. f = [h \in 0 .. k |->
                 {h} \cup IF HEAP_BL_HAS_NEXT(m, mark, h) THEN f[HEAP_BL_NEXT(m, h)] ELSE {}]
      BY <2>9, <3>1, Zenon
    <3>. QED BY <3>2, Zenon DEF k
  <2>. QED BY <2>10, Zenon
<1>4. walk = D(walk)
  BY <1>3, Zenon
<1>5. HeadersOf(m, mark) = walk[0]
  BY Zenon DEF HeadersOf
<1> HIDE DEF walk
<1>6. \A h \in 0 .. k :
        walk[h] = {h} \cup IF HEAP_BL_HAS_NEXT(m, mark, h) THEN walk[HEAP_BL_NEXT(m, h)] ELSE {}
  BY <1>4, Zenon
<1> HIDE DEF k
<1> DEFINE T == {h \in B : walk[h] = Behind(B, h)}
<1>7. ASSUME NEW h \in B, \A g \in B : g > h => walk[g] = Behind(B, g)
      PROVE  walk[h] = Behind(B, h)
  <2>1. h \in 0 .. k /\ h \in Nat /\ Tile(m, mark, B, h)
    <3>1. Tile(m, mark, B, h)
      BY Zenon DEF Tiling
    <3>. QED BY <1>1, <3>1
  <2>2. ASSUME NEW g \in B, g >= h
        PROVE  g = h \/ (g >= After(m, h) /\ g < mark)
    <3>1. g \in Nat /\ g < mark
      BY TilingFacts, Zenon
    <3>2. h < g => After(m, h) <= g
      BY Zenon DEF Tiling
    <3>. QED BY <1>2, <2>1, <2>2, <3>1, <3>2, SMTT(20)
  <2>3. CASE ~HEAP_BL_HAS_NEXT(m, mark, h)
    <3>1. walk[h] = {h}
      BY <1>6, <2>1, <2>3, SMTT(20)
    <3>2. ASSUME NEW g \in B, g >= h
          PROVE  g = h
      <4>1. g \in Nat
        BY TilingFacts, Zenon
      <4>. QED BY <1>1, <1>2, <2>1, <2>2, <2>3, <3>2, <4>1, SMTT(20)
    <3>3. h >= h
      BY <2>1
    <3>4. Behind(B, h) = {h}
      BY <3>2, <3>3, Zenon DEF Behind
    <3>. QED BY <3>1, <3>4, ZenonT(60)
  <2>4. CASE HEAP_BL_HAS_NEXT(m, mark, h)
    <3> DEFINE g == After(m, h)
    <3>1. walk[h] = {h} \cup walk[g]
      BY <1>2, <1>6, <2>1, <2>4, ZenonT(60)
    <3>2. g < mark /\ g \in Nat /\ h < g
      BY <1>2, <2>1, <2>4, SMTT(20)
    <3>3. g \in B
      BY <1>1, <2>1, <3>2, SMTT(20) DEF Tile
    <3>4. walk[g] = Behind(B, g)
      BY <1>7, <2>1, <3>2, <3>3, SMTT(20)
    <3>5. ASSUME NEW x \in B
          PROVE  x >= h <=> (x = h \/ x >= g)
      <4>1. x \in Nat
        BY TilingFacts, Zenon
      <4>. QED BY <2>1, <2>2, <3>2, <4>1, SMTT(20)
    <3> HIDE DEF g
    <3>6. Behind(B, h) = {h} \cup Behind(B, g)
      BY <3>5, Zenon DEF Behind
    <3>. QED BY <3>1, <3>4, <3>6, Zenon
  <2>. QED BY <2>3, <2>4, SMTT(20)
<1>8. B \subseteq T
  <2>1. ASSUME NEW h \in B, \A g \in B : g > h => g \in T
        PROVE  h \in T
    BY <1>7, <2>1, Zenon
  <2>. HIDE DEF T
  <2>. QED BY <2>1, TilingInduction, Zenon
<1>9. 0 \in B
  <2>1. 0 < mark => 0 \in B
    BY Zenon DEF Tiling
  <2>. QED BY <1>1, <2>1
<1>10. walk[0] = Behind(B, 0)
  BY <1>8, <1>9, Zenon
<1>11. ASSUME NEW h \in B
       PROVE  h >= 0
  BY <1>1
<1>. QED BY <1>5, <1>10, <1>11, Zenon DEF Behind
-----------------------------------------------------------------------------
(***************************************************************************)
(* Every operation replaces the blocks between two words, lo and hi, by    *)
(* others that tile the same words.                                        *)
(***************************************************************************)
Swap(m, q, mark, B, lo, hi, M) ==
  /\ Tiling(m, 0, mark, B) /\ Tiling(q, lo, hi, M)
  /\ lo \in B /\ (hi \in B \/ hi = mark)
  /\ Outside(m, q, lo, hi)

Kept(B, lo, hi) == {h \in B : h < lo \/ h >= hi}
Same(m, q, B) == \A h \in B : q[h] = m[h] /\ After(q, h) = After(m, h)

LEMMA Replace ==
  ASSUME Facts, NEW m \in Mem, NEW q \in Mem, NEW mark, NEW B, NEW lo, NEW hi, NEW M,
         Swap(m, q, mark, B, lo, hi, M)
  PROVE  Tiling(q, 0, mark, Kept(B, lo, hi) \union M) /\ Same(m, q, Kept(B, lo, hi))
<1> DEFINE L == Before(B, lo)
           R == Behind(B, hi)
<1>0. /\ Tiling(m, 0, mark, B) /\ Tiling(q, lo, hi, M)
      /\ lo \in B /\ (hi \in B \/ hi = mark) /\ Outside(m, q, lo, hi)
  BY Zenon DEF Swap
<1>1. Tiling(m, 0, lo, L) /\ Tiling(m, hi, mark, R)
  BY <1>0, TilingCut
<1>2. Kept(B, lo, hi) = L \union R
  BY Zenon DEF Kept, Before, Behind
<1> HIDE DEF L, R
<1>3. lo \in Nat /\ hi \in Nat /\ lo <= hi /\ mark \in Nat
  BY <1>0, <1>1, Zenon DEF Tiling
<1>4. \A w \in Words : w \in Nat
  BY LimitType
<1>5. Tiling(q, 0, lo, L)
  <2>1. \A w \in Words : 0 <= w /\ w < lo => q[w] = m[w]
    BY <1>0, Zenon DEF Outside
  <2>. QED BY <1>1, <2>1, TilingFrame, Zenon
<1>6. Tiling(q, hi, mark, R)
  <2>1. ASSUME NEW w \in Words, hi <= w
        PROVE  q[w] = m[w]
    <3>1. w >= hi
      BY <1>3, <1>4, <2>1
    <3>. QED BY <1>0, <3>1, Zenon DEF Outside
  <2>. QED BY <1>1, <2>1, TilingFrame, Zenon
<1>7. Tiling(q, 0, hi, L \union M)
  BY <1>0, <1>5, TilingJoin, Zenon
<1>8. Tiling(q, 0, mark, (L \union M) \union R)
  BY <1>6, <1>7, TilingJoin, Zenon
<1>9. (L \union M) \union R = Kept(B, lo, hi) \union M
  BY <1>2, Zenon
<1>10. ASSUME NEW h \in Kept(B, lo, hi)
       PROVE  q[h] = m[h] /\ After(q, h) = After(m, h)
  <2>1. h \in B /\ (h < lo \/ h >= hi)
    BY Zenon DEF Kept
  <2>2. h \in Words
    BY <1>0, <2>1, TilingFacts, ZenonT(60)
  <2>3. q[h] = m[h]
    BY <1>0, <2>1, <2>2, Zenon DEF Outside
  <2>. QED BY <2>3, Zenon DEF After
<1>. QED BY <1>8, <1>9, <1>10, Zenon DEF Same

\* No two neighbouring blocks are free.
Apart(m, g, h) == m[g].present = 1 \/ m[h].present = 1
Coal(m, B) == \A g \in B : After(m, g) \in B => Apart(m, g, After(m, g))

LEMMA CoalReplace ==
  ASSUME Facts, NEW m \in Mem, NEW q \in Mem, NEW mark, NEW B, NEW lo, NEW hi, NEW M,
         Swap(m, q, mark, B, lo, hi, M), Coal(m, B), Coal(q, M),
         \A g \in B : After(m, g) = lo => m[g].present = 1 \/ q[lo].present = 1,
         hi \in B => \A g \in M : After(q, g) = hi => q[g].present = 1 \/ m[hi].present = 1
  PROVE  Coal(q, Kept(B, lo, hi) \union M)
<1> DEFINE N == Kept(B, lo, hi) \union M
<1>0. /\ Tiling(m, 0, mark, B) /\ Tiling(q, lo, hi, M)
      /\ lo \in B /\ (hi \in B \/ hi = mark) /\ Outside(m, q, lo, hi)
  BY Zenon DEF Swap
<1>1. \A h \in Kept(B, lo, hi) : q[h] = m[h] /\ After(q, h) = After(m, h)
  <2>1. Same(m, q, Kept(B, lo, hi))
    BY Replace, Zenon
  <2>. QED BY <2>1, Zenon DEF Same
<1>2. \A h \in Kept(B, lo, hi) : h \in B /\ (h < lo \/ h >= hi)
  BY Zenon DEF Kept
<1>3. lo \in Nat /\ hi \in Nat /\ lo <= hi /\ mark \in Nat /\ hi <= mark
  <2>1. lo \in Nat /\ hi \in Nat /\ lo <= hi /\ mark \in Nat
    BY <1>0, Zenon DEF Tiling
  <2>2. hi \in B => hi < mark
    BY <1>0, TilingFacts, Zenon
  <2>. QED BY <1>0, <2>1, <2>2
<1>4. ASSUME NEW g \in N, After(q, g) \in N
      PROVE  Apart(q, g, After(q, g))
  <2> DEFINE h == After(q, g)
  <2>1. CASE g \in Kept(B, lo, hi)
    <3>1. g \in B /\ q[g] = m[g] /\ h = After(m, g) /\ (g < lo \/ g >= hi)
      BY <1>1, <1>2, <2>1, Zenon
    <3>2. g \in Nat /\ h \in Nat /\ g + 2 <= h
      BY <1>0, <3>1, TilingFacts, ZenonT(60)
    <3>3. CASE h \in Kept(B, lo, hi)
      <4>1. h \in B /\ q[h] = m[h]
        BY <1>1, <1>2, <3>3, ZenonT(60)
      <4>2. Apart(m, g, h)
        BY <3>1, <4>1, Zenon DEF Coal
      <4>. QED BY <3>1, <4>1, <4>2, Zenon DEF Apart
    <3>4. CASE h \in M
      <4>1. h \in Nat /\ lo <= h /\ h < hi
        BY <1>0, <3>4, TilingFacts, ZenonT(60)
      <4>2. g < lo
        BY <1>3, <3>1, <3>2, <4>1
      <4>3. After(m, g) <= lo
        BY <1>0, <3>1, <4>2, ZenonT(60) DEF Tiling
      <4>4. h = lo
        BY <1>3, <3>1, <3>2, <4>1, <4>3, SMTT(20)
      <4>. QED BY <3>1, <4>4, Zenon DEF Apart
    <3>. QED BY <1>4, <3>3, <3>4, Zenon
  <2>2. CASE g \in M
    <3>1. h \in Nat /\ h <= hi
      BY <1>0, <2>2, TilingFacts, Zenon
    <3>2. CASE h \in M
      BY <2>2, <3>2, Zenon DEF Coal
    <3>3. CASE h \in Kept(B, lo, hi)
      <4>1. h \in B /\ q[h] = m[h] /\ (h < lo \/ h >= hi)
        BY <1>1, <1>2, <3>3, Zenon
      <4>2. g \in Nat /\ lo <= g /\ g + 2 <= h
        BY <1>0, <2>2, TilingFacts, ZenonT(60)
      <4>3. h = hi
        BY <1>3, <3>1, <4>1, <4>2, SMTT(20)
      <4>. QED BY <2>2, <4>1, <4>3, Zenon DEF Apart
    <3>. QED BY <1>4, <3>2, <3>3, Zenon
  <2>. QED BY <2>1, <2>2, Zenon
<1> HIDE DEF N
<1>5. Coal(q, N)
  BY <1>4, Zenon DEF Coal
<1>. QED BY <1>5, Zenon DEF N
-----------------------------------------------------------------------------
(***************************************************************************)
(* The number of blocks, and of words in them.                             *)
(***************************************************************************)
LEMMA UsedFinite ==
  ASSUME Facts,
         NEW m \in Mem, NEW mark, NEW B, Tiling(m, 0, mark, B), NEW S, S \subseteq B
  PROVE  /\ IsFiniteSet(S) /\ Cardinality(S) \in Nat
         /\ IsFiniteSet(UsedWords(m, S)) /\ Cardinality(UsedWords(m, S)) \in Nat
<1>1. mark \in Nat /\ S \subseteq 0 .. mark
  <2>1. mark \in Nat /\ B \subseteq 0 .. (mark - 1)
    BY Zenon DEF Tiling
  <2>. QED BY <2>1
<1>2. UsedWords(m, S) \subseteq 0 .. mark
  <2> SUFFICES ASSUME NEW h \in S
               PROVE  (h + 1) .. (h + m[h].sz) \subseteq 0 .. mark
    BY Zenon DEF UsedWords
  <2>1. h \in Nat /\ m[h].sz \in Nat /\ After(m, h) <= mark
    BY TilingFacts, Zenon
  <2>. QED BY <1>1, <2>1, SMTT(20) DEF After
<1>3. IsFiniteSet(0 .. mark)
  BY <1>1, FiniteInterval, SMTT(20)
<1>. QED BY <1>1, <1>2, <1>3, FiniteSubset, FiniteCardinalityType, Zenon

LEMMA UsedAdd ==
  ASSUME Facts, NEW m \in Mem, NEW mark, NEW B, Tiling(m, 0, mark, B),
         NEW S, S \subseteq B, NEW h \in B, h \notin S
  PROVE  /\ Cardinality(S \union {h}) = Cardinality(S) + 1
         /\ Cardinality(UsedWords(m, S \union {h})) = Cardinality(UsedWords(m, S)) + m[h].sz
<1> DEFINE U == UsedWords(m, S)
           V == (h + 1) .. (h + m[h].sz)
<1>1. IsFiniteSet(S) /\ IsFiniteSet(U) /\ Cardinality(S) \in Nat /\ Cardinality(U) \in Nat
  BY UsedFinite, Zenon
<1>2. UsedWords(m, S \union {h}) = U \union V
  BY Zenon DEF UsedWords
<1>3. h \in Nat /\ m[h].sz \in Nat
  BY TilingFacts, Zenon
<1>4. IsFiniteSet(V) /\ Cardinality(V) = m[h].sz
  <2> DEFINE a == h + 1
             b == h + m[h].sz
  <2>1. a \in Int /\ b \in Int
    BY <1>3
  <2>2. b - a + 1 = m[h].sz /\ (a > b => m[h].sz = 0)
    BY <1>3
  <2>3. V = a .. b
    OBVIOUS
  <2> HIDE DEF a, b, V
  <2>4. IsFiniteSet(a .. b) /\ Cardinality(a .. b) = IF a > b THEN 0 ELSE b - a + 1
    BY <2>1, FiniteInterval, ZenonT(60)
  <2>. QED BY <2>2, <2>3, <2>4, SMTT(20)
<1>5. U \cap V = {}
  <2> SUFFICES ASSUME NEW g \in S, NEW w \in (g + 1) .. (g + m[g].sz), w \in V
               PROVE  FALSE
    BY Zenon DEF UsedWords
  <2>1. g \in B /\ g # h
    BY Zenon
  <2>2. g \in Nat /\ m[g].sz \in Nat
    BY <2>1, TilingFacts, Zenon
  <2>3. (g < h => After(m, g) <= h) /\ (h < g => After(m, h) <= g)
    BY <2>1, Zenon DEF Tiling
  <2>. QED BY <1>3, <2>1, <2>2, <2>3, SMTT(20) DEF After
<1> HIDE DEF U, V
<1>6. Cardinality(U \union V) = Cardinality(U) + Cardinality(V) - Cardinality(U \cap V)
  BY <1>1, <1>4, FiniteUnion, Zenon
<1>7. Cardinality(U \cap V) = 0
  BY <1>5, FiniteEmptySet, Zenon
<1>8. Cardinality(U \union V) = Cardinality(U) + m[h].sz
  BY <1>1, <1>3, <1>4, <1>6, <1>7, SMTT(20)
<1>9. Cardinality(S \union {h}) = Cardinality(S) + 1
  BY <1>1, FiniteAddElement, Zenon
<1>. QED BY <1>2, <1>8, <1>9, Zenon DEF U

LEMMA UsedSame ==
  ASSUME NEW m, NEW q, NEW S, \A h \in S : q[h].sz = m[h].sz
  PROVE  UsedWords(q, S) = UsedWords(m, S)
<1>1. {(h + 1) .. (h + q[h].sz) : h \in S} = {(h + 1) .. (h + m[h].sz) : h \in S}
  BY Zenon
<1>. QED BY <1>1, Zenon DEF UsedWords

LEMMA UsedLess ==
  ASSUME Facts, NEW m \in Mem, NEW mark, NEW B, Tiling(m, 0, mark, B),
         NEW S, S \subseteq B, NEW T, T \subseteq S
  PROVE  /\ Cardinality(T) <= Cardinality(S)
         /\ Cardinality(UsedWords(m, T)) <= Cardinality(UsedWords(m, S))
<1>1. IsFiniteSet(S) /\ IsFiniteSet(UsedWords(m, S))
  BY UsedFinite, Zenon
<1>2. UsedWords(m, T) \subseteq UsedWords(m, S)
  BY Zenon DEF UsedWords
<1>. QED BY <1>1, <1>2, FiniteSubset
-----------------------------------------------------------------------------
(***************************************************************************)
(* What the operations write: one block, or two that follow each other.    *)
(***************************************************************************)
LEMMA OneBlock ==
  ASSUME NEW m \in Mem, NEW h \in Nat, NEW end \in Nat, h + 2 <= end, end <= Limit,
         NEW p \in {0, 1}, NEW s, s = end - h - 2
  PROVE  /\ HEAP_BL_SET(m, h, s, p) \in Mem
         /\ Block(HEAP_BL_SET(m, h, s, p), h, end, p)
         /\ Outside(m, HEAP_BL_SET(m, h, s, p), h, end)
<1> DEFINE q == HEAP_BL_SET(m, h, s, p)
<1>1. s \in Nat /\ h + 2 + s = end /\ h + 1 + s = end - 1
  OBVIOUS
<1>2. q \in Mem /\ Block(q, h, h + 2 + s, p)
  BY <1>1, SetEffect, SMTT(20)
<1>3. \A w \in Words : w # h /\ w # h + 1 + s => q[w] = m[w]
  BY <1>1, SetEffect, SMTT(20)
<1> HIDE DEF q
<1>4. ASSUME NEW w \in Words, w < h \/ w >= end
      PROVE  q[w] = m[w]
  <2>1. w \in Nat
    BY LimitType
  <2>2. w # h /\ w # h + 1 + s
    BY <1>1, <1>4, <2>1, SMTT(20)
  <2>. QED BY <1>3, <2>2, ZenonT(60)
<1>5. Outside(m, q, h, end)
  BY <1>4, Zenon DEF Outside
<1>. QED BY <1>1, <1>2, <1>5, SMTT(20) DEF q

\* A block is not touched by what happens outside it.
LEMMA BlockFrame ==
  ASSUME NEW m \in Mem, NEW q \in Mem, NEW h \in Nat, NEW end \in Nat, h + 2 <= end,
         end <= Limit, NEW p, Block(m, h, end, p), q[h] = m[h], q[end - 1] = m[end - 1]
  PROVE  Block(q, h, end, p)
BY Zenon DEF Block

LEMMA TwoBlocks ==
  ASSUME NEW m \in Mem, NEW h \in Nat, NEW mid \in Nat, NEW end \in Nat,
         h + 2 <= mid, mid + 2 <= end, end <= Limit, NEW p \in {0, 1}, NEW r \in {0, 1},
         NEW s, s = mid - h - 2, NEW t, t = end - mid - 2, NEW one, one = HEAP_BL_SET(m, h, s, p),
         NEW q, q = HEAP_BL_SET(one, mid, t, r)
  PROVE  /\ q \in Mem /\ Block(q, h, mid, p) /\ Block(q, mid, end, r)
         /\ Outside(m, q, h, end)
<1>1. one \in Mem /\ Block(one, h, mid, p) /\ Outside(m, one, h, mid)
  <2>1. mid <= Limit
    BY LimitType
  <2>. QED BY <2>1, OneBlock, Zenon
<1>2. q \in Mem /\ Block(q, mid, end, r) /\ Outside(one, q, mid, end)
  BY <1>1, OneBlock, ZenonT(60)
<1>3. Block(q, h, mid, p)
  <2>1. h \in Words /\ mid - 1 \in Words /\ h < mid /\ mid - 1 < mid /\ mid <= Limit
    BY LimitType
  <2>2. q[h] = one[h] /\ q[mid - 1] = one[mid - 1]
    BY <1>2, <2>1, ZenonT(60) DEF Outside
  <2>. QED BY <1>1, <1>2, <2>1, <2>2, BlockFrame, Zenon
<1>4. ASSUME NEW w \in Words, w < h \/ w >= end
      PROVE  q[w] = m[w]
  <2>1. w \in Nat
    BY LimitType
  <2>2. (w < h \/ w >= mid) /\ (w < mid \/ w >= end)
    BY <1>4, <2>1, SMTT(20)
  <2>. QED BY <1>1, <1>2, <2>2, ZenonT(60) DEF Outside
<1>. QED BY <1>2, <1>3, <1>4, ZenonT(60) DEF Outside

\* The holder overwrites the data of a block, and nothing else.
LEMMA ClearBlock ==
  ASSUME NEW m \in Mem, NEW h \in Nat, NEW mid \in Nat, h + 2 <= mid, mid <= Limit, NEW p,
         Block(m, h, mid, p)
  PROVE  /\ Clear(m, h) \in Mem /\ Block(Clear(m, h), h, mid, p)
         /\ Outside(m, Clear(m, h), h, mid)
<1> DEFINE q == Clear(m, h)
<1>1. h \in Words /\ mid - 1 \in Words
  BY LimitType
<1>2. m[h].sz = mid - h - 2
  BY Zenon DEF Block, IsTag
<1>3. q \in Mem /\ \A w \in Words : w \notin (h + 1) .. (h + m[h].sz) => q[w] = m[w]
  BY <1>1, ClearEffect, Zenon
<1> HIDE DEF q
<1>4. ASSUME NEW w \in Words, w <= h \/ w >= mid - 1
      PROVE  q[w] = m[w]
  <2>1. w \in Nat
    BY LimitType
  <2>2. w \notin (h + 1) .. (h + m[h].sz)
    BY <1>2, <1>4, <2>1, SMTT(20)
  <2>. QED BY <1>3, <2>2, ZenonT(60)
<1>5. q[h] = m[h] /\ q[mid - 1] = m[mid - 1]
  <2>1. h <= h /\ mid - 1 >= mid - 1
    OBVIOUS
  <2>. QED BY <1>1, <1>4, <2>1, ZenonT(60)
<1>6. Block(q, h, mid, p)
  BY <1>3, <1>5, BlockFrame, ZenonT(60)
<1>7. ASSUME NEW w \in Words, w < h \/ w >= mid
      PROVE  q[w] = m[w]
  <2>1. w \in Nat
    BY LimitType
  <2>2. w <= h \/ w >= mid - 1
    BY <1>7, <2>1, SMTT(20)
  <2>. QED BY <1>4, <2>2, ZenonT(60)
<1>8. Outside(m, q, h, mid)
  BY <1>7, Zenon DEF Outside
<1>. QED BY <1>3, <1>6, <1>8, SMTT(20) DEF q

\* Two blocks, the first of them allocated, tile their words.
LEMMA TwoTile ==
  ASSUME NEW q \in Mem, NEW h \in Nat, NEW mid \in Nat, NEW end \in Nat,
         h + 2 <= mid, mid + 2 <= end, end <= Limit, NEW r,
         Block(q, h, mid, 1), Block(q, mid, end, r)
  PROVE  /\ Tiling(q, h, end, {h, mid}) /\ Coal(q, {h, mid})
         /\ IsTag(q[h], mid - h - 2, 1, 0) /\ After(q, h) = mid
         /\ IsTag(q[mid], end - mid - 2, r, 0) /\ After(q, mid) = end
<1>1. mid <= Limit
  BY LimitType
<1>2. Tiling(q, h, mid, {h})
  BY <1>1, TilingOne, Zenon
<1>3. Tiling(q, mid, end, {mid})
  BY TilingOne, Zenon
<1>4. Tiling(q, h, end, {h} \union {mid})
  BY <1>2, <1>3, TilingJoin, ZenonT(60)
<1>5. {h} \union {mid} = {h, mid}
  BY Zenon
<1>6. IsTag(q[h], mid - h - 2, 1, 0) /\ IsTag(q[mid], end - mid - 2, r, 0)
  BY Zenon DEF Block
<1>7. After(q, h) = mid /\ After(q, mid) = end
  BY <1>6 DEF After, IsTag
<1>8. end \notin {h, mid}
  OBVIOUS
<1>9. Coal(q, {h, mid})
  BY <1>6, <1>7, <1>8, ZenonT(60) DEF Coal, Apart, IsTag
<1>. QED BY <1>4, <1>5, <1>6, <1>7, <1>9, SMTT(20)
-----------------------------------------------------------------------------
(***************************************************************************)
(* Split, on the words: the block h is allocated and a free block comes    *)
(* behind it.                                                              *)
(***************************************************************************)
SplitMem(m, h, n) ==
  LET one == HEAP_BL_SET(m, h, n, 1)
  IN  Clear(HEAP_BL_SET(one, HEAP_BL_NEXT(one, h), m[h].sz - HEAP_BL_DATASZ2SZ(n), 0), h)

Splits(m, q, mark, B, h, n) ==
  /\ q \in Mem
  /\ Tiling(q, 0, mark, B \union {h + 2 + n})
  /\ IsTag(q[h], n, 1, 0) /\ IsTag(q[h + 2 + n], m[h].sz - n - 2, 0, 0)
  /\ h + 2 + n \notin B
  /\ Same(m, q, B \ {h})
  /\ Coal(m, B) => Coal(q, B \union {h + 2 + n})

LEMMA KeptOne ==
  ASSUME NEW m \in Mem, NEW mark, NEW B, Tiling(m, 0, mark, B), NEW h \in B
  PROVE  Kept(B, h, After(m, h)) = B \ {h}
<1>1. ASSUME NEW g \in B
      PROVE  (g < h \/ g >= After(m, h)) <=> g # h
  <2>1. /\ g \in Nat /\ h \in Nat /\ After(m, h) \in Nat /\ h + 2 <= After(m, h)
    BY TilingFacts, Zenon
  <2>2. h < g => After(m, h) <= g
    BY Zenon DEF Tiling
  <2>. QED BY <2>1, <2>2
<1>. QED BY <1>1, Zenon DEF Kept

LEMMA SplitEffect ==
  ASSUME Facts, NEW m \in Mem, NEW mark, NEW B, Tiling(m, 0, mark, B), NEW h \in B,
         NEW n \in Nat, Fits(m, h, n)
  PROVE  Splits(m, SplitMem(m, h, n), mark, B, h, n)
<1> DEFINE mid == h + 2 + n
           end == After(m, h)
           one == HEAP_BL_SET(m, h, n, 1)
           two == HEAP_BL_SET(one, mid, end - mid - 2, 0)
           q == Clear(two, h)
<1>1. /\ h \in Nat /\ h \in Words /\ mark \in Nat /\ mark <= Limit
      /\ m[h].sz \in Nat /\ end \in Nat /\ end <= mark
  BY TilingFacts, ZenonT(60)
<1>2. m[h].present = 0 /\ m[h].sz >= n + 2
  BY SMTT(20) DEF Fits, HEAP_BL_DATASZ2SZ
<1>3. /\ mid \in Nat /\ h + 2 <= mid /\ mid + 2 <= end /\ end <= Limit /\ mid <= Limit
      /\ n = mid - h - 2 /\ m[h].sz - (n + 2) = end - mid - 2
      /\ m[h].sz - n - 2 = end - mid - 2
  <2>1. end = h + 2 + m[h].sz
    BY DEF After
  <2>2. m[h].sz \in Int /\ end \in Int /\ h \in Int /\ n \in Int
    BY <1>1, SMTT(20)
  <2>. HIDE DEF end
  <2>3. mid \in Nat /\ h + 2 <= mid /\ mid + 2 <= end
    BY <1>1, <1>2, <2>1, SMTT(20)
  <2>4. end <= Limit
    BY <1>1, LimitType, SMTT(20)
  <2>5. n = mid - h - 2
    BY <1>1, SMTT(20)
  <2>6. m[h].sz - (n + 2) = end - mid - 2 /\ m[h].sz - n - 2 = end - mid - 2
    BY <2>1, <2>2, SMTT(20)
  <2>7. mid <= Limit
    <3>. HIDE DEF mid
    <3>. QED BY <2>2, <2>3, <2>4, LimitType, SMTT(20)
  <2>. QED BY <2>3, <2>4, <2>5, <2>6, <2>7, SMTT(20)
<1> HIDE DEF mid, end
<1>4. /\ two \in Mem /\ Block(two, h, mid, 1) /\ Block(two, mid, end, 0)
      /\ Outside(m, two, h, end)
  <2> DEFINE sz == end - mid - 2
  <2>1. 0 \in {0, 1} /\ 1 \in {0, 1} /\ sz = end - mid - 2 /\ end \in Nat
    BY <1>1
  <2>2. two = HEAP_BL_SET(one, mid, sz, 0) /\ one = HEAP_BL_SET(m, h, n, 1)
    OBVIOUS
  <2>. HIDE DEF sz, one, two
  <2>. QED BY <1>1, <1>3, <2>1, <2>2, TwoBlocks, ZenonT(60)
<1>5. SplitMem(m, h, n) = q
  <2>1. one[h].sz = n
    <3>1. one \in Mem /\ Block(one, h, mid, 1)
      BY <1>1, <1>3, OneBlock, SMTT(20)
    <3>. QED BY <1>3, <3>1, ZenonT(60) DEF Block, IsTag
  <2>2. HEAP_BL_NEXT(one, h) = mid
    <3>. HIDE DEF one
    <3>. QED BY <1>1, <2>1, SMTT(20) DEF HEAP_BL_NEXT, HEAP_BL_H2F, mid
  <2>3. m[h].sz - HEAP_BL_DATASZ2SZ(n) = end - mid - 2
    BY <1>3, Zenon DEF HEAP_BL_DATASZ2SZ
  <2>. QED BY <2>2, <2>3, ZenonT(60) DEF SplitMem
<1> HIDE DEF one, two
<1>6. q \in Mem /\ Block(q, h, mid, 1) /\ Outside(two, q, h, mid)
  BY <1>1, <1>3, <1>4, ClearBlock, ZenonT(60)
<1> HIDE DEF q
<1>7. Block(q, mid, end, 0)
  <2>1. mid \in Words /\ end - 1 \in Words /\ mid >= mid /\ end - 1 >= mid
    BY <1>3, <1>1, LimitType, SMTT(20)
  <2>2. q[mid] = two[mid] /\ q[end - 1] = two[end - 1]
    BY <1>6, <2>1, Zenon DEF Outside
  <2>. QED BY <1>1, <1>3, <1>4, <1>6, <2>2, BlockFrame, ZenonT(60)
<1>8. Outside(m, q, h, end)
  <2>1. ASSUME NEW w \in Words, w < h \/ w >= end
        PROVE  q[w] = m[w]
    <3>1. w \in Nat
      BY LimitType, SMTT(20)
    <3>2. w < h \/ w >= mid
      BY <1>1, <1>3, <2>1, <3>1, SMTT(20)
    <3>. QED BY <1>4, <1>6, <2>1, <3>2, ZenonT(60) DEF Outside
  <2>. QED BY <2>1, Zenon DEF Outside
<1>9. /\ Tiling(q, h, end, {h, mid}) /\ Coal(q, {h, mid})
      /\ IsTag(q[h], n, 1, 0) /\ After(q, h) = mid
      /\ IsTag(q[mid], m[h].sz - n - 2, 0, 0) /\ After(q, mid) = end
  <2>1. /\ Tiling(q, h, end, {h, mid}) /\ Coal(q, {h, mid})
        /\ IsTag(q[h], mid - h - 2, 1, 0) /\ After(q, h) = mid
        /\ IsTag(q[mid], end - mid - 2, 0, 0) /\ After(q, mid) = end
    BY <1>1, <1>3, <1>6, <1>7, TwoTile, ZenonT(60)
  <2>. QED BY <1>3, <2>1, ZenonT(60)
<1>10. end \in B \/ end = mark
  BY Zenon DEF Tiling, Tile, end
<1>11. Swap(m, q, mark, B, h, end, {h, mid})
  BY <1>8, <1>9, <1>10, ZenonT(60) DEF Swap
<1>12. Kept(B, h, end) = B \ {h}
  BY KeptOne, SMTT(20) DEF end
<1>13. Tiling(q, 0, mark, Kept(B, h, end) \union {h, mid}) /\ Same(m, q, Kept(B, h, end))
  BY <1>6, <1>11, Replace, SMTT(20)
<1>14. Kept(B, h, end) \union {h, mid} = B \union {mid}
  BY <1>12, ZenonT(60)
<1>15. mid \notin B
  <2>1. h < mid => (mid \in B => end <= mid)
    BY Zenon DEF Tiling, end
  <2>. QED BY <1>1, <1>3, <2>1, SMTT(20)
<1>16. Coal(m, B) => Coal(q, B \union {mid})
  <2> SUFFICES ASSUME Coal(m, B)
               PROVE  Coal(q, B \union {mid})
    OBVIOUS
  <2>1. q[h].present = 1
    BY <1>9, ZenonT(60) DEF IsTag
  <2>2. end \in B => m[end].present = 1
    <3>1. 0 # 1
      BY SMTT(20)
    <3>. QED BY <1>2, <3>1, ZenonT(60) DEF Coal, Apart, end
  <2>3. Coal(q, Kept(B, h, end) \union {h, mid})
    BY <1>6, <1>9, <1>11, <2>1, <2>2, CoalReplace, ZenonT(60)
  <2>. QED BY <1>14, <2>3, ZenonT(60)
<1>17. Splits(m, q, mark, B, h, n)
  BY <1>6, <1>9, <1>12, <1>13, <1>14, <1>15, <1>16, ZenonT(60) DEF Splits, mid
<1>. QED BY <1>5, <1>17, Zenon
-----------------------------------------------------------------------------
(***************************************************************************)
(* heap_free, on the words: the block h becomes part of a free block from  *)
(* lo to hi - 1, in which no other block was allocated.                    *)
(***************************************************************************)
FreeTo(m, mark, B, h, hi) ==
  /\ hi \in Nat /\ h + 2 <= hi /\ (hi \in B \/ hi = mark)
  /\ FreeSize(m, mark, h) = hi - h - 2
  /\ \A g \in B : h < g /\ g < hi => m[g].present = 0
  /\ Coal(m, B) /\ hi \in B => m[hi].present = 1

LEMMA FreeSizeEffect ==
  ASSUME NEW m \in Mem, NEW mark, NEW B, Tiling(m, 0, mark, B), NEW h \in B
  PROVE  \E hi : FreeTo(m, mark, B, h, hi)
<1> DEFINE g == After(m, h)
<1>1. /\ h \in Nat /\ h \in Words /\ mark \in Nat /\ m[h].sz \in Nat
      /\ g \in Nat /\ h + 2 <= g /\ g <= mark
  BY TilingFacts, Zenon
<1>2. HEAP_BL_NEXT(m, h) = g /\ (HEAP_BL_HAS_NEXT(m, mark, h) <=> g < mark)
  BY <1>1, NextFacts, Zenon
<1>3. g \in B \/ g = mark
  BY Zenon DEF Tiling, Tile
<1>4. \A x \in B : x \in Nat /\ (h < x => g <= x)
  <2>1. \A x \in B : x \in Nat
    BY TilingFacts, Zenon
  <2>2. \A x \in B : h < x => g <= x
    BY Zenon DEF Tiling
  <2>. QED BY <2>1, <2>2, Zenon
<1>5. m[h].sz = g - h - 2
  BY <1>1 DEF After
<1> HIDE DEF g
<1>6. CASE g < mark /\ m[g].present = 0
  <2> DEFINE e == After(m, g)
  <2>1. g \in B
    BY <1>1, <1>3, <1>6, SMTT(20)
  <2>2. e \in Nat /\ g + 2 <= e /\ m[g].sz \in Nat
    BY <2>1, TilingFacts, ZenonT(60)
  <2>3. e \in B \/ e = mark
    BY <2>1, ZenonT(60) DEF Tiling, Tile
  <2>4. m[g].sz = e - g - 2
    BY <1>1, <2>2, SMTT(20) DEF After
  <2>5. FreeSize(m, mark, h) = m[h].sz + (m[g].sz + 2)
    BY <1>2, <1>6, ZenonT(60) DEF FreeSize, HEAP_BL_DATASZ2SZ
  <2>6. \A x \in B : g < x => e <= x
    BY <2>1, ZenonT(60) DEF Tiling
  <2>7. ASSUME NEW x \in B, h < x, x < e
        PROVE  m[x].present = 0
    <3>1. x = g
      <4>. HIDE DEF e
      <4>. QED BY <1>1, <1>4, <2>2, <2>6, <2>7, SMTT(20)
    <3>. QED BY <1>6, <3>1, SMTT(20)
  <2>8. Coal(m, B) /\ e \in B => m[e].present = 1
    <3>1. 0 # 1
      OBVIOUS
    <3>. QED BY <1>6, <2>1, <3>1, ZenonT(60) DEF Coal, Apart
  <2> HIDE DEF e
  <2>9. FreeSize(m, mark, h) = e - h - 2 /\ h + 2 <= e
    BY <1>1, <1>5, <2>2, <2>4, <2>5, SMTT(20)
  <2>10. FreeTo(m, mark, B, h, e)
    BY <2>2, <2>3, <2>7, <2>8, <2>9, ZenonT(60) DEF FreeTo
  <2>. QED BY <2>10, ZenonT(60)
<1>7. CASE ~(g < mark /\ m[g].present = 0)
  <2>1. FreeSize(m, mark, h) = g - h - 2
    BY <1>2, <1>5, <1>7, Zenon DEF FreeSize
  <2>2. ASSUME NEW x \in B, h < x, x < g
        PROVE  m[x].present = 0
    BY <1>1, <1>4, <2>2, SMTT(20)
  <2>3. g \in B => m[g].present = 1
    <3> SUFFICES ASSUME g \in B
                 PROVE  m[g].present = 1
      OBVIOUS
    <3>1. g < mark /\ m[g].present \in {0, 1}
      BY TilingFacts, Zenon
    <3>. QED BY <1>7, <3>1, SMTT(20)
  <2>4. FreeTo(m, mark, B, h, g)
    BY <1>1, <1>3, <2>1, <2>2, <2>3, ZenonT(60) DEF FreeTo
  <2>. QED BY <2>4, Zenon
<1>. QED BY <1>6, <1>7, SMTT(20)

\* The previous header is found through the footer before h.
LEMMA PrevEffect ==
  ASSUME Facts,
         NEW m \in Mem, NEW mark, NEW B, Tiling(m, 0, mark, B), NEW h \in B, h # 0
  PROVE  HEAP_BL_PREV(m, h) \in B /\ After(m, HEAP_BL_PREV(m, h)) = h
<1>1. PICK g \in B : After(m, g) = h
  BY BlockBefore
<1>2. m[h - 1].sz = m[g].sz
  BY <1>1, Zenon DEF Tiling, Tile, IsTag
<1>3. g \in Nat /\ m[g].sz \in Nat
  BY TilingFacts, ZenonT(60)
<1>4. HEAP_BL_PREV(m, h) = g
  BY <1>1, <1>2, <1>3, SMTT(20) DEF HEAP_BL_PREV, After
<1>. QED BY <1>1, <1>4, ZenonT(60)

FreeFrom(m, mark, B, h, hi, lo) ==
  /\ lo \in B /\ lo \in Nat /\ lo <= h
  /\ Merged(m, mark, h) = HEAP_BL_SET(m, lo, hi - lo - 2, 0)
  /\ \A g \in B : lo <= g /\ g < h => m[g].present = 0
  /\ Coal(m, B) => \A g \in B : After(m, g) = lo => m[g].present = 1

LEMMA MergedEffect ==
  ASSUME Facts, NEW m \in Mem, NEW mark, NEW B, Tiling(m, 0, mark, B), NEW h \in B,
         NEW hi, FreeTo(m, mark, B, h, hi)
  PROVE  \E lo : FreeFrom(m, mark, B, h, hi, lo)
<1> DEFINE g == HEAP_BL_PREV(m, h)
<1>1. h \in Nat /\ h \in Words /\ mark \in Nat
  BY TilingFacts, Zenon
<1>2. FreeSize(m, mark, h) = hi - h - 2 /\ hi \in Nat
  BY Zenon DEF FreeTo
<1>3. HEAP_BL_HAS_PREV(h) <=> h # 0
  BY <1>1 DEF HEAP_BL_HAS_PREV
<1>4. h # 0 => g \in B /\ After(m, g) = h
  BY PrevEffect, ZenonT(60)
<1>5. \A x \in B : x \in Nat /\ After(m, x) \in Nat /\ x < After(m, x)
  <2> SUFFICES ASSUME NEW x \in B
               PROVE  x \in Nat /\ After(m, x) \in Nat /\ x < After(m, x)
    OBVIOUS
  <2>1. x \in Nat /\ After(m, x) \in Nat /\ x + 2 <= After(m, x)
    BY TilingFacts, Zenon
  <2>. QED BY <2>1
<1>6. \A x, y \in B : x < y => After(m, x) <= y
  BY Zenon DEF Tiling
<1>7. \A x, y \in B : After(m, x) = After(m, y) => x = y
  <2> SUFFICES ASSUME NEW x \in B, NEW y \in B, After(m, x) = After(m, y), x # y
               PROVE  FALSE
    OBVIOUS
  <2>. QED BY <1>5, <1>6, SMTT(20)
<1> HIDE DEF g
<1>8. CASE h # 0 /\ m[g].present = 0
  <2>1. g \in B /\ After(m, g) = h /\ g \in Nat /\ g < h
    BY <1>4, <1>5, <1>8, ZenonT(60)
  <2>2. m[g].sz = h - g - 2 /\ m[g].sz \in Nat
    <3>1. m[g].sz \in Nat
      BY <2>1, TilingFacts, Zenon
    <3>. QED BY <2>1, <3>1, SMTT(20) DEF After
  <2>3. Merged(m, mark, h) = HEAP_BL_SET(m, g, (hi - h - 2) + (m[g].sz + 2), 0)
    BY <1>2, <1>3, <1>8, ZenonT(60) DEF Merged, g, HEAP_BL_DATASZ2SZ
  <2>4. (hi - h - 2) + (m[g].sz + 2) = hi - g - 2
    BY <1>1, <1>2, <2>1, <2>2, SMTT(20)
  <2>5. ASSUME NEW x \in B, g <= x, x < h
        PROVE  m[x].present = 0
    <3>1. x = g
      BY <1>1, <1>5, <1>6, <2>1, <2>5, SMTT(20)
    <3>. QED BY <1>8, <3>1, SMTT(20)
  <2>6. ASSUME Coal(m, B), NEW x \in B, After(m, x) = g
        PROVE  m[x].present = 1
    <3>1. 0 # 1
      OBVIOUS
    <3>. QED BY <1>8, <2>1, <2>6, <3>1, ZenonT(60) DEF Coal, Apart
  <2>7. g <= h
    BY <1>1, <2>1, SMTT(20)
  <2>8. FreeFrom(m, mark, B, h, hi, g)
    BY <2>1, <2>3, <2>4, <2>5, <2>6, <2>7, ZenonT(60) DEF FreeFrom
  <2>. QED BY <2>8, Zenon
<1>9. CASE ~(h # 0 /\ m[g].present = 0)
  <2>1. Merged(m, mark, h) = HEAP_BL_SET(m, h, hi - h - 2, 0)
    BY <1>2, <1>3, <1>9, ZenonT(60) DEF Merged, g
  <2>2. ASSUME NEW x \in B, h <= x, x < h
        PROVE  m[x].present = 0
    BY <1>1, <1>5, <2>2, SMTT(20)
  <2>3. ASSUME NEW x \in B, After(m, x) = h
        PROVE  m[x].present = 1
    <3>1. h # 0
      BY <1>5, <2>3
    <3>2. x = g
      BY <1>4, <1>7, <2>3, <3>1, ZenonT(60)
    <3>3. m[x].present \in {0, 1}
      BY TilingFacts, Zenon
    <3>. QED BY <1>9, <3>1, <3>2, <3>3, SMTT(20)
  <2>4. h <= h
    BY <1>1
  <2>5. FreeFrom(m, mark, B, h, hi, h)
    BY <1>1, <2>1, <2>2, <2>3, <2>4, ZenonT(60) DEF FreeFrom
  <2>. QED BY <2>5, Zenon
<1>. QED BY <1>8, <1>9, SMTT(20)

\* What happens to the allocated blocks: those in S stay as they are.
Frees(m, q, mark, B, h, N) ==
  /\ q \in Mem /\ Tiling(q, 0, mark, N)
  /\ PresentOf(q, N) = PresentOf(m, B) \ {h}
  /\ Same(m, q, PresentOf(m, B) \ {h})
  /\ Coal(m, B) => Coal(q, N)

LEMMA FreeEffect ==
  ASSUME Facts, NEW m \in Mem, NEW mark, NEW B, Tiling(m, 0, mark, B), NEW h \in B
  PROVE  \E N : Frees(m, Merged(m, mark, h), mark, B, h, N)
<1>1. PICK hi : FreeTo(m, mark, B, h, hi)
  BY FreeSizeEffect, Zenon
<1>2. PICK lo : FreeFrom(m, mark, B, h, hi, lo)
  BY <1>1, MergedEffect, Zenon
<1> DEFINE q == Merged(m, mark, h)
           K == Kept(B, lo, hi)
           N == K \union {lo}
<1>3. /\ hi \in Nat /\ h + 2 <= hi /\ (hi \in B \/ hi = mark)
      /\ \A g \in B : h < g /\ g < hi => m[g].present = 0
      /\ Coal(m, B) /\ hi \in B => m[hi].present = 1
  BY <1>1, Zenon DEF FreeTo
<1>4. /\ lo \in B /\ lo \in Nat /\ lo <= h
      /\ q = HEAP_BL_SET(m, lo, hi - lo - 2, 0)
      /\ \A g \in B : lo <= g /\ g < h => m[g].present = 0
      /\ Coal(m, B) => \A g \in B : After(m, g) = lo => m[g].present = 1
  BY <1>2, Zenon DEF FreeFrom
<1>5. /\ h \in Nat /\ mark \in Nat /\ mark <= Limit
  BY TilingFacts, ZenonT(60)
<1>6. lo + 2 <= hi /\ hi <= Limit
  <2>1. hi \in B => hi < mark
    BY TilingFacts, ZenonT(60)
  <2>. QED BY <1>3, <1>4, <1>5, <2>1, LimitType, SMTT(20)
<1> HIDE DEF q
<1>7. q \in Mem /\ Block(q, lo, hi, 0) /\ Outside(m, q, lo, hi)
  BY <1>3, <1>4, <1>6, OneBlock, SMTT(20)
<1>8. Tiling(q, lo, hi, {lo}) /\ q[lo].present = 0
  <2>1. Tiling(q, lo, hi, {lo})
    BY <1>3, <1>4, <1>6, <1>7, TilingOne, ZenonT(60)
  <2>. QED BY <1>7, <2>1, Zenon DEF Block, IsTag
<1>9. Swap(m, q, mark, B, lo, hi, {lo})
  BY <1>3, <1>4, <1>7, <1>8, ZenonT(60) DEF Swap
<1>10. Tiling(q, 0, mark, N) /\ Same(m, q, K)
  BY <1>7, <1>9, Replace, SMTT(20)
<1>11. ASSUME NEW x \in PresentOf(q, N)
       PROVE  x \in PresentOf(m, B) \ {h}
  <2>1. x \in N /\ q[x].present = 1
    BY Zenon DEF PresentOf
  <2>2. 0 # 1
    OBVIOUS
  <2>3. x \in K
    BY <1>8, <2>1, <2>2, ZenonT(60)
  <2>4. x \in B /\ (x < lo \/ x >= hi)
    BY <2>3, Zenon DEF Kept
  <2>5. x \in Nat
    BY <2>4, TilingFacts, ZenonT(60)
  <2>6. x # h
    BY <1>3, <1>4, <1>5, <2>4, <2>5, SMTT(20)
  <2>7. q[x] = m[x]
    BY <1>10, <2>3, Zenon DEF Same
  <2>. QED BY <2>1, <2>4, <2>6, <2>7, ZenonT(60) DEF PresentOf
<1>12. ASSUME NEW x \in PresentOf(m, B) \ {h}
       PROVE  x \in PresentOf(q, N) /\ x \in K
  <2>1. x \in B /\ m[x].present = 1 /\ x # h
    BY Zenon DEF PresentOf
  <2>2. x \in Nat
    BY <2>1, TilingFacts, ZenonT(60)
  <2>3. x < lo \/ x >= hi
    BY <1>3, <1>4, <1>5, <2>1, <2>2, SMTT(20)
  <2>4. x \in K
    BY <2>1, <2>3, Zenon DEF Kept
  <2>5. q[x] = m[x]
    BY <1>10, <2>4, Zenon DEF Same
  <2>. QED BY <2>1, <2>4, <2>5, ZenonT(60) DEF PresentOf
<1>13. PresentOf(q, N) = PresentOf(m, B) \ {h}
  BY <1>11, <1>12, Zenon
<1>14. Same(m, q, PresentOf(m, B) \ {h})
  BY <1>10, <1>12, ZenonT(60) DEF Same
<1>15. Coal(m, B) => Coal(q, N)
  <2> SUFFICES ASSUME Coal(m, B)
               PROVE  Coal(q, N)
    OBVIOUS
  <2>1. Coal(q, {lo})
    <3>1. After(q, lo) \in Nat /\ lo + 2 <= After(q, lo)
      BY <1>7, <1>8, TilingFacts, ZenonT(60)
    <3>2. After(q, lo) # lo
      BY <1>4, <3>1
    <3>. QED BY <3>2, Zenon DEF Coal
  <2>. QED BY <1>3, <1>4, <1>7, <1>9, <2>1, CoalReplace, Zenon
<1> HIDE DEF K, N
<1>16. Frees(m, q, mark, B, h, N)
  BY <1>7, <1>10, <1>13, <1>14, <1>15, ZenonT(60) DEF Frees
<1>. QED BY <1>16, Zenon DEF q
-----------------------------------------------------------------------------
(***************************************************************************)
(* Absorb, on the words: the allocated block h grows over the free one     *)
(* behind it, or over a part of it.                                        *)
(***************************************************************************)
Grows(m, q, mark, B, h, n, N) ==
  /\ q \in Mem /\ Tiling(q, 0, mark, N)
  /\ PresentOf(q, N) = PresentOf(m, B)
  /\ Same(m, q, PresentOf(m, B) \ {h})
  /\ q[h].sz >= n /\ q[h].sz \in Nat
  /\ Coal(m, B) => Coal(q, N)

LEMMA KeptTwo ==
  ASSUME NEW m \in Mem, NEW mark, NEW B, Tiling(m, 0, mark, B), NEW h \in B,
         After(m, h) \in B
  PROVE  Kept(B, h, After(m, After(m, h))) = B \ {h, After(m, h)}
<1> DEFINE g == After(m, h)
<1>1. ASSUME NEW x \in B
      PROVE  (x < h \/ x >= After(m, g)) <=> x # h /\ x # g
  <2>1. /\ x \in Nat /\ h \in Nat /\ g \in Nat /\ h + 2 <= g
    BY TilingFacts, Zenon
  <2>2. After(m, g) \in Nat /\ g + 2 <= After(m, g)
    BY TilingFacts, Zenon
  <2>3. h < x => g <= x
    BY Zenon DEF Tiling
  <2>4. g < x => After(m, g) <= x
    BY Zenon DEF Tiling
  <2>. HIDE DEF g
  <2>. QED BY <2>1, <2>2, <2>3, <2>4, SMTT(20)
<1>. QED BY <1>1, Zenon DEF Kept

Absorbs(m, q, h, end, n, M) ==
  /\ q \in Mem /\ Tiling(q, h, end, M) /\ Coal(q, M) /\ Outside(m, q, h, end)
  /\ h \in M /\ q[h].present = 1 /\ q[h].sz >= n /\ q[h].sz \in Nat
  /\ \A x \in M : x # h => q[x].present = 0

LEMMA AbsorbWrites ==
  ASSUME NEW m \in Mem, NEW h \in Nat, NEW g, g = After(m, h), NEW end, end = After(m, g),
         h \in Words, g \in Words, end <= Limit, NEW n \in Nat,
         m[h].sz < n, n <= (m[g].sz + 2) + m[h].sz
  PROVE  \E M : Absorbs(m, Clear(Absorb(m, h, n), h), h, end, n, M)
<1> DEFINE sz == m[h].sz
           next == m[g].sz
           a == Absorb(m, h, n)
           q == Clear(a, h)
           mid == h + 2 + n
           one == HEAP_BL_SET(m, h, n, 1)
<1>1. sz \in Nat /\ next \in Nat /\ g \in Nat /\ g = h + 2 + sz /\ end = g + 2 + next
  BY MemFacts, LimitType, SMTT(20) DEF After
<1>2. HEAP_BL_NEXT(m, h) = g
  BY <1>1 DEF HEAP_BL_NEXT, HEAP_BL_H2F
<1> HIDE DEF sz, next
<1>3. sz < n /\ n <= (next + 2) + sz
  BY Zenon DEF sz, next
<1>4. end \in Nat /\ h + 2 <= end
  BY <1>1
<1>5. CASE next - (n - sz) <= 0
  <2>1. a = HEAP_BL_SET(m, h, sz + (next + 2), 1)
    BY <1>2, <1>5, Zenon DEF Absorb, HEAP_BL_DATASZ2SZ, sz, next
  <2>2. sz + (next + 2) = end - h - 2
    BY <1>1
  <2> HIDE DEF a
  <2>3. a \in Mem /\ Block(a, h, end, 1) /\ Outside(m, a, h, end)
    BY <1>4, <2>1, <2>2, OneBlock, SMTT(20)
  <2>4. q \in Mem /\ Block(q, h, end, 1) /\ Outside(a, q, h, end)
    BY <1>4, <2>3, ClearBlock, Zenon
  <2> HIDE DEF q
  <2>5. Tiling(q, h, end, {h})
    BY <1>4, <2>4, TilingOne, Zenon
  <2>6. Outside(m, q, h, end)
    BY <2>3, <2>4, Zenon DEF Outside
  <2>7. q[h].present = 1 /\ q[h].sz = end - h - 2
    BY <2>4, Zenon DEF Block, IsTag
  <2>8. q[h].sz >= n /\ q[h].sz \in Nat
    BY <1>1, <1>3, <2>2, <2>7, SMTT(20)
  <2>9. Coal(q, {h})
    BY <2>7, Zenon DEF Coal, Apart
  <2>10. Absorbs(m, q, h, end, n, {h})
    BY <2>4, <2>5, <2>6, <2>7, <2>8, <2>9, Zenon DEF Absorbs
  <2>. QED BY <2>10, Zenon DEF q, a
<1>6. CASE ~(next - (n - sz) <= 0)
  <2>1. /\ mid \in Nat /\ h + 2 <= mid /\ mid + 2 <= end /\ mid <= Limit
        /\ n = mid - h - 2 /\ next - (n - sz) = end - mid - 2
    BY <1>1, <1>3, <1>6, LimitType, SMTT(20)
  <2> HIDE DEF mid
  <2>2. one[h].sz = n
    <3>1. one \in Mem /\ Block(one, h, mid, 1)
      BY <2>1, OneBlock
    <3>. QED BY <2>1, <3>1, Zenon DEF Block, IsTag
  <2>3. HEAP_BL_NEXT(one, h) = mid
    <3>. HIDE DEF one
    <3>. QED BY <2>2 DEF HEAP_BL_NEXT, HEAP_BL_H2F, mid
  <2>4. a = HEAP_BL_SET(one, mid, end - mid - 2, 0)
    <3>1. a = HEAP_BL_SET(one, HEAP_BL_NEXT(one, h), next - (n - sz), 0)
      BY <1>2, <1>6, Zenon DEF Absorb, sz, next
    <3>. QED BY <2>1, <2>3, <3>1, Zenon
  <2> HIDE DEF a
  <2>5. /\ a \in Mem /\ Block(a, h, mid, 1) /\ Block(a, mid, end, 0)
        /\ Outside(m, a, h, end)
    BY <1>4, <2>1, <2>4, TwoBlocks, SMTT(20)
  <2>6. q \in Mem /\ Block(q, h, mid, 1) /\ Outside(a, q, h, mid)
    BY <2>1, <2>5, ClearBlock, Zenon
  <2> HIDE DEF q, one
  <2>7. Block(q, mid, end, 0)
    <3>1. mid \in Words /\ end - 1 \in Words /\ mid >= mid /\ end - 1 >= mid
      BY <1>4, <2>1, LimitType, SMTT(20)
    <3>2. q[mid] = a[mid] /\ q[end - 1] = a[end - 1]
      BY <2>6, <3>1, Zenon DEF Outside
    <3>. QED BY <1>4, <2>1, <2>5, <2>6, <3>2, BlockFrame, ZenonT(60)
  <2>8. Outside(m, q, h, end)
    <3>1. ASSUME NEW w \in Words, w < h \/ w >= end
          PROVE  q[w] = m[w]
      <4>1. w \in Nat
        BY LimitType
      <4>2. w < h \/ w >= mid
        BY <1>4, <2>1, <3>1, <4>1, SMTT(20)
      <4>. QED BY <2>5, <2>6, <3>1, <4>2, Zenon DEF Outside
    <3>. QED BY <3>1, Zenon DEF Outside
  <2>9. /\ Tiling(q, h, end, {h, mid}) /\ Coal(q, {h, mid})
        /\ IsTag(q[h], mid - h - 2, 1, 0) /\ IsTag(q[mid], end - mid - 2, 0, 0)
    BY <1>4, <2>1, <2>6, <2>7, TwoTile, Zenon
  <2>10. q[h].present = 1 /\ q[h].sz = n /\ q[mid].present = 0
    BY <2>1, <2>9, Zenon DEF IsTag
  <2>11. q[h].sz >= n /\ q[h].sz \in Nat
    BY <2>10
  <2>12. Absorbs(m, q, h, end, n, {h, mid})
    BY <2>6, <2>8, <2>9, <2>10, <2>11, Zenon DEF Absorbs
  <2>. QED BY <2>12, Zenon DEF q, a
<1>. QED BY <1>5, <1>6, SMTT(20)

LEMMA AbsorbEffect ==
  ASSUME Facts, NEW m \in Mem, NEW mark, NEW B, Tiling(m, 0, mark, B), NEW h \in B,
         m[h].present = 1, NEW g, g = After(m, h), g \in B, m[g].present = 0, NEW n \in Nat,
         m[h].sz < n, n <= (m[g].sz + 2) + m[h].sz
  PROVE  \E N : Grows(m, Clear(Absorb(m, h, n), h), mark, B, h, n, N)
<1> DEFINE q == Clear(Absorb(m, h, n), h)
           end == After(m, g)
           K == Kept(B, h, end)
<1>1. h \in Nat /\ h \in Words /\ mark \in Nat /\ mark <= Limit
  BY TilingFacts, Zenon
<1>2. g \in Nat /\ g \in Words /\ end \in Nat /\ end <= mark
  BY TilingFacts, ZenonT(60)
<1>3. end <= Limit
  BY <1>1, <1>2, LimitType
<1>4. end \in B \/ end = mark
  BY Zenon DEF Tiling, Tile
<1>5. PICK M : Absorbs(m, q, h, end, n, M)
  BY <1>1, <1>2, <1>3, AbsorbWrites, SMTT(20)
<1>6. K = B \ {h, g}
  BY KeptTwo
<1>7. Coal(m, B) /\ end \in B => m[end].present = 1
  <2>1. 0 # 1
    OBVIOUS
  <2>. QED BY <2>1, Zenon DEF Coal, Apart
<1>8. After(m, h) = g
  OBVIOUS
<1> HIDE DEF q, end
<1>9. /\ q \in Mem /\ Tiling(q, h, end, M) /\ Coal(q, M) /\ Outside(m, q, h, end)
      /\ h \in M /\ q[h].present = 1 /\ q[h].sz >= n /\ q[h].sz \in Nat
      /\ \A x \in M : x # h => q[x].present = 0
  BY <1>5, Zenon DEF Absorbs
<1>10. Swap(m, q, mark, B, h, end, M)
  BY <1>4, <1>9, ZenonT(60) DEF Swap
<1>11. Tiling(q, 0, mark, K \union M) /\ Same(m, q, K)
  BY <1>9, <1>10, Replace, SMTT(20)
<1> HIDE DEF K
<1>12. 0 # 1
  OBVIOUS
<1>13. PresentOf(q, K \union M) = PresentOf(m, B)
  <2>1. ASSUME NEW x \in PresentOf(q, K \union M)
        PROVE  x \in PresentOf(m, B)
    BY <1>6, <1>9, <1>11, <1>12, Zenon DEF PresentOf, Same
  <2>2. ASSUME NEW x \in PresentOf(m, B)
        PROVE  x \in PresentOf(q, K \union M)
    BY <1>6, <1>9, <1>11, <1>12, Zenon DEF PresentOf, Same
  <2>. QED BY <2>1, <2>2, Zenon
<1>14. Same(m, q, PresentOf(m, B) \ {h})
  BY <1>6, <1>11, <1>12, ZenonT(60) DEF PresentOf, Same
<1>15. Coal(m, B) => Coal(q, K \union M)
  BY <1>7, <1>9, <1>10, CoalReplace, SMTT(20) DEF K
<1>16. Grows(m, q, mark, B, h, n, K \union M)
  BY <1>9, <1>11, <1>13, <1>14, <1>15, Zenon DEF Grows
<1>. QED BY <1>16, Zenon DEF q
-----------------------------------------------------------------------------
(***************************************************************************)
(* The block at becomes the last one, free and up to the new mark top.     *)
(***************************************************************************)
UpTo(B, at) == Before(B, at) \union {at}

Extends(m, q, mark, top, B, at) ==
  /\ q \in Mem /\ Tiling(q, 0, top, UpTo(B, at))
  /\ q[at].present = 0 /\ q[at].sz = top - at - 2 /\ After(q, at) = top
  /\ Same(m, q, Before(B, at))
  /\ m[at].present = 0 /\ After(m, at) = mark =>
       /\ UpTo(B, at) = B /\ PresentOf(q, B) = PresentOf(m, B)
       /\ Coal(m, B) => Coal(q, B)

LEMMA ExtendEffect ==
  ASSUME Facts, NEW m \in Mem, NEW mark, NEW B, Tiling(m, 0, mark, B), NEW at \in B,
         NEW top \in Nat, mark <= top, top <= Limit, NEW s, s = top - at - 2
  PROVE  Extends(m, HEAP_BL_SET(m, at, s, 0), mark, top, B, at)
<1> DEFINE q == HEAP_BL_SET(m, at, s, 0)
           L == Before(B, at)
<1>1. /\ at \in Nat /\ mark \in Nat /\ After(m, at) \in Nat
      /\ at + 2 <= After(m, at) /\ After(m, at) <= mark
  BY TilingFacts, Zenon
<1>2. at + 2 <= top
  BY <1>1
<1>3. q \in Mem /\ Block(q, at, top, 0) /\ Outside(m, q, at, top)
  BY <1>1, <1>2, OneBlock
<1> HIDE DEF q
<1>4. q[at].present = 0 /\ q[at].sz = top - at - 2
  BY <1>3, Zenon DEF Block, IsTag
<1>5. After(q, at) = top
  BY <1>1, <1>4 DEF After
<1>6. Tiling(q, at, top, {at})
  BY <1>1, <1>2, <1>3, TilingOne, Zenon
<1>7. Tiling(m, 0, at, L)
  BY TilingCut
<1>8. Tiling(q, 0, at, L)
  <2>1. \A w \in Words : 0 <= w /\ w < at => q[w] = m[w]
    BY <1>3, Zenon DEF Outside
  <2>. QED BY <1>3, <1>7, <2>1, TilingFrame, Zenon
<1>9. Tiling(q, 0, top, L \union {at})
  BY <1>3, <1>6, <1>8, TilingJoin, Zenon
<1>10. \A x \in L : x \in B /\ x \in Words /\ x < at
  <2>1. \A x \in B : x \in Words
    BY TilingFacts, Zenon
  <2>. QED BY <2>1, Zenon DEF Before
<1>11. Same(m, q, L)
  BY <1>3, <1>10, Zenon DEF Same, Outside, After
<1>12. ASSUME m[at].present = 0, After(m, at) = mark
       PROVE  /\ L \union {at} = B /\ PresentOf(q, B) = PresentOf(m, B)
              /\ Coal(m, B) => Coal(q, B)
  <2>1. ASSUME NEW x \in B, x # at
        PROVE  x \in L
    <3>1. x \in Nat /\ x < mark
      BY TilingFacts, Zenon
    <3>2. at < x => After(m, at) <= x
      BY Zenon DEF Tiling
    <3>3. x < at
      BY <1>1, <1>12, <2>1, <3>1, <3>2, SMTT(20)
    <3>. QED BY <3>3, Zenon DEF Before
  <2>2. L \union {at} = B
    BY <1>10, <2>1, Zenon
  <2>3. \A x \in B : q[x].present = m[x].present
    BY <1>4, <1>11, <1>12, <2>1, ZenonT(60) DEF Same
  <2>4. PresentOf(q, B) = PresentOf(m, B)
    BY <2>3, Zenon DEF PresentOf
  <2>5. ASSUME Coal(m, B), NEW g \in B, After(q, g) \in B
        PROVE  Apart(q, g, After(q, g))
    <3>1. g # at
      <4> SUFFICES ASSUME g = at
                   PROVE  FALSE
        OBVIOUS
      <4>1. top \in B
        BY <1>5, <2>5, Zenon
      <4>2. top < mark
        BY <4>1, TilingFacts, Zenon
      <4>. QED BY <1>1, <4>2, SMTT(20)
    <3>2. After(q, g) = After(m, g)
      BY <1>11, <2>1, <3>1, Zenon DEF Same
    <3>3. Apart(m, g, After(q, g))
      BY <2>5, <3>2, Zenon DEF Coal
    <3>. QED BY <2>3, <2>5, <3>3, Zenon DEF Apart
  <2>. QED BY <2>2, <2>4, <2>5, Zenon DEF Coal
<1> HIDE DEF L
<1>13. Extends(m, q, mark, top, B, at)
  BY <1>3, <1>4, <1>5, <1>9, <1>11, <1>12, ZenonT(60) DEF Extends, UpTo, L
<1>. QED BY <1>13, Zenon DEF q
-----------------------------------------------------------------------------
(***************************************************************************)
(* The effect of the operations on the number of allocated blocks and of   *)
(* the words in them.                                                      *)
(***************************************************************************)
Blocks(m, B) == Cardinality(PresentOf(m, B))
Used(m, B) == Cardinality(UsedWords(m, PresentOf(m, B)))

LEMMA CountType ==
  ASSUME Facts, NEW m \in Mem, NEW mark, NEW B, Tiling(m, 0, mark, B)
  PROVE  Blocks(m, B) \in Nat /\ Used(m, B) \in Nat
<1>1. PresentOf(m, B) \subseteq B
  BY Zenon DEF PresentOf
<1>. QED BY <1>1, UsedFinite, Zenon DEF Blocks, Used

\* One block more, or less.
LEMMA CountChange ==
  ASSUME Facts, NEW m \in Mem, NEW mark, NEW B, Tiling(m, 0, mark, B),
         NEW q \in Mem, NEW top, NEW N, Tiling(q, 0, top, N),
         NEW h \in N, h \notin PresentOf(m, B),
         PresentOf(q, N) = PresentOf(m, B) \union {h},
         \A g \in PresentOf(m, B) : q[g].sz = m[g].sz
  PROVE  Blocks(q, N) = Blocks(m, B) + 1 /\ Used(q, N) = Used(m, B) + q[h].sz
<1> DEFINE S == PresentOf(m, B)
<1>1. S \subseteq N
  BY Zenon DEF PresentOf
<1> HIDE DEF S
<1>2. /\ Cardinality(S \union {h}) = Cardinality(S) + 1
      /\ Cardinality(UsedWords(q, S \union {h})) = Cardinality(UsedWords(q, S)) + q[h].sz
  <2>1. h \notin S
    BY Zenon DEF S
  <2>. QED BY <1>1, <2>1, UsedAdd, SMTT(20)
<1>3. UsedWords(q, S) = UsedWords(m, S)
  BY UsedSame, ZenonT(60) DEF S
<1>. QED BY <1>2, <1>3, Zenon DEF S, Blocks, Used

OneMore(m, q, B, N, h, n) ==
  /\ h \notin PresentOf(m, B) /\ PresentOf(q, N) = PresentOf(m, B) \union {h}
  /\ \A g \in PresentOf(m, B) : q[g].sz = m[g].sz
  /\ Blocks(q, N) = Blocks(m, B) + 1 /\ Used(q, N) = Used(m, B) + n

LEMMA SplitCount ==
  ASSUME Facts,
         NEW m \in Mem, NEW mark, NEW B, Tiling(m, 0, mark, B), NEW h \in B, NEW n \in Nat,
         Fits(m, h, n), NEW q, Splits(m, q, mark, B, h, n)
  PROVE  OneMore(m, q, B, B \union {h + 2 + n}, h, n)
<1> DEFINE mid == h + 2 + n
           N == B \union {mid}
<1>1. /\ q \in Mem /\ Tiling(q, 0, mark, N)
      /\ q[h].sz = n /\ q[h].present = 1 /\ q[mid].present = 0
      /\ mid \notin B /\ \A g \in B \ {h} : q[g] = m[g]
  BY Zenon DEF Splits, Same, IsTag
<1>2. m[h].present = 0
  BY Zenon DEF Fits
<1>3. 0 # 1
  OBVIOUS
<1> HIDE DEF mid
<1>4. h \notin PresentOf(m, B) /\ PresentOf(q, N) = PresentOf(m, B) \union {h}
  <2>1. h \notin PresentOf(m, B)
    BY <1>2, <1>3, Zenon DEF PresentOf
  <2>2. ASSUME NEW g \in PresentOf(q, N)
        PROVE  g \in PresentOf(m, B) \union {h}
    BY <1>1, <1>3, Zenon DEF PresentOf
  <2>3. ASSUME NEW g \in PresentOf(m, B) \union {h}
        PROVE  g \in PresentOf(q, N)
    BY <1>1, <1>3, Zenon DEF PresentOf
  <2>. QED BY <2>1, <2>2, <2>3, Zenon
<1>5. \A g \in PresentOf(m, B) : q[g].sz = m[g].sz
  BY <1>1, <1>4, ZenonT(60) DEF PresentOf
<1> HIDE DEF N
<1>6. Blocks(q, N) = Blocks(m, B) + 1 /\ Used(q, N) = Used(m, B) + q[h].sz
  <2>1. h \in N
    BY Zenon DEF N
  <2>. QED BY <1>1, <1>4, <1>5, <2>1, CountChange, SMTT(20)
<1>. QED BY <1>1, <1>4, <1>5, <1>6, Zenon DEF N, mid, OneMore

LEMMA FreeCount ==
  ASSUME Facts,
         NEW m \in Mem, NEW mark, NEW B, Tiling(m, 0, mark, B), NEW h \in B, m[h].present = 1,
         NEW q, NEW N, Frees(m, q, mark, B, h, N)
  PROVE  Blocks(q, N) = Blocks(m, B) - 1 /\ Used(q, N) = Used(m, B) - m[h].sz
<1>1. /\ q \in Mem /\ Tiling(q, 0, mark, N)
      /\ PresentOf(q, N) = PresentOf(m, B) \ {h}
      /\ \A g \in PresentOf(m, B) \ {h} : q[g] = m[g]
  BY Zenon DEF Frees, Same
<1>2. h \in PresentOf(m, B)
  BY Zenon DEF PresentOf
<1>3. PresentOf(m, B) = PresentOf(q, N) \union {h} /\ h \notin PresentOf(q, N)
  BY <1>1, <1>2, Zenon
<1>4. \A g \in PresentOf(q, N) : m[g].sz = q[g].sz
  BY <1>1, Zenon
<1>5. Blocks(m, B) = Blocks(q, N) + 1 /\ Used(m, B) = Used(q, N) + m[h].sz
  <2>1. q \in Mem /\ Tiling(q, 0, mark, N)
    BY <1>1
  <2>. QED BY <1>3, <1>4, <2>1, CountChange, SMTT(20)
<1>6. Blocks(q, N) \in Nat /\ Used(q, N) \in Nat /\ m[h].sz \in Nat
  BY <1>1, CountType, TilingFacts, ZenonT(60)
<1>. QED BY <1>5, <1>6

LEMMA GrowCount ==
  ASSUME Facts,
         NEW m \in Mem, NEW mark, NEW B, Tiling(m, 0, mark, B), NEW h \in B, m[h].present = 1,
         NEW q, NEW n, NEW N, Grows(m, q, mark, B, h, n, N)
  PROVE  /\ Blocks(q, N) = Blocks(m, B)
         /\ Used(q, N) = Used(m, B) + (q[h].sz - m[h].sz)
<1> DEFINE P == PresentOf(m, B)
           S == P \ {h}
<1>1. /\ q \in Mem /\ Tiling(q, 0, mark, N) /\ PresentOf(q, N) = P
      /\ (\A g \in S : q[g] = m[g]) /\ q[h].sz \in Nat
  BY Zenon DEF Grows, Same
<1>2. h \in P /\ P \subseteq B /\ P \subseteq N /\ S \union {h} = P
  BY <1>1, Zenon DEF PresentOf
<1>3. Blocks(q, N) = Blocks(m, B)
  BY <1>1, Zenon DEF Blocks
<1>4. S \subseteq B /\ S \subseteq N /\ h \notin S /\ h \in N
  BY <1>2, ZenonT(60)
<1> HIDE DEF P, S
<1>5. Cardinality(UsedWords(m, P)) = Cardinality(UsedWords(m, S)) + m[h].sz
  BY <1>2, <1>4, UsedAdd, SMTT(20)
<1>6. Cardinality(UsedWords(q, P)) = Cardinality(UsedWords(q, S)) + q[h].sz
  BY <1>1, <1>2, <1>4, UsedAdd, SMTT(20)
<1>7. UsedWords(q, S) = UsedWords(m, S)
  BY <1>1, UsedSame, Zenon
<1>8. Cardinality(UsedWords(m, S)) \in Nat /\ m[h].sz \in Nat
  BY <1>4, UsedFinite, TilingFacts, Zenon
<1>9. Used(q, N) = Cardinality(UsedWords(q, P)) /\ Used(m, B) = Cardinality(UsedWords(m, P))
  BY <1>1, Zenon DEF Used, P
<1>. QED BY <1>1, <1>3, <1>5, <1>6, <1>7, <1>8, <1>9, SMTT(20)

LEMMA ExtendCount ==
  ASSUME Facts, NEW m \in Mem, NEW mark, NEW B, Tiling(m, 0, mark, B), NEW at \in B,
         NEW top, NEW q, Extends(m, q, mark, top, B, at)
  PROVE  /\ Blocks(q, UpTo(B, at)) <= Blocks(m, B) /\ Used(q, UpTo(B, at)) <= Used(m, B)
         /\ m[at].present = 0 /\ After(m, at) = mark =>
              Blocks(q, B) = Blocks(m, B) /\ Used(q, B) = Used(m, B)
<1> DEFINE T == PresentOf(q, UpTo(B, at))
<1>1. /\ q[at].present = 0 /\ \A g \in Before(B, at) : q[g] = m[g]
  BY Zenon DEF Extends, Same
<1>2. 0 # 1
  OBVIOUS
<1>3. T \subseteq Before(B, at)
  BY <1>1, <1>2, Zenon DEF PresentOf, UpTo
<1>4. T \subseteq PresentOf(m, B)
  BY <1>1, <1>3, Zenon DEF PresentOf, Before
<1>5. PresentOf(m, B) \subseteq B
  BY Zenon DEF PresentOf
<1> HIDE DEF T
<1>6. UsedWords(q, T) = UsedWords(m, T)
  BY <1>1, <1>3, UsedSame, Zenon
<1>7. /\ Cardinality(T) <= Cardinality(PresentOf(m, B))
      /\ Cardinality(UsedWords(m, T)) <= Cardinality(UsedWords(m, PresentOf(m, B)))
  BY <1>4, <1>5, UsedLess, Zenon
<1>8. ASSUME m[at].present = 0, After(m, at) = mark
      PROVE  Blocks(q, B) = Blocks(m, B) /\ Used(q, B) = Used(m, B)
  <2>1. UpTo(B, at) = B /\ PresentOf(q, B) = PresentOf(m, B)
    BY <1>8, Zenon DEF Extends
  <2>. QED BY <1>6, <2>1, Zenon DEF T, Blocks, Used
<1>. QED BY <1>6, <1>7, <1>8, Zenon DEF T, Blocks, Used
-----------------------------------------------------------------------------
(***************************************************************************)
(* The holders hb of the allocated blocks P: every block has exactly one,  *)
(* and is as large as that one asked for.                                  *)
(***************************************************************************)
Fills(m, P, b) == b.addr - 1 \in P /\ b.addr \in Nat /\ m[b.addr - 1].sz >= b.sz

Match(m, P, hb) ==
  /\ \A x \in DOMAIN hb : Fills(m, P, hb[x])
  /\ \A x, y \in DOMAIN hb : hb[x].addr = hb[y].addr => x = y
  /\ \A h \in P : \E x \in DOMAIN hb : hb[x].addr - 1 = h

\* A holder more, one less, or one with another block.
Gains(hb, hc, x, b) ==
  /\ x \notin DOMAIN hb /\ DOMAIN hc = DOMAIN hb \union {x} /\ hc[x] = b
  /\ \A y \in DOMAIN hb : hc[y] = hb[y]
Loses(hb, hc, x) ==
  /\ x \in DOMAIN hb /\ DOMAIN hc = DOMAIN hb \ {x}
  /\ \A y \in DOMAIN hc : hc[y] = hb[y]
Turns(hb, hc, x, b) ==
  /\ x \in DOMAIN hb /\ DOMAIN hc = DOMAIN hb /\ hc[x] = b
  /\ \A y \in DOMAIN hb : y # x => hc[y] = hb[y]

LEMMA MatchGain ==
  ASSUME NEW m, NEW P, NEW hb, Match(m, P, hb), NEW h \in Nat, h \notin P,
         NEW q, \A g \in P : q[g].sz = m[g].sz,
         NEW b, b.addr = h + 1, q[h].sz >= b.sz, NEW x, NEW hc, Gains(hb, hc, x, b)
  PROVE  Match(q, P \union {h}, hc)
<1> DEFINE Q == P \union {h}
<1>1. /\ x \notin DOMAIN hb /\ DOMAIN hc = DOMAIN hb \union {x} /\ hc[x] = b
      /\ \A y \in DOMAIN hb : hc[y] = hb[y]
  BY Zenon DEF Gains
<1>2. b.addr - 1 = h /\ b.addr \in Nat
  OBVIOUS
<1>3. ASSUME NEW y \in DOMAIN hb
      PROVE  Fills(q, Q, hc[y]) /\ hc[y].addr # b.addr
  <2>1. hc[y] = hb[y] /\ Fills(m, P, hb[y])
    BY <1>1, Zenon DEF Match
  <2>2. Fills(q, P, hb[y])
    BY <2>1, Zenon DEF Fills
  <2>3. hc[y].addr # b.addr
    BY <1>2, <2>1, Zenon DEF Fills
  <2>. QED BY <2>1, <2>2, <2>3, Zenon DEF Fills
<1>4. Fills(q, Q, b)
  BY <1>2, Zenon DEF Fills
<1>5. \A y \in DOMAIN hc : Fills(q, Q, hc[y])
  BY <1>1, <1>3, <1>4, ZenonT(60)
<1>6. ASSUME NEW y \in DOMAIN hc, NEW z \in DOMAIN hc, hc[y].addr = hc[z].addr
      PROVE  y = z
  <2>1. CASE y = x \/ z = x
    BY <1>1, <1>3, <1>6, <2>1, Zenon
  <2>2. CASE y # x /\ z # x
    <3>1. y \in DOMAIN hb /\ z \in DOMAIN hb
      BY <1>1, <2>2, Zenon
    <3>. QED BY <1>1, <1>6, <3>1, Zenon DEF Match
  <2>. QED BY <2>1, <2>2
<1>7. ASSUME NEW g \in Q
      PROVE  \E y \in DOMAIN hc : hc[y].addr - 1 = g
  <2>1. CASE g = h
    BY <1>1, <1>2, <2>1, Zenon
  <2>2. CASE g \in P
    <3>1. PICK y \in DOMAIN hb : hb[y].addr - 1 = g
      BY <2>2, Zenon DEF Match
    <3>. QED BY <1>1, <3>1, Zenon
  <2>. QED BY <2>1, <2>2, Zenon
<1> HIDE DEF Q
<1>8. Match(q, Q, hc)
  BY <1>5, <1>6, <1>7, Zenon DEF Match
<1>. QED BY <1>8, Zenon DEF Q

LEMMA MatchLose ==
  ASSUME NEW m, NEW P, NEW hb, Match(m, P, hb), NEW h \in Nat,
         NEW q, \A g \in P \ {h} : q[g].sz = m[g].sz,
         NEW x, NEW hc, Loses(hb, hc, x), hb[x].addr = h + 1
  PROVE  Match(q, P \ {h}, hc)
<1> DEFINE Q == P \ {h}
<1>1. x \in DOMAIN hb /\ DOMAIN hc = DOMAIN hb \ {x} /\ \A y \in DOMAIN hc : hc[y] = hb[y]
  BY Zenon DEF Loses
<1>2. ASSUME NEW y \in DOMAIN hc
      PROVE  Fills(q, Q, hc[y])
  <2>1. y \in DOMAIN hb /\ y # x /\ hc[y] = hb[y] /\ Fills(m, P, hb[y])
    BY <1>1, Zenon DEF Match
  <2>2. hb[y].addr # h + 1
    BY <1>1, <2>1, Zenon DEF Match
  <2>3. hb[y].addr \in Nat
    BY <2>1, Zenon DEF Fills
  <2>4. hb[y].addr - 1 # h
    BY <2>2, <2>3
  <2>5. hb[y].addr - 1 \in Q
    BY <2>1, <2>4, Zenon DEF Fills
  <2>. QED BY <2>1, <2>5, Zenon DEF Fills
<1>3. ASSUME NEW g \in Q
      PROVE  \E y \in DOMAIN hc : hc[y].addr - 1 = g
  <2>1. PICK y \in DOMAIN hb : hb[y].addr - 1 = g
    BY Zenon DEF Match
  <2>2. (h + 1) - 1 = h
    OBVIOUS
  <2>3. y # x
    BY <2>1, <2>2, Zenon
  <2>. QED BY <1>1, <2>1, <2>3, Zenon
<1>4. \A y, z \in DOMAIN hc : hc[y].addr = hc[z].addr => y = z
  BY <1>1, Zenon DEF Match
<1> HIDE DEF Q
<1>5. Match(q, Q, hc)
  BY <1>2, <1>3, <1>4, Zenon DEF Match
<1>. QED BY <1>5, Zenon DEF Q

LEMMA MatchTurn ==
  ASSUME NEW m, NEW P, NEW hb, Match(m, P, hb), NEW h \in Nat, NEW x, hb[x].addr = h + 1,
         NEW r \in Nat, r \notin P \ {h}, NEW q, \A g \in P \ {h} : q[g].sz = m[g].sz,
         NEW b, b.addr = r + 1, q[r].sz >= b.sz, NEW hc, Turns(hb, hc, x, b)
  PROVE  Match(q, (P \ {h}) \union {r}, hc)
<1> DEFINE hd == [y \in DOMAIN hb \ {x} |-> hb[y]]
<1>1. Loses(hb, hd, x) /\ Gains(hd, hc, x, b)
  <2>1. DOMAIN hd = DOMAIN hb \ {x} /\ \A y \in DOMAIN hb \ {x} : hd[y] = hb[y]
    BY Zenon
  <2>. HIDE DEF hd
  <2>. QED BY <2>1, Zenon DEF Turns, Loses, Gains
<1> HIDE DEF hd
<1>2. Match(m, P \ {h}, hd)
  BY <1>1, MatchLose, Zenon
<1> DEFINE Q == P \ {h}
<1> HIDE DEF Q
<1>3. Match(m, Q, hd) /\ r \notin Q /\ \A g \in Q : q[g].sz = m[g].sz
  BY <1>2, Zenon DEF Q
<1>4. Match(q, Q \union {r}, hc)
  BY <1>1, <1>3, MatchGain, Zenon
<1>. QED BY <1>4, Zenon DEF Q

(***************************************************************************)
(* The clients hold what lv says, the list of global mappings gl.          *)
(***************************************************************************)
HeldOf(lv, gl) ==
  [x \in {c \in Clients : lv[c] # NoBlock} \cup DOMAIN gl |->
     IF x \in Clients THEN lv[x] ELSE gl[x]]

Records == [addr : Words, sz : Nat]
Holdings == [Clients -> {NoBlock} \cup Records]

LEMMA RecordType ==
  ASSUME NEW a \in Words, NEW n \in Nat
  PROVE  /\ Held(a, n) \in Records /\ Held(a, n) # NoBlock
         /\ Held(a, n).addr = a /\ Held(a, n).sz = n
<1>1. Held(a, n) \in Records /\ Held(a, n).addr = a /\ Held(a, n).sz = n
  BY DEF Held, Records
<1>2. Held(a, n) \in [addr : Nat, sz : Nat]
  BY LimitType DEF Held
<1>. QED BY <1>1, <1>2, HoldersAssumption, SMTT(20)

LEMMA HeldAppend ==
  ASSUME NEW lv, NEW S, NEW gl \in Seq(S), NEW b \in S
  PROVE  Gains(HeldOf(lv, gl), HeldOf(lv, Append(gl, b)), Len(gl) + 1, b)
<1> DEFINE k == Len(gl) + 1
           ga == Append(gl, b)
           C == {c \in Clients : lv[c] # NoBlock}
<1>1. /\ DOMAIN gl = 1 .. Len(gl) /\ Len(gl) \in Nat
      /\ DOMAIN ga = 1 .. k /\ ga[k] = b
      /\ \A i \in 1 .. Len(gl) : ga[i] = gl[i]
  BY SMTT(20)
<1>2. k \in Nat /\ k \notin DOMAIN gl /\ DOMAIN ga = DOMAIN gl \union {k}
  BY <1>1
<1>3. DOMAIN gl \subseteq Nat
  BY <1>1
<1>4. \A c \in Clients : c \notin Nat
  BY HoldersAssumption, Zenon
<1> HIDE DEF k, ga
<1>5. DOMAIN HeldOf(lv, gl) = C \cup DOMAIN gl /\ DOMAIN HeldOf(lv, ga) = C \cup DOMAIN ga
  BY Zenon DEF HeldOf
<1>6. k \notin DOMAIN HeldOf(lv, gl) /\ DOMAIN HeldOf(lv, ga) = DOMAIN HeldOf(lv, gl) \union {k}
  BY <1>2, <1>4, <1>5, Zenon
<1>7. HeldOf(lv, ga)[k] = b
  <2>1. k \in C \cup DOMAIN ga /\ k \notin Clients
    BY <1>2, <1>4, Zenon
  <2>. QED BY <1>1, <2>1, Zenon DEF HeldOf
<1>8. ASSUME NEW y \in C \cup DOMAIN gl
      PROVE  HeldOf(lv, ga)[y] = HeldOf(lv, gl)[y]
  <2>1. y \in C \cup DOMAIN ga
    BY <1>2, Zenon
  <2>2. y \notin Clients => ga[y] = gl[y]
    BY <1>1, Zenon
  <2>. QED BY <2>1, <2>2, Zenon DEF HeldOf
<1>9. Gains(HeldOf(lv, gl), HeldOf(lv, ga), k, b)
  BY <1>5, <1>6, <1>7, <1>8, Zenon DEF Gains
<1>. QED BY <1>9, Zenon DEF k, ga

LEMMA HeldChange ==
  ASSUME NEW lv \in Holdings, NEW S, NEW gl \in Seq(S), NEW c \in Clients,
         NEW b, NEW lw, lw = [lv EXCEPT ![c] = b]
  PROVE  /\ lv[c] = NoBlock /\ b # NoBlock => Gains(HeldOf(lv, gl), HeldOf(lw, gl), c, b)
         /\ lv[c] # NoBlock /\ b = NoBlock => Loses(HeldOf(lv, gl), HeldOf(lw, gl), c)
         /\ lv[c] # NoBlock /\ b # NoBlock => Turns(HeldOf(lv, gl), HeldOf(lw, gl), c, b)
         /\ lv[c] # NoBlock => HeldOf(lv, gl)[c] = lv[c]
<1> DEFINE C == {d \in Clients : lv[d] # NoBlock}
           D == {d \in Clients : lw[d] # NoBlock}
<1>1. lw[c] = b /\ \A d \in Clients : d # c => lw[d] = lv[d]
  BY Zenon DEF Holdings
<1>2. DOMAIN gl \subseteq Nat
  BY SMTT(20)
<1>3. \A d \in Clients : d \notin Nat
  BY HoldersAssumption, Zenon
<1>4. \A d \in Clients : d \notin DOMAIN gl
  BY <1>2, <1>3, Zenon
<1>5. DOMAIN HeldOf(lv, gl) = C \cup DOMAIN gl /\ DOMAIN HeldOf(lw, gl) = D \cup DOMAIN gl
  BY Zenon DEF HeldOf
<1>6. /\ \A y \in C \cup DOMAIN gl : HeldOf(lv, gl)[y] = IF y \in Clients THEN lv[y] ELSE gl[y]
      /\ \A y \in D \cup DOMAIN gl : HeldOf(lw, gl)[y] = IF y \in Clients THEN lw[y] ELSE gl[y]
  BY Zenon DEF HeldOf
<1>7. ASSUME NEW y \in (C \cup DOMAIN gl) \cap (D \cup DOMAIN gl), y # c
      PROVE  HeldOf(lw, gl)[y] = HeldOf(lv, gl)[y]
  BY <1>1, <1>6, <1>7, Zenon
<1>8. ASSUME NEW y, y # c
      PROVE  y \in C \cup DOMAIN gl <=> y \in D \cup DOMAIN gl
  BY <1>1, <1>8, Zenon
<1>9. /\ c \in C \cup DOMAIN gl <=> lv[c] # NoBlock
      /\ c \in D \cup DOMAIN gl <=> b # NoBlock
  BY <1>1, <1>4, Zenon
<1>10. /\ lv[c] # NoBlock => HeldOf(lv, gl)[c] = lv[c]
       /\ b # NoBlock => HeldOf(lw, gl)[c] = b
  BY <1>1, <1>6, <1>9, Zenon
<1> DEFINE E == C \cup DOMAIN gl
           F == D \cup DOMAIN gl
           hb == HeldOf(lv, gl)
           hc == HeldOf(lw, gl)
<1>11. DOMAIN hb = E /\ DOMAIN hc = F
  BY <1>5
<1> HIDE DEF C, D, E, F, hb, hc
<1>12. \A y \in E : y \in F /\ y # c => hc[y] = hb[y]
  BY <1>7, Zenon DEF E, F, hb, hc
<1>13. \A y : y # c => (y \in E <=> y \in F)
  BY <1>8, Zenon DEF E, F
<1>14. (c \in E <=> lv[c] # NoBlock) /\ (c \in F <=> b # NoBlock)
  BY <1>9, Zenon DEF E, F
<1>15. (lv[c] # NoBlock => hb[c] = lv[c]) /\ (b # NoBlock => hc[c] = b)
  BY <1>10, Zenon DEF hb, hc
<1>16. lv[c] = NoBlock /\ b # NoBlock => Gains(hb, hc, c, b)
  BY <1>11, <1>12, <1>13, <1>14, <1>15, ZenonT(60) DEF Gains
<1>17. lv[c] # NoBlock /\ b = NoBlock => Loses(hb, hc, c)
  BY <1>11, <1>12, <1>13, <1>14, Zenon DEF Loses
<1>18. lv[c] # NoBlock /\ b # NoBlock => Turns(hb, hc, c, b)
  BY <1>11, <1>12, <1>13, <1>14, <1>15, Zenon DEF Turns
<1>. QED BY <1>15, <1>16, <1>17, <1>18, Zenon DEF hb, hc
-----------------------------------------------------------------------------
(***************************************************************************)
(* The invariant of a heap p with the blocks B, of which hb tells the      *)
(* holders.  Once a block was grown that somebody holds, all that is left  *)
(* is the tiling, and the statistics count too many blocks.                *)
(***************************************************************************)
Marks == {k * PageSize : k \in 1 .. MaxPages}
Fates == {"sound", "fault", "overgrown"}
Heaps == [mem : Mem, vmem_mark : Marks, used_bytes : Int, block_count : Int,
          globs : Seq(Records), fate : Fates]

Sane(p, B) ==
  /\ p \in Heaps
  /\ Tiling(p.mem, 0, p.vmem_mark, B)
  /\ Blocks(p.mem, B) <= p.block_count
  /\ Used(p.mem, B) <= p.used_bytes

Exact(p, B, hb) ==
  /\ Blocks(p.mem, B) = p.block_count
  /\ Used(p.mem, B) = p.used_bytes
  /\ Coal(p.mem, B)
  /\ Match(p.mem, PresentOf(p.mem, B), hb)

Good(p, B, hb) == Sane(p, B) /\ (p.fate # "overgrown" => Exact(p, B, hb))

LEMMA HeapFields ==
  ASSUME NEW p \in Heaps
  PROVE  /\ p.mem \in Mem /\ p.vmem_mark \in Marks /\ p.used_bytes \in Int
         /\ p.block_count \in Int /\ p.globs \in Seq(Records) /\ p.fate \in Fates
BY DEF Heaps

\* The assignments of the operations.
Fields(q, m, k, u, c, g, f) ==
  /\ q \in Heaps
  /\ q.mem = m /\ q.vmem_mark = k /\ q.used_bytes = u /\ q.block_count = c
  /\ q.globs = g /\ q.fate = f

LEMMA SetCounts ==
  ASSUME NEW p \in Heaps, NEW m \in Mem, NEW u \in Int, NEW c \in Int, NEW q,
         q = [p EXCEPT !.mem = m, !.used_bytes = u, !.block_count = c]
  PROVE  Fields(q, m, p.vmem_mark, u, c, p.globs, p.fate)
BY Zenon DEF Heaps, Fields

LEMMA SetUsed ==
  ASSUME NEW p \in Heaps, NEW m \in Mem, NEW u \in Int, NEW q,
         q = [p EXCEPT !.mem = m, !.used_bytes = u]
  PROVE  Fields(q, m, p.vmem_mark, u, p.block_count, p.globs, p.fate)
BY Zenon DEF Heaps, Fields

LEMMA SetGlobs ==
  ASSUME NEW p \in Heaps, NEW g \in Seq(Records), NEW q, q = [p EXCEPT !.globs = g]
  PROVE  Fields(q, p.mem, p.vmem_mark, p.used_bytes, p.block_count, g, p.fate)
BY DEF Heaps, Fields

LEMMA SetMark ==
  ASSUME NEW p \in Heaps, NEW k \in Marks, NEW m \in Mem, NEW f \in Fates, NEW q,
         q = [p EXCEPT !.vmem_mark = k, !.mem = m, !.fate = f]
  PROVE  Fields(q, m, k, p.used_bytes, p.block_count, p.globs, f)
BY Zenon DEF Heaps, Fields

LEMMA SetFate ==
  ASSUME NEW p \in Heaps, NEW f \in Fates, NEW q, q = [p EXCEPT !.fate = f]
  PROVE  Fields(q, p.mem, p.vmem_mark, p.used_bytes, p.block_count, p.globs, f)
BY DEF Heaps, Fields

\* Split, on the heap.
SplitDone(p, q, B, h, n) ==
  /\ q \in Heaps /\ Splits(p.mem, q.mem, p.vmem_mark, B, h, n)
  /\ q.vmem_mark = p.vmem_mark /\ q.globs = p.globs /\ q.fate = p.fate

LEMMA SplitGood ==
  ASSUME Facts,
         NEW p, NEW B, NEW hb, Good(p, B, hb), NEW h \in B, NEW n \in Nat, Fits(p.mem, h, n)
  PROVE  /\ SplitDone(p, Split(p, h, n), B, h, n)
         /\ \A x, hc : Gains(hb, hc, x, Held(h + 1, n)) =>
              Good(Split(p, h, n), B \union {h + 2 + n}, hc)
         /\ h + 1 \in Words
<1> DEFINE m == p.mem
           a == SplitMem(m, h, n)
           q == Split(p, h, n)
           N == B \union {h + 2 + n}
<1>1. /\ p \in Heaps /\ Tiling(m, 0, p.vmem_mark, B)
      /\ Blocks(m, B) <= p.block_count /\ Used(m, B) <= p.used_bytes
  BY Zenon DEF Good, Sane
<1>2. m \in Mem /\ p.used_bytes \in Int /\ p.block_count \in Int
  BY <1>1, HeapFields, Zenon
<1>3. Splits(m, a, p.vmem_mark, B, h, n)
  BY <1>1, <1>2, SplitEffect, Zenon
<1>4. a \in Mem /\ Tiling(a, 0, p.vmem_mark, N) /\ (Coal(m, B) => Coal(a, N)) /\ a[h].sz = n
  BY <1>3, Zenon DEF Splits, IsTag
<1>5. q = [p EXCEPT !.mem = a, !.used_bytes = p.used_bytes + n, !.block_count = p.block_count + 1]
  BY Zenon DEF Split, SplitMem
<1> HIDE DEF q, a
<1>6. /\ q \in Heaps /\ q.mem = a /\ q.used_bytes = p.used_bytes + n
      /\ q.block_count = p.block_count + 1
      /\ q.vmem_mark = p.vmem_mark /\ q.globs = p.globs /\ q.fate = p.fate
  <2> DEFINE u == p.used_bytes + n
             c == p.block_count + 1
  <2>1. u \in Int /\ c \in Int
    BY <1>2
  <2>2. q = [p EXCEPT !.mem = a, !.used_bytes = u, !.block_count = c]
    BY <1>5
  <2>. HIDE DEF u, c
  <2>3. Fields(q, a, p.vmem_mark, u, c, p.globs, p.fate)
    BY <1>1, <1>4, <2>1, <2>2, SetCounts, ZenonT(60)
  <2>. QED BY <2>3, Zenon DEF Fields, u, c
<1>7. SplitDone(p, q, B, h, n)
  BY <1>3, <1>6, Zenon DEF SplitDone
<1>8. /\ h \notin PresentOf(m, B) /\ PresentOf(a, N) = PresentOf(m, B) \union {h}
      /\ \A g \in PresentOf(m, B) : a[g].sz = m[g].sz
      /\ Blocks(a, N) = Blocks(m, B) + 1 /\ Used(a, N) = Used(m, B) + n
  <2>1. OneMore(m, a, B, N, h, n)
    BY <1>1, <1>2, <1>3, SplitCount, SMTT(20)
  <2>. QED BY <2>1, Zenon DEF OneMore
<1>9. Blocks(m, B) \in Nat /\ Used(m, B) \in Nat /\ h \in Nat
  BY <1>1, <1>2, CountType, TilingFacts, ZenonT(60)
<1>10. h + 1 \in Words
  <2>1. /\ h \in Nat /\ p.vmem_mark \in Nat /\ p.vmem_mark <= Limit
        /\ After(m, h) \in Nat /\ h + 2 <= After(m, h) /\ After(m, h) <= p.vmem_mark
    BY <1>1, <1>2, TilingFacts, Zenon
  <2>. QED BY <2>1, LimitType, SMTT(20)
<1> HIDE DEF N, m
<1>11. ASSUME NEW x, NEW hc, Gains(hb, hc, x, Held(h + 1, n))
       PROVE  Good(q, N, hc)
  <2>1. Sane(q, N)
    <3>1. Blocks(a, N) <= q.block_count /\ Used(a, N) <= q.used_bytes
      BY <1>1, <1>2, <1>6, <1>8, <1>9, SMTT(20)
    <3>. QED BY <1>4, <1>6, <3>1, ZenonT(60) DEF Sane
  <2>2. ASSUME q.fate # "overgrown"
        PROVE  Exact(q, N, hc)
    <3>1. Exact(p, B, hb)
      BY <1>6, <2>2, Zenon DEF Good
    <3>2. /\ Blocks(m, B) = p.block_count /\ Used(m, B) = p.used_bytes /\ Coal(m, B)
          /\ Match(m, PresentOf(m, B), hb)
      BY <3>1, Zenon DEF Exact, m
    <3>3. Blocks(a, N) = q.block_count /\ Used(a, N) = q.used_bytes
      BY <1>6, <1>8, <3>2, Zenon
    <3>4. Match(a, PresentOf(a, N), hc)
      <4>1. Held(h + 1, n).addr = h + 1 /\ Held(h + 1, n).sz = n
        BY <1>10, RecordType, ZenonT(60)
      <4>2. a[h].sz >= Held(h + 1, n).sz
        BY <1>4, <4>1, SMTT(20)
      <4>. HIDE DEF Held
      <4>3. Match(a, PresentOf(m, B) \union {h}, hc)
        BY <1>8, <1>9, <1>11, <3>2, <4>1, <4>2, MatchGain, ZenonT(60)
      <4>. QED BY <1>8, <4>3, Zenon
    <3>. QED BY <1>4, <1>6, <3>2, <3>3, <3>4, ZenonT(60) DEF Exact
  <2>. QED BY <2>1, <2>2, Zenon DEF Good
<1>. QED BY <1>7, <1>10, <1>11, Zenon DEF q, N

\* heap_free of an allocated block.
LEMMA ValidBlock ==
  ASSUME NEW m \in Mem, NEW mark, NEW B, Tiling(m, 0, mark, B), NEW h \in B
  PROVE  heap_validate(m, h + 1)
<1>1. /\ h \in Nat /\ h \in Words /\ After(m, h) - 1 \in Words
  BY TilingFacts, Zenon
<1>2. m[h].footer = 0 /\ IsTag(m[After(m, h) - 1], m[h].sz, m[h].present, 1)
  BY Zenon DEF Tiling, Tile
<1>3. (h + 1) - 1 = h
  BY <1>1
<1>4. HEAP_BL_H2F(m, h) = After(m, h) - 1
  <2>1. 0 \in Nat
    OBVIOUS
  <2>. QED BY <1>1, <2>1, NextFacts, Zenon
<1>. QED BY <1>1, <1>2, <1>3, <1>4, ZenonT(60) DEF heap_validate, IsTag

LEMMA FreeGood ==
  ASSUME Facts,
         NEW p, NEW B, NEW hb, Good(p, B, hb), NEW h \in B, p.mem[h].present = 1, NEW hc,
         p.fate # "overgrown" => \E x : Loses(hb, hc, x) /\ hb[x].addr = h + 1
  PROVE  /\ \E N : Good(heap_free(p, h + 1), N, hc)
         /\ heap_free(p, h + 1).globs = p.globs /\ heap_free(p, h + 1).fate = p.fate
<1> DEFINE m == p.mem
           a == Merged(m, p.vmem_mark, h)
           q == heap_free(p, h + 1)
           u == p.used_bytes - m[h].sz
           k == p.block_count - 1
<1>1. /\ p \in Heaps /\ Tiling(m, 0, p.vmem_mark, B)
      /\ Blocks(m, B) <= p.block_count /\ Used(m, B) <= p.used_bytes
  BY Zenon DEF Good, Sane
<1>2. m \in Mem /\ p.used_bytes \in Int /\ p.block_count \in Int
  BY <1>1, HeapFields, Zenon
<1>3. PICK N : Frees(m, a, p.vmem_mark, B, h, N)
  BY <1>1, <1>2, FreeEffect, Zenon
<1>4. /\ a \in Mem /\ Tiling(a, 0, p.vmem_mark, N) /\ (Coal(m, B) => Coal(a, N))
      /\ PresentOf(a, N) = PresentOf(m, B) \ {h}
      /\ \A g \in PresentOf(m, B) \ {h} : a[g] = m[g]
  BY <1>3, Zenon DEF Frees, Same
<1>5. h \in Nat /\ m[h].sz \in Nat
  BY <1>1, <1>2, TilingFacts, ZenonT(60)
<1>6. q = [p EXCEPT !.mem = a, !.used_bytes = u, !.block_count = k]
  <2>1. heap_validate(m, h + 1)
    BY <1>1, <1>2, ValidBlock, Zenon
  <2>2. (h + 1) - 1 = h
    BY <1>5, SMTT(20)
  <2>. QED BY <2>1, <2>2, Zenon DEF heap_free
<1>7. u \in Int /\ k \in Int
  BY <1>2, <1>5
<1> HIDE DEF a, q, u, k
<1>8. /\ q \in Heaps /\ q.mem = a /\ q.used_bytes = u /\ q.block_count = k
      /\ q.vmem_mark = p.vmem_mark /\ q.globs = p.globs /\ q.fate = p.fate
  <2>1. Fields(q, a, p.vmem_mark, u, k, p.globs, p.fate)
    BY <1>1, <1>4, <1>6, <1>7, SetCounts, Zenon
  <2>. QED BY <2>1, Zenon DEF Fields
<1>9. Blocks(a, N) = Blocks(m, B) - 1 /\ Used(a, N) = Used(m, B) - m[h].sz
  BY <1>1, <1>2, <1>3, FreeCount, SMTT(20)
<1>10. Blocks(m, B) \in Nat /\ Used(m, B) \in Nat
  BY <1>1, <1>2, CountType, Zenon
<1> HIDE DEF m
<1>11. Sane(q, N)
  <2>1. Blocks(a, N) <= k /\ Used(a, N) <= u
    BY <1>1, <1>2, <1>5, <1>9, <1>10, SMTT(20) DEF k, u
  <2>. QED BY <1>4, <1>8, <2>1, ZenonT(60) DEF Sane
<1>12. ASSUME q.fate # "overgrown"
       PROVE  Exact(q, N, hc)
  <2>1. /\ Blocks(m, B) = p.block_count /\ Used(m, B) = p.used_bytes /\ Coal(m, B)
        /\ Match(m, PresentOf(m, B), hb)
    BY <1>8, <1>12, Zenon DEF Good, Exact, m
  <2>2. Blocks(a, N) = k /\ Used(a, N) = u
    BY <1>9, <2>1, Zenon DEF k, u
  <2>3. PICK x : Loses(hb, hc, x) /\ hb[x].addr = h + 1
    BY <1>8, <1>12, Zenon
  <2>4. \A g \in PresentOf(m, B) \ {h} : a[g].sz = m[g].sz
    BY <1>4, Zenon
  <2>5. Match(a, PresentOf(m, B) \ {h}, hc)
    BY <1>5, <2>1, <2>3, <2>4, MatchLose, ZenonT(60)
  <2>. QED BY <1>4, <1>8, <2>1, <2>2, <2>5, ZenonT(60) DEF Exact
<1>13. Good(q, N, hc)
  BY <1>11, <1>12, Zenon DEF Good
<1>. QED BY <1>8, <1>13, Zenon DEF q

LEMMA MarkNext ==
  ASSUME NEW k \in Marks, k + PageSize <= Limit
  PROVE  k + PageSize \in Marks
<1>1. PageSize \in Nat /\ PageSize > 0 /\ MaxPages \in Nat
  BY PagesAssumption, SizesAssumption, SMTT(20)
<1>2. PICK j \in 1 .. MaxPages : k = j * PageSize
  BY Zenon DEF Marks
<1>3. k + PageSize = (j + 1) * PageSize
  BY <1>1, <1>2, SMTT(20)
<1>4. j + 1 \in 1 .. MaxPages
  <2>1. ASSUME j + 1 > MaxPages
        PROVE  FALSE
    <3>1. j = MaxPages
      BY <1>1, <2>1
    <3>. QED BY <1>1, <1>2, <3>1, SMTT(20) DEF Limit
  <2>. QED BY <1>1, <2>1, SMTT(20)
<1>. QED BY <1>3, <1>4, Zenon DEF Marks

LEMMA MatchSame ==
  ASSUME NEW m, NEW P, NEW hb, Match(m, P, hb), NEW q, \A g \in P : q[g].sz = m[g].sz
  PROVE  Match(q, P, hb)
<1>1. ASSUME NEW x \in DOMAIN hb
      PROVE  Fills(q, P, hb[x])
  BY Zenon DEF Match, Fills
<1>. QED BY <1>1, Zenon DEF Match

\* One page more for the block at, which is marked free.
Extended(p, q, B, at) ==
  /\ q \in Heaps /\ Extends(p.mem, q.mem, p.vmem_mark, q.vmem_mark, B, at)
  /\ q.vmem_mark = p.vmem_mark + PageSize /\ q.globs = p.globs
  /\ q.fate = IF p.mem[at].present = 1 THEN "overgrown" ELSE p.fate

LEMMA ExtendGood ==
  ASSUME Facts, NEW p, NEW B, NEW hb, Good(p, B, hb), NEW at \in B,
         p.mem[at].present = 0 => After(p.mem, at) = p.vmem_mark,
         p.vmem_mark + PageSize <= Limit, NEW z, z = (p.vmem_mark + PageSize) - at - 2,
         NEW q, q = [p EXCEPT !.vmem_mark = p.vmem_mark + PageSize,
                              !.mem = HEAP_BL_SET(p.mem, at, z, 0),
                              !.fate = IF p.mem[at].present = 1 THEN "overgrown" ELSE p.fate]
  PROVE  Extended(p, q, B, at) /\ Good(q, UpTo(B, at), hb)
<1> DEFINE m == p.mem
           mark == p.vmem_mark
           top == mark + PageSize
           a == HEAP_BL_SET(m, at, z, 0)
           f == IF m[at].present = 1 THEN "overgrown" ELSE p.fate
           N == UpTo(B, at)
<1>1. /\ p \in Heaps /\ Tiling(m, 0, mark, B)
      /\ Blocks(m, B) <= p.block_count /\ Used(m, B) <= p.used_bytes
  BY Zenon DEF Good, Sane
<1>2. /\ m \in Mem /\ mark \in Marks /\ p.used_bytes \in Int /\ p.block_count \in Int
      /\ p.fate \in Fates
  BY <1>1, HeapFields, Zenon
<1>3. mark \in Nat /\ m[at].present \in {0, 1} /\ at \in Nat
  BY <1>1, <1>2, TilingFacts, ZenonT(60)
<1>4. top \in Marks /\ top \in Nat /\ mark <= top
  <2>1. top \in Marks
    BY <1>2, MarkNext, Zenon
  <2>2. top \in Nat /\ mark <= top
    BY <1>3, PagesAssumption, SMTT(20)
  <2>. QED BY <2>1, <2>2, SMTT(20)
<1>5. Extends(m, a, mark, top, B, at)
  <2>1. top <= Limit /\ z = top - at - 2
    OBVIOUS
  <2>. HIDE DEF m, mark, top
  <2>. QED BY <1>1, <1>2, <1>4, <2>1, ExtendEffect, SMTT(20)
<1>6. a \in Mem /\ Tiling(a, 0, top, N) /\ Same(m, a, Before(B, at))
  BY <1>5, Zenon DEF Extends
<1>7. f \in Fates
  BY <1>2, Zenon DEF Fates
<1> HIDE DEF a, f
<1>8. Fields(q, a, top, p.used_bytes, p.block_count, p.globs, f)
  <2>1. q = [p EXCEPT !.vmem_mark = top, !.mem = a, !.fate = f]
    BY Zenon DEF a, f
  <2>. HIDE DEF top
  <2>. QED BY <1>1, <1>4, <1>6, <1>7, <2>1, SetMark, ZenonT(60)
<1>9. /\ q \in Heaps /\ q.mem = a /\ q.vmem_mark = top /\ q.used_bytes = p.used_bytes
      /\ q.block_count = p.block_count /\ q.globs = p.globs /\ q.fate = f
  BY <1>8, Zenon DEF Fields
<1>10. Extended(p, q, B, at)
  BY <1>5, <1>9, Zenon DEF Extended, f
<1>11. /\ Blocks(a, N) <= Blocks(m, B) /\ Used(a, N) <= Used(m, B)
       /\ m[at].present = 0 /\ After(m, at) = mark =>
            Blocks(a, B) = Blocks(m, B) /\ Used(a, B) = Used(m, B)
  <2>. HIDE DEF m, mark, top
  <2>. QED BY <1>1, <1>2, <1>5, ExtendCount, SMTT(20)
<1>12. /\ Blocks(m, B) \in Nat /\ Used(m, B) \in Nat /\ Blocks(a, N) \in Nat /\ Used(a, N) \in Nat
  BY <1>1, <1>2, <1>6, CountType, ZenonT(60)
<1> HIDE DEF m, mark, top, N
<1>13. Sane(q, N)
  <2>1. Blocks(a, N) <= p.block_count /\ Used(a, N) <= p.used_bytes
    BY <1>1, <1>2, <1>11, <1>12, SMTT(20)
  <2>. QED BY <1>6, <1>9, <2>1, ZenonT(60) DEF Sane
<1>14. ASSUME q.fate # "overgrown"
       PROVE  Exact(q, N, hb)
  <2>1. m[at].present # 1 /\ p.fate # "overgrown"
    BY <1>9, <1>14, Zenon DEF f
  <2>2. m[at].present = 0 /\ After(m, at) = mark
    BY <1>3, <2>1, Zenon DEF m, mark
  <2>3. /\ N = B /\ PresentOf(a, B) = PresentOf(m, B) /\ (Coal(m, B) => Coal(a, B))
    BY <1>5, <2>2, ZenonT(60) DEF Extends, N
  <2>4. /\ Blocks(m, B) = p.block_count /\ Used(m, B) = p.used_bytes /\ Coal(m, B)
        /\ Match(m, PresentOf(m, B), hb)
    BY <2>1, Zenon DEF Good, Exact, m
  <2>5. \A g \in PresentOf(m, B) : a[g].sz = m[g].sz
    <3>1. ASSUME NEW g \in PresentOf(m, B)
          PROVE  a[g].sz = m[g].sz
      <4>1. g \in UpTo(B, at) /\ g # at
        BY <2>1, <2>3, Zenon DEF PresentOf, N
      <4>. QED BY <1>6, <4>1, Zenon DEF UpTo, Same
    <3>. QED BY <3>1, Zenon
  <2>6. Match(a, PresentOf(a, N), hb)
    BY <2>3, <2>4, <2>5, MatchSame, ZenonT(60)
  <2>. QED BY <1>9, <1>11, <2>2, <2>3, <2>4, <2>6, Zenon DEF Exact
<1>15. Good(q, N, hb)
  BY <1>13, <1>14, Zenon DEF Good
<1>. QED BY <1>10, <1>15, Zenon DEF N
-----------------------------------------------------------------------------
(***************************************************************************)
(* The allocations for a global mapping.  The last block has room for      *)
(* them, so that each of them finds a block; a block that was there stays  *)
(* as it is or is allocated.                                               *)
(***************************************************************************)
Room(m, mark, B, r) ==
  \E h \in B : m[h].present = 0 /\ After(m, h) = mark /\ m[h].sz >= r

Follows(m, q, B, N) ==
  /\ B \subseteq N
  /\ \A h \in B : q[h].present = 1 \/ (q[h] = m[h] /\ After(q, h) = After(m, h))

Keeps(p, B, lv, q, N, r) ==
  /\ Good(q, N, HeldOf(lv, q.globs)) /\ Follows(p.mem, q.mem, B, N)
  /\ Room(q.mem, q.vmem_mark, N, r)
  /\ q.vmem_mark = p.vmem_mark /\ q.fate = p.fate

LEMMA GoodGlobs ==
  ASSUME NEW p, NEW B, NEW hb, Good(p, B, hb), NEW g \in Seq(Records), NEW q,
         q = [p EXCEPT !.globs = g]
  PROVE  /\ Good(q, B, hb) /\ q.globs = g /\ q.mem = p.mem
         /\ q.vmem_mark = p.vmem_mark /\ q.fate = p.fate
<1>1. p \in Heaps
  BY Zenon DEF Good, Sane
<1>2. Fields(q, p.mem, p.vmem_mark, p.used_bytes, p.block_count, g, p.fate)
  BY <1>1, SetGlobs, Zenon
<1>3. /\ q \in Heaps /\ q.globs = g /\ q.mem = p.mem /\ q.vmem_mark = p.vmem_mark
      /\ q.fate = p.fate /\ q.used_bytes = p.used_bytes /\ q.block_count = p.block_count
  BY <1>2, Zenon DEF Fields
<1>. QED BY <1>3, Zenon DEF Good, Sane, Exact

\* Only one block ends at the mark.
LEMMA LastBlock ==
  ASSUME NEW m \in Mem, NEW mark, NEW B, Tiling(m, 0, mark, B),
         NEW g \in B, NEW h \in B, After(m, h) = mark
  PROVE  g <= h /\ (After(m, g) = mark => g = h)
<1>1. g \in Nat /\ h \in Nat /\ g < mark /\ h < mark /\ mark \in Nat
  BY TilingFacts, Zenon
<1>2. (g < h => After(m, g) <= h) /\ (h < g => mark <= g)
  BY Zenon DEF Tiling
<1>. QED BY <1>1, <1>2, SMTT(20)

LEMMA KeptFits ==
  ASSUME Facts,
         NEW m \in Mem, NEW mark \in Nat \ {0}, NEW B, Tiling(m, 0, mark, B), NEW n \in Nat,
         NEW r \in Nat, Room(m, mark, B, r), n + 2 <= r
  PROVE  Scan(m, mark, 0, n) \in B /\ Fits(m, Scan(m, mark, 0, n), n)
<1> DEFINE h == Scan(m, mark, 0, n)
<1>1. 0 \in B
  <2>1. 0 < mark
    OBVIOUS
  <2>. QED BY <2>1, Zenon DEF Tiling
<1>2. h \in B /\ (Fits(m, h, n) \/ After(m, h) = mark)
  BY <1>1, ScanEffect, Zenon
<1> HIDE DEF h
<1>3. PICK last \in B : m[last].present = 0 /\ After(m, last) = mark /\ m[last].sz >= r
  BY Zenon DEF Room
<1>4. m[last].sz \in Nat
  BY TilingFacts, Zenon
<1>5. Fits(m, last, n)
  BY <1>3, <1>4, SMTT(20) DEF Fits, HEAP_BL_DATASZ2SZ
<1>6. After(m, h) = mark => h = last
  BY <1>2, <1>3, LastBlock, Zenon
<1>. QED BY <1>2, <1>5, <1>6, ZenonT(60) DEF h

LEMMA SplitRoom ==
  ASSUME NEW m \in Mem, NEW mark, NEW B, Tiling(m, 0, mark, B), NEW h \in B, NEW n \in Nat,
         NEW q, Splits(m, q, mark, B, h, n), NEW r \in Nat, n + 2 <= r, Room(m, mark, B, r)
  PROVE  Room(q, mark, B \union {h + 2 + n}, r - n - 2) /\ Follows(m, q, B, B \union {h + 2 + n})
<1> DEFINE mid == h + 2 + n
           N == B \union {mid}
<1>1. /\ IsTag(q[h], n, 1, 0) /\ IsTag(q[mid], m[h].sz - n - 2, 0, 0) /\ Same(m, q, B \ {h})
  BY Zenon DEF Splits
<1>2. Follows(m, q, B, N)
  BY <1>1, Zenon DEF Follows, Same, IsTag
<1>3. PICK last \in B : m[last].present = 0 /\ After(m, last) = mark /\ m[last].sz >= r
  BY Zenon DEF Room
<1>4. m[last].sz \in Nat /\ h \in Nat
  BY TilingFacts, Zenon
<1>5. CASE last = h
  <2>1. q[mid].present = 0 /\ q[mid].sz = m[h].sz - n - 2
    BY <1>1, Zenon DEF IsTag
  <2>2. q[mid].sz >= r - n - 2
    BY <1>3, <1>4, <1>5, <2>1, SMTT(20)
  <2>3. After(q, mid) = mark
    BY <1>3, <1>4, <1>5, <2>1, SMTT(20) DEF After
  <2>. QED BY <1>2, <2>1, <2>2, <2>3, Zenon DEF Room
<1>6. CASE last # h
  <2>1. q[last] = m[last] /\ After(q, last) = mark
    BY <1>1, <1>3, <1>6, ZenonT(60) DEF Same
  <2>2. m[last].sz >= r - n - 2
    BY <1>3, <1>4, SMTT(20)
  <2>. QED BY <1>2, <1>3, <2>1, <2>2, ZenonT(60) DEF Room
<1>. QED BY <1>5, <1>6, Zenon

LEMMA MarkType ==
  ASSUME NEW k \in Marks
  PROVE  k \in Nat \ {0} /\ PageSize <= k /\ k <= Limit
<1>1. PageSize \in Nat /\ PageSize > 0 /\ MaxPages \in Nat
  BY PagesAssumption, SizesAssumption, SMTT(20)
<1>2. PICK j \in 1 .. MaxPages : k = j * PageSize
  BY Zenon DEF Marks
<1>3. j * PageSize \in Nat /\ PageSize <= j * PageSize /\ j * PageSize <= MaxPages * PageSize
  BY <1>1
<1>. QED BY <1>1, <1>2, <1>3, SMTT(20) DEF Limit

LEMMA KeptGood ==
  ASSUME Facts, NEW p, NEW B, NEW lv, Good(p, B, HeldOf(lv, p.globs)), NEW n \in Nat,
         NEW r \in Nat, Room(p.mem, p.vmem_mark, B, r), n + 2 <= r
  PROVE  \E N : Keeps(p, B, lv, KeptFor(p, n), N, r - n - 2)
<1> DEFINE m == p.mem
           mark == p.vmem_mark
           h == Scan(m, mark, 0, n)
           t == Split(p, h, n)
           b == Held(h + 1, n)
           g == Append(p.globs, b)
           q == KeptFor(p, n)
           N == B \union {h + 2 + n}
<1>1. /\ p \in Heaps /\ Tiling(m, 0, mark, B)
  BY Zenon DEF Good, Sane
<1>2. m \in Mem /\ mark \in Marks /\ p.globs \in Seq(Records)
  BY <1>1, HeapFields, Zenon
<1>3. mark \in Nat \ {0}
  BY <1>2, MarkType, ZenonT(60)
<1>4. h \in B /\ Fits(m, h, n)
  BY <1>1, <1>2, <1>3, KeptFits, SMTT(20)
<1> HIDE DEF h
<1>5. /\ SplitDone(p, t, B, h, n) /\ h + 1 \in Words
      /\ \A x, hc : Gains(HeldOf(lv, p.globs), hc, x, b) => Good(t, N, hc)
  BY <1>4, SplitGood, Zenon
<1>6. /\ t \in Heaps /\ Splits(m, t.mem, mark, B, h, n)
      /\ t.vmem_mark = mark /\ t.globs = p.globs /\ t.fate = p.fate
  BY <1>5, Zenon DEF SplitDone
<1>7. b \in Records
  BY <1>5, RecordType, Zenon
<1>8. g \in Seq(Records) /\ Gains(HeldOf(lv, p.globs), HeldOf(lv, g), Len(p.globs) + 1, b)
  <2>. HIDE DEF b
  <2>1. Append(p.globs, b) \in Seq(Records)
    BY <1>2, <1>7, SMTT(20)
  <2>. QED BY <1>2, <1>7, <2>1, HeldAppend, ZenonT(60)
<1>9. Good(t, N, HeldOf(lv, g))
  BY <1>5, <1>8, Zenon
<1>10. q = [t EXCEPT !.globs = g]
  BY <1>6, Zenon DEF KeptFor, h
<1> HIDE DEF t, g, q, b, N
<1>11. /\ Good(q, N, HeldOf(lv, g)) /\ q.globs = g /\ q.mem = t.mem
       /\ q.vmem_mark = t.vmem_mark /\ q.fate = t.fate
  BY <1>8, <1>9, <1>10, GoodGlobs, SMTT(20)
<1>12. Room(t.mem, mark, N, r - n - 2) /\ Follows(m, t.mem, B, N)
  <2>. HIDE DEF m, mark
  <2>1. Room(m, mark, B, r)
    BY DEF m, mark
  <2>. QED BY <1>1, <1>2, <1>4, <1>6, <2>1, SplitRoom, SMTT(20) DEF N
<1>13. Keeps(p, B, lv, q, N, r - n - 2)
  BY <1>6, <1>11, <1>12, Zenon DEF Keeps
<1>. QED BY <1>13, Zenon DEF q

LEMMA KeptOn ==
  ASSUME Facts,
         NEW p, NEW B, NEW lv, NEW q, NEW N, NEW r \in Nat, Keeps(p, B, lv, q, N, r),
         NEW n \in Nat, n + 2 <= r
  PROVE  \E M : Keeps(p, B, lv, KeptFor(q, n), M, r - n - 2)
<1> DEFINE t == KeptFor(q, n)
           s == r - n - 2
<1>1. /\ Good(q, N, HeldOf(lv, q.globs)) /\ Follows(p.mem, q.mem, B, N)
      /\ Room(q.mem, q.vmem_mark, N, r)
      /\ q.vmem_mark = p.vmem_mark /\ q.fate = p.fate
  BY Zenon DEF Keeps
<1>2. PICK M : Keeps(q, N, lv, t, M, s)
  BY <1>1, KeptGood
<1> HIDE DEF t, s
<1>3. /\ Good(t, M, HeldOf(lv, t.globs)) /\ Follows(q.mem, t.mem, N, M)
      /\ Room(t.mem, t.vmem_mark, M, s)
      /\ t.vmem_mark = q.vmem_mark /\ t.fate = q.fate
  BY <1>2, Zenon DEF Keeps
<1>4. Follows(p.mem, t.mem, B, M)
  BY <1>1, <1>3, Zenon DEF Follows
<1>5. Keeps(p, B, lv, t, M, s)
  BY <1>1, <1>3, <1>4, Zenon DEF Keeps
<1>. QED BY <1>5, Zenon DEF t, s

LEMMA RoomLess ==
  ASSUME NEW m \in Mem, NEW mark, NEW B, Tiling(m, 0, mark, B), NEW r \in Nat,
         Room(m, mark, B, r), NEW s \in Nat, s <= r
  PROVE  Room(m, mark, B, s)
<1>1. PICK h \in B : m[h].present = 0 /\ After(m, h) = mark /\ m[h].sz >= r
  BY Zenon DEF Room
<1>2. m[h].sz \in Nat
  BY TilingFacts, ZenonT(60)
<1>3. m[h].sz >= s
  BY <1>1, <1>2, SMTT(20)
<1>. QED BY <1>1, <1>3, Zenon DEF Room

\* The result of vmem_mgmt_add_global_mapping.
LEMMA MappingGood ==
  ASSUME Facts, NEW p, NEW B, NEW lv, Good(p, B, HeldOf(lv, p.globs)),
         Room(p.mem, p.vmem_mark, B, PageSize - 2)
  PROVE  \E N, r : Keeps(p, B, lv, vmem_mgmt_add_global_mapping(p), N, r)
<1> DEFINE one == IF p.globs = <<>> THEN KeptFor(p, ListSz) ELSE p
           r == PageSize - 2
           s == r - ListSz - 2
           t == s - MapSz - 2
<1>1. /\ ListSz \in Nat /\ MapSz \in Nat /\ NodeSz \in Nat
      /\ r \in Nat /\ s \in Nat /\ t \in Nat /\ s <= r
      /\ ListSz + 2 <= r /\ MapSz + 2 <= s /\ NodeSz + 2 <= t
  <2>1. ListSz \in Nat /\ MapSz \in Nat /\ NodeSz \in Nat
    BY SizesAssumption, Zenon
  <2>2. PageSize \in Nat /\ PageSize > ListSz + MapSz + NodeSz + 8
    BY PagesAssumption, Zenon
  <2>. QED BY <2>1, <2>2
<1>2. /\ p \in Heaps /\ Tiling(p.mem, 0, p.vmem_mark, B)
  BY Zenon DEF Good, Sane
<1>3. p.mem \in Mem
  BY <1>2, HeapFields, Zenon
<1>4. Room(p.mem, p.vmem_mark, B, r)
  BY Zenon
<1> HIDE DEF r, s, t
<1>5. \E N : Keeps(p, B, lv, KeptFor(p, ListSz), N, s)
  BY <1>1, <1>4, KeptGood, ZenonT(60) DEF s
<1>6. Keeps(p, B, lv, p, B, s)
  <2>1. Room(p.mem, p.vmem_mark, B, s)
    BY <1>1, <1>2, <1>3, <1>4, RoomLess
  <2>2. Follows(p.mem, p.mem, B, B)
    BY Zenon DEF Follows
  <2>. QED BY <2>1, <2>2, Zenon DEF Keeps
<1>7. PICK N : Keeps(p, B, lv, one, N, s)
  BY <1>5, <1>6, Zenon
<1>8. vmem_mgmt_add_global_mapping(p) = KeptFor(KeptFor(one, MapSz), NodeSz)
  BY Zenon DEF vmem_mgmt_add_global_mapping
<1> HIDE DEF one
<1>9. PICK M : Keeps(p, B, lv, KeptFor(one, MapSz), M, t)
  BY <1>1, <1>7, KeptOn, SMTT(20) DEF t
<1>10. \E L : Keeps(p, B, lv, KeptFor(KeptFor(one, MapSz), NodeSz), L, t - NodeSz - 2)
  BY <1>1, <1>9, KeptOn, SMTT(20)
<1>. QED BY <1>8, <1>10, Zenon
-----------------------------------------------------------------------------
(***************************************************************************)
(* The loop of heap_alloc.  O are blocks that are allocated when it        *)
(* begins: each stays a block, and an allocated one, unless it is the one  *)
(* that the loop has grown.                                                *)
(***************************************************************************)
Going == {"sound", "overgrown"}

Paged(q, at, O, lv, B) ==
  /\ Good(q, B, HeldOf(lv, q.globs)) /\ q.fate \in Going
  /\ at \in B /\ O \subseteq B
  /\ \A h \in O : q.mem[h].present = 1 \/ (h = at /\ After(q.mem, at) = q.vmem_mark)

States == [heap : Heaps, at : Nat, sz : Nat, i : Nat]

\* The block s.at is the last one, or was when the round began to add pages.
Ended(s, O) ==
  /\ (s.at + 2 + s.sz) + PageSize * s.i = s.heap.vmem_mark
  /\ s.heap.mem[s.at].present = 0 => After(s.heap.mem, s.at) = s.heap.vmem_mark
  /\ \A h \in O : h <= s.at

Found(s, n) == s.i = 0 /\ Fits(s.heap.mem, s.at, n)

Searching(s, n, O, lv, B) ==
  /\ s \in States
  /\ Good(s.heap, B, HeldOf(lv, s.heap.globs)) /\ s.heap.fate \in Going
  /\ s.at \in B /\ O \subseteq B
  /\ \A h \in O : s.heap.mem[h].present = 1 \/ h = s.at
  /\ Found(s, n) \/ Ended(s, O)

LEMMA SeekGood ==
  ASSUME Facts,
         NEW s \in States, s.i = 0, NEW O, NEW lv, NEW B, Paged(s.heap, s.at, O, lv, B), NEW n
  PROVE  /\ Searching(Seek(s, n), n, O, lv, B)
         /\ Seek(s, n).heap = s.heap /\ Seek(s, n).i = 0
<1> DEFINE p == s.heap
           m == p.mem
           mark == p.vmem_mark
           h == Scan(m, mark, s.at, n)
           t == Seek(s, n)
<1>1. /\ Good(p, B, HeldOf(lv, p.globs)) /\ p.fate \in Going /\ s.at \in B /\ O \subseteq B
      /\ \A g \in O : m[g].present = 1 \/ (g = s.at /\ After(m, s.at) = mark)
  BY Zenon DEF Paged
<1>2. p \in Heaps /\ Tiling(m, 0, mark, B)
  BY <1>1, Zenon DEF Good, Sane
<1>3. m \in Mem
  BY <1>2, HeapFields, Zenon
<1>4. h \in B /\ s.at <= h /\ (Fits(m, h, n) \/ After(m, h) = mark)
  BY <1>1, <1>2, <1>3, ScanEffect, ZenonT(60)
<1>5. /\ h \in Nat /\ m[h].sz \in Nat /\ s.at \in Nat
  <2>. HIDE DEF h, m, mark
  <2>1. h \in Nat /\ m[h].sz \in Nat
    BY <1>2, <1>3, <1>4, TilingFacts, ZenonT(60)
  <2>2. s.at \in Nat
    BY <1>1, <1>2, <1>3, TilingFacts, ZenonT(60)
  <2>. QED BY <2>1, <2>2, Zenon
<1>6. After(m, s.at) = mark => h = s.at
  <2>1. After(m, s.at) = mark => h <= s.at
    BY <1>1, <1>2, <1>3, <1>4, LastBlock, ZenonT(60)
  <2>. QED BY <1>4, <1>5, <2>1, SMTT(20)
<1>7. t = [s EXCEPT !.at = h, !.sz = m[h].sz]
  BY Zenon DEF Seek
<1> HIDE DEF h, t
<1>8. t \in States /\ t.heap = p /\ t.at = h /\ t.sz = m[h].sz /\ t.i = 0
  BY <1>5, <1>7, Zenon DEF States
<1>9. \A g \in O : m[g].present = 1 \/ g = h
  BY <1>1, <1>6, Zenon
<1>10. ASSUME ~Fits(m, h, n)
       PROVE  Ended(t, O)
  <2>1. After(m, h) = mark
    BY <1>4, <1>10, Zenon
  <2>2. \A g \in O : g <= h
    BY <1>1, <1>2, <1>3, <1>4, <2>1, LastBlock, ZenonT(60)
  <2>3. (t.at + 2 + t.sz) + PageSize * t.i = mark
    <3>1. PageSize * t.i = 0
      BY <1>8, PagesAssumption, SMTT(20)
    <3>2. t.at + 2 + t.sz = mark
      BY <1>8, <2>1, SMTT(20) DEF After
    <3>3. t.at \in Nat /\ t.sz \in Nat
      BY <1>5, <1>8, SMTT(20)
    <3>. QED BY <3>1, <3>2, <3>3
  <2>. QED BY <1>8, <2>1, <2>2, <2>3, ZenonT(60) DEF Ended
<1>11. Found(t, n) \/ Ended(t, O)
  BY <1>8, <1>10, ZenonT(60) DEF Found
<1>12. Searching(t, n, O, lv, B)
  BY <1>1, <1>4, <1>8, <1>9, <1>11, ZenonT(60) DEF Searching
<1>. QED BY <1>8, <1>12, Zenon DEF t

\* One more page.
PageDone(s, q, O, lv, N) ==
  /\ Paged(q, s.at, O, lv, N)
  /\ q.vmem_mark = s.heap.vmem_mark + PageSize
  /\ q.mem[s.at].present = 0 => After(q.mem, s.at) = q.vmem_mark

LEMMA PageGood ==
  ASSUME Facts,
         NEW s, NEW n, NEW O, NEW lv, NEW B, Searching(s, n, O, lv, B), Ended(s, O),
         s.heap.vmem_mark + PageSize <= Limit
  PROVE  \E N : PageDone(s, AddPage(s), O, lv, N)
<1> DEFINE p == s.heap
           m == p.mem
           mark == p.vmem_mark
           top == mark + PageSize
           at == s.at
           z == s.sz + PageSize * (s.i + 1)
           hb == HeldOf(lv, p.globs)
           t == [p EXCEPT !.vmem_mark = p.vmem_mark + PageSize,
                          !.mem = HEAP_BL_SET(p.mem, at, z, 0),
                          !.fate = IF p.mem[at].present = 1 THEN "overgrown" ELSE p.fate]
           q == AddPage(s)
           U == UpTo(B, at)
<1>1. /\ s \in States /\ Good(p, B, hb) /\ p.fate \in Going /\ at \in B /\ O \subseteq B
      /\ \A h \in O : m[h].present = 1 \/ h = at
  BY Zenon DEF Searching
<1>2. /\ (at + 2 + s.sz) + PageSize * s.i = mark
      /\ m[at].present = 0 => After(m, at) = mark
      /\ \A h \in O : h <= at
  BY Zenon DEF Ended
<1>3. p \in Heaps /\ Tiling(m, 0, mark, B)
  BY <1>1, Zenon DEF Good, Sane
<1>4. m \in Mem /\ mark \in Marks
  BY <1>3, HeapFields, Zenon
<1>5. /\ at \in Nat /\ mark \in Nat /\ at < mark
      /\ \A h \in O : h \in Nat
  <2>1. at \in Nat /\ mark \in Nat /\ at < mark
    BY <1>1, <1>3, <1>4, TilingFacts, ZenonT(60)
  <2>2. ASSUME NEW h \in O
        PROVE  h \in Nat
    <3>1. h \in B
      BY <1>1, Zenon
    <3>. HIDE DEF m, mark
    <3>. QED BY <1>3, <1>4, <3>1, TilingFacts, Zenon
  <2>. QED BY <2>1, <2>2, Zenon
<1>6. s.sz \in Nat /\ s.i \in Nat /\ PageSize \in Nat /\ PageSize > 2
  BY <1>1, PagesAssumption, SizesAssumption, SMTT(20) DEF States
<1>7. z = top - at - 2
  <2>1. PageSize * (s.i + 1) = PageSize * s.i + PageSize /\ PageSize * s.i \in Nat
    BY <1>6
  <2>. QED BY <1>2, <1>5, <1>6, <2>1, SMTT(20)
<1>8. q = vmem_mgmt_add_global_mapping(t)
  BY ZenonT(60) DEF AddPage
<1> HIDE DEF z
<1>9. Extended(p, t, B, at) /\ Good(t, U, hb)
  BY <1>1, <1>2, <1>7, ExtendGood, ZenonT(60)
<1> HIDE DEF t, q, U
<1>10. /\ t \in Heaps /\ Extends(m, t.mem, mark, top, B, at)
       /\ t.vmem_mark = top /\ t.globs = p.globs
       /\ t.fate = IF m[at].present = 1 THEN "overgrown" ELSE p.fate
  BY <1>9, Zenon DEF Extended
<1>11. t.mem[at].present = 0 /\ t.mem[at].sz = top - at - 2 /\ After(t.mem, at) = top
       /\ \A h \in Before(B, at) : t.mem[h] = m[h]
  BY <1>10, Zenon DEF Extends, Same
<1>12. at \in U /\ U = Before(B, at) \union {at}
  BY Zenon DEF U, UpTo
<1>13. Room(t.mem, t.vmem_mark, U, PageSize - 2)
  <2>1. t.mem[at].sz >= PageSize - 2
    BY <1>5, <1>6, <1>11, SMTT(20)
  <2>. QED BY <1>10, <1>11, <1>12, <2>1, ZenonT(60) DEF Room
<1>14. Good(t, U, HeldOf(lv, t.globs))
  BY <1>9, <1>10, ZenonT(60)
<1>15. PICK N, r : Keeps(t, U, lv, q, N, r)
  BY <1>8, <1>13, <1>14, MappingGood, ZenonT(60)
<1>16. /\ Good(q, N, HeldOf(lv, q.globs)) /\ U \subseteq N
       /\ \A h \in U : \/ q.mem[h].present = 1
                       \/ q.mem[h] = t.mem[h] /\ After(q.mem, h) = After(t.mem, h)
       /\ q.vmem_mark = top /\ q.fate = t.fate
  BY <1>10, <1>15, ZenonT(60) DEF Keeps, Follows
<1> HIDE DEF p, m, mark, top, at, hb
<1>17. q.mem[at].present = 0 => After(q.mem, at) = q.vmem_mark
  <2>1. 0 # 1
    OBVIOUS
  <2>. QED BY <1>11, <1>12, <1>16, <2>1, ZenonT(60)
<1>18. ASSUME NEW h \in O
       PROVE  /\ h \in U
              /\ q.mem[h].present = 1 \/ (h = at /\ After(q.mem, at) = q.vmem_mark)
  <2>1. h = at \/ h \in Before(B, at)
    <3>1. h = at \/ h < at
      BY <1>2, <1>5, SMTT(20)
    <3>. QED BY <1>1, <3>1, ZenonT(60) DEF Before
  <2>2. CASE h = at
    BY <1>11, <1>12, <1>16, <2>2, ZenonT(60)
  <2>3. CASE h # at
    <3>1. t.mem[h] = m[h] /\ m[h].present = 1 /\ h \in U
      BY <1>1, <1>11, <1>12, <2>1, <2>3, ZenonT(60)
    <3>. QED BY <1>16, <3>1, ZenonT(60)
  <2>. QED BY <2>2, <2>3, ZenonT(60)
<1>19. q.fate \in Going
  BY <1>1, <1>10, <1>16, ZenonT(60) DEF Going
<1>20. Paged(q, at, O, lv, N)
  BY <1>12, <1>16, <1>18, <1>19, ZenonT(60) DEF Paged
<1>21. PageDone(s, q, O, lv, N)
  BY <1>16, <1>17, <1>20, ZenonT(60) DEF PageDone, top, mark, p, at
<1>. QED BY <1>21, Zenon DEF q

\* One round of the loop that takes loop[k - 1] to loop[k].
NextRound(s, n, pcnt) ==
  LET t == [s EXCEPT !.heap = AddPage(s), !.i = (s.i + 1) % pcnt]
  IN  IF s.i = 0 /\ Fits(s.heap.mem, s.at, n) THEN s
      ELSE IF t.i = 0 THEN Seek(t, n) ELSE t

LEMMA ModNext ==
  ASSUME NEW k \in Nat \ {0}, NEW i \in 0 .. (k - 1)
  PROVE  (i + 1) % k = IF i + 1 = k THEN 0 ELSE i + 1
BY SMTT(30)

RoundDone(s, t, n, pcnt, O, lv, N) ==
  /\ Searching(t, n, O, lv, N) /\ t.i \in 0 .. (pcnt - 1)
  /\ t.heap.vmem_mark \in {s.heap.vmem_mark, s.heap.vmem_mark + PageSize}

LEMMA RoundGood ==
  ASSUME Facts, NEW s, NEW n, NEW O, NEW lv, NEW B, Searching(s, n, O, lv, B),
         NEW pcnt \in Nat \ {0}, s.i \in 0 .. (pcnt - 1), s.heap.vmem_mark + PageSize <= Limit
  PROVE  \E N : RoundDone(s, NextRound(s, n, pcnt), n, pcnt, O, lv, N)
<1> DEFINE q == AddPage(s)
           j == (s.i + 1) % pcnt
           t == [s EXCEPT !.heap = q, !.i = j]
           r == NextRound(s, n, pcnt)
<1>1. CASE Found(s, n)
  <2>1. r = s
    BY <1>1, Zenon DEF NextRound, Found
  <2>2. RoundDone(s, r, n, pcnt, O, lv, B)
    BY <2>1, Zenon DEF RoundDone
  <2>. QED BY <2>2, Zenon
<1>2. CASE ~Found(s, n)
  <2>1. s \in States /\ Ended(s, O)
    BY <1>2, Zenon DEF Searching
  <2>2. r = IF t.i = 0 THEN Seek(t, n) ELSE t
    BY <1>2, ZenonT(60) DEF NextRound, Found
  <2>3. PICK N : PageDone(s, q, O, lv, N)
    BY <2>1, PageGood, ZenonT(60)
  <2>4. /\ Paged(q, s.at, O, lv, N) /\ q.vmem_mark = s.heap.vmem_mark + PageSize
        /\ q.mem[s.at].present = 0 => After(q.mem, s.at) = q.vmem_mark
    BY <2>3, Zenon DEF PageDone
  <2>5. /\ Good(q, N, HeldOf(lv, q.globs)) /\ q.fate \in Going
        /\ s.at \in N /\ O \subseteq N
        /\ \A h \in O : q.mem[h].present = 1 \/ h = s.at
    BY <2>4, Zenon DEF Paged
  <2>6. q \in Heaps
    BY <2>5, Zenon DEF Good, Sane
  <2>7. j = IF s.i + 1 = pcnt THEN 0 ELSE s.i + 1
    BY ModNext, ZenonT(60)
  <2>8. j \in 0 .. (pcnt - 1) /\ j \in Nat
    BY <2>7, SMTT(20)
  <2>. HIDE DEF q, j
  <2>9. t \in States /\ t.heap = q /\ t.at = s.at /\ t.sz = s.sz /\ t.i = j
    BY <2>1, <2>6, <2>8, ZenonT(60) DEF States
  <2>. HIDE DEF t, r
  <2>10. CASE j = 0
    <3>1. Searching(Seek(t, n), n, O, lv, N) /\ Seek(t, n).heap = t.heap /\ Seek(t, n).i = 0
      BY <2>4, <2>9, <2>10, SeekGood
    <3>2. r = Seek(t, n)
      BY <2>2, <2>9, <2>10, ZenonT(60)
    <3>3. RoundDone(s, r, n, pcnt, O, lv, N)
      BY <2>4, <2>8, <2>9, <2>10, <3>1, <3>2, ZenonT(60) DEF RoundDone
    <3>. QED BY <3>3, Zenon DEF r
  <2>11. CASE j # 0
    <3>1. r = t
      BY <2>2, <2>9, <2>11, ZenonT(60)
    <3>2. Ended(t, O)
      <4>1. /\ (s.at + 2 + s.sz) + PageSize * s.i = s.heap.vmem_mark
            /\ \A h \in O : h <= s.at
        BY <2>1, Zenon DEF Ended
      <4>2. s.at \in Nat /\ s.sz \in Nat /\ s.i \in Nat /\ j = s.i + 1 /\ PageSize \in Nat
        BY <2>1, <2>7, <2>11, PagesAssumption, SMTT(20) DEF States
      <4>3. PageSize * j = PageSize * s.i + PageSize /\ PageSize * s.i \in Nat
        BY <4>2, SMTT(20)
      <4>4. (t.at + 2 + t.sz) + PageSize * t.i = q.vmem_mark
        BY <2>4, <2>9, <4>1, <4>2, <4>3, SMTT(20)
      <4>. QED BY <2>4, <2>9, <4>1, <4>4, ZenonT(60) DEF Ended
    <3>3. Searching(t, n, O, lv, N)
      BY <2>5, <2>9, <3>2, ZenonT(60) DEF Searching
    <3>4. RoundDone(s, r, n, pcnt, O, lv, N)
      BY <2>4, <2>8, <2>9, <3>1, <3>3, ZenonT(60) DEF RoundDone
    <3>. QED BY <3>4, Zenon DEF r
  <2>. QED BY <2>10, <2>11, ZenonT(60) DEF r
<1>. QED BY <1>1, <1>2, ZenonT(60)

LEMMA UpInduction ==
  ASSUME Facts,
         NEW n \in Nat, NEW T, 0 \in T, \A k \in 1 .. n : k - 1 \in T => k \in T
  PROVE  \A k \in 0 .. n : k \in T
<1> DEFINE D == {k \in 0 .. n : k \notin T}
<1>1. ASSUME D # {}
      PROVE  FALSE
  <2>1. D \subseteq Nat
    OBVIOUS
  <2>2. PICK m \in D : \A y \in D : m <= y
    <3>. HIDE DEF D
    <3>. QED BY <1>1, <2>1, LeastNat, ZenonT(60)
  <2>3. m \in 0 .. n /\ m \notin T
    BY Zenon
  <2>4. m # 0
    BY <2>3, Zenon
  <2>5. m \in 1 .. n /\ m - 1 \in 0 .. n /\ ~(m <= m - 1)
    BY <2>3, <2>4, SMTT(20)
  <2>6. m - 1 \in T
    BY <2>2, <2>5, Zenon
  <2>. QED BY <2>3, <2>5, <2>6, ZenonT(60)
<1>. QED BY <1>1, Zenon

\* The function loop of Rounds exists.
Loops(f, k, p, n, pcnt) ==
  f = [j \in 0 .. k |-> IF j = 0 THEN Seek([heap |-> p, at |-> 0, sz |-> 0, i |-> 0], n)
                        ELSE NextRound(f[j - 1], n, pcnt)]

LEMMA LoopExists ==
  ASSUME Facts, NEW room \in Nat, NEW p, NEW n, NEW pcnt
  PROVE  \E f : Loops(f, room, p, n, pcnt)
<1> DEFINE first == Seek([heap |-> p, at |-> 0, sz |-> 0, i |-> 0], n)
           T == {k \in 0 .. room : \E f : Loops(f, k, p, n, pcnt)}
<1>1. 0 \in T
  <2> DEFINE g == [j \in 0 .. 0 |-> first]
  <2>1. \A j \in 0 .. 0 : j = 0
    OBVIOUS
  <2>2. g = [j \in 0 .. 0 |-> IF j = 0 THEN first ELSE NextRound(g[j - 1], n, pcnt)]
    BY <2>1, Zenon
  <2>3. Loops(g, 0, p, n, pcnt)
    BY <2>2, Zenon DEF Loops
  <2>4. 0 \in 0 .. room
    OBVIOUS
  <2>. QED BY <2>3, <2>4, ZenonT(60)
<1>2. ASSUME NEW k \in 1 .. room, k - 1 \in T
      PROVE  k \in T
  <2>1. PICK f : Loops(f, k - 1, p, n, pcnt)
    BY <1>2, Zenon
  <2> DEFINE v(j) == IF j = 0 THEN first ELSE NextRound(f[j - 1], n, pcnt)
             g == [j \in 0 .. k |-> v(j)]
  <2>2. \A j \in 0 .. (k - 1) : f[j] = v(j)
    <3>. HIDE DEF first
    <3>1. f = [j \in 0 .. (k - 1) |-> v(j)]
      BY <2>1, Zenon DEF Loops, first
    <3>. QED BY <3>1, Zenon
  <2>3. \A j \in 0 .. k : g[j] = v(j)
    BY Zenon
  <2>4. \A j \in 0 .. k : j = 0 \/ (j - 1 \in 0 .. (k - 1) /\ j - 1 \in 0 .. k)
    OBVIOUS
  <2>. HIDE DEF g, first
  <2>5. ASSUME NEW j \in 0 .. k
        PROVE  v(j) = IF j = 0 THEN first ELSE NextRound(g[j - 1], n, pcnt)
    <3>1. CASE j = 0
      BY <3>1, ZenonT(60)
    <3>2. CASE j # 0
      <4>1. j - 1 \in 0 .. (k - 1) /\ j - 1 \in 0 .. k
        BY <2>4, <3>2, ZenonT(60)
      <4>2. g[j - 1] = f[j - 1]
        BY <2>2, <2>3, <4>1, ZenonT(60)
      <4>. QED BY <3>2, <4>2, ZenonT(60)
    <3>. QED BY <3>1, <3>2, ZenonT(60)
  <2>6. g = [j \in 0 .. k |-> IF j = 0 THEN first ELSE NextRound(g[j - 1], n, pcnt)]
    <3>1. g = [j \in 0 .. k |-> v(j)]
      BY Zenon DEF g
    <3>. QED BY <2>5, <3>1, Zenon
  <2>7. Loops(g, k, p, n, pcnt)
    BY <2>6, Zenon DEF Loops, first
  <2>8. k \in 0 .. room
    OBVIOUS
  <2>. QED BY <2>7, <2>8, Zenon
<1>3. room \in 0 .. room
  OBVIOUS
<1> HIDE DEF T
<1>4. room \in T
  BY <1>1, <1>2, <1>3, UpInduction, Zenon
<1>. QED BY <1>4, Zenon DEF T

LEMMA DivLemma ==
  ASSUME NEW k \in Nat \ {0}, NEW j \in Nat
  PROVE  (j * k) \div k = j /\ (j >= k => j \div k \in Nat \ {0})
BY SMTT(30)

LEMMA RoundsGood ==
  ASSUME Facts,
         NEW p, NEW B, NEW lv, Good(p, B, HeldOf(lv, p.globs)), p.fate \in Going,
         NEW n \in Nat \ {0}, NEW O, O \subseteq PresentOf(p.mem, B), NEW s \in Rounds(p, n)
  PROVE  \E N : Searching(s, n, O, lv, N)
<1> DEFINE pcnt == (n + PageSize - 1) \div PageSize
           room == MaxPages - p.vmem_mark \div PageSize
           begin == [heap |-> p, at |-> 0, sz |-> 0, i |-> 0]
           loop == CHOOSE f : Loops(f, room, p, n, pcnt)
           mark == p.vmem_mark
<1>1. p \in Heaps /\ Tiling(p.mem, 0, mark, B)
  BY Zenon DEF Good, Sane
<1>2. mark \in Marks
  BY <1>1, HeapFields, ZenonT(60)
<1>3. PageSize \in Nat \ {0} /\ MaxPages \in Nat
  BY PagesAssumption, SizesAssumption, SMTT(20)
<1>4. pcnt \in Nat \ {0}
  <2>1. n + PageSize - 1 \in Nat /\ n + PageSize - 1 >= PageSize
    BY <1>3, SMTT(20)
  <2>. QED BY <1>3, <2>1, DivLemma, SMTT(20)
<1>5. PICK j \in 1 .. MaxPages : mark = j * PageSize
  BY <1>2, ZenonT(60) DEF Marks
<1>6. room = MaxPages - j /\ room \in Nat
  <2>1. mark \div PageSize = j
    BY <1>3, <1>5, DivLemma, SMTT(20)
  <2>. QED BY <1>3, <2>1, SMTT(20)
<1>7. Rounds(p, n) = {loop[k] : k \in 0 .. room}
  BY Zenon DEF Rounds, Loops, NextRound
<1> HIDE DEF room, pcnt
<1>8. Loops(loop, room, p, n, pcnt)
  BY <1>6, LoopExists, ZenonT(60)
<1> HIDE DEF loop
<1>9. /\ \A k \in 0 .. room : loop[k] = IF k = 0 THEN Seek(begin, n)
                                        ELSE NextRound(loop[k - 1], n, pcnt)
  BY <1>8, ZenonT(60) DEF Loops
<1> DEFINE Fine(t, k) == /\ \E N : Searching(t, n, O, lv, N)
                         /\ t.i \in 0 .. (pcnt - 1)
                         /\ t.heap.vmem_mark \in Nat
                         /\ t.heap.vmem_mark <= (j + k) * PageSize
           T == {k \in 0 .. room : Fine(loop[k], k)}
<1>10. 0 \in T
  <2>1. begin \in States /\ begin.i = 0 /\ begin.heap = p /\ begin.at = 0
    BY <1>1, SMTT(20) DEF States
  <2>. HIDE DEF begin
  <2>2. 0 \in B
    <3>1. 0 < mark
      BY <1>2, MarkType, SMTT(20)
    <3>. QED BY <1>1, <3>1, ZenonT(60) DEF Tiling
  <2>3. Paged(p, 0, O, lv, B)
    BY <2>2, ZenonT(60) DEF Paged, PresentOf
  <2>4. Searching(Seek(begin, n), n, O, lv, B) /\ Seek(begin, n).heap = p /\ Seek(begin, n).i = 0
    BY <2>1, <2>3, SeekGood, SMTT(20)
  <2>5. 0 \in 0 .. room /\ 0 \in 0 .. (pcnt - 1) /\ mark \in Nat /\ mark <= (j + 0) * PageSize
    BY <1>3, <1>4, <1>5, <1>6, SMTT(20)
  <2>6. loop[0] = Seek(begin, n)
    BY <1>9, <2>5, Zenon
  <2>7. Fine(Seek(begin, n), 0)
    BY <2>4, <2>5, ZenonT(60)
  <2>. QED BY <2>5, <2>6, <2>7, ZenonT(60)
<1>11. ASSUME NEW k \in 1 .. room, k - 1 \in T
       PROVE  k \in T
  <2> DEFINE u == loop[k - 1]
             t == NextRound(u, n, pcnt)
  <2>1. Fine(u, k - 1)
    BY <1>11, Zenon
  <2>. HIDE DEF u
  <2>2. u.heap.vmem_mark \in Nat /\ u.heap.vmem_mark <= (j + (k - 1)) * PageSize
        /\ u.i \in 0 .. (pcnt - 1)
    BY <2>1, Zenon
  <2>3. (j + (k - 1)) * PageSize + PageSize = (j + k) * PageSize
    BY <1>3, SMTT(20)
  <2>4. (j + k) * PageSize <= MaxPages * PageSize
    BY <1>3, <1>6, SMTT(20)
  <2>5. /\ (j + (k - 1)) * PageSize \in Nat /\ (j + k) * PageSize \in Nat
        /\ MaxPages * PageSize \in Nat
    BY <1>3, SMTT(20)
  <2>6. u.heap.vmem_mark + PageSize <= Limit
    BY <1>3, <2>2, <2>3, <2>4, <2>5, SMTT(20) DEF Limit
  <2>7. PICK M : Searching(u, n, O, lv, M)
    BY <2>1, ZenonT(60)
  <2>8. PICK N : RoundDone(u, t, n, pcnt, O, lv, N)
    BY <1>4, <2>2, <2>6, <2>7, RoundGood, SMTT(20)
  <2>9. /\ Searching(t, n, O, lv, N) /\ t.i \in 0 .. (pcnt - 1)
        /\ t.heap.vmem_mark \in {u.heap.vmem_mark, u.heap.vmem_mark + PageSize}
    BY <2>8, Zenon DEF RoundDone
  <2>10. k \in 0 .. room /\ k # 0
    OBVIOUS
  <2>11. loop[k] = t
    BY <1>9, <2>10, ZenonT(60) DEF u
  <2>. HIDE DEF t
  <2>12. t.heap.vmem_mark \in Nat /\ t.heap.vmem_mark <= (j + k) * PageSize
    BY <1>3, <2>2, <2>3, <2>5, <2>9, SMTT(20)
  <2>13. Fine(t, k)
    BY <2>9, <2>12, ZenonT(60)
  <2>. QED BY <2>10, <2>11, <2>13, ZenonT(60)
<1> HIDE DEF T
<1>12. \A k \in 0 .. room : k \in T
  BY <1>6, <1>10, <1>11, UpInduction, ZenonT(60)
<1>13. PICK k \in 0 .. room : s = loop[k]
  BY <1>7, Zenon
<1>. QED BY <1>12, <1>13, Zenon DEF T
=============================================================================
