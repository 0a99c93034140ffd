----------------------------- MODULE ListLemmas -----------------------------
(***************************************************************************)
(* What the operations of list.c do to a list whose links form a chain,    *)
(* for any nodes, items and length.                                        *)
(***************************************************************************)
EXTENDS ListOps, SequenceTheorems, FiniteSetTheorems, WellFoundedInduction,
        TLAPS

(***************************************************************************)
(* The list l is the chain of the nodes at: no node twice, all allocated   *)
(* ones, in the order of the links, with the size and both ends right.     *)
(***************************************************************************)
Chain(l, at) ==
  /\ at \in Seq(Nodes)
  /\ \A i, j \in 1 .. Len(at) : at[i] = at[j] => i = j
  /\ \A i \in 1 .. Len(at) : at[i] \in l.live
  /\ \A n \in l.live : \E i \in 1 .. Len(at) : at[i] = n
  /\ l.size = Len(at)
  /\ l.head = IF Len(at) = 0 THEN NULL ELSE at[1]
  /\ l.tail = IF Len(at) = 0 THEN NULL ELSE at[Len(at)]
  /\ \A i \in 1 .. Len(at) :
       l.next[at[i]] = IF i = Len(at) THEN NULL ELSE at[i + 1]
-----------------------------------------------------------------------------
(***************************************************************************)
(* A nonempty set of naturals has a least element.                         *)
(***************************************************************************)
LEMMA LeastNat ==
  ASSUME NEW T, T \subseteq Nat, T # {}
  PROVE  \E x \in T : \A y \in T : x <= y
<1>1. PICK x \in T : \A y \in T : ~(<<y, x>> \in OpToRel(<, Nat))
  BY WFMin, NatLessThanWellFounded, Zenon
<1>2. \A y \in T : ~(y < x)
  BY <1>1, Zenon DEF OpToRel
<1>. QED BY <1>2

\* A chain has no more nodes than there are.
LEMMA ChainLength ==
  ASSUME NEW l, NEW at, Chain(l, at)
  PROVE  /\ Len(at) \in Nat /\ Cardinality(Nodes) \in Nat
         /\ Len(at) <= Cardinality(Nodes)
<1>1. at \in [1 .. Len(at) -> Nodes] /\ Len(at) \in Nat
  BY LenProperties, SMTT(20) DEF Chain
<1>2. at \in Injection(1 .. Len(at), Nodes)
  BY <1>1, Zenon DEF Injection, IsInjective, Chain
<1>3. /\ Cardinality(1 .. Len(at)) <= Cardinality(Nodes)
      /\ Cardinality(Nodes) \in Nat
  BY <1>2, FS_Injection, FS_CardinalityType, NodesAssumption
<1>4. Cardinality(1 .. Len(at)) = Len(at)
  <2>1. 1 \in Int /\ Len(at) \in Int
    BY <1>1
  <2>2. Cardinality(1 .. Len(at)) = IF 1 > Len(at) THEN 0 ELSE Len(at) - 1 + 1
    BY <2>1, FS_Interval, Zenon
  <2>. QED BY <1>1, <2>2
<1>. QED BY <1>1, <1>3, <1>4

(***************************************************************************)
(* An iteration visits the nodes of the chain, in order (list.h:83).       *)
(***************************************************************************)
LEMMA VisitedChain ==
  ASSUME NEW l, NEW at, Chain(l, at)
  PROVE  Visited(l) = at
<1> DEFINE N == Cardinality(Nodes)
           D(f) == [k \in 1 .. N |->
                      IF k = 1 THEN l.head
                      ELSE IF f[k - 1] = NULL THEN NULL ELSE l.next[f[k - 1]]]
           g == [k \in 1 .. N |-> IF k <= Len(at) THEN at[k] ELSE NULL]
           f == CHOOSE h : h = D(h)
<1>1. Len(at) \in Nat /\ N \in Nat /\ Len(at) <= N
  BY ChainLength
<1>2. /\ at \in [1 .. Len(at) -> Nodes]
      /\ \A i \in 1 .. Len(at) : at[i] # NULL
  BY LenProperties, NodesAssumption DEF Chain
<1> HIDE DEF N
<1>3. g = D(g)
  <2>1. ASSUME NEW k \in 1 .. N
        PROVE  g[k] = D(g)[k]
    <3>1. CASE k = 1
      BY <1>1, <3>1 DEF Chain
    <3>2. CASE k # 1 /\ k - 1 <= Len(at)
      <4>1. /\ k - 1 \in 1 .. Len(at) /\ g[k - 1] = at[k - 1]
            /\ at[k - 1] # NULL
        BY <1>1, <1>2, <3>2
      <4>2. l.next[at[k - 1]] = IF k - 1 = Len(at) THEN NULL ELSE at[k]
        BY <4>1 DEF Chain
      <4>. QED BY <1>1, <3>2, <4>1, <4>2
    <3>3. CASE k # 1 /\ ~(k - 1 <= Len(at))
      BY <1>1, <3>3, SMTT(20)
    <3>. QED BY <3>1, <3>2, <3>3
  <2>. QED BY <2>1
<1>4. f = D(f)
  BY <1>3, Zenon
<1> HIDE DEF f
<1>5. \A k \in 1 .. N : f[k] = g[k]
  <2> DEFINE T == {k \in 1 .. N : f[k] # g[k]}
  <2> SUFFICES ASSUME T # {}
               PROVE  FALSE
    OBVIOUS
  <2>1. T \subseteq Nat
    BY <1>1
  <2>2. PICK x \in T : \A y \in T : x <= y
    <3>. HIDE DEF T
    <3>. QED BY <2>1, LeastNat, Zenon
  <2>3. x # 1
    BY <1>3, <1>4, Zenon
  <2>4. x - 1 \in 1 .. N /\ f[x - 1] = g[x - 1]
    BY <1>1, <2>2, <2>3
  <2>5. f[x] = D(f)[x] /\ g[x] = D(g)[x]
    BY <1>3, <1>4, Zenon
  <2>6. D(f)[x] = D(g)[x]
    BY <2>3, <2>4
  <2>. QED BY <2>5, <2>6
<1>6. DOMAIN f = 1 .. N
  BY <1>4
<1>7. {k \in DOMAIN f : f[k] # NULL} = 1 .. Len(at)
  BY <1>1, <1>2, <1>5, <1>6
<1>8. \A k \in 1 .. Len(at) : f[k] = at[k]
  BY <1>1, <1>5
<1>9. [k \in 1 .. Len(at) |-> f[k]] = at
  BY <1>2, <1>8
<1>10. Visited(l) = [k \in {k \in DOMAIN f : f[k] # NULL} |-> f[k]]
  BY Zenon DEF Visited, RestrictValues, Restrict, f, N
<1>. QED BY <1>7, <1>9, <1>10
-----------------------------------------------------------------------------
\* What InsertAt of SequencesExt returns.
LEMMA InsertAtProperties ==
  ASSUME NEW S, NEW q \in Seq(S), NEW k \in 1 .. Len(q) + 1, NEW e \in S
  PROVE  /\ InsertAt(q, k, e) \in Seq(S)
         /\ Len(InsertAt(q, k, e)) = Len(q) + 1
         /\ \A i \in 1 .. Len(q) + 1 :
              InsertAt(q, k, e)[i] = IF i < k THEN q[i]
                                     ELSE IF i = k THEN e ELSE q[i - 1]
<1> DEFINE a == SubSeq(q, 1, k - 1)
           b == SubSeq(q, k, Len(q))
<1>0. Len(q) \in Nat /\ \A i \in 1 .. Len(q) : q[i] \in S
  BY LenProperties, ElementOfSeq
<1>1. /\ a \in Seq(S) /\ Len(a) = k - 1
      /\ \A i \in 1 .. k - 1 : a[i] = q[i]
  <2>1. \A i \in 1 .. k - 1 : q[i] \in S
    BY <1>0
  <2>2. k - 1 \in Int
    BY <1>0
  <2>. QED BY <1>0, <2>1, <2>2, SubSeqProperties
<1>2. /\ b \in Seq(S) /\ Len(b) = Len(q) - k + 1
      /\ \A i \in 1 .. Len(q) - k + 1 : b[i] = q[k + i - 1]
  <2>1. \A i \in k .. Len(q) : q[i] \in S
    BY <1>0
  <2>2. k \in Int /\ Len(q) \in Int
    BY <1>0
  <2>. QED BY <1>0, <2>1, <2>2, SubSeqProperties
<1>3. <<e>> \in Seq(S) /\ Len(<<e>>) = 1 /\ <<e>>[1] = e
  OBVIOUS
<1> DEFINE c == a \o <<e>>
           d == c \o b
<1> HIDE DEF a, b
<1>4. /\ c \in Seq(S) /\ Len(c) = k
      /\ \A i \in 1 .. k : c[i] = IF i <= k - 1 THEN q[i] ELSE e
  <2>1. /\ c \in Seq(S) /\ Len(c) = Len(a) + Len(<<e>>)
        /\ \A i \in 1 .. Len(a) + Len(<<e>>) :
             c[i] = IF i <= Len(a) THEN a[i] ELSE <<e>>[i - Len(a)]
    BY <1>1, <1>3, ConcatProperties, Zenon
  <2>. HIDE DEF c
  <2>. QED BY <1>0, <1>1, <1>3, <2>1
<1> HIDE DEF c
<1>5. /\ d \in Seq(S) /\ Len(d) = Len(c) + Len(b)
      /\ \A i \in 1 .. Len(c) + Len(b) :
           d[i] = IF i <= Len(c) THEN c[i] ELSE b[i - Len(c)]
  BY <1>2, <1>4, ConcatProperties, Zenon
<1> HIDE DEF d
<1>6. ASSUME NEW i \in 1 .. Len(q) + 1
      PROVE  d[i] = IF i < k THEN q[i] ELSE IF i = k THEN e ELSE q[i - 1]
  <2>1. CASE i <= k
    BY <1>0, <1>2, <1>4, <1>5, <2>1
  <2>2. CASE i > k
    <3>1. d[i] = b[i - k]
      BY <1>0, <1>2, <1>4, <1>5, <2>2
    <3>2. i - k \in 1 .. Len(q) - k + 1 /\ k + (i - k) - 1 = i - 1
      BY <1>0, <2>2
    <3>. QED BY <1>2, <2>2, <3>1, <3>2
  <2>. QED BY <1>0, <2>1, <2>2
<1>7. InsertAt(q, k, e) = d
  BY DEF InsertAt, a, b, c, d
<1>. QED BY <1>0, <1>2, <1>4, <1>5, <1>6, <1>7

(***************************************************************************)
(* list_insert behind a node of the chain puts the new node there,         *)
(* whether or not that node is the tail (list.c:39-69).                    *)
(***************************************************************************)
LEMMA InsertChain ==
  ASSUME NEW l \in Lists, NEW at, Chain(l, at), NEW k \in 1 .. Len(at),
         NEW item \in Items, NEW new \in Nodes \ l.live
  PROVE  LET after == list_insert(l, at[k], item, new)
         IN  /\ after \in Lists
             /\ Chain(after, InsertAt(at, k + 1, new))
             /\ after.data = [l.data EXCEPT ![new] = item]
<1> DEFINE after == list_insert(l, at[k], item, new)
           to == InsertAt(at, k + 1, new)
<1>0. /\ Len(at) \in Nat /\ \A i \in 1 .. Len(at) : at[i] \in Nodes
      /\ \A i \in 1 .. Len(at) : at[i] # new /\ at[i] # NULL
      /\ new \in Nodes /\ new # NULL
  BY LenProperties, ElementOfSeq, NodesAssumption DEF Chain
<1>1. /\ to \in Seq(Nodes) /\ Len(to) = Len(at) + 1
      /\ \A i \in 1 .. Len(at) + 1 :
           to[i] = IF i < k + 1 THEN at[i] ELSE IF i = k + 1 THEN new ELSE at[i - 1]
  <2>1. k + 1 \in 1 .. Len(at) + 1 /\ at \in Seq(Nodes) /\ new \in Nodes
    BY <1>0 DEF Chain
  <2> DEFINE p == k + 1
  <2>2. p \in 1 .. Len(at) + 1
    BY <2>1
  <2>. HIDE DEF p
  <2>3. InsertAt(at, p, new) \in Seq(Nodes)
    BY <2>1, <2>2, InsertAtProperties
  <2>4. Len(InsertAt(at, p, new)) = Len(at) + 1
    BY <2>1, <2>2, InsertAtProperties
  <2>5. \A i \in 1 .. Len(at) + 1 :
          InsertAt(at, p, new)[i] = IF i < p THEN at[i]
                                    ELSE IF i = p THEN new ELSE at[i - 1]
    BY <2>1, <2>2, InsertAtProperties
  <2>. QED BY <2>3, <2>4, <2>5 DEF p
<1>2. /\ after.live = l.live \union {new} /\ after.size = l.size + 1
      /\ after.head = l.head
      /\ after.tail = IF l.tail = at[k] THEN new ELSE l.tail
      /\ after.data = [l.data EXCEPT ![new] = item]
  BY <1>0 DEF list_insert, Lists
<1>2a. after \in Lists
  <2>0. at[k] \in Nodes /\ item \in Items
    BY <1>0
  <2>1. /\ l.next \in [Nodes -> Nodes \union {NULL}]
        /\ l.data \in [Nodes -> Items \union {NULL}]
        /\ l.live \subseteq Nodes /\ l.size \in Nat
        /\ l.head \in Nodes \union {NULL} /\ l.tail \in Nodes \union {NULL}
    BY DEF Lists
  <2>2. after.next \in [Nodes -> Nodes \union {NULL}]
    BY <1>0, <2>0, <2>1 DEF list_insert
  <2>3. after.data \in [Nodes -> Items \union {NULL}]
    BY <1>2, <2>0, <2>1
  <2>4. after = [head |-> after.head, tail |-> after.tail, size |-> after.size,
                 next |-> after.next, data |-> after.data, live |-> after.live]
    BY <1>0, Zenon DEF list_insert, Lists
  <2>. HIDE DEF after
  <2>. QED BY <1>0, <1>2, <2>1, <2>2, <2>3, <2>4 DEF Lists
<1>3. ASSUME NEW n \in Nodes
      PROVE  after.next[n] = IF n = at[k] THEN new
                             ELSE IF n # new THEN l.next[n]
                             ELSE IF l.tail = at[k] THEN NULL ELSE l.next[at[k]]
  BY <1>0 DEF list_insert, Lists
<1> HIDE DEF after, to
<1>4. l.tail = at[k] <=> k = Len(at)
  BY <1>0 DEF Chain
<1>5. \A i, j \in 1 .. Len(to) : to[i] = to[j] => i = j
  <2> SUFFICES ASSUME NEW i \in 1 .. Len(to), NEW j \in 1 .. Len(to), to[i] = to[j]
               PROVE  i = j
    OBVIOUS
  <2> DEFINE Old(n) == IF n < k + 1 THEN n ELSE n - 1
  <2>1. \A n \in 1 .. Len(to) : n # k + 1 =>
          Old(n) \in 1 .. Len(at) /\ to[n] = at[Old(n)] /\ to[n] # new
    BY <1>0, <1>1
  <2>2. to[k + 1] = new
    BY <1>0, <1>1
  <2>3. CASE i = k + 1 \/ j = k + 1
    BY <2>1, <2>2, <2>3
  <2>4. CASE i # k + 1 /\ j # k + 1
    <3>0. \A x, y \in 1 .. Len(at) : at[x] = at[y] => x = y
      BY DEF Chain
    <3>1. Old(i) = Old(j)
      <4>1. /\ Old(i) \in 1 .. Len(at) /\ Old(j) \in 1 .. Len(at)
            /\ at[Old(i)] = at[Old(j)]
        BY <2>1, <2>4
      <4>. HIDE DEF Old
      <4>. QED BY <3>0, <4>1
    <3>. QED BY <1>0, <1>1, <2>4, <3>1
  <2>. QED BY <2>3, <2>4
<1>6. ASSUME NEW i \in 1 .. Len(to)
      PROVE  to[i] \in after.live
  <2>1. \A j \in 1 .. Len(at) : at[j] \in l.live
    BY DEF Chain
  <2>2. CASE i < k + 1
    BY <1>0, <1>1, <1>2, <2>1, <2>2
  <2>3. CASE i = k + 1
    BY <1>0, <1>1, <1>2, <2>3
  <2>4. CASE i > k + 1
    <3>1. i - 1 \in 1 .. Len(at) /\ to[i] = at[i - 1]
      BY <1>0, <1>1, <2>4
    <3>. QED BY <1>2, <2>1, <3>1
  <2>. QED BY <1>0, <1>1, <2>2, <2>3, <2>4
<1>7. ASSUME NEW n \in after.live
      PROVE  \E i \in 1 .. Len(to) : to[i] = n
  <2>1. CASE n = new
    <3>1. k + 1 \in 1 .. Len(to) /\ to[k + 1] = n
      BY <1>0, <1>1, <2>1
    <3>. QED BY <3>1
  <2>2. CASE n \in l.live
    <3>1. PICK i \in 1 .. Len(at) : at[i] = n
      BY <2>2 DEF Chain
    <3>2. CASE i < k + 1
      <4>1. i \in 1 .. Len(to) /\ to[i] = n
        BY <1>0, <1>1, <3>1, <3>2
      <4>. QED BY <4>1
    <3>3. CASE ~(i < k + 1)
      <4>1. i + 1 \in 1 .. Len(to) /\ to[i + 1] = n
        BY <1>0, <1>1, <3>1, <3>3
      <4>. QED BY <4>1
    <3>. QED BY <3>2, <3>3
  <2>. QED BY <1>2, <2>1, <2>2
<1>8. ASSUME NEW i \in 1 .. Len(to)
      PROVE  after.next[to[i]] = IF i = Len(to) THEN NULL ELSE to[i + 1]
  <2>1. CASE i < k
    <3>1. to[i] = at[i] /\ to[i + 1] = at[i + 1] /\ i \in 1 .. Len(at) /\ i # Len(at)
      BY <1>0, <1>1, <2>1
    <3>2. at[i] # at[k] /\ at[i] # new /\ at[i] \in Nodes
      <4>1. at[i] = at[k] => i = k
        BY <3>1 DEF Chain
      <4>. QED BY <1>0, <2>1, <3>1, <4>1
    <3>3. l.next[at[i]] = at[i + 1]
      BY <3>1 DEF Chain
    <3>. QED BY <1>0, <1>1, <1>3, <2>1, <3>1, <3>2, <3>3
  <2>2. CASE i = k
    <3>1. to[i] = at[k] /\ to[i + 1] = new /\ at[k] \in Nodes
      BY <1>0, <1>1, <2>2
    <3>. QED BY <1>0, <1>1, <1>3, <2>2, <3>1
  <2>3. CASE i = k + 1
    <3>1. to[i] = new /\ (k # Len(at) => to[i + 1] = at[k + 1])
      BY <1>0, <1>1, <2>3
    <3>2. after.next[new] = IF k = Len(at) THEN NULL ELSE l.next[at[k]]
      BY <1>0, <1>3, <1>4
    <3>3. k # Len(at) => l.next[at[k]] = at[k + 1]
      BY DEF Chain
    <3>. QED BY <1>0, <1>1, <2>3, <3>1, <3>2, <3>3
  <2>4. CASE i > k + 1
    <3>1. i - 1 \in 1 .. Len(at) /\ i - 1 # k /\ to[i] = at[i - 1]
      BY <1>0, <1>1, <2>4
    <3>2. at[i - 1] # at[k] /\ at[i - 1] # new /\ at[i - 1] \in Nodes
      BY <1>0, <3>1 DEF Chain
    <3>3. l.next[at[i - 1]] = IF i - 1 = Len(at) THEN NULL ELSE at[(i - 1) + 1]
      BY <3>1, SMTT(20) DEF Chain
    <3>4. i # Len(to) => to[i + 1] = at[i]
      <4>1. i # Len(to) => i + 1 \in 1 .. Len(at) + 1 /\ (i + 1) - 1 = i
        <5>1. Len(at) \in Nat /\ Len(to) = Len(at) + 1
          BY <1>0, <1>1
        <5>. QED BY <5>1
      <4>. QED BY <1>0, <1>1, <2>4, <4>1
    <3>. QED BY <1>0, <1>1, <1>3, <2>4, <3>1, <3>2, <3>3, <3>4
  <2>. QED BY <1>0, <1>1, <2>1, <2>2, <2>3, <2>4
<1>9. /\ after.size = Len(to)
      /\ after.head = IF Len(to) = 0 THEN NULL ELSE to[1]
      /\ after.tail = IF Len(to) = 0 THEN NULL ELSE to[Len(to)]
  <2>1. to[1] = at[1] /\ to[Len(to)] = IF k = Len(at) THEN new ELSE at[Len(at)]
    <3>1. /\ 1 \in 1 .. Len(at) + 1 /\ Len(at) + 1 \in 1 .. Len(at) + 1
          /\ 1 < k + 1 /\ ~(Len(at) + 1 < k + 1)
          /\ Len(at) + 1 = k + 1 <=> k = Len(at)
          /\ (Len(at) + 1) - 1 = Len(at) /\ Len(to) = Len(at) + 1
      <4>1. Len(at) \in Nat /\ Len(to) = Len(at) + 1
        BY <1>0, <1>1, SMTT(20)
      <4>. QED BY <4>1
    <3>2. to[1] = at[1]
      BY <1>1, <3>1, Zenon
    <3>. QED BY <1>1, <3>1, <3>2
  <2>. QED BY <1>0, <1>1, <1>2, <1>4, <2>1 DEF Chain
<1>10. Chain(after, to)
  BY <1>1, <1>5, <1>6, <1>7, <1>8, <1>9 DEF Chain
<1>. QED BY <1>2, <1>2a, <1>10 DEF after, to

\* The items of a chain.
LEMMA ContentsChain ==
  ASSUME NEW l, NEW at, Chain(l, at)
  PROVE  Contents(l) = [i \in 1 .. Len(at) |-> l.data[at[i]]]
<1>1. Visited(l) = at
  BY VisitedChain
<1>2. DOMAIN at = 1 .. Len(at)
  BY LenProperties DEF Chain
<1>. QED BY <1>1, <1>2 DEF Contents

(***************************************************************************)
(* list_add appends: behind the tail, or as head and tail of an empty list *)
(* (list.c:31-37).                                                         *)
(***************************************************************************)
LEMMA AddChain ==
  ASSUME NEW l \in Lists, NEW at, Chain(l, at),
         NEW item \in Items, NEW new \in Nodes \ l.live
  PROVE  LET after == list_add(l, item, new)
         IN  /\ after \in Lists
             /\ Chain(after, InsertAt(at, Len(at) + 1, new))
             /\ after.data = [l.data EXCEPT ![new] = item]
<1>0. /\ Len(at) \in Nat /\ at \in Seq(Nodes)
      /\ new \in Nodes /\ new # NULL
  BY LenProperties, NodesAssumption DEF Chain
<1>1. CASE Len(at) # 0
  <2>1. Len(at) \in 1 .. Len(at) /\ l.tail = at[Len(at)]
    BY <1>0, <1>1 DEF Chain
  <2>. QED BY <2>1, InsertChain DEF list_add
<1>2. CASE Len(at) = 0
  <2> DEFINE after == list_insert(l, NULL, item, new)
             to == InsertAt(at, 1, new)
  <2>1. l.head = NULL /\ l.tail = NULL /\ l.size = 0 /\ l.live = {}
    BY <1>0, <1>2 DEF Chain
  <2>2. 1 \in 1 .. Len(at) + 1
    BY <1>2
  <2>3. to \in Seq(Nodes)
    BY <1>0, <2>2, InsertAtProperties
  <2>4. Len(to) = Len(at) + 1
    BY <1>0, <2>2, InsertAtProperties
  <2>5. \A i \in 1 .. Len(at) + 1 :
          to[i] = IF i < 1 THEN at[i] ELSE IF i = 1 THEN new ELSE at[i - 1]
    BY <1>0, <2>2, InsertAtProperties
  <2>6. Len(to) = 1 /\ to[1] = new
    <3>. HIDE DEF to
    <3>. QED BY <1>2, <2>4, <2>5
  <2>7. /\ after.live = l.live \union {new} /\ after.size = l.size + 1
        /\ after.head = new /\ after.tail = new
        /\ after.data = [l.data EXCEPT ![new] = item]
        /\ after.next = [l.next EXCEPT ![new] = NULL]
    BY <1>0, <2>1 DEF list_insert, Lists
  <2>8. after \in Lists
    <3>1. /\ l.next \in [Nodes -> Nodes \union {NULL}]
          /\ l.data \in [Nodes -> Items \union {NULL}]
      BY DEF Lists
    <3>2. after = [head |-> after.head, tail |-> after.tail, size |-> after.size,
                   next |-> after.next, data |-> after.data, live |-> after.live]
      BY <1>0, Zenon DEF list_insert, Lists
    <3>. HIDE DEF after
    <3>3. /\ after.next \in [Nodes -> Nodes \union {NULL}]
          /\ after.data \in [Nodes -> Items \union {NULL}]
      BY <1>0, <2>7, <3>1
    <3>. QED BY <1>0, <2>1, <2>7, <3>2, <3>3 DEF Lists
  <2>9. after.next[new] = NULL
    BY <1>0, <2>7 DEF Lists
  <2>. HIDE DEF after, to
  <2>10. Chain(after, to)
    BY <1>0, <2>1, <2>3, <2>6, <2>7, <2>9 DEF Chain
  <2>. QED BY <1>2, <2>1, <2>7, <2>8, <2>10 DEF after, to, list_add
<1>. QED BY <1>1, <1>2
-----------------------------------------------------------------------------
\* What RemoveAt of SequencesExt returns.
LEMMA RemoveAtProperties ==
  ASSUME NEW S, NEW q \in Seq(S), NEW k \in 1 .. Len(q)
  PROVE  /\ RemoveAt(q, k) \in Seq(S)
         /\ Len(RemoveAt(q, k)) = Len(q) - 1
         /\ \A i \in 1 .. Len(q) - 1 :
              RemoveAt(q, k)[i] = IF i < k THEN q[i] ELSE q[i + 1]
<1> DEFINE a == SubSeq(q, 1, k - 1)
           b == SubSeq(q, k + 1, Len(q))
<1>1. Len(q) \in Nat /\ \A i \in 1 .. Len(q) : q[i] \in S
  BY LenProperties, ElementOfSeq
<1>2. /\ a \in Seq(S)
      /\ Len(a) = k - 1
      /\ \A i \in 1 .. k - 1 : a[i] = q[i]
  <2>1. \A i \in 1 .. k - 1 : q[i] \in S
    BY <1>1
  <2>2. k - 1 \in Int
    BY <1>1
  <2>. QED BY <1>1, <2>1, <2>2, SubSeqProperties
<1>3. /\ b \in Seq(S)
      /\ Len(b) = Len(q) - k
      /\ \A i \in 1 .. Len(q) - k : b[i] = q[k + i]
  <2>1. \A i \in k + 1 .. Len(q) : q[i] \in S
    BY <1>1
  <2>2. k + 1 \in Int /\ Len(q) \in Int
    BY <1>1
  <2>. QED BY <1>1, <2>1, <2>2, SubSeqProperties
<1>4. RemoveAt(q, k) = a \o b
  BY DEF RemoveAt
<1> HIDE DEF a, b
<1>5. /\ a \o b \in Seq(S)
      /\ Len(a \o b) = Len(a) + Len(b)
      /\ \A i \in 1 .. Len(a) + Len(b) :
           (a \o b)[i] = IF i <= Len(a) THEN a[i] ELSE b[i - Len(a)]
  BY <1>2, <1>3, ConcatProperties, Zenon
<1>6. Len(a) + Len(b) = Len(q) - 1
  BY <1>1, <1>2, <1>3
<1>7. ASSUME NEW i \in 1 .. Len(q) - 1
      PROVE  (a \o b)[i] = IF i < k THEN q[i] ELSE q[i + 1]
  <2>1. CASE i < k
    BY <1>1, <1>2, <1>5, <1>6, <2>1
  <2>2. CASE ~(i < k)
    <3>1. (a \o b)[i] = b[i - (k - 1)]
      BY <1>1, <1>2, <1>5, <1>6, <2>2
    <3>2. i - (k - 1) \in 1 .. Len(q) - k /\ k + (i - (k - 1)) = i + 1
      BY <1>1, <2>2
    <3>. QED BY <1>3, <2>2, <3>1, <3>2
  <2>. QED BY <2>1, <2>2, Zenon
<1>. QED BY <1>4, <1>5, <1>6, <1>7

\* list_remove does nothing but warn if no node holds the item.
LEMMA RemoveNone ==
  ASSUME NEW l, NEW at, Chain(l, at), NEW item,
         \A j \in 1 .. Len(at) : l.data[at[j]] # item
  PROVE  list_remove(l, item) = l
<1>1. Visited(l) = at /\ DOMAIN at = 1 .. Len(at)
  BY VisitedChain, LenProperties DEF Chain
<1>. QED BY <1>1, Zenon DEF list_remove

\* What list_remove assigns when it unlinks the i-th node (list.c:78-107).
WithoutNode(l, at, i) ==
  LET head == IF i = 1 THEN l.next[at[i]] ELSE l.head
  IN  [l EXCEPT !.head = head,
                !.next = IF i = 1 THEN @
                         ELSE [@ EXCEPT ![at[i - 1]] = l.next[at[i]]],
                !.tail = IF @ # at[i] THEN @
                         ELSE IF i = 1 THEN head ELSE at[i - 1],
                !.live = @ \ {at[i]},
                !.size = @ - 1]

\* list_remove unlinks the first node that holds the item.
LEMMA RemoveUnlinks ==
  ASSUME NEW l, NEW at, Chain(l, at), NEW item, NEW i \in 1 .. Len(at),
         l.data[at[i]] = item, \A j \in 1 .. (i - 1) : l.data[at[j]] # item
  PROVE  list_remove(l, item) = WithoutNode(l, at, i)
<1> DEFINE v == Visited(l)
           Hit(j) == l.data[v[j]] = item
           First(j) == Hit(j) /\ \A k \in 1 .. (j - 1) : ~Hit(k)
           c == CHOOSE j \in DOMAIN v : First(j)
<1>1. v = at /\ DOMAIN v = 1 .. Len(at) /\ Len(at) \in Nat
  BY VisitedChain, LenProperties DEF Chain
<1>2. list_remove(l, item) = IF ~\E j \in DOMAIN v : Hit(j) THEN l
                             ELSE WithoutNode(l, v, c)
  BY Zenon DEF list_remove, WithoutNode
<1> HIDE DEF v
<1>3. i \in DOMAIN v /\ First(i) /\ Hit(i)
  BY <1>1
<1>4. c \in DOMAIN v /\ First(c)
  BY <1>3, Zenon
<1>5. c = i
  <2>. HIDE DEF c
  <2>1. ~(c < i) /\ ~(i < c)
    BY <1>1, <1>3, <1>4
  <2>. QED BY <1>1, <1>4, <2>1
<1> HIDE DEF c
<1>. QED BY <1>1, <1>2, <1>3, <1>5, Zenon

(***************************************************************************)
(* list_remove takes the first node with the item out of the chain and     *)
(* leaves the others in order, be it the head, the tail, both or neither.  *)
(***************************************************************************)
LEMMA RemoveChain ==
  ASSUME NEW l \in Lists, NEW at, Chain(l, at), NEW item, NEW i \in 1 .. Len(at),
         l.data[at[i]] = item, \A j \in 1 .. (i - 1) : l.data[at[j]] # item
  PROVE  LET after == list_remove(l, item)
         IN  /\ after \in Lists
             /\ Chain(after, RemoveAt(at, i))
             /\ after.data = l.data
<1> DEFINE after == list_remove(l, item)
           to == RemoveAt(at, i)
           head == IF i = 1 THEN l.next[at[i]] ELSE l.head
<1>0. /\ Len(at) \in Nat /\ Len(at) >= 1
      /\ \A j \in 1 .. Len(at) : at[j] \in Nodes /\ at[j] # NULL
  BY LenProperties, ElementOfSeq, NodesAssumption DEF Chain
<1>1. /\ to \in Seq(Nodes) /\ Len(to) = Len(at) - 1
      /\ \A j \in 1 .. Len(at) - 1 : to[j] = IF j < i THEN at[j] ELSE at[j + 1]
  <2>1. at \in Seq(Nodes)
    BY DEF Chain
  <2>2. to \in Seq(Nodes)
    BY <2>1, RemoveAtProperties
  <2>3. Len(to) = Len(at) - 1
    BY <2>1, RemoveAtProperties
  <2>4. \A j \in 1 .. Len(at) - 1 : to[j] = IF j < i THEN at[j] ELSE at[j + 1]
    BY <2>1, RemoveAtProperties
  <2>. QED BY <2>2, <2>3, <2>4
<1>2. after = WithoutNode(l, at, i)
  BY RemoveUnlinks, Zenon
<1> HIDE DEF after, to
<1>3. /\ after.head = head /\ after.live = l.live \ {at[i]}
      /\ after.size = l.size - 1 /\ after.data = l.data
      /\ after.tail = IF l.tail # at[i] THEN l.tail
                      ELSE IF i = 1 THEN head ELSE at[i - 1]
  BY <1>2 DEF WithoutNode, Lists
<1>4. after.next = IF i = 1 THEN l.next
                   ELSE [l.next EXCEPT ![at[i - 1]] = l.next[at[i]]]
  BY <1>2 DEF WithoutNode, Lists
<1>5. /\ l.size = Len(at) /\ l.head = at[1] /\ l.tail = at[Len(at)]
      /\ l.next[at[i]] = IF i = Len(at) THEN NULL ELSE at[i + 1]
  BY <1>0 DEF Chain
<1>6. l.tail = at[i] <=> i = Len(at)
  BY <1>0, <1>5 DEF Chain
<1>7. i # 1 => i - 1 \in 1 .. Len(at) /\ at[i - 1] \in Nodes
  BY <1>0
<1>8. after \in Lists
  <2>1. /\ l.next \in [Nodes -> Nodes \union {NULL}]
        /\ l.data \in [Nodes -> Items \union {NULL}]
        /\ l.live \subseteq Nodes
    BY DEF Lists
  <2>2. after.next \in [Nodes -> Nodes \union {NULL}]
    BY <1>0, <1>4, <1>7, <2>1
  <2>3. head \in Nodes \union {NULL} /\ after.tail \in Nodes \union {NULL}
    BY <1>0, <1>3, <1>5, <1>7
  <2>4. l.size - 1 \in Nat
    BY <1>0, <1>5
  <2>5. after = [head |-> after.head, tail |-> after.tail, size |-> after.size,
                 next |-> after.next, data |-> after.data, live |-> after.live]
    BY <1>2, Zenon DEF WithoutNode, Lists
  <2>. HIDE DEF head
  <2>. QED BY <1>3, <2>1, <2>2, <2>3, <2>4, <2>5 DEF Lists
<1>9. \A j, k \in 1 .. Len(to) : to[j] = to[k] => j = k
  <2> SUFFICES ASSUME NEW j \in 1 .. Len(to), NEW k \in 1 .. Len(to), to[j] = to[k]
               PROVE  j = k
    OBVIOUS
  <2> DEFINE Old(n) == IF n < i THEN n ELSE n + 1
  <2>1. \A n \in 1 .. Len(to) : Old(n) \in 1 .. Len(at) /\ to[n] = at[Old(n)]
    BY <1>0, <1>1
  <2>2. \A x, y \in 1 .. Len(at) : at[x] = at[y] => x = y
    BY DEF Chain
  <2>3. Old(j) = Old(k)
    <3>. HIDE DEF Old
    <3>. QED BY <2>1, <2>2
  <2>. QED BY <1>0, <1>1, <2>3
<1>10. ASSUME NEW j \in 1 .. Len(to)
       PROVE  to[j] \in after.live
  <2> DEFINE o == IF j < i THEN j ELSE j + 1
  <2>1. o \in 1 .. Len(at) /\ o # i /\ to[j] = at[o]
    BY <1>0, <1>1
  <2>. HIDE DEF o
  <2>. QED BY <1>3, <2>1 DEF Chain
<1>11. ASSUME NEW n \in after.live
       PROVE  \E j \in 1 .. Len(to) : to[j] = n
  <2>1. PICK o \in 1 .. Len(at) : at[o] = n
    BY <1>3 DEF Chain
  <2>2. o # i
    BY <1>3, <2>1
  <2>3. CASE o < i
    <3>1. o \in 1 .. Len(to) /\ to[o] = n
      BY <1>0, <1>1, <2>1, <2>3
    <3>. QED BY <3>1
  <2>4. CASE ~(o < i)
    <3>1. o - 1 \in 1 .. Len(to) /\ to[o - 1] = n
      BY <1>0, <1>1, <2>1, <2>2, <2>4
    <3>. QED BY <3>1
  <2>. QED BY <2>3, <2>4
<1>12. ASSUME NEW j \in 1 .. Len(to)
       PROVE  after.next[to[j]] = IF j = Len(to) THEN NULL ELSE to[j + 1]
  <2>0. \A x, y \in 1 .. Len(at) : at[x] = at[y] => x = y
    BY DEF Chain
  <2>1. CASE j < i - 1
    <3>1. /\ to[j] = at[j] /\ to[j + 1] = at[j + 1] /\ j # Len(to)
          /\ j \in 1 .. Len(at) /\ j # Len(at) /\ j # i - 1 /\ i # 1
      BY <1>0, <1>1, <2>1
    <3>2. at[j] # at[i - 1]
      BY <1>7, <2>0, <3>1
    <3>3. l.next[at[j]] = at[j + 1]
      BY <3>1 DEF Chain
    <3>4. after.next[at[j]] = l.next[at[j]]
      BY <1>0, <1>4, <1>7, <3>1, <3>2 DEF Lists
    <3>. QED BY <3>1, <3>3, <3>4
  <2>2. CASE j = i - 1
    <3>1. /\ to[j] = at[i - 1] /\ i # 1 /\ (j = Len(to) <=> i = Len(at))
          /\ (j # Len(to) => to[j + 1] = at[i + 1])
      BY <1>0, <1>1, <2>2
    <3>2. after.next[at[i - 1]] = l.next[at[i]]
      BY <1>0, <1>4, <1>7, <3>1 DEF Lists
    <3>. QED BY <1>5, <3>1, <3>2
  <2>3. CASE j > i - 1
    <3>1. /\ to[j] = at[j + 1] /\ j + 1 \in 1 .. Len(at)
          /\ (i # 1 => j + 1 # i - 1)
          /\ (j = Len(to) <=> j + 1 = Len(at))
      BY <1>0, <1>1, <2>3
    <3>2. j # Len(to) => to[j + 1] = at[(j + 1) + 1]
      <4>1. j # Len(to) => j + 1 \in 1 .. Len(at) - 1 /\ ~(j + 1 < i)
        <5>1. Len(at) \in Nat /\ Len(to) = Len(at) - 1
          BY <1>0, <1>1
        <5>. QED BY <2>3, <5>1
      <4>. QED BY <1>1, <4>1
    <3>3. i # 1 => at[j + 1] # at[i - 1]
      BY <1>7, <2>0, <3>1
    <3>4. l.next[at[j + 1]] = IF j + 1 = Len(at) THEN NULL ELSE at[(j + 1) + 1]
      BY <3>1 DEF Chain
    <3>5. after.next[at[j + 1]] = l.next[at[j + 1]]
      BY <1>0, <1>4, <1>7, <3>1, <3>3 DEF Lists
    <3>. QED BY <3>1, <3>2, <3>4, <3>5
  <2>. QED BY <1>0, <1>1, <2>1, <2>2, <2>3
<1>13. /\ after.size = Len(to)
       /\ after.head = IF Len(to) = 0 THEN NULL ELSE to[1]
       /\ after.tail = IF Len(to) = 0 THEN NULL ELSE to[Len(to)]
  <2>1. Len(to) # 0 =>
          /\ to[1] = IF i = 1 THEN at[2] ELSE at[1]
          /\ to[Len(to)] = IF i = Len(at) THEN at[Len(at) - 1] ELSE at[Len(at)]
    BY <1>0, <1>1
  <2>2. Len(to) = 0 <=> Len(at) = 1
    BY <1>0, <1>1
  <2>. QED BY <1>0, <1>1, <1>3, <1>5, <1>6, <2>1, <2>2
<1>14. Chain(after, to)
  BY <1>1, <1>9, <1>10, <1>11, <1>12, <1>13, SMTT(20) DEF Chain
<1>. QED BY <1>3, <1>8, <1>14 DEF after, to

\* The two outcomes of list_remove: no node holds the item, or the first one
\* that does is gone.
LEMMA RemoveCases ==
  ASSUME NEW l \in Lists, NEW at, Chain(l, at), NEW item
  PROVE  \/ list_remove(l, item) = l
         \/ \E i \in 1 .. Len(at) :
              /\ l.data[at[i]] = item
              /\ \A j \in 1 .. (i - 1) : l.data[at[j]] # item
              /\ list_remove(l, item) \in Lists
              /\ Chain(list_remove(l, item), RemoveAt(at, i))
              /\ list_remove(l, item).data = l.data
<1> DEFINE T == {j \in 1 .. Len(at) : l.data[at[j]] = item}
<1>1. CASE T = {}
  <2>1. \A j \in 1 .. Len(at) : l.data[at[j]] # item
    BY <1>1
  <2>. QED BY <2>1, RemoveNone
<1>2. CASE T # {}
  <2>1. T \subseteq Nat
    OBVIOUS
  <2>2. PICK i \in T : \A j \in T : i <= j
    <3>. HIDE DEF T
    <3>. QED BY <1>2, <2>1, LeastNat, Zenon
  <2>3. \A j \in 1 .. (i - 1) : j \in 1 .. Len(at) /\ ~(i <= j)
    <3>1. Len(at) \in Nat
      BY LenProperties DEF Chain
    <3>. QED BY <3>1
  <2>4. /\ i \in 1 .. Len(at) /\ l.data[at[i]] = item
        /\ \A j \in 1 .. (i - 1) : l.data[at[j]] # item
    BY <2>2, <2>3
  <2>5. /\ list_remove(l, item) \in Lists
        /\ Chain(list_remove(l, item), RemoveAt(at, i))
        /\ list_remove(l, item).data = l.data
    BY <2>4, RemoveChain
  <2>. QED BY <2>4, <2>5
<1>. QED BY <1>1, <1>2

\* Lists with the same fields are the same.
LEMMA SameList ==
  ASSUME NEW a \in Lists, NEW b \in Lists,
         a.head = b.head, a.tail = b.tail, a.size = b.size,
         a.next = b.next, a.data = b.data, a.live = b.live
  PROVE  a = b
BY DEF Lists

(***************************************************************************)
(* list_clear empties the list: each round removes the head, although it   *)
(* looks for the head's item, and size counts the rounds (list.c:22-29).   *)
(***************************************************************************)
LEMMA ClearChain ==
  ASSUME NEW l \in Lists, NEW at, Chain(l, at)
  PROVE  list_clear(l) \in Lists /\ Chain(list_clear(l), <<>>)
<1> DEFINE n == Len(at)
           Round(x) == list_remove(x, x.data[x.head])
           D(f) == [k \in 0 .. l.size |-> IF k = 0 THEN l ELSE Round(f[k - 1])]
           Left(k) == [l EXCEPT !.head = IF k = n THEN NULL ELSE at[k + 1],
                                !.tail = IF k = n THEN NULL ELSE @,
                                !.live = {at[j] : j \in k + 1 .. n},
                                !.size = n - k]
           g == [k \in 0 .. n |-> Left(k)]
           f == CHOOSE h : h = D(h)
<1>0. /\ n \in Nat /\ l.size = n /\ at \in Seq(Nodes)
      /\ \A i \in 1 .. n : at[i] \in Nodes /\ at[i] # NULL
      /\ \A i, j \in 1 .. n : at[i] = at[j] => i = j
      /\ l.live = {at[j] : j \in 1 .. n}
      /\ l.head = (IF n = 0 THEN NULL ELSE at[1])
      /\ l.tail = (IF n = 0 THEN NULL ELSE at[n])
      /\ \A i \in 1 .. n : l.next[at[i]] = IF i = n THEN NULL ELSE at[i + 1]
  <2>1. l.live = {at[j] : j \in 1 .. n}
    BY SMTT(20) DEF Chain
  <2>. QED BY <2>1, LenProperties, ElementOfSeq, NodesAssumption DEF Chain
<1> HIDE DEF n
<1>1. ASSUME NEW k \in 0 .. n
      PROVE  /\ Left(k).head = IF k = n THEN NULL ELSE at[k + 1]
             /\ Left(k).tail = IF k = n THEN NULL ELSE l.tail
             /\ Left(k).live = {at[j] : j \in k + 1 .. n}
             /\ Left(k).size = n - k
             /\ Left(k).next = l.next /\ Left(k).data = l.data
             /\ Left(k) \in Lists
  <2>1. /\ n - k \in Nat /\ {at[j] : j \in k + 1 .. n} \subseteq Nodes
        /\ k # n => at[k + 1] \in Nodes
    BY <1>0
  <2>. QED BY <2>1, Zenon DEF Lists
<1>2. Left(0) = l
  <2>1. 0 \in 0 .. n /\ n - 0 = n /\ 0 + 1 = 1
    BY <1>0
  <2>2. /\ Left(0).head = l.head /\ Left(0).tail = l.tail
        /\ Left(0).size = l.size /\ Left(0).live = l.live
        /\ Left(0).next = l.next /\ Left(0).data = l.data
        /\ Left(0) \in Lists
    <3>. HIDE DEF Left
    <3>1. /\ Left(0).head = (IF 0 = n THEN NULL ELSE at[0 + 1])
          /\ Left(0).tail = (IF 0 = n THEN NULL ELSE l.tail)
          /\ Left(0).live = {at[j] : j \in 0 + 1 .. n}
          /\ Left(0).size = n - 0
          /\ Left(0).next = l.next /\ Left(0).data = l.data
          /\ Left(0) \in Lists
      BY <1>1, <2>1, Zenon
    <3>2. /\ l.head = (IF 0 = n THEN NULL ELSE at[1])
          /\ l.tail = (IF 0 = n THEN NULL ELSE l.tail)
          /\ l.live = {at[j] : j \in 1 .. n} /\ l.size = n
      BY <1>0
    <3>. QED BY <2>1, <3>1, <3>2, Zenon
  <2>. HIDE DEF Left
  <2>. QED BY <2>2, SameList
<1>3. ASSUME NEW k \in 0 .. n - 1
      PROVE  Round(Left(k)) = Left(k + 1)
  <2> DEFINE x == Left(k)
             q == SubSeq(at, k + 1, n)
  <2>0. k \in 0 .. n /\ k # n /\ k + 1 \in 0 .. n /\ k + 1 \in 1 .. n
    BY <1>0
  <2>1. /\ q \in Seq(Nodes) /\ Len(q) = n - k
        /\ \A i \in 1 .. n - k : q[i] = at[k + i]
    <3>1. \A i \in k + 1 .. n : at[i] \in Nodes
      BY <1>0
    <3>2. k + 1 \in Int /\ n \in Int
      BY <1>0
    <3>3. /\ q \in Seq(Nodes)
          /\ Len(q) = (IF k + 1 <= n THEN n - (k + 1) + 1 ELSE 0)
          /\ \A i \in 1 .. n - (k + 1) + 1 : q[i] = at[(k + 1) + i - 1]
      BY <1>0, <3>1, <3>2, SubSeqProperties, SMTT(20)
    <3>. HIDE DEF q
    <3>. QED BY <1>0, <3>3
  <2>2. /\ x.head = at[k + 1] /\ x.tail = l.tail /\ x.size = n - k
        /\ x.live = {at[j] : j \in k + 1 .. n}
        /\ x.next = l.next /\ x.data = l.data /\ x \in Lists
    BY <1>1, <2>0, Zenon
  <2> HIDE DEF x, q
  <2>3. Chain(x, q)
    <3>1. \A i \in 1 .. n - k : k + i \in 1 .. n /\ k + i \in k + 1 .. n
      BY <1>0
    <3>2. \A i, j \in 1 .. Len(q) : q[i] = q[j] => i = j
      <4> SUFFICES ASSUME NEW i \in 1 .. n - k, NEW j \in 1 .. n - k, q[i] = q[j]
                   PROVE  i = j
        BY <2>1
      <4>1. k + i = k + j
        BY <1>0, <2>1, <3>1
      <4>. QED BY <4>1
    <3>3. \A i \in 1 .. Len(q) : q[i] \in x.live
      BY <2>1, <2>2, <3>1
    <3>4. ASSUME NEW m \in x.live
          PROVE  \E i \in 1 .. Len(q) : q[i] = m
      <4>1. PICK j \in k + 1 .. n : at[j] = m
        BY <2>2
      <4>2. j - k \in 1 .. n - k /\ k + (j - k) = j
        BY <1>0
      <4>3. j - k \in 1 .. Len(q) /\ q[j - k] = m
        BY <2>1, <4>1, <4>2
      <4>. QED BY <4>3
    <3>5. ASSUME NEW i \in 1 .. Len(q)
          PROVE  x.next[q[i]] = IF i = Len(q) THEN NULL ELSE q[i + 1]
      <4>1. /\ k + i \in 1 .. n /\ (i = Len(q) <=> k + i = n)
            /\ i # Len(q) => i + 1 \in 1 .. n - k /\ k + (i + 1) = (k + i) + 1
            /\ i \in 1 .. n - k
        <5>1. n \in Nat /\ Len(q) = n - k
          BY <1>0, <2>1
        <5>. QED BY <5>1
      <4>3. q[i] = at[k + i]
        BY <2>1, <4>1
      <4>2. i # Len(q) => q[i + 1] = at[(k + i) + 1]
        BY <2>1, <4>1
      <4>4. l.next[at[k + i]] = IF k + i = n THEN NULL ELSE at[(k + i) + 1]
        BY <1>0, <4>1, Zenon
      <4>5. x.next = l.next
        BY <2>2, Zenon
      <4>. QED BY <4>1, <4>2, <4>3, <4>4, <4>5, Zenon
    <3>6. /\ Len(q) # 0 /\ q[1] = at[k + 1] /\ q[Len(q)] = at[n]
      BY <1>0, <2>0, <2>1
    <3>7. /\ q \in Seq(Nodes) /\ x.size = Len(q)
          /\ x.head = (IF Len(q) = 0 THEN NULL ELSE q[1])
          /\ x.tail = (IF Len(q) = 0 THEN NULL ELSE q[Len(q)])
      <4>1. l.tail = at[n]
        BY <1>0, <2>0
      <4>. QED BY <2>1, <2>2, <3>6, <4>1
    <3>. QED BY <3>2, <3>3, <3>4, <3>5, <3>7, Zenon DEF Chain
  <2>4. /\ 1 \in 1 .. Len(q) /\ x.data[q[1]] = x.data[x.head] /\ q[1] = at[k + 1]
        /\ \A j \in 1 .. (1 - 1) : x.data[q[j]] # x.data[x.head]
    BY <1>0, <2>0, <2>1, <2>2
  <2>5. Round(x) = WithoutNode(x, q, 1)
    BY <2>3, <2>4, RemoveUnlinks, Zenon
  <2>6. x.live \ {at[k + 1]} = {at[j] : j \in (k + 1) + 1 .. n}
    <3>1. \A j \in k + 1 .. n : j \in 1 .. n /\ (j = k + 1 \/ j \in (k + 1) + 1 .. n)
      BY <1>0
    <3>2. \A j \in (k + 1) + 1 .. n : j \in k + 1 .. n /\ j # k + 1 /\ j \in 1 .. n
      BY <1>0
    <3>3. \A j \in 1 .. n : at[j] = at[k + 1] => j = k + 1
      BY <1>0, <2>0
    <3>4. x.live = {at[j] : j \in k + 1 .. n}
      BY <2>2
    <3>. QED BY <3>1, <3>2, <3>3, <3>4, Zenon
  <2>7. l.next[at[k + 1]] = IF k + 1 = n THEN NULL ELSE at[(k + 1) + 1]
    BY <1>0, <2>0
  <2>8. l.tail = at[k + 1] <=> k + 1 = n
    BY <1>0, <2>0
  <2> DEFINE y == Left(k + 1)
  <2>9. /\ y.head = IF k + 1 = n THEN NULL ELSE at[(k + 1) + 1]
        /\ y.tail = IF k + 1 = n THEN NULL ELSE l.tail
        /\ y.live = {at[j] : j \in (k + 1) + 1 .. n}
        /\ y.size = n - (k + 1)
        /\ y.next = l.next /\ y.data = l.data
        /\ y \in Lists
    <3>. HIDE DEF Left
    <3>. QED BY <1>1, <2>0
  <2> HIDE DEF y
  <2> DEFINE u == WithoutNode(x, q, 1)
  <2>10. /\ u.head = x.next[q[1]]
         /\ u.tail = IF x.tail # q[1] THEN x.tail ELSE x.next[q[1]]
         /\ u.live = x.live \ {q[1]} /\ u.size = x.size - 1
         /\ u.next = x.next /\ u.data = x.data
         /\ u = [x EXCEPT !.head = u.head, !.tail = u.tail, !.live = u.live,
                          !.size = u.size]
    BY <2>2, Zenon DEF WithoutNode, Lists
  <2> HIDE DEF u
  <2>11. /\ u.head = y.head /\ u.tail = y.tail /\ u.live = y.live
         /\ u.next = y.next /\ u.data = y.data
    BY <2>2, <2>4, <2>6, <2>7, <2>8, <2>9, <2>10, Zenon
  <2>12. u.size = y.size
    <3>1. n \in Nat /\ u.size = (n - k) - 1 /\ y.size = n - (k + 1)
      BY <1>0, <2>2, <2>9, <2>10, Zenon
    <3>. QED BY <3>1, SMTT(20)
  <2>13. u \in Lists
    BY <2>2, <2>9, <2>10, <2>11, <2>12, Zenon DEF Lists
  <2>14. u = y
    BY <2>9, <2>11, <2>12, <2>13, SameList, Zenon
  <2>. QED BY <2>5, <2>14 DEF u, x, y
<1> HIDE DEF Round, Left
<1>4. g = D(g)
  <2>1. ASSUME NEW k \in 0 .. n
        PROVE  g[k] = D(g)[k]
    <3>1. CASE k = 0
      BY <1>0, <1>2, <3>1
    <3>2. CASE k # 0
      <4>1. k - 1 \in 0 .. n - 1 /\ k - 1 \in 0 .. n /\ (k - 1) + 1 = k
        BY <1>0, <3>2
      <4>. QED BY <1>0, <1>3, <3>2, <4>1
    <3>. QED BY <3>1, <3>2
  <2>. QED BY <1>0, <2>1
<1>5. f = D(f)
  BY <1>4, Zenon
<1> HIDE DEF f
<1>6. \A k \in 0 .. n : f[k] = g[k]
  <2> DEFINE T == {k \in 0 .. n : f[k] # g[k]}
  <2> SUFFICES ASSUME T # {}
               PROVE  FALSE
    OBVIOUS
  <2>1. T \subseteq Nat
    BY <1>0
  <2>2. PICK m \in T : \A y \in T : m <= y
    <3>. HIDE DEF T
    <3>. QED BY <2>1, LeastNat, Zenon
  <2>3. m # 0
    BY <1>0, <1>4, <1>5, ZenonT(60)
  <2>4. m - 1 \in 0 .. n /\ f[m - 1] = g[m - 1]
    BY <1>0, <2>2, <2>3
  <2>5. m \in 0 .. l.size /\ f[m] = D(f)[m] /\ g[m] = D(g)[m]
    BY <1>0, <1>4, <1>5, Zenon
  <2>6. D(f)[m] = D(g)[m]
    BY <2>3, <2>4, <2>5
  <2>. QED BY <2>5, <2>6
<1>7. list_clear(l) = f[l.size]
  BY Zenon DEF list_clear, f, Round
<1>8. list_clear(l) = Left(n)
  BY <1>0, <1>6, <1>7
<1>9. n \in 0 .. n /\ n - n = 0 /\ n + 1 .. n = {}
  BY <1>0
<1> DEFINE c == Left(n)
<1>10. c.head = NULL /\ c.tail = NULL /\ c.live = {} /\ c.size = 0 /\ c \in Lists
  BY <1>1, <1>9
<1> HIDE DEF c
<1>11. Chain(c, <<>>)
  BY <1>10 DEF Chain
<1>. QED BY <1>8, <1>10, <1>11 DEF c
-----------------------------------------------------------------------------
\* The items of a chain, as a sequence.
LEMMA ContentsSeq ==
  ASSUME NEW l \in Lists, NEW at, Chain(l, at)
  PROVE  /\ Contents(l) \in Seq(Items \union {NULL})
         /\ Len(Contents(l)) = Len(at)
         /\ \A i \in 1 .. Len(at) : Contents(l)[i] = l.data[at[i]]
<1>1. Contents(l) = [i \in 1 .. Len(at) |-> l.data[at[i]]]
  BY ContentsChain
<1>2. Len(at) \in Nat /\ \A i \in 1 .. Len(at) : at[i] \in Nodes
  BY LenProperties, ElementOfSeq DEF Chain
<1>3. \A i \in 1 .. Len(at) : l.data[at[i]] \in Items \union {NULL}
  BY <1>2 DEF Lists
<1>. QED BY <1>1, <1>2, <1>3

\* The list after is l with a new node for the item at position p of its chain.
Linked(l, at, p, item, new, after) ==
  /\ after \in Lists /\ Chain(after, InsertAt(at, p, new))
  /\ \A n \in Nodes : after.data[n] = IF n = new THEN item ELSE l.data[n]

\* A node put at a position puts its item there.
LEMMA ContentsInsert ==
  ASSUME NEW l \in Lists, NEW at, Chain(l, at), NEW p \in 1 .. Len(at) + 1,
         NEW item \in Items, NEW new \in Nodes \ l.live, NEW after,
         Linked(l, at, p, item, new, after)
  PROVE  Contents(after) = InsertAt(Contents(l), p, item)
<1> DEFINE to == InsertAt(at, p, new)
           old == Contents(l)
           S == Items \union {NULL}
<1>0. /\ Len(at) \in Nat /\ at \in Seq(Nodes) /\ new \in Nodes
      /\ \A i \in 1 .. Len(at) : at[i] \in Nodes /\ at[i] # new
  BY LenProperties, ElementOfSeq DEF Chain
<1>1. /\ old \in Seq(S) /\ Len(old) = Len(at)
      /\ \A i \in 1 .. Len(at) : old[i] = l.data[at[i]]
  BY ContentsSeq
<1>2. /\ Contents(after) \in Seq(S) /\ Len(Contents(after)) = Len(to)
      /\ \A i \in 1 .. Len(to) : Contents(after)[i] = after.data[to[i]]
  <2>1. after \in Lists /\ Chain(after, to)
    BY DEF Linked
  <2>. HIDE DEF to
  <2>2. Contents(after) \in Seq(S)
    BY <2>1, ContentsSeq
  <2>3. Len(Contents(after)) = Len(to)
    BY <2>1, ContentsSeq
  <2>4. \A i \in 1 .. Len(to) : Contents(after)[i] = after.data[to[i]]
    BY <2>1, ContentsSeq
  <2>. QED BY <2>2, <2>3, <2>4
<1> HIDE DEF old, S
<1>4. Len(to) = Len(at) + 1
  BY <1>0, InsertAtProperties
<1>5. \A i \in 1 .. Len(at) + 1 :
        to[i] = IF i < p THEN at[i] ELSE IF i = p THEN new ELSE at[i - 1]
  BY <1>0, InsertAtProperties
<1> HIDE DEF to
<1>6. item \in S /\ p \in 1 .. Len(old) + 1 /\ old \in Seq(S)
  BY <1>0, <1>1 DEF S
<1> DEFINE ins == InsertAt(old, p, item)
<1>7. ins \in Seq(S)
  BY <1>6, InsertAtProperties
<1>8. Len(ins) = Len(old) + 1
  BY <1>6, InsertAtProperties
<1>9. \A i \in 1 .. Len(old) + 1 :
        ins[i] = IF i < p THEN old[i] ELSE IF i = p THEN item ELSE old[i - 1]
  BY <1>6, InsertAtProperties
<1> HIDE DEF ins
<1>10. \A n \in Nodes : after.data[n] = IF n = new THEN item ELSE l.data[n]
  BY DEF Linked
<1>11. ASSUME NEW i \in 1 .. Len(at) + 1
       PROVE  Contents(after)[i] = ins[i]
  <2>0. Contents(after)[i] = after.data[to[i]]
    BY <1>2, <1>4
  <2>1. CASE i < p
    <3>1. i \in 1 .. Len(at) /\ to[i] = at[i] /\ ins[i] = old[i]
      BY <1>0, <1>1, <1>5, <1>9, <2>1
    <3>. QED BY <1>0, <1>1, <1>10, <2>0, <3>1
  <2>2. CASE i = p
    <3>1. to[i] = new /\ ins[i] = item
      BY <1>0, <1>1, <1>5, <1>9, <2>2, SMTT(20)
    <3>. QED BY <1>0, <1>10, <2>0, <3>1
  <2>3. CASE i > p
    <3>1. i - 1 \in 1 .. Len(at) /\ to[i] = at[i - 1] /\ ins[i] = old[i - 1]
      BY <1>0, <1>1, <1>5, <1>9, <2>3
    <3>. QED BY <1>0, <1>1, <1>10, <2>0, <3>1, SMTT(20)
  <2>. QED BY <1>0, <2>1, <2>2, <2>3
<1>12. Contents(after) = ins
  <2>1. Len(Contents(after)) = Len(ins)
    BY <1>1, <1>2, <1>4, <1>8
  <2>2. \A i \in 1 .. Len(ins) : Contents(after)[i] = ins[i]
    BY <1>1, <1>8, <1>11
  <2>. QED BY <1>2, <1>7, <2>1, <2>2, SeqEqual
<1>. QED BY <1>12 DEF ins, old

\* list_insert behind the k-th node puts the item behind the k-th item.
LEMMA InsertContents ==
  ASSUME NEW l \in Lists, NEW at, Chain(l, at), NEW k \in 1 .. Len(at),
         NEW item \in Items, NEW new \in Nodes \ l.live
  PROVE  Contents(list_insert(l, at[k], item, new)) = InsertAt(Contents(l), k + 1, item)
<1> DEFINE after == list_insert(l, at[k], item, new)
           p == k + 1
<1>1. /\ after \in Lists /\ Chain(after, InsertAt(at, p, new))
      /\ after.data = [l.data EXCEPT ![new] = item]
  BY InsertChain
<1>2. p \in 1 .. Len(at) + 1
  BY LenProperties DEF Chain
<1>2a. \A n \in Nodes : after.data[n] = IF n = new THEN item ELSE l.data[n]
  <2>. HIDE DEF after
  <2>. QED BY <1>1 DEF Lists
<1> HIDE DEF after, p
<1>3. Linked(l, at, p, item, new, after)
  BY <1>1, <1>2a DEF Linked
<1>4. Contents(after) = InsertAt(Contents(l), p, item)
  BY <1>2, <1>3, ContentsInsert
<1>. QED BY <1>4 DEF after, p

\* list_add puts the item at the end.
LEMMA AddContents ==
  ASSUME NEW l \in Lists, NEW at, Chain(l, at),
         NEW item \in Items, NEW new \in Nodes \ l.live
  PROVE  Contents(list_add(l, item, new)) =
           InsertAt(Contents(l), Len(Contents(l)) + 1, item)
<1> DEFINE after == list_add(l, item, new)
           p == Len(at) + 1
<1>1. /\ after \in Lists /\ Chain(after, InsertAt(at, p, new))
      /\ after.data = [l.data EXCEPT ![new] = item]
  BY AddChain
<1>2. p \in 1 .. Len(at) + 1 /\ Len(Contents(l)) + 1 = p
  <2>1. Len(at) \in Nat
    BY LenProperties DEF Chain
  <2>2. Len(Contents(l)) = Len(at)
    BY ContentsSeq
  <2>. QED BY <2>1, <2>2
<1>2a. \A n \in Nodes : after.data[n] = IF n = new THEN item ELSE l.data[n]
  <2>. HIDE DEF after
  <2>. QED BY <1>1 DEF Lists
<1> HIDE DEF after, p
<1>3. Linked(l, at, p, item, new, after)
  BY <1>1, <1>2a DEF Linked
<1>4. Contents(after) = InsertAt(Contents(l), p, item)
  BY <1>2, <1>3, ContentsInsert
<1>. QED BY <1>2, <1>4 DEF after

\* A node taken out of the i-th position takes its item out of there.
LEMMA ContentsRemove ==
  ASSUME NEW l \in Lists, NEW at, Chain(l, at), NEW k \in 1 .. Len(at),
         NEW after \in Lists, Chain(after, RemoveAt(at, k)), after.data = l.data
  PROVE  Contents(after) = RemoveAt(Contents(l), k)
<1> DEFINE to == RemoveAt(at, k)
           old == Contents(l)
           S == Items \union {NULL}
           rem == RemoveAt(old, k)
<1>0. Len(at) \in Nat /\ at \in Seq(Nodes)
  BY LenProperties DEF Chain
<1>1. /\ old \in Seq(S) /\ Len(old) = Len(at)
      /\ \A i \in 1 .. Len(at) : old[i] = l.data[at[i]]
  BY ContentsSeq
<1>2. /\ Contents(after) \in Seq(S) /\ Len(Contents(after)) = Len(to)
      /\ \A i \in 1 .. Len(to) : Contents(after)[i] = after.data[to[i]]
  <2>1. Chain(after, to)
    OBVIOUS
  <2>. HIDE DEF to
  <2>. QED BY <2>1, ContentsSeq
<1> HIDE DEF old, S
<1>3. Len(to) = Len(at) - 1
  BY <1>0, RemoveAtProperties
<1>4. \A i \in 1 .. Len(at) - 1 : to[i] = IF i < k THEN at[i] ELSE at[i + 1]
  BY <1>0, RemoveAtProperties
<1>5. k \in 1 .. Len(old)
  BY <1>1
<1>6. rem \in Seq(S)
  BY <1>1, <1>5, RemoveAtProperties
<1>7. Len(rem) = Len(old) - 1
  BY <1>1, <1>5, RemoveAtProperties
<1>8. \A i \in 1 .. Len(old) - 1 : rem[i] = IF i < k THEN old[i] ELSE old[i + 1]
  BY <1>1, <1>5, RemoveAtProperties
<1> HIDE DEF to, rem
<1>9. ASSUME NEW i \in 1 .. Len(at) - 1
      PROVE  Contents(after)[i] = rem[i]
  <2>1. i \in 1 .. Len(at) /\ i + 1 \in 1 .. Len(at)
    BY <1>0
  <2>2. Contents(after)[i] = l.data[to[i]]
    BY <1>2, <1>3
  <2>3. CASE i < k
    BY <1>1, <1>4, <1>8, <2>1, <2>2, <2>3
  <2>4. CASE ~(i < k)
    BY <1>1, <1>4, <1>8, <2>1, <2>2, <2>4
  <2>. QED BY <2>3, <2>4
<1>10. Len(Contents(after)) = Len(rem)
  BY <1>1, <1>2, <1>3, <1>7
<1>11. \A i \in 1 .. Len(rem) : Contents(after)[i] = rem[i]
  BY <1>1, <1>7, <1>9
<1>12. Contents(after) = rem
  BY <1>2, <1>6, <1>10, <1>11, SeqEqual
<1>. QED BY <1>12 DEF rem, old
=============================================================================
