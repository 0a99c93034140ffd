----------------------------- MODULE HeapProofs -----------------------------
(***************************************************************************)
(* Proofs about the heap, for any clients, sizes and size of a page: the   *)
(* tags always tile the heap, no block has two holders and none is freed   *)
(* under its holder or lost, unless a held block was grown.                *)
(***************************************************************************)
EXTENDS HeapLemmas

(***************************************************************************)
(* The invariant of the specification, and the actions.                    *)
(***************************************************************************)
HeapInv ==
  live \in Holdings /\ \E B : Good(heap, B, HeldOf(live, heap.globs))

\* The search of heap_alloc, and what it returns.
LEMMA AllocResult ==
  ASSUME NEW p, NEW n, NEW r \in heap_alloc(p, n)
  PROVE  \E s \in Rounds(p, n) :
           \/ Found(s, n) /\ r.heap = Split(s.heap, s.at, n) /\ r.addr = s.at + 1
           \/ r.heap = s.heap /\ r.addr = NoBlock
<1>1. PICK s \in Rounds(p, n) :
        r = IF s.i = 0 /\ Fits(s.heap.mem, s.at, n)
            THEN [heap |-> Split(s.heap, s.at, n), addr |-> s.at + 1]
            ELSE [heap |-> s.heap, addr |-> NoBlock]
  BY Zenon DEF heap_alloc
<1>2. CASE Found(s, n)
  BY <1>1, <1>2, ZenonT(60) DEF Found
<1>3. CASE ~Found(s, n)
  BY <1>1, <1>3, ZenonT(60) DEF Found
<1>. QED BY <1>2, <1>3, Zenon

LEMMA AllocStep ==
  ASSUME Facts, HeapInv, NEW c \in Clients, NEW n \in Sizes, Alloc(c, n)
  PROVE  HeapInv'
<1>1. live \in Holdings /\ heap.fate = "sound" /\ live[c] = NoBlock
  BY Zenon DEF HeapInv, Alloc
<1>2. PICK B : Good(heap, B, HeldOf(live, heap.globs))
  BY Zenon DEF HeapInv
<1>3. PICK r \in heap_alloc(heap, n) :
        /\ heap' = r.heap
        /\ live' = [live EXCEPT ![c] = IF r.addr = NoBlock THEN live[c] ELSE Held(r.addr, n)]
  BY Zenon DEF Alloc
<1>4. PICK s \in Rounds(heap, n) :
        \/ Found(s, n) /\ r.heap = Split(s.heap, s.at, n) /\ r.addr = s.at + 1
        \/ r.heap = s.heap /\ r.addr = NoBlock
  BY AllocResult, Zenon
<1>5. n \in Nat \ {0}
  BY SizesAssumption, SMTT(20)
<1>6. PICK N : Searching(s, n, {}, live, N)
  <2>1. heap.fate \in Going /\ {} \subseteq PresentOf(heap.mem, B)
    BY <1>1, Zenon DEF Going
  <2>. QED BY <1>2, <1>5, <2>1, RoundsGood, ZenonT(60)
<1>7. Good(s.heap, N, HeldOf(live, s.heap.globs)) /\ s.at \in N
  BY <1>6, Zenon DEF Searching
<1>8. CASE r.addr = NoBlock /\ r.heap = s.heap
  <2>1. live' = live
    BY <1>1, <1>3, <1>8, ZenonT(60) DEF Holdings
  <2>. QED BY <1>1, <1>3, <1>7, <1>8, <2>1, ZenonT(60) DEF HeapInv
<1>9. CASE Found(s, n) /\ r.heap = Split(s.heap, s.at, n) /\ r.addr = s.at + 1
  <2> DEFINE q == Split(s.heap, s.at, n)
             b == Held(s.at + 1, n)
             hb == HeldOf(live, s.heap.globs)
             hc == HeldOf(live', s.heap.globs)
             M == N \union {s.at + 2 + n}
  <2>1. Fits(s.heap.mem, s.at, n) /\ n \in Nat
    BY <1>5, <1>9, SMTT(20) DEF Found
  <2>2. /\ SplitDone(s.heap, q, N, s.at, n) /\ s.at + 1 \in Words
        /\ \A x, hd : Gains(hb, hd, x, b) => Good(q, M, hd)
    BY <1>7, <2>1, SplitGood, ZenonT(60)
  <2>3. b \in Records /\ b # NoBlock
    BY <2>1, <2>2, RecordType, ZenonT(60)
  <2>. HIDE DEF b, q
  <2>4. r.addr # NoBlock
    BY <1>9, <2>2, LimitType, HoldersAssumption, SMTT(20)
  <2>5. live' = [live EXCEPT ![c] = b]
    BY <1>3, <1>9, <2>4, ZenonT(60) DEF b
  <2>6. s.heap.globs \in Seq(Records)
    BY <1>7, HeapFields, ZenonT(60) DEF Good, Sane
  <2>7. Gains(hb, hc, c, b)
    BY <1>1, <2>3, <2>5, <2>6, HeldChange, ZenonT(60)
  <2>8. Good(q, M, hc) /\ q.globs = s.heap.globs
    BY <2>2, <2>7, Zenon DEF SplitDone
  <2>9. live' \in Holdings
    BY <1>1, <2>3, <2>5, ZenonT(60) DEF Holdings
  <2>10. heap' = q
    BY <1>3, <1>9, ZenonT(60) DEF q
  <2>. QED BY <2>8, <2>9, <2>10, ZenonT(60) DEF HeapInv
<1>. QED BY <1>4, <1>8, <1>9, ZenonT(60)

\* The block of a client.
Client(h, b, hb, m, B, c) ==
  /\ b \in Records /\ b # NoBlock /\ b.addr = h + 1 /\ h \in Nat
  /\ h \in B /\ m[h].present = 1 /\ h \in PresentOf(m, B) /\ m[h].sz >= b.sz
  /\ hb[c] = b

LEMMA ClientBlock ==
  ASSUME live \in Holdings, NEW B, Good(heap, B, HeldOf(live, heap.globs)),
         heap.fate = "sound", NEW c \in Clients, live[c] # NoBlock
  PROVE  Client(live[c].addr - 1, live[c], HeldOf(live, heap.globs), heap.mem, B, c)
<1> DEFINE b == live[c]
           h == b.addr - 1
           hb == HeldOf(live, heap.globs)
           m == heap.mem
           C == {d \in Clients : live[d] # NoBlock} \cup DOMAIN heap.globs
<1>1. b \in Records /\ b # NoBlock
  BY Zenon DEF Holdings
<1>2. b.addr \in Nat
  BY <1>1, LimitType, SMTT(20) DEF Records
<1>3. c \in DOMAIN hb /\ hb[c] = b
  <2>1. c \in C
    BY Zenon
  <2>2. DOMAIN hb = C
    BY Zenon DEF HeldOf
  <2>. QED BY <2>1, <2>2, ZenonT(60) DEF HeldOf
<1>4. Match(m, PresentOf(m, B), hb)
  <2>1. "sound" # "overgrown"
    OBVIOUS
  <2>. QED BY <2>1, Zenon DEF Good, Exact
<1>5. h \in PresentOf(m, B) /\ m[h].sz >= b.sz
  BY <1>3, <1>4, ZenonT(60) DEF Match, Fills
<1>6. h \in B /\ m[h].present = 1
  BY <1>5, Zenon DEF PresentOf
<1>7. h \in Nat
  <2>1. Tiling(m, 0, heap.vmem_mark, B) /\ heap \in Heaps
    BY Zenon DEF Good, Sane
  <2>2. m \in Mem
    BY <2>1, HeapFields, ZenonT(60)
  <2>. HIDE DEF h, m
  <2>. QED BY <1>6, <2>1, <2>2, TilingFacts, ZenonT(60)
<1>8. b.addr = h + 1
  BY <1>2, SMTT(20)
<1>. QED BY <1>1, <1>3, <1>5, <1>6, <1>7, <1>8, ZenonT(60) DEF Client

LEMMA FreeStep ==
  ASSUME Facts, HeapInv, NEW c \in Clients, Free(c)
  PROVE  HeapInv'
<1> DEFINE h == live[c].addr - 1
           b == live[c]
           hb == HeldOf(live, heap.globs)
           hc == HeldOf(live', heap.globs)
<1>1. /\ live \in Holdings /\ heap.fate = "sound" /\ b # NoBlock
      /\ live' = [live EXCEPT ![c] = NoBlock] /\ heap' = heap_free(heap, b.addr)
  BY Zenon DEF HeapInv, Free
<1>2. PICK B : Good(heap, B, hb)
  BY Zenon DEF HeapInv
<1>3. Client(h, b, hb, heap.mem, B, c)
  BY <1>1, <1>2, ClientBlock, ZenonT(60)
<1>4. /\ b.addr = h + 1 /\ h \in B /\ heap.mem[h].present = 1 /\ hb[c] = b
  BY <1>3, Zenon DEF Client
<1>5. heap.globs \in Seq(Records)
  BY <1>2, HeapFields, ZenonT(60) DEF Good, Sane
<1>6. Loses(hb, hc, c)
  BY <1>1, <1>5, HeldChange, Zenon
<1> HIDE DEF h, hb, hc
<1>7. \E x : Loses(hb, hc, x) /\ hb[x].addr = h + 1
  BY <1>4, <1>6, Zenon
<1>8. /\ \E N : Good(heap_free(heap, h + 1), N, hc)
      /\ heap_free(heap, h + 1).globs = heap.globs
  BY <1>2, <1>4, <1>7, FreeGood, SMTT(20)
<1>9. live' \in Holdings
  BY <1>1, Zenon DEF Holdings
<1>. QED BY <1>1, <1>4, <1>8, <1>9, ZenonT(60) DEF HeapInv, hc

\* heap_realloc in place.
LEMMA SameGood ==
  ASSUME NEW p, NEW B, NEW hb, Good(p, B, hb), p.fate = "sound", NEW h \in PresentOf(p.mem, B),
         h \in Nat, NEW n, p.mem[h].sz >= n, NEW b, b.addr = h + 1, b.sz = n,
         NEW x, NEW hc, hb[x].addr = h + 1, Turns(hb, hc, x, b)
  PROVE  Good(p, B, hc)
<1> DEFINE m == p.mem
           P == PresentOf(m, B)
<1>1. "sound" # "overgrown"
  OBVIOUS
<1>2. Match(m, P, hb)
  BY <1>1, Zenon DEF Good, Exact
<1>3. (P \ {h}) \union {h} = P /\ h \notin P \ {h}
  BY ZenonT(60)
<1> HIDE DEF m, P
<1>4. Match(m, (P \ {h}) \union {h}, hc)
  <2>1. m[h].sz >= b.sz
    BY Zenon DEF m
  <2>2. \A g \in P \ {h} : m[g].sz = m[g].sz
    BY Zenon
  <2>. QED BY <1>2, <1>3, <2>1, <2>2, MatchTurn, SMTT(20)
<1>5. Match(m, P, hc)
  BY <1>3, <1>4, Zenon
<1>. QED BY <1>5, ZenonT(60) DEF Good, Exact, m, P

Resized(p, q, hc) == (\E N : Good(q, N, hc)) /\ q.globs = p.globs

LEMMA ResizeGood ==
  ASSUME Facts, NEW p, NEW B, NEW hb, Good(p, B, hb), p.fate = "sound", NEW h \in B,
         p.mem[h].present = 1, NEW n \in Nat, p.mem[h].sz < n, NextAbsorbable(p, h, n),
         NEW a, a = Clear(Absorb(p.mem, h, n), h),
         NEW q, q = [p EXCEPT !.mem = a, !.used_bytes = p.used_bytes + (a[h].sz - p.mem[h].sz)],
         NEW b, b.addr = h + 1, b.sz = n,
         NEW x, NEW hc, hb[x].addr = h + 1, Turns(hb, hc, x, b)
  PROVE  Resized(p, q, hc)
<1> DEFINE m == p.mem
           mark == p.vmem_mark
           g == After(m, h)
           u == p.used_bytes + (a[h].sz - m[h].sz)
           P == PresentOf(m, B)
<1>1. p \in Heaps /\ Tiling(m, 0, mark, B)
  BY Zenon DEF Good, Sane
<1>2. /\ m \in Mem /\ p.used_bytes \in Int /\ p.block_count \in Int
  BY <1>1, HeapFields, ZenonT(60)
<1>3. /\ Blocks(m, B) = p.block_count /\ Used(m, B) = p.used_bytes /\ Coal(m, B)
      /\ Match(m, P, hb)
  <2>1. "sound" # "overgrown"
    OBVIOUS
  <2>. QED BY <2>1, Zenon DEF Good, Exact
<1>4. h \in Nat /\ h \in Words /\ mark \in Nat /\ m[h].sz \in Nat
  BY <1>1, <1>2, TilingFacts, ZenonT(60)
<1>5. /\ HEAP_BL_NEXT(m, h) = g /\ (HEAP_BL_HAS_NEXT(m, mark, h) <=> g < mark)
  BY <1>2, <1>4, NextFacts, ZenonT(60)
<1>6. g < mark /\ m[g].present = 0 /\ HEAP_BL_DATASZ2SZ(m[g].sz) + m[h].sz >= n
  BY <1>5, Zenon DEF NextAbsorbable
<1>7. g = mark \/ g \in B
  BY <1>1, Zenon DEF Tiling, Tile
<1>8. g \in B
  BY <1>4, <1>6, <1>7, SMTT(20)
<1>9. n <= (m[g].sz + 2) + m[h].sz
  <2>1. m[g].sz \in Nat
    BY <1>1, <1>2, <1>8, TilingFacts, ZenonT(60)
  <2>. QED BY <1>4, <1>6, <2>1, SMTT(20) DEF HEAP_BL_DATASZ2SZ
<1>10. PICK N : Grows(m, a, mark, B, h, n, N)
  <2>. HIDE DEF g, m, mark
  <2>1. m[h].present = 1 /\ m[h].sz < n /\ a = Clear(Absorb(m, h, n), h)
    BY Zenon DEF m
  <2>2. g = After(m, h)
    BY Zenon DEF g
  <2>. QED BY <1>1, <1>2, <1>6, <1>8, <1>9, <2>1, <2>2, AbsorbEffect, SMTT(20)
<1>11. /\ a \in Mem /\ Tiling(a, 0, mark, N) /\ PresentOf(a, N) = P
       /\ (\A y \in P \ {h} : a[y].sz = m[y].sz)
       /\ a[h].sz >= n /\ a[h].sz \in Nat /\ (Coal(m, B) => Coal(a, N))
  BY <1>10, ZenonT(60) DEF Grows, Same
<1>12. /\ Blocks(a, N) = Blocks(m, B)
       /\ Used(a, N) = Used(m, B) + (a[h].sz - m[h].sz)
  BY <1>1, <1>2, <1>10, GrowCount, SMTT(20)
<1>13. u \in Int
  BY <1>2, <1>4, <1>11, SMTT(20)
<1> HIDE DEF u
<1>14. Fields(q, a, mark, u, p.block_count, p.globs, p.fate)
  <2>1. q = [p EXCEPT !.mem = a, !.used_bytes = u]
    BY Zenon DEF u
  <2>. QED BY <1>1, <1>11, <1>13, <2>1, SetUsed, ZenonT(60)
<1>15. /\ q \in Heaps /\ q.mem = a /\ q.vmem_mark = mark /\ q.used_bytes = u
       /\ q.block_count = p.block_count /\ q.globs = p.globs /\ q.fate = p.fate
  BY <1>14, Zenon DEF Fields
<1>16. h \in P /\ (P \ {h}) \union {h} = P /\ h \notin P \ {h}
  <2>1. h \in P
    BY Zenon DEF PresentOf
  <2>. QED BY <2>1, Zenon
<1> HIDE DEF m, P, mark
<1>17. Match(a, P, hc)
  <2>1. Match(m, P, hb) /\ h \in Nat /\ h \notin P \ {h}
    BY <1>3, <1>4, <1>16, ZenonT(60)
  <2>2. a[h].sz >= b.sz /\ \A y \in P \ {h} : a[y].sz = m[y].sz
    BY <1>11, ZenonT(60)
  <2>3. Match(a, (P \ {h}) \union {h}, hc)
    BY <2>1, <2>2, MatchTurn, ZenonT(60)
  <2>. QED BY <1>16, <2>3, ZenonT(60)
<1>18. Exact(q, N, hc)
  <2>1. Used(a, N) = u
    BY <1>3, <1>12, ZenonT(60) DEF u, m
  <2>. QED BY <1>3, <1>11, <1>12, <1>15, <1>17, <2>1, Zenon DEF Exact
<1>19. Sane(q, N)
  <2>1. Blocks(a, N) <= p.block_count /\ Used(a, N) <= u
    <3>1. Blocks(a, N) = p.block_count /\ Used(a, N) = u
      BY <1>15, <1>18, ZenonT(60) DEF Exact
    <3>. QED BY <1>2, <1>13, <3>1, SMTT(20)
  <2>. QED BY <1>11, <1>15, <2>1, ZenonT(60) DEF Sane
<1>20. Good(q, N, hc)
  BY <1>18, <1>19, ZenonT(60) DEF Good
<1>. QED BY <1>15, <1>20, ZenonT(60) DEF Resized

LEMMA InPlaceStep ==
  ASSUME Facts, HeapInv, NEW c \in Clients, NEW n \in Sizes, ReallocInPlace(c, n)
  PROVE  HeapInv'
<1> DEFINE b == live[c]
           h == b.addr - 1
           d == Held(h + 1, n)
           a == Clear(Absorb(heap.mem, h, n), h)
           hb == HeldOf(live, heap.globs)
           hc == HeldOf(live', heap.globs)
<1>1. /\ live \in Holdings /\ heap.fate = "sound" /\ b # NoBlock
      /\ live' = [live EXCEPT ![c].sz = n]
      /\ \/ heap.mem[h].sz >= n /\ heap' = heap
         \/ /\ heap.mem[h].sz < n /\ NextAbsorbable(heap, h, n)
            /\ heap' = [heap EXCEPT !.mem = a,
                                    !.used_bytes = heap.used_bytes + (a[h].sz - heap.mem[h].sz)]
  BY Zenon DEF HeapInv, ReallocInPlace
<1>2. PICK B : Good(heap, B, hb)
  BY Zenon DEF HeapInv
<1>3. Client(h, b, hb, heap.mem, B, c)
  BY <1>1, <1>2, ClientBlock, ZenonT(60)
<1>4. /\ b \in Records /\ b.addr = h + 1 /\ h \in Nat /\ h \in B /\ heap.mem[h].present = 1
      /\ h \in PresentOf(heap.mem, B) /\ hb[c] = b
  BY <1>3, ZenonT(60) DEF Client
<1>5. n \in Nat
  BY SizesAssumption, SMTT(20)
<1>6. h + 1 \in Words
  BY <1>4, SMTT(20) DEF Records
<1>7. d \in Records /\ d # NoBlock /\ d.addr = h + 1 /\ d.sz = n
  BY <1>5, <1>6, RecordType, ZenonT(60)
<1>8. [b EXCEPT !.sz = n] = d
  BY <1>4, SMTT(20) DEF Records, Held
<1>9. live' = [live EXCEPT ![c] = d]
  BY <1>1, <1>8, ZenonT(60)
<1>10. heap.globs \in Seq(Records)
  BY <1>2, HeapFields, ZenonT(60) DEF Good, Sane
<1> HIDE DEF d, h, a
<1>11. Turns(hb, hc, c, d)
  BY <1>1, <1>7, <1>9, <1>10, HeldChange, Zenon
<1> HIDE DEF hb, hc
<1>12. live' \in Holdings
  BY <1>1, <1>7, <1>9, ZenonT(60) DEF Holdings
<1>13. CASE heap.mem[h].sz >= n /\ heap' = heap
  <2>1. Good(heap, B, hc)
    BY <1>1, <1>2, <1>4, <1>7, <1>11, <1>13, SameGood, SMTT(20)
  <2>. QED BY <1>12, <1>13, <2>1, ZenonT(60) DEF HeapInv, hc
<1>14. CASE /\ heap.mem[h].sz < n /\ NextAbsorbable(heap, h, n)
            /\ heap' = [heap EXCEPT !.mem = a,
                                    !.used_bytes = heap.used_bytes + (a[h].sz - heap.mem[h].sz)]
  <2>1. Resized(heap, heap', hc)
    <3>1. a = Clear(Absorb(heap.mem, h, n), h)
      BY Zenon DEF a
    <3>2. hb[c].addr = h + 1
      BY <1>4, ZenonT(60)
    <3>. QED BY <1>1, <1>2, <1>4, <1>5, <1>7, <1>11, <1>14, <3>1, <3>2, ResizeGood, ZenonT(60)
  <2>. QED BY <1>12, <2>1, ZenonT(60) DEF HeapInv, hc, Resized
<1>. QED BY <1>1, <1>13, <1>14, ZenonT(60)

\* heap_realloc by moving: the new block is held by nobody the invariant knows
\* while the old one is freed, so it is given to a place behind the mappings.
LEMMA GoodOther ==
  ASSUME NEW p, NEW B, NEW hb, Good(p, B, hb), NEW hd, NEW x, NEW y, NEW b, NEW hc,
         Gains(hd, hb, x, b), Gains(hd, hc, y, b)
  PROVE  Good(p, B, hc)
<1> DEFINE m == p.mem
           P == PresentOf(m, B)
<1>1. /\ x \notin DOMAIN hd /\ DOMAIN hb = DOMAIN hd \union {x} /\ hb[x] = b
      /\ \A z \in DOMAIN hd : hb[z] = hd[z]
  BY Zenon DEF Gains
<1>2. /\ y \notin DOMAIN hd /\ DOMAIN hc = DOMAIN hd \union {y} /\ hc[y] = b
      /\ \A z \in DOMAIN hd : hc[z] = hd[z]
  BY Zenon DEF Gains
<1> HIDE DEF P
<1>3. ASSUME Match(m, P, hb)
      PROVE  Match(m, P, hc)
  <2>1. /\ \A z \in DOMAIN hb : Fills(m, P, hb[z])
        /\ \A z, w \in DOMAIN hb : hb[z].addr = hb[w].addr => z = w
        /\ \A h \in P : \E z \in DOMAIN hb : hb[z].addr - 1 = h
    BY <1>3, ZenonT(60) DEF Match
  <2>2. ASSUME NEW z \in DOMAIN hc
        PROVE  Fills(m, P, hc[z])
    BY <1>1, <1>2, <2>1, ZenonT(60)
  <2>3. ASSUME NEW z \in DOMAIN hc, NEW w \in DOMAIN hc, hc[z].addr = hc[w].addr
        PROVE  z = w
    <3>0. ASSUME NEW v \in DOMAIN hc, v # y
          PROVE  hc[v].addr # hc[y].addr
      <4>1. v \in DOMAIN hd
        BY <1>2, <3>0, ZenonT(60)
      <4>2. v # x /\ v \in DOMAIN hb /\ hb[v].addr = hc[v].addr
        BY <1>1, <1>2, <4>1, ZenonT(60)
      <4>3. x \in DOMAIN hb /\ hb[x].addr = hc[y].addr
        BY <1>1, <1>2, Zenon
      <4>. QED BY <2>1, <4>2, <4>3, ZenonT(60)
    <3>1. CASE z = y /\ w # y
      BY <2>3, <3>0, <3>1, ZenonT(60)
    <3>2. CASE z # y /\ w = y
      BY <2>3, <3>0, <3>2, ZenonT(60)
    <3>3. CASE z # y /\ w # y
      <4>1. z \in DOMAIN hd /\ w \in DOMAIN hd
        BY <1>2, <3>3, ZenonT(60)
      <4>2. /\ z \in DOMAIN hb /\ w \in DOMAIN hb
            /\ hb[z].addr = hc[z].addr /\ hb[w].addr = hc[w].addr
        BY <1>1, <1>2, <4>1, ZenonT(60)
      <4>. QED BY <2>1, <2>3, <4>2, ZenonT(60)
    <3>. QED BY <3>1, <3>2, <3>3, ZenonT(60)
  <2>4. ASSUME NEW h \in P
        PROVE  \E z \in DOMAIN hc : hc[z].addr - 1 = h
    <3>1. PICK z \in DOMAIN hb : hb[z].addr - 1 = h
      BY <2>1, Zenon
    <3>2. CASE z = x
      BY <1>1, <1>2, <3>1, <3>2, ZenonT(60)
    <3>3. CASE z # x
      BY <1>1, <1>2, <3>1, <3>3, ZenonT(60)
    <3>. QED BY <3>2, <3>3, ZenonT(60)
  <2>. QED BY <2>2, <2>3, <2>4, ZenonT(60) DEF Match
<1>. QED BY <1>3, ZenonT(60) DEF Good, Exact, P

LEMMA FaultGood ==
  ASSUME NEW p, NEW B, NEW hb, Good(p, B, hb), p.fate \in Going, NEW q,
         q = [p EXCEPT !.fate = IF p.fate = "sound" THEN "fault" ELSE p.fate]
  PROVE  Good(q, B, hb) /\ q.globs = p.globs
<1> DEFINE f == IF p.fate = "sound" THEN "fault" ELSE p.fate
<1>1. f \in Fates /\ (p.fate = "overgrown" => f = "overgrown")
  BY DEF Fates, Going
<1>2. p \in Heaps
  BY Zenon DEF Good, Sane
<1> HIDE DEF f
<1>3. Fields(q, p.mem, p.vmem_mark, p.used_bytes, p.block_count, p.globs, f)
  <2>1. q = [p EXCEPT !.fate = f]
    BY Zenon DEF f
  <2>. QED BY <1>1, <1>2, <2>1, SetFate, Zenon
<1>4. /\ q \in Heaps /\ q.globs = p.globs /\ q.mem = p.mem /\ q.vmem_mark = p.vmem_mark
      /\ q.fate = f /\ q.used_bytes = p.used_bytes /\ q.block_count = p.block_count
  BY <1>3, Zenon DEF Fields
<1>. QED BY <1>1, <1>4, ZenonT(60) DEF Good, Sane, Exact

\* The move itself, in a heap where the search has found a block.
LEMMA MoveGood ==
  ASSUME Facts,
         NEW lv \in Holdings, NEW c \in Clients, lv[c] # NoBlock, NEW h \in Nat,
         lv[c].addr = h + 1, NEW n \in Nat, NEW s, NEW N, Searching(s, n, {h}, lv, N), Found(s, n),
         NEW lw, lw = [lv EXCEPT ![c] = Held(s.at + 1, n)],
         NEW q, q = heap_free(Split(s.heap, s.at, n), h + 1)
  PROVE  lw \in Holdings /\ \E M : Good(q, M, HeldOf(lw, q.globs))
<1> DEFINE p == s.heap
           t == Split(p, s.at, n)
           b == Held(s.at + 1, n)
           gl == p.globs
           ga == Append(gl, b)
           lz == [lv EXCEPT ![c] = NoBlock]
           K == N \union {s.at + 2 + n}
<1>1. /\ Good(p, N, HeldOf(lv, gl)) /\ s.at \in N /\ h \in N
      /\ p.mem[h].present = 1 \/ h = s.at
  BY Zenon DEF Searching
<1>2. Fits(p.mem, s.at, n)
  BY Zenon DEF Found
<1>3. /\ SplitDone(p, t, N, s.at, n) /\ s.at + 1 \in Words
      /\ \A x, hc : Gains(HeldOf(lv, gl), hc, x, b) => Good(t, K, hc)
  BY <1>1, <1>2, SplitGood, ZenonT(60)
<1>4. b \in Records /\ b # NoBlock
  BY <1>3, RecordType, ZenonT(60)
<1> HIDE DEF b
<1>5. gl \in Seq(Records)
  BY <1>1, HeapFields, ZenonT(60) DEF Good, Sane
<1>6. ga \in Seq(Records)
  BY <1>4, <1>5, SMTT(20)
<1>7. Good(t, K, HeldOf(lv, ga))
  BY <1>3, <1>4, <1>5, HeldAppend, ZenonT(60)
<1>8. t.mem[h].present = 1 /\ h \in K
  <2>1. Splits(p.mem, t.mem, p.vmem_mark, N, s.at, n)
    BY <1>3, Zenon DEF SplitDone
  <2>2. t.mem[s.at].present = 1 /\ \A g \in N \ {s.at} : t.mem[g] = p.mem[g]
    BY <2>1, Zenon DEF Splits, Same, IsTag
  <2>. QED BY <1>1, <2>2, ZenonT(60)
<1> HIDE DEF t, ga, gl
<1>9. t.globs = gl
  BY <1>3, Zenon DEF SplitDone, gl
<1>10. Loses(HeldOf(lv, ga), HeldOf(lz, ga), c) /\ HeldOf(lv, ga)[c].addr = h + 1
  <2>. HIDE DEF lz
  <2>1. lz = [lv EXCEPT ![c] = NoBlock]
    BY SMTT(20) DEF lz
  <2>2. Loses(HeldOf(lv, ga), HeldOf(lz, ga), c) /\ HeldOf(lv, ga)[c] = lv[c]
    BY <1>6, <2>1, HeldChange, Zenon
  <2>. QED BY <2>2, ZenonT(60)
<1> HIDE DEF K
<1>11. PICK M : Good(q, M, HeldOf(lz, ga))
  <2>1. q = heap_free(t, h + 1)
    BY Zenon DEF t
  <2>2. \E x : Loses(HeldOf(lv, ga), HeldOf(lz, ga), x) /\ HeldOf(lv, ga)[x].addr = h + 1
    BY <1>10, ZenonT(60)
  <2>3. \E M : Good(heap_free(t, h + 1), M, HeldOf(lz, ga))
    <3>. HIDE DEF lz
    <3>. QED BY <1>7, <1>8, <2>2, FreeGood, SMTT(20)
  <2>. QED BY <2>1, <2>3, Zenon
<1>12. q.globs = gl
  <2>1. \E x : Loses(HeldOf(lv, ga), HeldOf(lz, ga), x) /\ HeldOf(lv, ga)[x].addr = h + 1
    BY <1>10, Zenon
  <2>2. heap_free(t, h + 1).globs = t.globs
    <3>. HIDE DEF lz
    <3>. QED BY <1>7, <1>8, <2>1, FreeGood, SMTT(20)
  <2>. QED BY <1>9, <2>2, ZenonT(60) DEF t
<1>13. lz \in Holdings /\ lz[c] = NoBlock /\ lw = [lz EXCEPT ![c] = b]
  BY <1>4, SMTT(20) DEF Holdings, b
<1>14. lw \in Holdings
  BY <1>4, <1>13, ZenonT(60) DEF Holdings
<1> HIDE DEF lz
<1>15. Gains(HeldOf(lz, gl), HeldOf(lw, gl), c, b)
  BY <1>4, <1>5, <1>13, HeldChange, ZenonT(60)
<1>16. Gains(HeldOf(lz, gl), HeldOf(lz, ga), Len(gl) + 1, b)
  BY <1>4, <1>5, HeldAppend, Zenon DEF ga
<1>17. Good(q, M, HeldOf(lw, gl))
  BY <1>11, <1>15, <1>16, GoodOther, ZenonT(60)
<1>. QED BY <1>12, <1>14, <1>17, ZenonT(60)

LEMMA MovingStep ==
  ASSUME Facts, HeapInv, NEW c \in Clients, NEW n \in Sizes, ReallocByMoving(c, n)
  PROVE  HeapInv'
<1> DEFINE b == live[c]
           h == b.addr - 1
           hb == HeldOf(live, heap.globs)
<1>1. live \in Holdings /\ heap.fate = "sound" /\ b # NoBlock
  BY ZenonT(60) DEF HeapInv, ReallocByMoving
<1>2. PICK B : Good(heap, B, hb)
  BY Zenon DEF HeapInv
<1>3. Client(h, b, hb, heap.mem, B, c)
  BY <1>1, <1>2, ClientBlock, ZenonT(60)
<1>4. b.addr = h + 1 /\ h \in Nat /\ h \in PresentOf(heap.mem, B)
  BY <1>3, Zenon DEF Client
<1>5. PICK r \in heap_alloc(heap, n) :
        \/ /\ r.addr = NoBlock
           /\ heap' = [r.heap EXCEPT !.fate = IF r.heap.fate = "sound" THEN "fault" ELSE r.heap.fate]
           /\ live' = live
        \/ /\ r.addr # NoBlock
           /\ heap' = heap_free(r.heap, h + 1)
           /\ live' = [live EXCEPT ![c] = Held(r.addr, n)]
  BY ZenonT(60) DEF ReallocByMoving
<1> HIDE DEF h
<1>6. PICK s \in Rounds(heap, n) :
        \/ Found(s, n) /\ r.heap = Split(s.heap, s.at, n) /\ r.addr = s.at + 1
        \/ r.heap = s.heap /\ r.addr = NoBlock
  BY AllocResult, Zenon
<1>7. n \in Nat \ {0} /\ n \in Nat
  BY SizesAssumption, SMTT(20)
<1>8. PICK N : Searching(s, n, {h}, live, N)
  <2>1. heap.fate \in Going /\ {h} \subseteq PresentOf(heap.mem, B)
    BY <1>1, <1>4, ZenonT(60) DEF Going
  <2>. QED BY <1>2, <1>7, <2>1, RoundsGood, ZenonT(60)
<1>9. s \in States /\ Good(s.heap, N, HeldOf(live, s.heap.globs)) /\ s.heap.fate \in Going
  BY <1>8, ZenonT(60) DEF Searching
<1>10. CASE r.heap = s.heap /\ r.addr = NoBlock
  <2>1. /\ heap' = [s.heap EXCEPT !.fate = IF s.heap.fate = "sound" THEN "fault" ELSE s.heap.fate]
        /\ live' = live
    BY <1>5, <1>10, ZenonT(60)
  <2>2. Good(heap', N, HeldOf(live, s.heap.globs)) /\ heap'.globs = s.heap.globs
    BY <1>9, <2>1, FaultGood, SMTT(20)
  <2>. QED BY <1>1, <2>1, <2>2, ZenonT(60) DEF HeapInv
<1>11. CASE Found(s, n) /\ r.heap = Split(s.heap, s.at, n) /\ r.addr = s.at + 1
  <2>0. s.at \in Nat
    BY <1>9, Zenon DEF States
  <2>1. r.addr # NoBlock
    <3>1. s.at + 1 \in Nat
      BY <2>0
    <3>. QED BY <1>11, <3>1, HoldersAssumption, Zenon
  <2>2. /\ heap' = heap_free(Split(s.heap, s.at, n), h + 1)
        /\ live' = [live EXCEPT ![c] = Held(s.at + 1, n)]
    BY <1>5, <1>11, <2>1, Zenon
  <2>3. live' \in Holdings /\ \E M : Good(heap', M, HeldOf(live', heap'.globs))
    BY <1>1, <1>4, <1>7, <1>8, <1>11, <2>2, MoveGood, ZenonT(60)
  <2>. QED BY <2>3, ZenonT(60) DEF HeapInv
<1>. QED BY <1>6, <1>10, <1>11, ZenonT(60)
-----------------------------------------------------------------------------
LEMMA HeapInit ==
  ASSUME Facts
  PROVE  Init => HeapInv
<1> SUFFICES ASSUME Init
             PROVE  HeapInv
  OBVIOUS
<1> DEFINE z == [w \in Words |-> Junk]
           m == HEAP_BL_SET(z, 0, PageSize - 2, 0)
           p == [mem |-> m, vmem_mark |-> PageSize, used_bytes |-> 0, block_count |-> 0,
                 globs |-> <<>>, fate |-> "sound"]
           lv == [c \in Clients |-> NoBlock]
           hb == HeldOf(lv, <<>>)
<1>1. heap = vmem_mgmt_add_global_mapping(p) /\ live = lv
  BY Zenon DEF Init
<1>2. PageSize \in Nat /\ PageSize > 2 /\ MaxPages \in Nat \ {0}
  BY PagesAssumption, SizesAssumption, SMTT(20)
<1>3. PageSize \in Marks
  <2>1. PageSize = 1 * PageSize /\ 1 \in 1 .. MaxPages
    BY <1>2, SMTT(20)
  <2>. QED BY <2>1, ZenonT(60) DEF Marks
<1>4. PageSize <= Limit
  BY <1>3, MarkType, ZenonT(60)
<1>5. z \in Mem
  <2>1. Junk \in TagType
    BY LimitType, SMTT(20) DEF Junk, Tag, TagType, Limit
  <2>. QED BY <2>1, ZenonT(60) DEF Mem
<1> HIDE DEF z
<1>6. m \in Mem /\ Block(m, 0, PageSize, 0)
  <2>1. 0 \in Nat /\ 0 + 2 <= PageSize /\ 0 \in {0, 1} /\ PageSize - 2 = PageSize - 0 - 2
    BY <1>2, SMTT(20)
  <2>. QED BY <1>2, <1>4, <1>5, <2>1, OneBlock, SMTT(20)
<1> HIDE DEF m
<1>7. Tiling(m, 0, PageSize, {0})
  <2>1. 0 \in Nat /\ 0 + 2 <= PageSize
    BY <1>2, SMTT(20)
  <2>. QED BY <1>2, <1>4, <1>6, <2>1, TilingOne, SMTT(20)
<1>8. m[0].present = 0 /\ m[0].sz = PageSize - 2 /\ After(m, 0) = PageSize
  BY <1>2, <1>6, SMTT(20) DEF Block, IsTag, After
<1>9. PresentOf(m, {0}) = {}
  <2>1. 0 # 1
    OBVIOUS
  <2>. QED BY <1>8, <2>1, ZenonT(60) DEF PresentOf
<1>10. Blocks(m, {0}) = 0 /\ Used(m, {0}) = 0
  <2>1. UsedWords(m, {}) = {}
    BY ZenonT(60) DEF UsedWords
  <2>. QED BY <1>9, <2>1, FiniteEmptySet, ZenonT(60) DEF Blocks, Used
<1>11. p \in Heaps /\ p.mem = m /\ p.vmem_mark = PageSize /\ p.used_bytes = 0
       /\ p.block_count = 0 /\ p.globs = <<>>
  <2>1. <<>> \in Seq(Records) /\ "sound" \in Fates
    BY SMTT(20) DEF Fates
  <2>. QED BY <1>3, <1>6, <2>1, SMTT(20) DEF Heaps
<1> HIDE DEF p
<1>12. Sane(p, {0})
  <2>1. 0 <= 0
    OBVIOUS
  <2>. QED BY <1>7, <1>10, <1>11, <2>1, ZenonT(60) DEF Sane
<1>13. Match(m, {}, hb)
  <2>1. DOMAIN hb = {}
    <3>1. DOMAIN <<>> = {}
      OBVIOUS
    <3>2. DOMAIN hb = {c \in Clients : lv[c] # NoBlock} \cup DOMAIN <<>>
      BY Zenon DEF HeldOf
    <3>3. \A c \in Clients : lv[c] = NoBlock
      BY ZenonT(60)
    <3>. HIDE DEF hb, lv
    <3>. QED BY <3>1, <3>2, <3>3, ZenonT(60)
  <2>. QED BY <2>1, ZenonT(60) DEF Match
<1>14. Coal(m, {0})
  <2>1. After(m, 0) # 0
    BY <1>2, <1>8, SMTT(20)
  <2>. QED BY <2>1, ZenonT(60) DEF Coal
<1>15. Good(p, {0}, HeldOf(lv, p.globs))
  BY <1>9, <1>10, <1>11, <1>12, <1>13, <1>14, ZenonT(60) DEF Good, Exact
<1>16. Room(p.mem, p.vmem_mark, {0}, PageSize - 2)
  <2>1. m[0].sz >= PageSize - 2
    BY <1>2, <1>8, SMTT(20)
  <2>. QED BY <1>8, <1>11, <2>1, ZenonT(60) DEF Room
<1> HIDE DEF lv
<1>17. PICK N, r : Keeps(p, {0}, lv, heap, N, r)
  BY <1>1, <1>15, <1>16, MappingGood, ZenonT(60)
<1>18. Good(heap, N, HeldOf(live, heap.globs))
  BY <1>1, <1>17, ZenonT(60) DEF Keeps
<1>19. live \in Holdings
  BY <1>1, ZenonT(60) DEF Holdings, lv
<1>. QED BY <1>18, <1>19, ZenonT(60) DEF HeapInv

LEMMA HeapStep ==
  ASSUME Facts
  PROVE  HeapInv /\ [Next]_vars => HeapInv'
<1> SUFFICES ASSUME HeapInv, [Next]_vars
             PROVE  HeapInv'
  OBVIOUS
<1>1. ASSUME NEW c \in Clients, NEW n \in Sizes, Alloc(c, n)
      PROVE  HeapInv'
  BY <1>1, AllocStep, ZenonT(60)
<1>2. ASSUME NEW c \in Clients, Free(c)
      PROVE  HeapInv'
  BY <1>2, FreeStep, ZenonT(60)
<1>3. ASSUME NEW c \in Clients, NEW n \in Sizes, ReallocInPlace(c, n)
      PROVE  HeapInv'
  BY <1>3, InPlaceStep, Zenon
<1>4. ASSUME NEW c \in Clients, NEW n \in Sizes, ReallocByMoving(c, n)
      PROVE  HeapInv'
  BY <1>4, MovingStep, Zenon
<1>5. CASE UNCHANGED vars
  BY <1>5, ZenonT(60) DEF vars, HeapInv
<1>6. CASE Halt
  BY <1>5, <1>6, ZenonT(60) DEF Halt
<1>. QED BY <1>1, <1>2, <1>3, <1>4, <1>5, <1>6, ZenonT(60) DEF Next

\* What the invariant says of the blocks that a walk passes.
LEMMA HeapWalk ==
  ASSUME Facts, HeapInv
  PROVE  /\ live \in Holdings /\ Good(heap, Headers, HeldBlocks)
         /\ heap \in Heaps /\ heap.mem \in Mem
         /\ Tiling(heap.mem, 0, heap.vmem_mark, Headers) /\ heap.vmem_mark \in Nat \ {0}
<1>1. PICK B : Good(heap, B, HeldOf(live, heap.globs))
  BY Zenon DEF HeapInv
<1>2. heap \in Heaps /\ Tiling(heap.mem, 0, heap.vmem_mark, B)
  BY <1>1, ZenonT(60) DEF Good, Sane
<1>3. heap.mem \in Mem /\ heap.vmem_mark \in Marks
  BY <1>2, HeapFields, ZenonT(60)
<1>4. heap.vmem_mark \in Nat \ {0} /\ heap.vmem_mark # 0
  BY <1>3, MarkType, SMTT(20)
<1>5. Headers = B
  BY <1>2, <1>3, <1>4, HeadersEffect, ZenonT(60) DEF Headers
<1>6. HeldBlocks = HeldOf(live, heap.globs)
  BY Zenon DEF HeldBlocks, HeldOf
<1>. QED BY <1>1, <1>2, <1>3, <1>4, <1>5, <1>6, ZenonT(60) DEF HeapInv

LEMMA TilesIfInv ==
  ASSUME Facts
  PROVE  HeapInv => TagsTileTheHeap
<1> SUFFICES ASSUME HeapInv
             PROVE  TagsTileTheHeap
  OBVIOUS
<1> DEFINE m == heap.mem
           mark == heap.vmem_mark
<1>1. /\ live \in Holdings /\ Good(heap, Headers, HeldBlocks) /\ heap \in Heaps /\ m \in Mem
      /\ Tiling(m, 0, mark, Headers) /\ mark \in Nat \ {0}
  BY HeapWalk, ZenonT(60)
<1>2. TypeOK
  <2>1. /\ heap.vmem_mark \in Marks /\ heap.globs \in Seq(Records) /\ heap.fate \in Fates
        /\ heap.used_bytes \in Int /\ heap.block_count \in Int
    BY <1>1, HeapFields, ZenonT(60)
  <2>2. Blocks(m, Headers) <= heap.block_count /\ Used(m, Headers) <= heap.used_bytes
    BY <1>1, ZenonT(60) DEF Good, Sane
  <2>3. Blocks(m, Headers) \in Nat /\ Used(m, Headers) \in Nat
    BY <1>1, CountType, ZenonT(60)
  <2>4. heap.used_bytes \in Nat /\ heap.block_count \in Nat
    BY <2>1, <2>2, <2>3, SMTT(20)
  <2>. QED BY <1>1, <2>1, <2>4, ZenonT(60) DEF TypeOK, Mem, Marks, Records, Fates, Holdings
<1>3. ASSUME NEW h \in Headers
      PROVE  /\ HEAP_BL_H2F(m, h) < mark /\ m[h].footer = 0
             /\ m[HEAP_BL_H2F(m, h)] = Tag(m[h].sz, m[h].present, 1)
             /\ HEAP_BL_NEXT(m, h) = After(m, h)
  <2>1. /\ h \in Words /\ mark \in Nat /\ After(m, h) \in Nat /\ After(m, h) <= mark
        /\ After(m, h) - 1 \in Words
    BY <1>1, TilingFacts, ZenonT(60)
  <2>2. HEAP_BL_H2F(m, h) = After(m, h) - 1 /\ HEAP_BL_NEXT(m, h) = After(m, h)
    BY <1>1, <2>1, NextFacts, Zenon
  <2>3. m[h].footer = 0 /\ IsTag(m[After(m, h) - 1], m[h].sz, m[h].present, 1)
    BY <1>1, ZenonT(60) DEF Tiling, Tile
  <2>4. m[After(m, h) - 1] \in TagType
    BY <1>1, <2>1, ZenonT(60) DEF Mem
  <2>5. m[After(m, h) - 1] = Tag(m[h].sz, m[h].present, 1)
    BY <2>3, <2>4, SMTT(20) DEF IsTag, TagType, Tag
  <2>6. After(m, h) - 1 < mark
    BY <2>1, SMTT(20)
  <2>. QED BY <2>2, <2>3, <2>5, <2>6, ZenonT(60)
<1>4. \E h \in Headers : After(m, h) = mark
  <2>1. 0 \in Headers
    <3>1. 0 < mark
      BY <1>1, SMTT(20)
    <3>. QED BY <1>1, <3>1, ZenonT(60) DEF Tiling
  <2> DEFINE h == Scan(m, mark, 0, Limit)
  <2>2. h \in Headers /\ (Fits(m, h, Limit) \/ After(m, h) = mark)
    BY <1>1, <2>1, ScanEffect, ZenonT(60)
  <2>. HIDE DEF h
  <2>3. ~Fits(m, h, Limit)
    <3>1. h \in Words
      BY <1>1, <2>2, TilingFacts, ZenonT(60)
    <3>2. m[h].sz \in 0 .. Limit
      BY <1>1, <3>1, MemFacts, Zenon
    <3>3. ~(m[h].sz >= Limit + 2)
      BY <3>2, LimitType, SMTT(20)
    <3>. QED BY <3>3, ZenonT(60) DEF Fits, HEAP_BL_DATASZ2SZ
  <2>. QED BY <2>2, <2>3, ZenonT(60)
<1>5. \E h \in Headers : HEAP_BL_NEXT(m, h) = mark
  BY <1>3, <1>4, ZenonT(60)
<1>. QED BY <1>2, <1>3, <1>5, ZenonT(60) DEF TagsTileTheHeap

LEMMA SafeIfInv ==
  ASSUME Facts
  PROVE  HeapInv => SafeUnlessOvergrown
<1> SUFFICES ASSUME HeapInv, heap.fate # "overgrown"
             PROVE  LiveBlocksAreSafe
  BY Zenon DEF SafeUnlessOvergrown
<1>1. Match(heap.mem, Present, HeldBlocks)
  <2>1. Good(heap, Headers, HeldBlocks)
    BY HeapWalk, Zenon
  <2>. QED BY <2>1, ZenonT(60) DEF Good, Exact, Present
<1>. QED BY <1>1, ZenonT(60) DEF LiveBlocksAreSafe, Match, Fills

LEMMA LeakIfInv ==
  ASSUME Facts
  PROVE  HeapInv => NothingLeaks
<1> SUFFICES ASSUME HeapInv, heap.fate # "overgrown"
             PROVE  /\ Coalesced
                    /\ Present = {HeldBlocks[x].addr - 1 : x \in DOMAIN HeldBlocks}
                    /\ heap.block_count = Cardinality(Present)
                    /\ heap.used_bytes = Cardinality(UsedWords(heap.mem, Present))
  BY Zenon DEF NothingLeaks
<1> DEFINE m == heap.mem
           mark == heap.vmem_mark
<1>1. /\ Good(heap, Headers, HeldBlocks) /\ m \in Mem
      /\ Tiling(m, 0, mark, Headers) /\ mark \in Nat \ {0}
  BY HeapWalk, Zenon
<1>2. /\ Blocks(m, Headers) = heap.block_count /\ Used(m, Headers) = heap.used_bytes
      /\ Coal(m, Headers) /\ Match(m, Present, HeldBlocks)
  BY <1>1, Zenon DEF Good, Exact, Present
<1>3. /\ heap.block_count = Cardinality(Present)
      /\ heap.used_bytes = Cardinality(UsedWords(m, Present))
  BY <1>2, Zenon DEF Blocks, Used, Present
<1>4. Present = {HeldBlocks[x].addr - 1 : x \in DOMAIN HeldBlocks}
  <2>1. ASSUME NEW h \in Present
        PROVE  \E x \in DOMAIN HeldBlocks : h = HeldBlocks[x].addr - 1
    BY <1>2, Zenon DEF Match
  <2>2. ASSUME NEW x \in DOMAIN HeldBlocks
        PROVE  HeldBlocks[x].addr - 1 \in Present
    BY <1>2, Zenon DEF Match, Fills
  <2>. QED BY <2>1, <2>2, ZenonT(60)
<1>5. ASSUME NEW h \in Headers \ Present, HEAP_BL_HAS_NEXT(m, mark, h)
      PROVE  m[HEAP_BL_NEXT(m, h)].present = 1
  <2>1. h \in Headers /\ m[h].present # 1
    BY Zenon DEF Present, PresentOf
  <2>2. h \in Words /\ mark \in Nat /\ After(m, h) \in Nat
    BY <1>1, <2>1, TilingFacts, ZenonT(60)
  <2>3. HEAP_BL_NEXT(m, h) = After(m, h) /\ After(m, h) < mark
    BY <1>1, <1>5, <2>2, NextFacts, ZenonT(60)
  <2>4. After(m, h) = mark \/ After(m, h) \in Headers
    BY <1>1, <2>1, ZenonT(60) DEF Tiling, Tile
  <2>5. After(m, h) \in Headers
    BY <2>2, <2>3, <2>4, SMTT(20)
  <2>. QED BY <1>2, <2>1, <2>3, <2>5, ZenonT(60) DEF Coal, Apart
<1>. QED BY <1>3, <1>4, <1>5, ZenonT(60) DEF Coalesced
-----------------------------------------------------------------------------
INSTANCE FiniteSetTheorems
INSTANCE WellFoundedInduction

\* The facts are theorems of the library.
LEMMA Library == Facts
<1>1. Least
  <2> SUFFICES ASSUME NEW T, T \subseteq Nat, T # {}
               PROVE  \E x \in T : \A y \in T : x <= y
    BY Zenon DEF Least
  <2>1. PICK x \in T : \A y \in T : ~(<<y, x>> \in OpToRel(<, Nat))
    BY WFMin, NatLessThanWellFounded, Zenon
  <2>2. \A y \in T : ~(y < x)
    BY <2>1, Zenon DEF OpToRel
  <2>. QED BY <2>2
<1>2. Intervals
  BY FS_Interval DEF Intervals
<1>3. Subsets
  BY FS_Subset, Zenon DEF Subsets
<1>4. Cardinals
  BY FS_CardinalityType, Zenon DEF Cardinals
<1>5. Unions
  <2> SUFFICES ASSUME NEW S, NEW T, IsFiniteSet(S), IsFiniteSet(T)
               PROVE  /\ IsFiniteSet(S \cup T)
                      /\ Cardinality(S \cup T) =
                           Cardinality(S) + Cardinality(T) - Cardinality(S \cap T)
    BY Zenon DEF Unions
  <2>. QED BY FS_Union
<1>6. Additions
  BY FS_AddElement, Zenon DEF Additions
<1>. QED BY <1>1, <1>2, <1>3, <1>4, <1>5, <1>6, FS_EmptySet, Zenon DEF Facts

\* Every state a run of the heap reaches satisfies the invariant.
LEMMA HeapSafe == Spec => []HeapInv
<1>1. Init => HeapInv
  BY Library, HeapInit, Zenon
<1>2. HeapInv /\ [Next]_vars => HeapInv'
  BY Library, HeapStep, Zenon
<1>. QED BY <1>1, <1>2, PTL DEF Spec

(***************************************************************************)
(* After any sequence of allocations, frees and resizes, whatever pages    *)
(* were added in between and whichever vmem_map refused, the tags tile the *)
(* mapped heap and every size, counter and pointer is of its type.  It     *)
(* holds even of a heap in which a held block was grown.                   *)
(***************************************************************************)
THEOREM HeapTiles == Spec => []TagsTileTheHeap
<1>1. HeapInv => TagsTileTheHeap
  BY Library, TilesIfInv, Zenon
<1>. QED BY <1>1, HeapSafe, PTL

(***************************************************************************)
(* Unless the loop of heap_alloc grows a block that somebody holds, what a *)
(* client or the list of global mappings holds is an allocated block of    *)
(* its own, of at least the size asked for.                                *)
(***************************************************************************)
THEOREM HeapBlocksSafe == Spec => []SafeUnlessOvergrown
<1>1. HeapInv => SafeUnlessOvergrown
  BY Library, SafeIfInv, Zenon
<1>. QED BY <1>1, HeapSafe, PTL

(***************************************************************************)
(* Unless that happens, every allocated block has a holder, the statistics *)
(* count exactly those blocks and no two neighbours are free.              *)
(***************************************************************************)
THEOREM HeapNothingLeaks == Spec => []NothingLeaks
<1>1. HeapInv => NothingLeaks
  BY Library, LeakIfInv, Zenon
<1>. QED BY <1>1, HeapSafe, PTL
=============================================================================
