-------------------------------- MODULE Heap --------------------------------
(***************************************************************************)
(* The boundary-tag heap (heap.c, used through kheap.h for the kernel      *)
(* heap): a block is a header word, its data and a footer word that        *)
(* repeats the header.                                                     *)
(*                                                                         *)
(* Memory is counted in words of sizeof(heap_block_t), heap->start being   *)
(* word 0, and requests in words as well: heap_alloc rounds its argument   *)
(* up to words, and heap_realloc is only called with multiples of a word.  *)
(***************************************************************************)
EXTENDS Integers, Sequences, FiniteSets, FiniteSetsExt

CONSTANTS
  Clients,   \* the holders of pointers into the heap, one block each
  Sizes,     \* the sizes they ask for, in words
  PageSize,  \* PAGE_SIZE_4K in words
  ListSz,    \* the words of a list_t,
  MapSz,     \* of a vmem_glob_mapping_t,
  NodeSz,    \* and of a list_node_t
  MaxPages,  \* bound: vmem_map fails for every page from this one on, and
             \* heap->end is not nearer
  NoBlock    \* a NULL pointer

ASSUME SizesAssumption == Sizes \cup {ListSz, MapSz, NodeSz} \subseteq Nat \ {0}
ASSUME HoldersAssumption ==
  Clients \cap Nat = {} /\ NoBlock \notin Nat \cup [addr : Nat, sz : Nat]
ASSUME PagesAssumption ==
  PageSize \in Nat /\ PageSize > ListSz + MapSz + NodeSz + 8 /\ MaxPages \in Nat \ {0}

VARIABLES
  heap,  \* the words of the heap, as the tags they hold (mem); heap->state, in
         \* words: vmem_mark, the first word not mapped yet, used_bytes and
         \* block_count; the blocks of vmem_glob_map (globs); and what became
         \* of the heap (fate): "sound", "overgrown" once a block was grown
         \* that somebody holds, "fault" once the kernel has accessed NULL
  live   \* what each client holds: its pointer and the size it asked for

vars == <<heap, live>>

Words == 0 .. (MaxPages * PageSize - 1)

\* A heap_block_t: the size and the two flags, HEAP_PRESENT and HEAP_FOOTER.
Tag(s, p, f) == [sz |-> s, present |-> p, footer |-> f]
Junk == Tag(0, 0, 0)  \* a word that is not a tag: data, or a new page

Held(a, n) == [addr |-> a, sz |-> n]

(***************************************************************************)
(* The macros HEAP_BL_*, on the words m.                                   *)
(***************************************************************************)
HEAP_BL_DATASZ2SZ(s) == s + 2
HEAP_BL_H2F(m, h) == h + 1 + m[h].sz
HEAP_BL_NEXT(m, h) == HEAP_BL_H2F(m, h) + 1
HEAP_BL_PREV(m, h) == (h - 1) - 1 - m[h - 1].sz
HEAP_BL_HAS_NEXT(m, mark, h) == HEAP_BL_NEXT(m, h) < mark
HEAP_BL_HAS_PREV(h) == h > 0
HEAP_BL_SET(m, h, s, p) ==
  [m EXCEPT ![h] = Tag(s, p, 0), ![h + 1 + s] = Tag(s, p, 1)]

heap_validate(m, a) ==
  LET h == a - 1
      f == HEAP_BL_H2F(m, h)
  IN  /\ h \in Words /\ m[h].footer = 0
      /\ f \in Words /\ m[f].footer = 1
      /\ m[h].sz = m[f].sz

(***************************************************************************)
(* heap_alloc, for n words in the heap p.  The scan from the block h stops *)
(* at the first free block that is large enough for the data and for the   *)
(* remainder's header and footer, or else at the last block.               *)
(***************************************************************************)
Fits(m, h, n) == m[h].present = 0 /\ m[h].sz >= HEAP_BL_DATASZ2SZ(n)

Scan(m, mark, from, n) ==
  LET scan[h \in 0 .. (mark - 1)] ==
        IF Fits(m, h, n) \/ ~HEAP_BL_HAS_NEXT(m, mark, h)
        THEN h
        ELSE scan[HEAP_BL_NEXT(m, h)]
  IN  scan[from]

Clear(m, h) ==  \* the holder overwrites its data
  [w \in DOMAIN m |-> IF w \in (h + 1) .. (h + m[h].sz) THEN Junk ELSE m[w]]

Split(p, h, n) ==
  LET rest == p.mem[h].sz - HEAP_BL_DATASZ2SZ(n)
      one == HEAP_BL_SET(p.mem, h, n, 1)
  IN  [p EXCEPT !.mem = Clear(HEAP_BL_SET(one, HEAP_BL_NEXT(one, h), rest, 0), h),
                !.used_bytes = @ + n,
                !.block_count = @ + 1]

\* An allocation by vmem_mgmt_add_global_mapping, which finds room: it comes
\* when the heap is new or has a page more.
KeptFor(p, n) ==
  LET h == Scan(p.mem, p.vmem_mark, 0, n)
  IN  [Split(p, h, n) EXCEPT !.globs = Append(@, Held(h + 1, n))]

vmem_mgmt_add_global_mapping(p) ==
  KeptFor(KeptFor(IF p.globs = <<>> THEN KeptFor(p, ListSz) ELSE p, MapSz), NodeSz)

(***************************************************************************)
(* One more page for the last block, s.at: it is the page s.i of this      *)
(* round, and the block, of s.sz words before the round, is marked free    *)
(* whether or not it is.                                                   *)
(***************************************************************************)
AddPage(s) ==
  vmem_mgmt_add_global_mapping(
    [s.heap EXCEPT !.vmem_mark = @ + PageSize,
                   !.mem = HEAP_BL_SET(@, s.at, s.sz + PageSize * (s.i + 1), 0),
                   !.fate = IF s.heap.mem[s.at].present = 1 THEN "overgrown" ELSE @])

\* The search of a round, which goes on at the block s.at.
Seek(s, n) ==
  LET h == Scan(s.heap.mem, s.heap.vmem_mark, s.at, n)
  IN  [s EXCEPT !.at = h, !.sz = s.heap.mem[h].sz]

(***************************************************************************)
(* The loop after k pages: each round that does not find a block adds as   *)
(* many pages as hold the bytes asked for.                                 *)
(***************************************************************************)
Rounds(p, n) ==
  LET pcnt == (n + PageSize - 1) \div PageSize
      room == MaxPages - p.vmem_mark \div PageSize
      loop[k \in 0 .. room] ==
        IF k = 0 THEN Seek([heap |-> p, at |-> 0, sz |-> 0, i |-> 0], n)
        ELSE LET s == loop[k - 1]
                 t == [s EXCEPT !.heap = AddPage(s), !.i = (s.i + 1) % pcnt]
             IN  IF s.i = 0 /\ Fits(s.heap.mem, s.at, n) THEN s
                 ELSE IF t.i = 0 THEN Seek(t, n) ELSE t
  IN  {loop[k] : k \in 0 .. room}

\* The possible results: vmem_map may fail at any page, and fails beyond the
\* bound.
heap_alloc(p, n) ==
  {IF s.i = 0 /\ Fits(s.heap.mem, s.at, n)
   THEN [heap |-> Split(s.heap, s.at, n), addr |-> s.at + 1]
   ELSE [heap |-> s.heap, addr |-> NoBlock] : s \in Rounds(p, n)}

(***************************************************************************)
(* heap_free: the block is merged with its free neighbours.                *)
(***************************************************************************)
\* Mutant of FreeSize: the next block is absorbed whether it is free or not.
mut_free_over_next(m, mark, h) ==
  IF HEAP_BL_HAS_NEXT(m, mark, h)
  THEN m[h].sz + HEAP_BL_DATASZ2SZ(m[HEAP_BL_NEXT(m, h)].sz)
  ELSE m[h].sz

FreeSize(m, mark, h) ==
  IF HEAP_BL_HAS_NEXT(m, mark, h) /\ m[HEAP_BL_NEXT(m, h)].present = 0
  THEN m[h].sz + HEAP_BL_DATASZ2SZ(m[HEAP_BL_NEXT(m, h)].sz)
  ELSE m[h].sz

\* Mutant of Merged: the previous block is never looked at.
mut_merge_next_only(m, mark, h) ==
  HEAP_BL_SET(m, h, FreeSize(m, mark, h), 0)

Merged(m, mark, h) ==
  LET sz == FreeSize(m, mark, h)
      prev == HEAP_BL_PREV(m, h)
  IN  IF HEAP_BL_HAS_PREV(h) /\ m[prev].present = 0
      THEN HEAP_BL_SET(m, prev, sz + HEAP_BL_DATASZ2SZ(m[prev].sz), 0)
      ELSE HEAP_BL_SET(m, h, sz, 0)

heap_free(p, a) ==
  IF heap_validate(p.mem, a)
  THEN [p EXCEPT !.mem = Merged(@, p.vmem_mark, a - 1),
                 !.used_bytes = @ - p.mem[a - 1].sz,
                 !.block_count = @ - 1]
  ELSE p
-----------------------------------------------------------------------------
\* heap_init for the kernel heap: one page, one free block, and the mapping of
\* the page is recorded in the heap itself.
Init ==
  /\ heap = vmem_mgmt_add_global_mapping(
              [mem |-> HEAP_BL_SET([w \in Words |-> Junk], 0, PageSize - 2, 0),
               vmem_mark |-> PageSize, used_bytes |-> 0, block_count |-> 0,
               globs |-> <<>>, fate |-> "sound"])
  /\ live = [c \in Clients |-> NoBlock]

Alloc(c, n) ==
  /\ heap.fate = "sound"
  /\ live[c] = NoBlock
  /\ \E r \in heap_alloc(heap, n) :
       /\ heap' = r.heap
       /\ live' = [live EXCEPT ![c] = IF r.addr = NoBlock THEN @ ELSE Held(r.addr, n)]

Free(c) ==
  /\ heap.fate = "sound"
  /\ live[c] # NoBlock
  /\ live' = [live EXCEPT ![c] = NoBlock]
  /\ heap' = heap_free(heap, live[c].addr)
-----------------------------------------------------------------------------
(***************************************************************************)
(* heap_realloc of a block that validates.                                 *)
(***************************************************************************)
NextAbsorbable(p, h, n) ==
  /\ HEAP_BL_HAS_NEXT(p.mem, p.vmem_mark, h)
  /\ LET next == HEAP_BL_NEXT(p.mem, h) IN
     p.mem[next].present = 0 /\ HEAP_BL_DATASZ2SZ(p.mem[next].sz) + p.mem[h].sz >= n

\* Mutant of Absorb: the tags of the successor are left out of the size.
mut_absorb_without_tags(m, h, n) ==
  LET next == m[HEAP_BL_NEXT(m, h)].sz
      one == HEAP_BL_SET(m, h, n, 1)
  IN  IF next - (n - m[h].sz) <= 0
      THEN HEAP_BL_SET(m, h, m[h].sz + next, 1)
      ELSE HEAP_BL_SET(one, HEAP_BL_NEXT(one, h), next - (n - m[h].sz), 0)

\* The block, grown over its free successor.
Absorb(m, h, n) ==
  LET next == m[HEAP_BL_NEXT(m, h)].sz
      one == HEAP_BL_SET(m, h, n, 1)
  IN  IF next - (n - m[h].sz) <= 0
      THEN HEAP_BL_SET(m, h, m[h].sz + HEAP_BL_DATASZ2SZ(next), 1)
      ELSE HEAP_BL_SET(one, HEAP_BL_NEXT(one, h), next - (n - m[h].sz), 0)

ReallocInPlace(c, n) ==
  LET h == live[c].addr - 1
      grown == Clear(Absorb(heap.mem, h, n), h)
  IN  /\ heap.fate = "sound"
      /\ live[c] # NoBlock
      /\ heap_validate(heap.mem, h + 1)
      /\ \/ heap.mem[h].sz >= n /\ UNCHANGED heap
         \/ /\ heap.mem[h].sz < n /\ NextAbsorbable(heap, h, n)
            /\ heap' = [heap EXCEPT !.mem = grown,
                                    !.used_bytes = @ + (grown[h].sz - heap.mem[h].sz)]
      /\ live' = [live EXCEPT ![c].sz = n]

\* Otherwise allocate, move the contents and free the old block; the contents
\* are moved to NULL if the allocation fails.
ReallocByMoving(c, n) ==
  LET h == live[c].addr - 1 IN
  /\ heap.fate = "sound"
  /\ live[c] # NoBlock
  /\ heap_validate(heap.mem, h + 1)
  /\ heap.mem[h].sz < n /\ ~NextAbsorbable(heap, h, n)
  /\ \E r \in heap_alloc(heap, n) :
       \/ /\ r.addr = NoBlock
          /\ heap' = [r.heap EXCEPT !.fate = IF @ = "sound" THEN "fault" ELSE @]
          /\ UNCHANGED live
       \/ /\ r.addr # NoBlock
          /\ heap' = heap_free(r.heap, h + 1)
          /\ live' = [live EXCEPT ![c] = Held(r.addr, n)]

\* The page fault at NULL ends in abort(); what a heap does that two holders
\* share a block of is not followed.
Halt == heap.fate # "sound" /\ UNCHANGED vars

Next ==
  \/ \E c \in Clients, n \in Sizes : Alloc(c, n)
  \/ \E c \in Clients : Free(c)
  \/ \E c \in Clients, n \in Sizes : ReallocInPlace(c, n)
  \/ \E c \in Clients, n \in Sizes : ReallocByMoving(c, n)
  \/ Halt

Spec == Init /\ [][Next]_vars
-----------------------------------------------------------------------------
(***************************************************************************)
(* Properties.                                                             *)
(***************************************************************************)
TagType == [sz : 0 .. (MaxPages * PageSize), present : {0, 1}, footer : {0, 1}]

\* Tags, statistics and holdings are of their types: no size is out of bounds
\* (heap.c:121-130).
TypeOK ==
  /\ heap.mem \in [Words -> TagType]
  /\ heap.vmem_mark \in {k * PageSize : k \in 1 .. MaxPages}
  /\ heap.used_bytes \in Nat
  /\ heap.block_count \in Nat
  /\ heap.globs \in Seq([addr : Words, sz : Nat])
  /\ heap.fate \in {"sound", "fault", "overgrown"}
  /\ live \in [Clients -> {NoBlock} \cup [addr : Words, sz : Nat]]

\* The headers a walk from heap->start passes.
HeadersOf(m, mark) ==
  LET walk[h \in 0 .. (mark - 1)] ==
        {h} \cup IF HEAP_BL_HAS_NEXT(m, mark, h) THEN walk[HEAP_BL_NEXT(m, h)] ELSE {}
  IN  walk[0]

Headers == HeadersOf(heap.mem, heap.vmem_mark)

\* The allocated blocks, and the words in them.
PresentOf(m, blocks) == {h \in blocks : m[h].present = 1}
UsedWords(m, blocks) == UNION {(h + 1) .. (h + m[h].sz) : h \in blocks}

Present == PresentOf(heap.mem, Headers)

\* What the clients and the list of global mappings hold, by holder.
HeldBlocks ==
  [x \in {c \in Clients : live[c] # NoBlock} \cup DOMAIN heap.globs |->
     IF x \in Clients THEN live[x] ELSE heap.globs[x]]

(***************************************************************************)
(* After any sequence of allocations, frees and resizes the tags tile the  *)
(* mapped heap: following the sizes from heap->start reaches vmem_mark     *)
(* exactly, no size is out of bounds, and every header is repeated by its  *)
(* footer (the layout the comment at heap.c:121-130 describes, and         *)
(* heap_validate relies on).                                               *)
(***************************************************************************)
TagsTileTheHeap ==
  /\ TypeOK
  /\ \A h \in Headers :
       LET f == HEAP_BL_H2F(heap.mem, h) IN
       /\ f < heap.vmem_mark
       /\ heap.mem[h].footer = 0
       /\ heap.mem[f] = Tag(heap.mem[h].sz, heap.mem[h].present, 1)
  /\ \E h \in Headers : HEAP_BL_NEXT(heap.mem, h) = heap.vmem_mark

(***************************************************************************)
(* What a client or the list of global mappings holds is an allocated      *)
(* block of its own of at least the size asked for: no block is given to   *)
(* two holders and none is freed, shrunk or merged under its holder.  "If  *)
(* bit 0 is set, the block is allocated, otherwise it is free"             *)
(* (heap.c:122-123).                                                       *)
(***************************************************************************)
LiveBlocksAreSafe ==
  /\ \A x \in DOMAIN HeldBlocks :
       /\ HeldBlocks[x].addr - 1 \in Present
       /\ heap.mem[HeldBlocks[x].addr - 1].sz >= HeldBlocks[x].sz
  /\ \A x, y \in DOMAIN HeldBlocks :
       x # y => HeldBlocks[x].addr # HeldBlocks[y].addr

(***************************************************************************)
(* The same of every heap that has not grown a block somebody holds.  The  *)
(* last block is held after a resize that consumed the last free block     *)
(* (heap.c:326-328), and in the second round of the loop that adds pages,  *)
(* if the record of the first page was allocated from it (heap.c:242-245). *)
(***************************************************************************)
SafeUnlessOvergrown == heap.fate = "overgrown" \/ LiveBlocksAreSafe

(***************************************************************************)
(* No two neighbouring blocks are both free, so that freed space is whole  *)
(* again: heap_free merges on both sides and neither a split nor a resize  *)
(* leaves a free block next to another.                                    *)
(***************************************************************************)
Coalesced == \A h \in Headers \ Present :
  HEAP_BL_HAS_NEXT(heap.mem, heap.vmem_mark, h) =>
    heap.mem[HEAP_BL_NEXT(heap.mem, h)].present = 1

(***************************************************************************)
(* Nothing leaks: every allocated block has a holder, the statistics       *)
(* boot_next prints (tachyon.c:167) count exactly those blocks, and what   *)
(* was freed is whole again.                                               *)
(***************************************************************************)
NothingLeaks == heap.fate # "overgrown" =>
  /\ Coalesced
  /\ Present = {HeldBlocks[x].addr - 1 : x \in DOMAIN HeldBlocks}
  /\ heap.block_count = Cardinality(Present)
  /\ heap.used_bytes = Cardinality(UsedWords(heap.mem, Present))
=============================================================================
