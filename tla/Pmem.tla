-------------------------------- MODULE Pmem --------------------------------
(***************************************************************************)
(* The physical page allocator (pmem.c): regions of pages, each with a     *)
(* bitmap.  Addresses and lengths are in pages.  owners and blocks are     *)
(* what the callers hold: a block that pmem_alloc returned is freed with   *)
(* the length it was allocated with, as pmem.h demands.                    *)
(***************************************************************************)
EXTENDS Bmap, Sequences

CONSTANTS
  Pages,       \* the physical pages the model looks at
  FirstStart,  \* first_region.start
  FirstBits,   \* the bits of first_bmap, 32
  Adds,        \* the <<start, length>> pmem_add is called with
  Reserves,    \* the <<addr, length>> pmem_reserve is called with
  Counts,      \* the lengths pmem_alloc is called with
  None         \* no page

ASSUME PmemAssumption ==
  /\ FirstStart \in Nat /\ FirstBits \in Nat \ {0}
  /\ FirstStart .. (FirstStart + FirstBits - 1) \subseteq Pages
  /\ \A r \in Adds \union Reserves : r[1] .. (r[1] + r[2] - 1) \subseteq Pages
  /\ Adds \union Reserves \subseteq Nat \X Nat
  /\ Counts \subseteq Nat \ {0} /\ None \notin Pages

VARIABLES
  regs,      \* the list of regions: the first page and the bitmap
  owners,    \* how many live blocks hold a page
  blocks,    \* the live blocks, <<page, length>>
  reserved,  \* the pages of successful pmem_reserve calls
  phase      \* "run", or "fatal"

vars == <<regs, owners, blocks, reserved, phase>>

End(r) == r.start + r.map.bits

pmem_reg_contains(r, page) == page >= r.start /\ page < End(r)

Holds(r) == r.start .. (End(r) - 1)

Init ==
  /\ regs = <<[start |-> FirstStart, map |-> bmap_init(FirstBits)]>>
  /\ owners = [p \in Pages |-> 0]
  /\ blocks = {}
  /\ reserved = {}
  /\ phase = "run"

\* Whether a range starts, and ends, within a region.
StartsIn(r, start) == pmem_reg_contains(r, start)
EndsIn(r, start, length) == start + length > r.start /\ start + length < End(r)

\* One round of recheck in pmem_add, which cuts the range <<start, length>> off
\* at the first region in the list that one of its ends lies in; a length of
\* zero stands for the return.
Recheck(rs, range) ==
  LET start == range[1]
      length == range[2]
      hits == {i \in DOMAIN rs : StartsIn(rs[i], start) \/ EndsIn(rs[i], start, length)}
      r == rs[Min(hits)]
  IN  IF hits = {} THEN range
      ELSE IF ~StartsIn(r, start) THEN <<start, r.start - start>>
      ELSE IF start + length <= End(r) THEN <<start, 0>>
      ELSE <<End(r), length - (End(r) - start)>>

\* What pmem_add leaves of a range.  Every round cuts something off, or is the
\* last one.
Trimmed(rs, start, length) ==
  LET trim[k \in 0 .. length] ==
        IF k = 0 THEN <<start, length>> ELSE Recheck(rs, trim[k - 1])
  IN  trim[length]

\* pmem_init has every region added before it reserves anything.
pmem_add ==
  /\ phase = "run" /\ reserved = {}
  /\ \E add \in Adds :
       LET range == Trimmed(regs, add[1], add[2])
       IN  /\ range[2] > 0
           /\ regs' = Append(regs, [start |-> range[1], map |-> bmap_init(range[2])])
  /\ UNCHANGED <<owners, blocks, reserved, phase>>

\* Whether pmem_alloc_helper looks into a region, by its filling degree.
HasRoom(r, n, use_fdeg) ==
  LET fdeg == IF use_fdeg THEN bmap_fdeg(r.map) ELSE 0
  IN  fdeg = 0 \/ r.map.bits * (100 - fdeg) > n * 100

\* Whether it finds a run of n bits there, and whether bmap_fill then takes it.
Searched(r, n, use_fdeg) == HasRoom(r, n, use_fdeg) /\ bmap_search(r.map, n) < r.map.bits
Gives(r, n, use_fdeg) ==
  LET idx == bmap_search(r.map, n)
  IN  Searched(r, n, use_fdeg) /\ FillOk(r.map, idx, idx + n)

\* What it leaves of the region.  A run that bmap_fill refuses only moves the
\* hint.
Tried(r, n, use_fdeg) ==
  LET idx == bmap_search(r.map, n)
  IN  IF Searched(r, n, use_fdeg)
      THEN [r EXCEPT !.map = bmap_fill([@ EXCEPT !.hint = idx + n], TRUE, idx, idx + n)]
      ELSE r

\* pmem_alloc_helper: the regions it leaves, all those up to the first one that
\* gives the block being tried, and the page it has found.
pmem_alloc_helper(rs, n, use_fdeg) ==
  LET gives == {i \in DOMAIN rs : Gives(rs[i], n, use_fdeg)}
  IN  [regs |-> [i \in DOMAIN rs |-> IF \A j \in gives : i <= j
                                     THEN Tried(rs[i], n, use_fdeg) ELSE rs[i]],
       at |-> IF gives = {} THEN None
              ELSE rs[Min(gives)].start + bmap_search(rs[Min(gives)].map, n)]

pmem_alloc ==
  /\ phase = "run"
  /\ \E n \in Counts :
       LET hinted == pmem_alloc_helper(regs, n, TRUE)
           any    == IF hinted.at # None THEN hinted
                     ELSE pmem_alloc_helper(hinted.regs, n, FALSE)
       IN  /\ regs' = any.regs
           /\ IF any.at = None
              THEN /\ phase' = "fatal"
                   /\ UNCHANGED <<owners, blocks>>
              ELSE /\ owners' = [p \in Pages |->
                                   IF p \in any.at .. (any.at + n - 1)
                                   THEN owners[p] + 1 ELSE owners[p]]
                   /\ blocks' = blocks \union {<<any.at, n>>}
                   /\ UNCHANGED phase
  /\ UNCHANGED reserved

(***************************************************************************)
(* The regions in which the loops of pmem_reserve come to the pages of a   *)
(* range, 0 for a page they skip: a region is followed up to its end, then *)
(* the search for the next page goes on with the regions behind it in the  *)
(* list, and a page that none of those holds is skipped.                   *)
(***************************************************************************)
Visited(addr, length) ==
  LET visit[page \in (addr - 1) .. (addr + length - 1)] ==
        LET hits == {i \in DOMAIN regs : /\ i >= visit[page - 1]
                                         /\ pmem_reg_contains(regs[i], page)}
        IN  IF page < addr \/ hits = {} THEN 0 ELSE Min(hits)
  IN  visit

\* Mutant of Taken: only the first page is looked at.
mut_taken(addr, length) ==
  \E page \in addr .. addr : \E i \in DOMAIN regs :
    i = Visited(addr, length)[page] /\ bmap_get(regs[i].map, page - regs[i].start)

\* The first pass: whether a page of the range is marked already.
Taken(addr, length) ==
  \E page \in addr .. (addr + length - 1) : \E i \in DOMAIN regs :
    i = Visited(addr, length)[page] /\ bmap_get(regs[i].map, page - regs[i].start)

\* The second pass: the pages of region i are marked, in order.
Marked(i, addr, length) ==
  LET mark[page \in (addr - 1) .. (addr + length - 1)] ==
        IF page < addr THEN regs[i].map
        ELSE IF Visited(addr, length)[page] = i
             THEN bmap_set(mark[page - 1], page - regs[i].start, TRUE)
             ELSE mark[page - 1]
  IN  mark[addr + length - 1]

\* A reservation that succeeds; one that fails changes nothing.
pmem_reserve ==
  /\ phase = "run"
  /\ \E r \in Reserves :
       /\ ~Taken(r[1], r[2])
       /\ regs' = [i \in DOMAIN regs |-> [regs[i] EXCEPT !.map = Marked(i, r[1], r[2])]]
       /\ reserved' = reserved \union (r[1] .. (r[1] + r[2] - 1))
  /\ UNCHANGED <<owners, blocks, phase>>

\* The regions pmem_free leaves: the first one that holds the page decides.
Release(page, n) ==
  LET i == Min({j \in DOMAIN regs : pmem_reg_contains(regs[j], page)})
  IN  [regs EXCEPT ![i].map =
         bmap_fill(@, FALSE, page - regs[i].start, page - regs[i].start + n)]

pmem_free ==
  /\ phase = "run"
  /\ \E b \in blocks :
       /\ regs' = Release(b[1], b[2])
       /\ blocks' = blocks \ {b}
       /\ owners' = [p \in Pages |-> IF p \in b[1] .. (b[1] + b[2] - 1)
                                     THEN owners[p] - 1 ELSE owners[p]]
  /\ UNCHANGED <<reserved, phase>>

\* abort(), the end of fatal().
Halt == phase = "fatal" /\ UNCHANGED vars

Next ==
  \/ pmem_add
  \/ pmem_alloc
  \/ pmem_reserve
  \/ pmem_free
  \/ Halt

Spec == Init /\ [][Next]_vars
-----------------------------------------------------------------------------
\* Regions, owners and phases are of their types: no counter falls below zero
\* (pmem.c:27-34).
TypeOK ==
  /\ \A i \in DOMAIN regs :
       /\ Holds(regs[i]) \subseteq Pages
       /\ regs[i].map.storage \subseteq Nat
       /\ regs[i].map.set_cnt \in 0 .. regs[i].map.bits
       /\ regs[i].map.hint \in Nat
  /\ owners \in [Pages -> Nat]
  /\ blocks \subseteq Pages \X Counts
  /\ reserved \subseteq Pages
  /\ phase \in {"run", "fatal"}

(***************************************************************************)
(* "the bitmap denoting page level allocation" (pmem.c:28): a page that    *)
(* somebody holds is marked, whatever was allocated, reserved and freed    *)
(* around it, so that no search can return it.                             *)
(***************************************************************************)
HeldIsMarked ==
  \A i \in DOMAIN regs : \A p \in Holds(regs[i]) :
    owners[p] > 0 => bmap_get(regs[i].map, p - regs[i].start)

(***************************************************************************)
(* No page is handed out twice (pmem.c:229), neither by the region it is   *)
(* in nor by a second one: "If the regions extents cross those of existing *)
(* regions, it is shortened to fit in the free area." (pmem.h:28-30).      *)
(***************************************************************************)
NoPageTwice ==
  /\ \A p \in Pages : owners[p] <= 1
  /\ \A i, j \in DOMAIN regs :
       i # j => Holds(regs[i]) \intersect Holds(regs[j]) = {}

(***************************************************************************)
(* "no pmem_alloc() call will ever return a block within the given range"  *)
(* (pmem.h:58-60): a reserved page has no owner.                           *)
(***************************************************************************)
ReservedNeverAllocated == \A p \in reserved : owners[p] = 0

(***************************************************************************)
(* The counter that pmem_info reports, and that the filling degree is      *)
(* computed from, is the number of pages held or reserved in the region,   *)
(* though bmap_set counts without looking at the bit (bmap.c:77): it falls *)
(* below zero or beyond the map in no order of calls.                      *)
(***************************************************************************)
CountsArePages ==
  /\ TypeOK
  /\ \A i \in DOMAIN regs :
       regs[i].map.set_cnt =
         Cardinality({p \in Holds(regs[i]) : owners[p] > 0 \/ p \in reserved})

(***************************************************************************)
(* The kernel stops for want of memory only when there is none: then no    *)
(* region has as many consecutive free pages as were asked for, the last   *)
(* page of a region aside, which bmap_fill never takes (bmap.c:95), though *)
(* the search goes by hints and filling degrees (pmem.c:219-229).          *)
(***************************************************************************)
FatalOnlyIfFull ==
  phase = "fatal" =>
    \E n \in Counts : \A i \in DOMAIN regs : \A at \in 0 .. (regs[i].map.bits - n - 1) :
      \E bit \in at .. (at + n - 1) : bmap_get(regs[i].map, bit)
=============================================================================
