-------------------------------- MODULE Bmap --------------------------------
(***************************************************************************)
(* The bitmap of bmap.c, as operators on a record: the number of bits, the *)
(* indices of the bits that are set in storage, hint and set_cnt.          *)
(***************************************************************************)
EXTENDS Integers, FiniteSetsExt

CONSTANTS
  IntBits,  \* the width of int, 32
  WordBits  \* the width of uintptr_t, an element of storage, 64

ASSUME WidthAssumption == IntBits \in Nat \ {0} /\ WordBits = 2 * IntBits

(***************************************************************************)
(* The bits of storage that (1 << off) selects: the shift is one of int,   *)
(* so the CPU takes off modulo its width, and its sign bit is extended     *)
(* over the upper half of the word.                                        *)
(***************************************************************************)
Mask(bit) ==
  LET base == bit - (bit % WordBits)
      off  == (bit % WordBits) % IntBits
  IN  IF off = IntBits - 1 THEN (base + off) .. (base + WordBits - 1)
      ELSE {base + off}

bmap_get(b, bit) == bit <= b.bits /\ bit \in b.storage

\* Mutant of bmap_set: clearing does not count down.
mut_set_count(b, bit, value) ==
  IF bit > b.bits THEN b
  ELSE IF value THEN [b EXCEPT !.storage = @ \union Mask(bit), !.set_cnt = @ + 1]
  ELSE [b EXCEPT !.storage = @ \ Mask(bit)]

bmap_set(b, bit, value) ==
  IF bit > b.bits THEN b
  ELSE IF value THEN [b EXCEPT !.storage = @ \union Mask(bit), !.set_cnt = @ + 1]
  ELSE [b EXCEPT !.storage = @ \ Mask(bit), !.set_cnt = @ - 1]

\* Whether bmap_fill takes the range; the bit at end is not touched.
FillOk(b, start, end) == start < b.bits /\ end < b.bits

\* Mutant of bmap_fill: the last bit is left out.
mut_fill_short(b, value, start, end) ==
  LET fill[n \in start .. end] ==
        IF n \in {start, end} THEN b ELSE bmap_set(fill[n - 1], n - 1, value)
  IN  IF FillOk(b, start, end) /\ end > start THEN fill[end - 1] ELSE b

bmap_fill(b, value, start, end) ==
  LET fill[n \in start .. end] ==
        IF n = start THEN b ELSE bmap_set(fill[n - 1], n - 1, value)
  IN  IF FillOk(b, start, end) THEN fill[end] ELSE b

\* bmap_init over storage that is zero: bmap_clear leaves the counter at zero.
bmap_init(bits) ==
  [bmap_fill([bits |-> bits, storage |-> {}, set_cnt |-> 0, hint |-> 0],
             FALSE, 0, bits - 1) EXCEPT !.set_cnt = 0]

\* Mutant of Counted: a bit that is set does not start the count afresh.
mut_counted(b, start) ==
  LET con[at \in start .. b.bits] ==
        IF at = start THEN 0
        ELSE IF bmap_get(b, at - 1) THEN con[at - 1] ELSE con[at - 1] + 1
  IN  con

\* How many consecutive zero bits the forward loop of bmap_search, which begins
\* at start, has counted when it comes to a bit.
Counted(b, start) ==
  LET con[at \in start .. b.bits] ==
        IF at = start THEN 0
        ELSE IF bmap_get(b, at - 1) THEN 0 ELSE con[at - 1] + 1
  IN  con

(***************************************************************************)
(* Where that loop, looking for cnt bits, ends, and how many consecutive   *)
(* bits it has counted there: at the last of the cnt bits, at the end of   *)
(* the map, or at once if it begins behind that.                           *)
(***************************************************************************)
Ends(b, start, cnt) ==
  LET full == {at \in start .. (b.bits - 1) : Counted(b, start)[at + 1] = cnt}
  IN  IF full # {} THEN <<Min(full), cnt>>
      ELSE IF start < b.bits THEN <<b.bits, Counted(b, start)[b.bits]>>
      ELSE <<start, 0>>

\* The index the loop's end is turned into.
SearchFrom(b, from, cnt) ==
  LET end == Ends(b, from, cnt)
  IN  end[1] - (end[2] - 1)

\* Mutant of bmap_search: no second search from zero.
mut_search_once(b, cnt) == SearchFrom(b, b.hint, cnt)

(***************************************************************************)
(* bmap_search forward for zero bits with BMAP_SRCH_HINTED, cnt > 0 and    *)
(* mul = 1, as pmem_alloc calls it: from the hint, and once more from zero *)
(* if that finds nothing.  The index is b.bits or more if there is none.   *)
(***************************************************************************)
bmap_search(b, cnt) ==
  IF SearchFrom(b, b.hint, cnt) < b.bits
  THEN SearchFrom(b, b.hint, cnt)
  ELSE SearchFrom(b, 0, cnt)

bmap_fdeg(b) == (b.set_cnt * 100) \div b.bits
=============================================================================
