------------------------------- MODULE Paging -------------------------------
(***************************************************************************)
(* The page tables of vmem.c and vmem_mgmt.c, as operators on a record:    *)
(*                                                                         *)
(*   mem    the contents of the paging structures, by physical page        *)
(*   slots  ps_mapspace, the temporary mappings of paging structures: the  *)
(*          physical page, or 0 if the slot is free                        *)
(*   free   the physical pages pmem_alloc may return                       *)
(*   fate   "ok", or why the kernel has stopped: "nomem", "noslot" and     *)
(*          "fatal" for the messages of that kind, "fault" for an access   *)
(*          through a slot that is not mapped                              *)
(*                                                                         *)
(* A pointer to a mapped structure is the number of its slot, NULL is 0.   *)
(* Addresses are page numbers.                                             *)
(***************************************************************************)
EXTENDS Integers, Sequences, FiniteSets, FiniteSetsExt, SequencesExt

CONSTANTS
  Entries,  \* the entries of a paging structure, 512
  Slots,    \* VM_PS_MAPSPACE_SZ, 10
  Pool      \* the physical pages that are free at first

\* The structures of paging.S; the first of them is the boot address space.
pg_pml4 == 1
pg_pdpt_low == 2
pg_pd_low == 3
pg_pt_low == 4
pg_kernel_pdpt == 5
pg_pd_high == 6
pg_pd_temp == 7
pg_pt_temp == 8
Static == 1 .. 8

ASSUME EntriesAssumption == Entries \in Nat /\ Entries > 5
ASSUME PoolAssumption == Pool \subseteq Nat \ (Static \union {0}) /\ Slots \in Nat

\* An entry: the page it points to and its flags, present ("P"), large ("L"),
\* writable ("W"), user ("U"), global ("G").
Entry(at, fl) == [at |-> at, fl |-> fl]
NoEntry == Entry(0, {})
Blank == [i \in 0 .. (Entries - 1) |-> NoEntry]

\* Mutant of VM_FLAGS: all flags have to agree.
mut_all_flags(fl) == fl

\* VM_FLAGS: what has to agree when a page is mapped already.
VM_FLAGS(fl) == fl \intersect {"W", "U", "G"}

KFlags == {"P", "W"}  \* PG_BASE_KFLAGS, and ng_flags of vmem_mgmt_make_glob_spc

\* The kernel image, which is not in the pool: the first two large pages.
Image(n) == 1000 + n

boot_tables ==
  [t \in Static \union Pool |->
     CASE t = pg_pml4 ->
            [Blank EXCEPT ![0] = Entry(pg_pdpt_low, KFlags),
                          ![Entries - 1] = Entry(pg_kernel_pdpt, KFlags)]
       [] t = pg_pdpt_low -> [Blank EXCEPT ![0] = Entry(pg_pd_low, KFlags)]
       [] t = pg_pd_low ->
            [Blank EXCEPT ![0] = Entry(pg_pt_low, KFlags),
                          ![1] = Entry(Image(Entries), KFlags \union {"L", "G"})]
       [] t = pg_pt_low ->  \* all but the page at NULL
            [i \in 0 .. (Entries - 1) |->
               IF i = 0 THEN NoEntry ELSE Entry(Image(i), KFlags \union {"G"})]
       [] t = pg_kernel_pdpt ->
            [Blank EXCEPT ![Entries - 2] = Entry(pg_pd_high, KFlags),
                          ![Entries - 1] = Entry(pg_pd_temp, KFlags)]
       [] t = pg_pd_high ->
            [Blank EXCEPT ![0] = Entry(Image(0), KFlags \union {"L", "G"}),
                          ![1] = Entry(Image(Entries), KFlags \union {"L", "G"})]
       [] t = pg_pd_temp -> [Blank EXCEPT ![Entries - 1] = Entry(pg_pt_temp, KFlags)]
       [] OTHER -> Blank]

\* The index of the page v at a level: 1 for the pml4, 4 for the page table.
Index(v, level) == (v \div (Entries ^ (4 - level))) % Entries
-----------------------------------------------------------------------------
(***************************************************************************)
(* The translation of the page v that the CPU finds in an address space:   *)
(* the page, 0 if there is none, and whether a user may access it.         *)
(***************************************************************************)
Translate(mem, space, v) ==
  LET pml4e == mem[space][Index(v, 1)]
      pdpte == mem[pml4e.at][Index(v, 2)]
      pde == mem[pdpte.at][Index(v, 3)]
      pte == mem[pde.at][Index(v, 4)]
      user == \A e \in {pml4e, pdpte, pde} : "U" \in e.fl
      large == "L" \in pde.fl
  IN  IF \/ "P" \notin pml4e.fl \/ "P" \notin pdpte.fl \/ "P" \notin pde.fl
         \/ ~large /\ "P" \notin pte.fl
      THEN [at |-> 0, user |-> FALSE]
      ELSE IF large THEN [at |-> pde.at + (v % Entries), user |-> user]
      ELSE [at |-> pte.at, user |-> user /\ "U" \in pte.fl]
-----------------------------------------------------------------------------
\* pmem_alloc for one page; which one does not matter here.
pmem_alloc(p) ==
  IF p.free = {} THEN [p |-> [p EXCEPT !.fate = "nomem"], at |-> pg_pml4]
  ELSE [p |-> [p EXCEPT !.free = @ \ {Min(p.free)}], at |-> Min(p.free)]

vmem_mgmt_map(p, at) ==
  LET unused == {i \in DOMAIN p.slots : p.slots[i] = 0}
  IN  IF unused = {} THEN [p |-> [p EXCEPT !.fate = "noslot"], ptr |-> 1]
      ELSE [p |-> [p EXCEPT !.slots[Min(unused)] = at], ptr |-> Min(unused)]

vmem_mgmt_unmap(p, ptr) ==
  IF ptr \in DOMAIN p.slots THEN [p EXCEPT !.slots[ptr] = 0] ELSE p

\* A structure, cleared through a slot.
Cleared(slot, at) ==
  [p |-> vmem_mgmt_unmap([slot.p EXCEPT !.mem[at] = Blank], slot.ptr), at |-> at]

vmem_mgmt_alloc(p) ==
  LET new == pmem_alloc(p) IN Cleared(vmem_mgmt_map(new.p, new.at), new.at)

(***************************************************************************)
(* vmem_mgmt_split.  A walk has the pointers it has got so far, from the   *)
(* pml4 on, and a result other than "walking" once it has to stop.         *)
(***************************************************************************)
\* The structure the walk has reached.
Reached(w) == w.p.slots[Last(w.ptrs)]

\* The walk goes on in the structure at a page.
DescendTo(w, slot) == [w EXCEPT !.p = slot.p, !.ptrs = Append(@, slot.ptr)]
Descend(w, at) == DescendTo(w, vmem_mgmt_map(w.p, at))

\* VM_CHECK_ENTRY: a missing structure is added, or the walk ends.
Link(w, i, new) ==
  [w EXCEPT !.p = [new.p EXCEPT !.mem[Reached(w)][i] = Entry(new.at, KFlags)]]

AddFlags(w, i, u) == [w EXCEPT !.p.mem[Reached(w)][i].fl = @ \union u]

\* Mutant of VM_CHECK_ENTRY: a present structure is replaced.
mut_check_relinks(w, i, alloc, u) ==
  IF alloc THEN AddFlags(Link(w, i, vmem_mgmt_alloc(w.p)), i, u)
  ELSE IF "P" \in w.p.mem[Reached(w)][i].fl THEN w
  ELSE [w EXCEPT !.res = "TableNotMapped"]

VM_CHECK_ENTRY(w, i, alloc, u) ==
  IF "P" \in w.p.mem[Reached(w)][i].fl THEN IF alloc THEN AddFlags(w, i, u) ELSE w
  ELSE IF alloc THEN AddFlags(Link(w, i, vmem_mgmt_alloc(w.p)), i, u)
  ELSE [w EXCEPT !.res = "TableNotMapped"]

Enter(w, i) ==
  IF w.res = "walking" THEN Descend(w, w.p.mem[Reached(w)][i].at) ELSE w

\* One level; only a page directory has large pages.
Level(w, i, alloc, u) ==
  IF w.res # "walking" THEN w
  ELSE IF {"P", "L"} \subseteq w.p.mem[Reached(w)][i].fl
  THEN [w EXCEPT !.res = "SmallExpected"]
  ELSE Enter(VM_CHECK_ENTRY(w, i, alloc, u), i)

\* A large page requested, and the entry is for a page table.
LargeLevel(w, i) ==
  IF w.res = "walking" /\ w.p.mem[Reached(w)][i].fl \intersect {"P", "L"} = {"P"}
  THEN [w EXCEPT !.res = "LargeExpected"] ELSE w

ToPd(p, space, v, alloc, u) ==
  Level(Level(Descend([p |-> p, ptrs |-> <<>>, res |-> "walking"], space),
              Index(v, 1), alloc, u),
        Index(v, 2), alloc, u)

\* The pml4 and the pdpt are unmapped in any case.
UpperUnmapped(w) ==
  vmem_mgmt_unmap(vmem_mgmt_unmap(w.p, w.ptrs[1]), IF Len(w.ptrs) > 1 THEN w.ptrs[2] ELSE 0)

(***************************************************************************)
(* left holds what the caller's pointers pd and pt hold before, which they *)
(* keep as far as the walk does not get there; the error path unmaps them. *)
(***************************************************************************)
SplitEnd(w, left) ==
  LET pd == IF Len(w.ptrs) > 2 THEN w.ptrs[3] ELSE left.pd
      pt == IF Len(w.ptrs) > 3 THEN w.ptrs[4] ELSE left.pt
  IN  [p |-> IF w.res = "walking" THEN UpperUnmapped(w)
             ELSE vmem_mgmt_unmap(vmem_mgmt_unmap(UpperUnmapped(w), pd), pt),
       pd |-> pd, pt |-> pt,
       res |-> IF w.res = "walking" THEN "SplitSuccess" ELSE w.res]

vmem_mgmt_split(p, space, v, alloc, u, left) ==
  SplitEnd(Level(ToPd(p, space, v, alloc, u), Index(v, 3), alloc, u), left)

\* With VM_SPLIT_LARGE, which no caller combines with VM_SPLIT_ALLOC.
SplitLarge(p, space, v, left) ==
  SplitEnd(LargeLevel(ToPd(p, space, v, FALSE, {}), Index(v, 3)), left)

Both(ptr) == [pd |-> ptr, pt |-> ptr]
-----------------------------------------------------------------------------
\* The end of vmem_map, with s from vmem_mgmt_split.
Unmapped(p, s) == vmem_mgmt_unmap(vmem_mgmt_unmap(p, s.pt), s.pd)

\* VM_SET_IFN_PRESENT, in the page table.
SetIfNotPresent(s, phys, i, fl) ==
  LET t == s.p.slots[s.pt]
  IN  IF s.res # "SplitSuccess" THEN [p |-> s.p, ok |-> FALSE]
      ELSE IF "P" \in s.p.mem[t][i].fl THEN [p |-> Unmapped(s.p, s), ok |-> FALSE]
      ELSE [p |-> Unmapped([s.p EXCEPT !.mem[t][i] = Entry(phys, {"P"} \union fl)], s),
            ok |-> TRUE]

\* vmem_map of a small page: no caller passes PG_LARGE.
vmem_map(p, space, phys, v, fl, left) ==
  SetIfNotPresent(vmem_mgmt_split(p, space, v, TRUE, fl, Both(left)), phys, Index(v, 4), fl)

\* vmem_find_unmap: a large page gets a second split, which has to succeed.
SecondChance(s, space, v) ==
  IF s.res # "SmallExpected" THEN s
  ELSE SplitLarge(s.p, space, v, [pd |-> s.pd, pt |-> s.pt])

\* Mutant of ResUnmap: the page directory stays mapped.
mut_res_keeps_pd(s, ptr, i, unmap) ==
  LET t == s.p.slots[ptr]
      q == IF unmap THEN [s.p EXCEPT !.mem[t][i] = NoEntry] ELSE s.p
  IN  [p |-> vmem_mgmt_unmap(q, ptr), at |-> s.p.mem[t][i].at]

\* VM_RES_UNMAP, in the structure at ptr.
ResUnmap(s, ptr, i, unmap) ==
  LET t == s.p.slots[ptr]
      q == IF unmap THEN [s.p EXCEPT !.mem[t][i] = NoEntry] ELSE s.p
  IN  [p |-> vmem_mgmt_unmap(vmem_mgmt_unmap(q, ptr), s.pd), at |-> s.p.mem[t][i].at]

Found(s, v, unmap) ==
  IF s.res = "TableNotMapped" THEN [p |-> s.p, at |-> 0]
  ELSE IF s.res # "SplitSuccess" THEN [p |-> [s.p EXCEPT !.fate = "fatal"], at |-> 0]
  ELSE IF "L" \in s.p.mem[s.p.slots[s.pd]][Index(v, 3)].fl
  THEN ResUnmap(s, s.pd, Index(v, 3), unmap)
  ELSE ResUnmap(s, s.pt, Index(v, 4), unmap)

vmem_find_unmap(p, space, v, unmap, left) ==
  Found(SecondChance(vmem_mgmt_split(p, space, v, FALSE, {}, Both(left)), space, v), v, unmap)
-----------------------------------------------------------------------------
(***************************************************************************)
(* vmem_mgmt_make_glob_spc.  The new address space shares the upper half   *)
(* and the first page table with the boot address space, and gets every    *)
(* mapping [from, to, fl] of vmem_glob_map.                                *)
(***************************************************************************)
\* The part before the loop, which uses three slots and returns them.
SharedTables(p, space, pdpt, pd) ==
  [p EXCEPT !.mem[space] = [Blank EXCEPT ![0] = Entry(pdpt, KFlags),
                                         ![Entries - 1] = Entry(pg_kernel_pdpt, KFlags)],
            !.mem[pdpt] = [Blank EXCEPT ![0] = Entry(pd, KFlags)],
            !.mem[pd] = [Blank EXCEPT ![0] = Entry(pg_pt_low, KFlags),
                                      ![1] = Entry(Image(Entries), KFlags \union {"L", "G"})]]

AllUnmapped(w) ==
  vmem_mgmt_unmap(vmem_mgmt_unmap(vmem_mgmt_unmap(w.p, w.ptrs[3]), w.ptrs[2]), w.ptrs[1])

SharedPart(p, space) ==
  LET pdpt == pmem_alloc(p)
      pd == pmem_alloc(pdpt.p)
  IN  SharedTables(AllUnmapped(Descend(Descend(Descend([p |-> pd.p, ptrs |-> <<>>], space),
                                               pdpt.at), pd.at)),
                   space, pdpt.at, pd.at)

\* vmem_map, which must not fail.
MustDo(r) == IF r.ok THEN r.p ELSE [r.p EXCEPT !.fate = "fatal"]
Insert(p, space, g, left) == MustDo(vmem_map(p, space, g.from, g.to, g.fl, left))

\* Mutant of Provide: a present page table counts as the mapping.
mut_table_is_enough(s, space, g, left) ==
  IF s.res = "TableNotMapped" THEN Insert(s.p, space, g, left) ELSE Unmapped(s.p, s)

\* A mapping that is there already has to have the flags.
Provide(s, space, g, left) ==
  LET e == s.p.mem[s.p.slots[s.pt]][Index(g.to, 4)]
  IN  CASE s.res = "TableNotMapped" -> Insert(s.p, space, g, left)
        [] s.res = "SmallExpected" -> [s.p EXCEPT !.fate = "fault"]  \* pd is unmapped
        [] s.res = "SplitSuccess" ->
             Unmapped(IF "P" \notin e.fl THEN Insert(s.p, space, g, left)
                      ELSE IF VM_FLAGS(e.fl) # VM_FLAGS(g.fl) THEN [s.p EXCEPT !.fate = "fatal"]
                      ELSE s.p, s)

\* One round of the loop; the trace message resolves the address before.
AddGlobal(p, space, g, left) ==
  IF p.fate # "ok" THEN p
  ELSE Provide(vmem_mgmt_split(vmem_find_unmap(p, space, g.to, FALSE, left).p,
                               space, g.to, FALSE, {}, Both(left)), space, g, left)

vmem_mgmt_make_glob_spc(p, space, globals, left) ==
  LET done[n \in 0 .. Len(globals)] ==
        IF n = 0 THEN SharedPart(p, space) ELSE AddGlobal(done[n - 1], space, globals[n], left)
  IN  done[Len(globals)]
=============================================================================
