-------------------------------- MODULE Space --------------------------------
(***************************************************************************)
(* Address spaces, stacks, processes and page faults: spc.c, stka.c,       *)
(* process.c, the stack of thr_create and pgflt.c, on the page tables of   *)
(* Paging, from the boot sequence that maps the kernel's regions on.       *)
(*                                                                         *)
(* Every operation here runs with interrupts disabled or before the first  *)
(* thread, so each is one step.  The kernel heap is only the pages it maps *)
(* (Heap has the rest); it grows whenever some kheap_alloc needs a page.   *)
(***************************************************************************)
EXTENDS Paging

CONSTANTS
  InitPages,   \* STK_INITSIZE in pages, 2
  FixedPages,  \* STK_FIXEDSIZE in pages, 4
  GuardPages,  \* STK_GUARDSIZE in pages, 256
  MaxHeap,     \* bound: the pages of the kernel heap
  MaxProcs,    \* bound: the processes, core included
  MaxThreads   \* bound: the threads

VARIABLES
  m,        \* the page tables, a record of Paging
  globals,  \* vmem_glob_map
  kheap,    \* the pages of the kernel heap
  stkas,    \* the stack allocators; the first is kstack_allocator
  procs,    \* the processes; the first is core
  threads,  \* the threads
  access,   \* the access that has caused a page fault and is retried
  step      \* how far boot has come

vars == <<m, globals, kheap, stkas, procs, threads, access, step>>

\* defs.h, with the regions in the order and the structures they are in there.
At(i, j, k, l) == ((i * Entries + j) * Entries + k) * Entries + l
PHEAP_START == At(0, 0, 2, 0)
MBOOT_VTEMP == At(0, 2, 0, 0)
SHEAP_START == At(2, 0, 0, 0)
SHEAP_END == At(3, 0, 0, 0)
UAPI_VMA == SHEAP_START - 2
KHEAP_START == At(Entries - 2, 0, 0, 0)
KSHEAP_START == At(Entries - 1, Entries - 3, 0, 0)
KSHEAP_END == At(Entries - 1, Entries - 2, 0, 0)
CGA_VIRTUAL == At(Entries - 1, Entries - 2, 2, 0)

\* The bytes of a page: enough to tell its first byte from the others.
STK_PAGESIZE == 2

\* The boot address space.
Boot == pg_pml4

NoAccess == [thr |-> 0, addr |-> 0, faults |-> 0]
-----------------------------------------------------------------------------
(***************************************************************************)
(* The operators work on s, the page tables m and the mappings globals.    *)
(***************************************************************************)
Now == [m |-> m, globals |-> globals]

Becomes(s) == m' = s.m /\ globals' = s.globals

vmem_mgmt_add_global_mapping(s, phys, v, fl) ==
  [s EXCEPT !.globals = Append(@, [from |-> phys, to |-> v, fl |-> fl])]

\* A fresh page at v, as heap_init, heap_alloc and stka_grow map it.
Noted(r, s, phys, v, fl, global) ==
  [s |-> IF r.ok /\ global THEN vmem_mgmt_add_global_mapping([s EXCEPT !.m = r.p], phys, v, fl)
         ELSE [s EXCEPT !.m = r.p],
   ok |-> r.ok]

MapAt(s, new, space, v, fl, global, left) ==
  Noted(vmem_map(new.p, space, new.at, v, fl, left), s, new.at, v, fl, global)

\* Mutant of MapNew: the page is not allocated.
mut_map_free_page(s, space, v, fl, global, left) ==
  MapAt(s, [p |-> s.m, at |-> pmem_alloc(s.m).at], space, v, fl, global, left)

MapNew(s, space, v, fl, global, left) ==
  MapAt(s, pmem_alloc(s.m), space, v, fl, global, left)

KHeapFlags == {"G", "W"}
UserFlags == {"W", "U"}
-----------------------------------------------------------------------------
stka_new(space, top, bottom, fl, fixed) ==
  [space |-> space, bottom |-> bottom * STK_PAGESIZE, next_stk |-> top * STK_PAGESIZE,
   pg_fl |-> fl, fixed |-> fixed, stacks |-> <<>>, lock |-> FALSE]

\* n pages from the page v up, as long as that works.
MapPages(s, k, v, n, left) ==
  LET round[i \in 0 .. n] ==
        IF i = 0 THEN [s |-> s, ok |-> TRUE]
        ELSE LET r == round[i - 1]
             IN  IF r.ok THEN MapNew(r.s, k.space, v + i - 1, k.pg_fl, k.fixed, left) ELSE r
  IN  round[n]

Grown(r, stack, amount) ==
  [s |-> r.s, ok |-> r.ok,
   stack |-> IF r.ok THEN [stack EXCEPT !.mapped = @ - amount] ELSE stack]

\* A fixed stack is a global one: kstack_allocator is both.
stka_grow(s, k, stack, amount, left) ==
  IF amount % STK_PAGESIZE # 0 \/ stack.mapped - amount < stack.guard
  THEN [s |-> s, stack |-> stack, ok |-> FALSE]
  ELSE Grown(MapPages(s, k, (stack.mapped - amount) \div STK_PAGESIZE,
                      amount \div STK_PAGESIZE, left), stack, amount)

\* Mutant of Allocated: no page is left between two stacks.
mut_no_gap(g, k) ==
  [s |-> g.s, ok |-> TRUE,
   k |-> [k EXCEPT !.next_stk = g.stack.guard, !.stacks = Append(@, g.stack)]]

\* What stka_grow returns is not looked at.
Allocated(g, k) ==
  [s |-> g.s, ok |-> TRUE,
   k |-> [k EXCEPT !.next_stk = g.stack.guard - STK_PAGESIZE, !.stacks = Append(@, g.stack)]]

\* Without room the lock is kept.
stka_alloc(s, k, left) ==
  LET size == (IF k.fixed THEN FixedPages ELSE GuardPages) * STK_PAGESIZE
      init == (IF k.fixed THEN FixedPages ELSE InitPages) * STK_PAGESIZE
      new == [top |-> k.next_stk, mapped |-> k.next_stk, guard |-> k.next_stk - size]
  IN  IF k.next_stk <= k.bottom \/ k.next_stk - InitPages * STK_PAGESIZE < k.bottom
      THEN [s |-> s, k |-> [k EXCEPT !.lock = TRUE], ok |-> FALSE]
      ELSE Allocated(stka_grow(s, k, new, init, left), k)

\* Mutant of stka_pgflt: the amount is rounded down.
mut_pgflt_down(s, k, stack, fault, left) ==
  IF fault <= stack.guard \/ fault >= stack.top THEN [s |-> s, stack |-> stack, ok |-> FALSE]
  ELSE stka_grow(s, k, stack,
                 ((stack.mapped - fault) \div STK_PAGESIZE) * STK_PAGESIZE, left)

ALIGN_UP(n) == ((n + STK_PAGESIZE - 1) \div STK_PAGESIZE) * STK_PAGESIZE

stka_pgflt(s, k, stack, fault, left) ==
  IF fault <= stack.guard \/ fault >= stack.top THEN [s |-> s, stack |-> stack, ok |-> FALSE]
  ELSE stka_grow(s, k, stack, ALIGN_UP(stack.mapped - fault), left)
-----------------------------------------------------------------------------
(***************************************************************************)
(* Boot, up to the first thread: pmem_init with kheap_init and the         *)
(* temporary mappings of mboot.c, uapi_init, cga_init, cpu_bsp_init with   *)
(* tss_init, prc_new for core.                                             *)
(***************************************************************************)
Init ==
  /\ m = [mem |-> boot_tables, slots |-> [i \in 1 .. Slots |-> 0], free |-> Pool, fate |-> "ok"]
  /\ globals = <<>>
  /\ kheap = 0
  /\ stkas = <<>>
  /\ procs = <<>>
  /\ threads = <<>>
  /\ access = NoAccess
  /\ step = "kheap_init"

Running == m.fate = "ok"

\* heap_init and the growth in heap_alloc map the next page of the heap.
HeapPage(left) ==
  \E r \in {MapNew(Now, Boot, KHEAP_START + kheap, KHeapFlags, TRUE, left)} :
      /\ Becomes(IF r.ok THEN r.s ELSE [r.s EXCEPT !.m.fate = "fatal"])
      /\ kheap' = kheap + 1

kheap_init(left) ==
  /\ Running /\ step = "kheap_init"
  /\ HeapPage(left)
  /\ step' = "mboot_map"
  /\ UNCHANGED <<stkas, procs, threads, access>>

kheap_grow(left) ==
  /\ Running /\ kheap \in 1 .. (MaxHeap - 1)
  /\ HeapPage(left)
  /\ UNCHANGED <<stkas, procs, threads, access, step>>

\* The first page of MBOOT_VTEMP_REG that is not mapped is the first one.
mboot_map(left) ==
  /\ Running /\ step = "mboot_map"
  /\ \E seen \in {vmem_find_unmap(m, Boot, MBOOT_VTEMP, FALSE, left)} :
       \E r \in {vmem_map(seen.p, Boot, Image(1), MBOOT_VTEMP, {}, left)} :
         m' = IF seen.at = 0 /\ r.ok THEN r.p ELSE [r.p EXCEPT !.fate = "fault"]
  /\ step' = "mboot_unmap"
  /\ UNCHANGED <<globals, kheap, stkas, procs, threads, access>>

mboot_unmap(left) ==
  /\ Running /\ step = "mboot_unmap"
  /\ m' = vmem_find_unmap(m, Boot, MBOOT_VTEMP, TRUE, left).p
  /\ step' = "uapi_init"
  /\ UNCHANGED <<globals, kheap, stkas, procs, threads, access>>

\* The code and the data of the API, one page each.
uapi_init(left) ==
  /\ Running /\ step = "uapi_init"
  /\ LET map(s, i) ==
           [vmem_mgmt_add_global_mapping(s, Image(1 + i), UAPI_VMA + i, {"U", "G"})
              EXCEPT !.m = vmem_map(@, Boot, Image(1 + i), UAPI_VMA + i, {"U", "G"}, left).p]
     IN  \E s \in {map(map(Now, 0), 1)} : Becomes(s)
  /\ step' = "cga_init"
  /\ UNCHANGED <<kheap, stkas, procs, threads, access>>

\* As lapic_init, ioapic_init, rm_init and dyngdt_init map theirs.
cga_init(left) ==
  /\ Running /\ step = "cga_init"
  /\ m' = vmem_map(m, Boot, Image(3), CGA_VIRTUAL, {"W"}, left).p
  /\ step' = "tss_init"
  /\ UNCHANGED <<globals, kheap, stkas, procs, threads, access>>

\* One of the three stacks stands for all of them.
tss_init(left) ==
  /\ Running /\ step = "tss_init"
  /\ \E r \in {stka_alloc(Now, stka_new(Boot, KSHEAP_END, KSHEAP_START, {"W"}, TRUE), left)} :
       Becomes(r.s) /\ stkas' = <<r.k>>
  /\ step' = "core"
  /\ UNCHANGED <<kheap, procs, threads, access>>

\* prc_new, in the state s, without the parts that fail when memory does: the
\* process knows how many global mappings there were.
prc_new(s, space, left) ==
  \E r \in {MapNew(s, space, PHEAP_START, UserFlags, FALSE, left)} :
      /\ Becomes(IF r.ok THEN r.s ELSE [r.s EXCEPT !.m.fate = "fatal"])
      /\ stkas' = Append(stkas, stka_new(space, SHEAP_END, SHEAP_START, UserFlags, FALSE))
      /\ procs' = Append(procs, [space |-> space, stka |-> Len(stkas) + 1,
                                 seen |-> Len(s.globals)])
      /\ UNCHANGED <<kheap, threads, access>>

new_core(left) ==
  /\ Running /\ step = "core"
  /\ prc_new(Now, Boot, left)
  /\ step' = "up"
-----------------------------------------------------------------------------
spc_new(s, left) ==
  LET new == pmem_alloc(s.m)
  IN  [space |-> new.at,
       s |-> [s EXCEPT !.m = vmem_mgmt_make_glob_spc(new.p, new.at, s.globals, left)]]

new_process(left) ==
  /\ Running /\ step = "up" /\ Len(procs) < MaxProcs
  /\ \E new \in {spc_new(Now, left)} : prc_new(new.s, new.space, left)
  /\ UNCHANGED step

\* Threads of core are kernel threads, the others are not.  The lock is held
\* for ever if stka_alloc has failed, and then its result is dereferenced.
thr_create(i, left) ==
  LET k == IF i = 1 THEN 1 ELSE procs[i].stka IN
  /\ Running /\ step = "up" /\ Len(threads) < MaxThreads
  /\ ~stkas[k].lock
  /\ \E r \in {stka_alloc(Now, stkas[k], left)} :
      /\ Becomes(IF r.ok THEN r.s ELSE [r.s EXCEPT !.m.fate = "fault"])
      /\ stkas' = [stkas EXCEPT ![k] = r.k]
      /\ threads' = Append(threads, [parent |-> i, stka |-> k, stack |-> Len(r.k.stacks),
                                     state |-> "Runnable"])
  /\ UNCHANGED <<kheap, procs, access, step>>
-----------------------------------------------------------------------------
Page(addr) == addr \div STK_PAGESIZE

\* Whether thread t gets at the address.
Accessible(t, addr) ==
  LET x == Translate(m.mem, procs[threads[t].parent].space, Page(addr))
  IN  x.at # 0 /\ (x.user \/ threads[t].parent = 1)

StackOf(t) == stkas[threads[t].stka].stacks[threads[t].stack]

(***************************************************************************)
(* pgflt_handler, for a thread that accesses an address in or next to its  *)
(* stack, at first or again after a fault that was handled.  An access to  *)
(* a page that is present is not resolved.  A thread of core that is       *)
(* aborted stops the kernel.                                               *)
(***************************************************************************)
pgflt_handler(t, addr, left) ==
  LET stk == StackOf(t)
      thr == threads[t]
      present == Translate(m.mem, procs[thr.parent].space, Page(addr)).at # 0
      grow == IF addr >= stk.guard /\ addr <= stk.top
              THEN stka_pgflt(Now, stkas[procs[thr.parent].stka], stk, addr, left)
              ELSE [s |-> Now, stack |-> stk, ok |-> FALSE]
  IN
  /\ Running /\ thr.state = "Runnable" /\ ~Accessible(t, addr)
  /\ access = NoAccess \/ (access.thr = t /\ access.addr = addr /\ access.faults < 2)
  /\ \E r \in {grow} :
      /\ Becomes(IF present \/ (~r.ok /\ thr.parent = 1)
                 THEN [r.s EXCEPT !.m.fate = "abort"] ELSE r.s)
      /\ stkas' = [stkas EXCEPT ![thr.stka].stacks[thr.stack] = r.stack]
      /\ threads' = [threads EXCEPT ![t].state = IF r.ok THEN @ ELSE "Aborting"]
      /\ access' = IF r.ok THEN [thr |-> t, addr |-> addr, faults |-> access.faults + 1]
                   ELSE NoAccess
  /\ UNCHANGED <<kheap, procs, step>>

\* The instruction is executed again, and this time it gets through.
retry ==
  /\ Running /\ access # NoAccess /\ Accessible(access.thr, access.addr)
  /\ access' = NoAccess
  /\ UNCHANGED <<m, globals, kheap, stkas, procs, threads, step>>

\* The kernel has stopped.
halted == ~Running /\ UNCHANGED vars

\* What an uninitialized pointer to a structure may hold, as far as matters.
Leftovers == 0 .. Slots

Next ==
  \/ \E left \in Leftovers : kheap_init(left)
  \/ \E left \in Leftovers : kheap_grow(left)
  \/ \E left \in Leftovers : mboot_map(left)
  \/ \E left \in Leftovers : mboot_unmap(left)
  \/ \E left \in Leftovers : uapi_init(left)
  \/ \E left \in Leftovers : cga_init(left)
  \/ \E left \in Leftovers : tss_init(left)
  \/ \E left \in Leftovers : new_core(left)
  \/ \E left \in Leftovers : new_process(left)
  \/ \E left \in Leftovers, i \in DOMAIN procs : thr_create(i, left)
  \/ \E left \in Leftovers, t \in DOMAIN threads :
       \E addr \in (StackOf(t).guard - 1) .. StackOf(t).top : pgflt_handler(t, addr, left)
  \/ retry
  \/ halted

Spec == Init /\ [][Next]_vars
-----------------------------------------------------------------------------
Spaces == {Boot} \union {procs[i].space : i \in DOMAIN procs}

\* The structures that are reached at a level from the given ones, and the
\* places of the entries that point to something.
Places(tables) == {<<t, i>> \in tables \X (0 .. (Entries - 1)) : "P" \in m.mem[t][i].fl}
Points(x) == m.mem[x[1]][x[2]]
Small(places) == {x \in places : "L" \notin Points(x).fl}
Below(tables) == {Points(x).at : x \in Small(Places(tables))}
Pdpts == Below(Spaces)
Pds == Below(Pdpts)
Pts == Below(Pds)

\* All state is of its kind: slots and tables hold pages there are, a stack's
\* mapped part is within its reserved part.
TypeOK ==
  /\ m.fate \in {"ok", "nomem", "noslot", "fatal", "fault", "abort"}
  /\ m.free \subseteq Pool
  /\ \A i \in 1 .. Slots : m.slots[i] \in Static \union Pool \union {0}
  /\ \A t \in DOMAIN m.mem, i \in 0 .. (Entries - 1) :
       m.mem[t][i].at \in Nat /\ m.mem[t][i].fl \subseteq {"P", "W", "U", "G", "L"}
  /\ \A k \in DOMAIN stkas : \A j \in DOMAIN stkas[k].stacks :
       LET s == stkas[k].stacks[j] IN s.guard <= s.mapped /\ s.mapped <= s.top
  /\ kheap \in 0 .. MaxHeap
  /\ \A t \in DOMAIN threads : threads[t].state \in {"Runnable", "Aborting"}
  /\ access.thr \in {0} \union DOMAIN threads

\* Every operation gives the slots of ps_mapspace back, whichever way it goes
\* through vmem_mgmt_split and its error path, and whatever its callers'
\* uninitialized pointers hold: otherwise the ten slots run out for good.
SlotsReturned == Running => \A i \in 1 .. Slots : m.slots[i] = 0

\* The kernel stops for want of memory or because one of its threads is
\* aborted, and never since it is out of slots, finds a global page with other
\* flags than its own, finds a page mapped that it wants to map, or uses a
\* structure that is not mapped.
NoInternalError == m.fate \notin {"noslot", "fatal", "fault"}

\* Every physical page has one use.  The tables of all address spaces form
\* trees that meet only in the kernel's pdpt and the first page table: every
\* other structure is reached at one level and from one place.  A page of the
\* pool is mapped in one place of one address space, unless it is registered
\* as global: processes share no heap and no stack.  None of these pages is
\* free for pmem_alloc, and none is both a structure and mapped.
PagesUsedOnce ==
  Running =>
    LET inner == Small(Places(Spaces) \union Places(Pdpts) \union Places(Pds))
        own == {x \in inner : Points(x).at \notin {pg_kernel_pdpt, pg_pt_low}}
        tables == Spaces \union Pdpts \union Pds \union Pts
        leaves == {Points(x).at : x \in Places(Pts)}
        global == {globals[i].from : i \in DOMAIN globals}
        private == {x \in Places(Pts) : Points(x).at \in Pool \ global}
    IN  /\ Cardinality({Points(x).at : x \in own}) = Cardinality(own)
        /\ Spaces \intersect (Pdpts \union Pds \union Pts) = {}
        /\ Pdpts \intersect (Pds \union Pts) = {}
        /\ Pds \intersect Pts = {}
        /\ Cardinality({Points(x).at : x \in private}) = Cardinality(private)
        /\ m.free \intersect (tables \union leaves) = {}
        /\ tables \intersect leaves = {}

StackPages(from, to) == {v \in Page(from) .. Page(to) : v * STK_PAGESIZE < to}

\* The mapped part of a stack is within its reserved part, and its pages from
\* mapped to top are there in the address space it is for, for a user exactly
\* if the stack is one for user threads.  Nothing is mapped from mapped down to
\* the page below guard, which stka_alloc leaves so that an overflow faults
\* instead of running into the next stack.
StacksAreMapped ==
  /\ TypeOK
  /\ Running =>
       \A k \in DOMAIN stkas : \A j \in DOMAIN stkas[k].stacks :
         LET s == stkas[k].stacks[j]
             at(v) == Translate(m.mem, stkas[k].space, v)
         IN  /\ \A v \in StackPages(s.mapped, s.top) :
                  at(v).at # 0 /\ at(v).user = ("U" \in stkas[k].pg_fl)
             /\ \A v \in StackPages(s.guard - STK_PAGESIZE, s.mapped) : at(v).at = 0

\* A page fault the handler takes as handled is not repeated by the
\* instruction that caused it.
HandledOnce == access.faults <= 1

\* An address space has every global mapping that was registered when it was
\* made, at the address and with the page it was registered for.
GlobalsWhenMade ==
  Running =>
    \A i \in DOMAIN procs : \A n \in 1 .. procs[i].seen :
      Translate(m.mem, procs[i].space, globals[n].to).at = globals[n].from

\* Every address space has every global mapping, also one that is registered
\* later, as vmem_mgmt_add_global_mapping documents it.
GlobalsEverywhere ==
  Running =>
    \A s \in Spaces : \A n \in DOMAIN globals :
      Translate(m.mem, s, globals[n].to).at = globals[n].from

\* The pages whose translation matters: the kernel image, low and high, the
\* regions of defs.h.
Watched ==
  {1, Entries, PHEAP_START, UAPI_VMA, UAPI_VMA + 1, CGA_VIRTUAL, KSHEAP_END}
    \union (KHEAP_START .. (KHEAP_START + MaxHeap))
    \union ((KSHEAP_END - 2 * (FixedPages + 1)) .. (KSHEAP_END - 1))
    \union ((SHEAP_END - 2 * (GuardPages + 1)) .. (SHEAP_END - 1))

\* No operation changes or removes a translation some address space has, in
\* its page or in who may use it, though vmem_mgmt_split adds the flags of a
\* new mapping to the entries it shares with others.
MappingsStay ==
  [][\A s \in Spaces, v \in Watched :
       LET x == Translate(m.mem, s, v)
       IN  x.at # 0 => Translate(m'.mem, s, v) = x]_m
=============================================================================
