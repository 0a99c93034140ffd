-------------------------------- MODULE Sched --------------------------------
(***************************************************************************)
(* The thread scheduler: priority queues, time slices and the life of a    *)
(* thread (sched.c, thread.c, idle.c and the thread start-up of            *)
(* tachyon.c), for the one CPU the kernel brings up.                       *)
(*                                                                         *)
(* Every call of sched_schedule is made by an interrupt service routine    *)
(* (the timer tick, a system call or a page fault), with interrupts off,   *)
(* so it is one atomic step here; module Intr models the interrupt         *)
(* counter this rests on.  A queue is the sequence of its list's nodes;    *)
(* module List models the list itself.                                     *)
(***************************************************************************)
EXTENDS Integers, Sequences, SequencesExt

CONSTANTS
  Threads,     \* every thread_t the kernel may create
  InitThr,       \* locals.init, the thread that boots the kernel
  Idle,        \* the thread idle_init creates
  Core,        \* the core process (id 0)
  Parent,      \* thr->parent, a function from threads to processes
  PrioKernel,  \* the highest priority; PrioIdle is 0
  Slice        \* SCHED_TIMESLICE_US in clock units

ASSUME ThreadsAssumption ==
  /\ InitThr \in Threads /\ Idle \in Threads /\ InitThr # Idle
  /\ Parent[InitThr] = Core /\ Parent[Idle] = Core
ASSUME PrioAssumption  == PrioKernel \in Nat
ASSUME SliceAssumption == Slice \in Nat

Prios   == 0 .. PrioKernel
PrioIdle == 0
Procs   == {Parent[t] : t \in Threads}
States  == {"Initial", "Runnable", "Running", "Yielded", "Waiting",
            "Aborting", "Aborted", "Exited"}
Dead    == {"Aborting", "Exited"}

VARIABLES
  state,   \* thr->state; "Initial" until thr_create has made the thread
  prio,    \* thr->priority
  queues,  \* _sched_queues, a list that was never created being empty
  cur,     \* the thread of the CPU's current context
  left,    \* what thr->preempt_at is ahead of systime() for cur, 0 if behind
  space,   \* the address space in CR3, named by its process
  phase    \* "boot" until sched_start; "fatal" and "abort" are final

vars == <<state, prio, queues, cur, left, space, phase>>

(***************************************************************************)
(* list_remove: unlink the first node that holds item; warn if none does.  *)
(***************************************************************************)
list_remove(q, item) ==
  IF \E i \in 1 .. Len(q) : q[i] = item
  THEN RemoveAt(q, CHOOSE i \in 1 .. Len(q) :
                     q[i] = item /\ \A j \in 1 .. (i - 1) : q[j] # item)
  ELSE q

\* Mutant of sched_add_unlocked: the thread is put at the head of its queue.
mut_add_at_head(qs, thr) == [qs EXCEPT ![prio[thr]] = <<thr>> \o @]

sched_add_unlocked(qs, thr) == [qs EXCEPT ![prio[thr]] = Append(@, thr)]

\* Mutant of sched_remove_unlocked: the kernel's queue is always searched.
mut_remove_from_kernel_queue(qs, thr) ==
  [qs EXCEPT ![PrioKernel] = list_remove(@, thr)]

sched_remove_unlocked(qs, thr) ==
  [qs EXCEPT ![prio[thr]] = list_remove(@, thr)]

\* Mutant of sched_choose: the loop over the priorities stops before PrioIdle.
mut_choose_skips_idle(st) ==
  {thr \in Threads :
     \E p \in 1 .. PrioKernel : \E i \in 1 .. Len(queues[p]) :
       queues[p][i] = thr /\ st[thr] = "Runnable"}

\* Mutant of sched_choose: the head of a queue is taken whatever its state.
mut_choose_any_state(st) ==
  {thr \in Threads : \E p \in Prios : queues[p] # <<>> /\ Head(queues[p]) = thr}

\* Mutant of sched_choose: the scan of a queue keeps the last candidate.
mut_choose_last(st) ==
  {thr \in Threads :
     \E p \in Prios : \E i \in 1 .. Len(queues[p]) :
       /\ queues[p][i] = thr
       /\ st[thr] = "Runnable"
       /\ \A j \in (i + 1) .. Len(queues[p]) : st[queues[p][j]] # "Runnable"
       /\ \A q \in Prios : q > p =>
            \A j \in 1 .. Len(queues[q]) : st[queues[q][j]] # "Runnable"}

(***************************************************************************)
(* The thread sched_choose returns, as a set that is empty for NULL: the   *)
(* first Runnable node of the highest priority queue that has one.         *)
(***************************************************************************)
sched_choose(st) ==
  {thr \in Threads :
     \E p \in Prios : \E i \in 1 .. Len(queues[p]) :
       /\ queues[p][i] = thr
       /\ st[thr] = "Runnable"
       /\ \A j \in 1 .. (i - 1) : st[queues[p][j]] # "Runnable"
       /\ \A q \in Prios : q > p =>
            \A j \in 1 .. Len(queues[q]) : st[queues[q][j]] # "Runnable"}

\* Mutant of thr_switch: CR3 is loaded only for threads of the core process.
mut_switch_space(target) ==
  /\ cur' = target
  /\ space' = IF Parent[cur] = Core THEN Parent[target] ELSE space

(***************************************************************************)
(* thr_switch: the context is replaced, CR3 only if the process differs.   *)
(***************************************************************************)
thr_switch(target) ==
  /\ cur' = target
  /\ space' = IF Parent[cur] # Parent[target] THEN Parent[target] ELSE space

(***************************************************************************)
(* sched_schedule, entered with the thread states st (a caller may have    *)
(* changed the state of the current thread first).                         *)
(***************************************************************************)
KeepsRunning(st) == st[cur] = "Runnable" /\ left > 0

Unyielded(st) ==
  IF st[cur] = "Yielded" THEN [st EXCEPT ![cur] = "Runnable"] ELSE st

\* Mutant of SwitchTo: preempt_at is computed from a stale time, longer ahead.
mut_switch_slice(thr) ==
  /\ left' = Slice + 1
  /\ thr_switch(thr)
  /\ queues' = sched_add_unlocked(sched_remove_unlocked(queues, thr), cur)
  /\ UNCHANGED phase

SwitchTo(thr) ==
  /\ left' = Slice
  /\ thr_switch(thr)
  /\ queues' = sched_add_unlocked(sched_remove_unlocked(queues, thr), cur)
  /\ UNCHANGED phase

sched_schedule(st) ==
  /\ UNCHANGED prio
  /\ state' = Unyielded(st)
  /\ \/ /\ KeepsRunning(st)
        /\ UNCHANGED <<queues, cur, left, space, phase>>
     \/ /\ ~KeepsRunning(st)
        /\ \E thr \in sched_choose(state') : SwitchTo(thr)
     \/ /\ ~KeepsRunning(st)
        /\ sched_choose(state') = {}
        /\ phase' = IF state'[cur] = "Runnable" THEN phase ELSE "fatal"
        /\ UNCHANGED <<queues, cur, left, space>>
-----------------------------------------------------------------------------
(***************************************************************************)
(* Boot.  The model starts in boot_next, where the init thread is current  *)
(* and interrupts are off.                                                 *)
(***************************************************************************)
Init ==
  /\ state = [t \in Threads |-> IF t = InitThr THEN "Runnable" ELSE "Initial"]
  /\ prio = [t \in Threads |-> PrioKernel]
  /\ queues = [p \in Prios |-> <<>>]
  /\ cur = InitThr
  /\ left = 0
  /\ space = Core
  /\ phase = "boot"

\* thr_create, the creator's choice of a priority, and sched_add.
Spawn(t, p) ==
  /\ phase = "boot"
  /\ state[t] = "Initial"
  /\ state' = [state EXCEPT ![t] = "Runnable"]
  /\ prio' = [prio EXCEPT ![t] = p]
  /\ queues' = [queues EXCEPT ![p] = Append(@, t)]
  /\ UNCHANGED <<cur, left, space, phase>>

idle_init == Spawn(Idle, PrioIdle)

\* boot_next creates its threads after idle_init.
boot_spawn ==
  /\ state[Idle] # "Initial"
  /\ \E t \in Threads \ {Idle}, p \in Prios : Spawn(t, p)

\* The end of boot_next: the init thread is marked and sched_start enables
\* the tick and interrupts.
sched_start ==
  /\ phase = "boot"
  /\ state[Idle] # "Initial"
  /\ state' = [state EXCEPT ![InitThr] = "Exited"]
  /\ phase' = "run"
  /\ UNCHANGED <<prio, queues, cur, left, space>>
-----------------------------------------------------------------------------
(***************************************************************************)
(* Running.                                                                *)
(***************************************************************************)
\* One unit of time passes for systime().
Clock ==
  /\ phase = "run"
  /\ left > 0
  /\ left' = left - 1
  /\ UNCHANGED <<state, prio, queues, cur, space, phase>>

\* The heartbeat timer of sched_start fires.
Tick == phase = "run" /\ sched_schedule(state)

\* The threads that execute code of their own: not idle_thread and not the
\* init thread, which only halt.
Calls == phase = "run" /\ cur \notin {Idle, InitThr}

SysSchedule == Calls /\ sched_schedule(state)

sched_yield == Calls /\ sched_schedule([state EXCEPT ![cur] = "Yielded"])

thr_exit == Calls /\ sched_schedule([state EXCEPT ![cur] = "Exited"])

\* A page fault without resolution: a thread of the core process takes the
\* kernel down, any other is descheduled for good.
thr_abort ==
  /\ Calls
  /\ IF Parent[cur] = Core
     THEN /\ state' = [state EXCEPT ![cur] = "Aborting"]
          /\ phase' = "abort"
          /\ UNCHANGED <<prio, queues, cur, left, space>>
     ELSE sched_schedule([state EXCEPT ![cur] = "Aborting"])

\* abort(), also the end of fatal(): interrupts off, halt in a loop.
abort == phase \in {"fatal", "abort"} /\ UNCHANGED vars

Next ==
  \/ idle_init
  \/ boot_spawn
  \/ sched_start
  \/ Clock
  \/ Tick
  \/ SysSchedule
  \/ sched_yield
  \/ thr_exit
  \/ thr_abort
  \/ abort

Spec == Init /\ [][Next]_vars

(***************************************************************************)
(* Time passes, and the heartbeat is periodic: tmr_handle_expired          *)
(* reschedules it and interrupts are on whenever a thread executes.        *)
(***************************************************************************)
FairSpec == Spec /\ WF_vars(Clock) /\ WF_vars(Tick)
-----------------------------------------------------------------------------
(***************************************************************************)
(* Properties.                                                             *)
(***************************************************************************)
\* The threads' states and priorities, the queues and the current slice are of
\* their types; no slice is longer than SCHED_TIMESLICE_US (sched.c:118).
TypeOK ==
  /\ state \in [Threads -> States]
  /\ prio \in [Threads -> Prios]
  /\ queues \in [Prios -> Seq(Threads)]
  /\ cur \in Threads
  /\ left \in 0 .. Slice
  /\ space \in Procs
  /\ phase \in {"boot", "run", "fatal", "abort"}

Queued(t, p, i) == i \in 1 .. Len(queues[p]) /\ queues[p][i] = t

(***************************************************************************)
(* No thread is lost and none is doubled, whatever the order of ticks,     *)
(* yields, exits and aborts: a created thread that is not current sits at  *)
(* exactly one place of the queue of its own priority, and the current     *)
(* thread is in no queue (sched_schedule's remove-then-re-add of thr and   *)
(* old, lines 120-124).                                                    *)
(***************************************************************************)
InOwnQueue == \A t \in Threads \ {cur} :
  state[t] # "Initial" => \E i \in 1 .. Len(queues[prio[t]]) :
                            Queued(t, prio[t], i)

OnlyInOwnQueue == \A p \in Prios : \A i \in 1 .. Len(queues[p]) :
  /\ queues[p][i] # cur
  /\ state[queues[p][i]] # "Initial"
  /\ prio[queues[p][i]] = p

QueuedOnce == \A p \in Prios : \A i, j \in 1 .. Len(queues[p]) :
  queues[p][i] = queues[p][j] => i = j

EachThreadOnce == InOwnQueue /\ OnlyInOwnQueue /\ QueuedOnce

(***************************************************************************)
(* sched_schedule never reaches fatal("no thread left to schedule"): the   *)
(* idle thread is there to be chosen whenever every other thread has       *)
(* exited, aborted or is the one giving up the CPU (sched.c:134).          *)
(***************************************************************************)
AlwaysSomeoneToRun == phase # "fatal"

(***************************************************************************)
(* The address space in CR3 is that of the current thread's process,       *)
(* though thr_switch only loads CR3 when the two threads' processes        *)
(* differ (thread.c:103).                                                  *)
(***************************************************************************)
SpaceOfCurrent == space = Parent[cur]

(***************************************************************************)
(* A thread that has exited or aborted and is off the CPU never gets it    *)
(* back and never changes state again, though it stays queued for ever:    *)
(* "never reached - as the thread is aborting, it will never be            *)
(* re-scheduled" (uapi.c:33).                                              *)
(***************************************************************************)
DeadStaysDead ==
  [][\A t \in Threads : state[t] \in Dead /\ cur # t =>
       cur' # t /\ state'[t] = state[t]]_vars

(***************************************************************************)
(* Within a priority the scheduler is first come first served: a queued    *)
(* thread that stays queued keeps its place or moves towards the head, so  *)
(* no thread of its priority overtakes it.                                 *)
(***************************************************************************)
NoOvertaking ==
  [][\A p \in Prios : \A i \in 1 .. Len(queues[p]) :
       \/ cur' = queues[p][i]
       \/ \E j \in 1 .. i :
            j <= Len(queues'[p]) /\ queues'[p][j] = queues[p][i]]_vars

(***************************************************************************)
(* Round robin does not starve: a runnable thread of the highest priority  *)
(* gets the CPU, whatever the others do, unless the kernel is aborted by a *)
(* fault of one of its own threads.                                        *)
(***************************************************************************)
TopPriorityRuns ==
  \A t \in Threads :
    (phase = "run" /\ state[t] = "Runnable" /\ prio[t] = PrioKernel)
      ~> (cur = t \/ phase = "abort")
=============================================================================
