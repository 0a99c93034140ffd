-------------------------------- MODULE Intr --------------------------------
(***************************************************************************)
(* Interrupt masking on the one CPU the kernel brings up: the counter of   *)
(* intr_disable / intr_enable (intr.c), which lives in the context of the  *)
(* current thread, the entry and exit of an interrupt service routine      *)
(* (idt.S, state.S), the spinlock (spl.S) and the callers that nest them:  *)
(* log_write and cga_write, tsc_read, the timer, RTC, system call and page *)
(* fault handlers, and the boot code up to sched_start, which also fills   *)
(* the gate table that interrupts and system calls are dispatched by.      *)
(*                                                                         *)
(* A thread executes its own code at pc[t]; the handler that interrupted   *)
(* it, if any, is in frame.  Which thread sched_schedule picks is left     *)
(* open here and is the subject of module Sched.                           *)
(***************************************************************************)
EXTENDS Integers, Sequences

CONSTANTS
  Kernel,   \* threads of the core process created by boot_next
  User,     \* threads of user processes
  Idle,     \* the idle thread, which only halts
  InitThr,  \* the thread boot() continues in
  Dummy,    \* _dummy_context, the CPU's context before there are threads
  Free,     \* a spinlock nobody holds
  NoFrame   \* no handler is active

Threads  == Kernel \union User \union {Idle, InitThr}
Contexts == Threads \union {Dummy}

ASSUME ContextsAssumption ==
  /\ Idle # InitThr /\ Dummy \notin Threads /\ Free \notin Contexts
  /\ InitThr \notin Kernel \union User /\ Idle \notin Kernel \union User
  /\ Kernel \intersect User = {}

\* ifda_cnt and syscall are uint8_t.
CntRange == 256

LogAt     == {"log", "locking", "spinning", "writing", "written"}
ThreadAt  == LogAt \union {"run", "tsc"}
Irqs      == {"timer", "rtc"}
Handlers  == Irqs \union {"sysc", "fault"}
FrameAt   == LogAt \union {"entry", "growing", "schedule", "switched", "expired",
                           "handled"}
Calls     == {"SysSchedule", "SysYield", "SysThrExit", "SysLog"}

\* A number that is none of syscall_t, and an interrupt that is no system call.
Unknown == "unknown"
NoCall  == "none"

\* The handlers that are added to the gates, and that none of them answers.
Functions == {"pgflt_handler", "rtc_tick_handler", "lapic_tmr_handler",
              "log_syscall_handler", "thr_syscall_handler", "sched_syscall_handler"}
Unhandled == "unhandled"

\* interrupt_t: the interrupted context and, for a system call, its number.
Frames    == [num : Handlers, at : FrameAt, after : {"handled", "schedule"},
              ctx : Contexts, call : Calls \union {Unknown, NoCall}]

ASSUME NoFrameAssumption == NoFrame \notin Frames

BootAt    == {"early", "logged", "cpu", "threaded", "tsc_wait", "tsc_cal",
              "tsc_done", "lapic_wait", "lapic_cal", "lapic_done", "done",
              "fatal"}
RtcOn     == {"tsc_wait", "tsc_cal", "tsc_done", "lapic_wait", "lapic_cal",
              "lapic_done"}

VARIABLES
  ctx,    \* cpu_locals()->context, named by its thread
  cnt,    \* context->ifda_cnt
  iflag,  \* the CPU's interrupt flag, 0 or 1
  saved,  \* context->state: where it resumes, and IF in its rflags
  pc,     \* where each context is in its own code
  frame,  \* the active handler
  lock,   \* cga_lock: the context that took it (the code stores the CPU)
  dead,   \* the threads marked Exited or Aborting
  gates,  \* intr_gate_table
  inside, \* thread->syscall
  boot    \* how far the boot has come; "fatal" once the kernel has stopped

vars == <<ctx, cnt, iflag, saved, pc, frame, lock, dead, gates, inside, boot>>

intr_disable ==
  /\ iflag' = 0
  /\ cnt' = [cnt EXCEPT ![ctx] = (@ + 1) % CntRange]

\* Mutant of Decremented: the counter is decremented at zero, too.
mut_decrement_always(c) == c - 1

Decremented(c) == IF c > 0 THEN c - 1 ELSE c

intr_enable(doIt) ==
  /\ cnt' = [cnt EXCEPT ![ctx] = Decremented(@)]
  /\ iflag' = IF doIt /\ cnt'[ctx] = 0 THEN 1 ELSE iflag

(***************************************************************************)
(* intr_disable ... intr_enable(true) around code that changes nothing     *)
(* else, as tsc_read does: the counter ends as it was, and IF is on if it  *)
(* is zero.                                                                *)
(***************************************************************************)
Bracket ==
  /\ cnt' = [cnt EXCEPT ![ctx] = Decremented((@ + 1) % CntRange)]
  /\ iflag' = IF cnt'[ctx] = 0 THEN 1 ELSE 0

(***************************************************************************)
(* intr_state: rflags & FL_IF, bit 9, returned as bool, which is uint8_t.  *)
(***************************************************************************)
intr_state == (512 * iflag) % 256 # 0

\* spl_lock from its cmpxchg on, which succeeds once the lock is free.
spl_lock ==
  /\ lock = Free
  /\ lock' = ctx
  /\ intr_enable(TRUE)

spl_unlock == lock' = Free /\ UNCHANGED <<cnt, iflag>>

\* Mutant of LogStep: the test after the cmpxchg is the wrong way round, and
\* spl_lock starts again.
mut_log_retries(at, next) ==
  \/ /\ at \in {"log", "locking"}
     /\ next = IF at = "log" THEN "locking" ELSE "spinning"
     /\ intr_disable
     /\ UNCHANGED lock
  \/ /\ at = "spinning" /\ next = IF lock = Free THEN "locking" ELSE "writing"
     /\ intr_enable(TRUE)
     /\ UNCHANGED lock
  \/ /\ at = "writing" /\ next = "written"
     /\ spl_unlock
  \/ /\ at = "written" /\ next = "run"
     /\ intr_enable(TRUE)
     /\ UNCHANGED lock

\* Mutant of LogStep: log_write enables interrupts before cga_write unlocks.
mut_log_unlocks_late(at, next) ==
  \/ /\ at \in {"log", "locking"}
     /\ next = IF at = "log" THEN "locking" ELSE "spinning"
     /\ intr_disable
     /\ UNCHANGED lock
  \/ /\ at = "spinning" /\ next = "writing"
     /\ spl_lock
  \/ /\ at = "writing" /\ next = "written"
     /\ intr_enable(TRUE)
     /\ UNCHANGED lock
  \/ /\ at = "written" /\ next = "run"
     /\ spl_unlock

(***************************************************************************)
(* One step of log_write to the screen, from at to next: intr_disable, the *)
(* intr_disable of spl_lock, its cmpxchg once the lock is free followed by *)
(* its intr_enable(true), spl_unlock at the end of cga_write, and          *)
(* intr_enable(true).  Where the lock is taken the loop of spl_lock has no *)
(* step: it spins.                                                         *)
(***************************************************************************)
LogStep(at, next) ==
  \/ /\ at = "log" /\ next = "locking"
     /\ intr_disable
     /\ UNCHANGED lock
  \/ /\ at = "locking" /\ next = "spinning"
     /\ intr_disable
     /\ UNCHANGED lock
  \/ /\ at = "spinning" /\ next = "writing"
     /\ spl_lock
  \/ /\ at = "writing" /\ next = "written"
     /\ spl_unlock
  \/ /\ at = "written" /\ next = "run"
     /\ intr_enable(TRUE)
     /\ UNCHANGED lock
-----------------------------------------------------------------------------
(***************************************************************************)
(* The gate table.  A gate has a list of handlers in the mode that         *)
(* sysc_init sets, and otherwise one handler at most.                      *)
(***************************************************************************)
Multi == "GateModeMultiHandler"
Modes == {"GateModeSingleHandler", Multi}
intr_gate_desc == [mode |-> "GateModeSingleHandler", handlers |-> <<>>]

\* With GateModeMultiHandler, the one mode that is ever set, on an empty gate.
intr_set_mode(gate) ==
  IF gate.mode = Multi THEN gate ELSE [mode |-> Multi, handlers |-> <<>>]

\* Mutant of intr_add: the handler replaces the others in every mode.
mut_add_replaces(table, num, handler) == [table EXCEPT ![num].handlers = <<handler>>]

intr_add(table, num, handler) ==
  [table EXCEPT ![num].handlers =
     IF table[num].mode = Multi THEN Append(@, handler) ELSE <<handler>>]

\* Whether a handler returns true: those of system calls by the call.
Answers(handler, call) ==
  /\ handler = "log_syscall_handler" => call = "SysLog"
  /\ handler = "thr_syscall_handler" => call = "SysThrExit"
  /\ handler = "sched_syscall_handler" => call \in {"SysSchedule", "SysYield"}

\* The handler that intr_dispatch stops at.
intr_dispatch(num, call) ==
  LET handlers == gates[num].handlers
      answering == {i \in DOMAIN handlers : Answers(handlers[i], call)}
  IN  IF answering = {} THEN Unhandled
      ELSE handlers[CHOOSE i \in answering : \A j \in answering : i <= j]
-----------------------------------------------------------------------------
(***************************************************************************)
(* A context whose saved state was overwritten by that of a handler: the   *)
(* thread's own state is gone.  What the CPU does from there is garbage    *)
(* and is not modelled.                                                    *)
(***************************************************************************)
Lost == \E t \in Contexts : saved[t].at = "isr"

Running == ~Lost /\ boot # "fatal"

Init ==
  /\ ctx = Dummy
  /\ cnt = [c \in Contexts |-> 0]
  /\ iflag = 0
  /\ saved = [c \in Contexts |-> [at |-> "entry", if |-> 1]]
  /\ pc = [c \in Contexts |-> "run"]
  /\ frame = NoFrame
  /\ lock = Free
  /\ dead = {}
  /\ gates = [num \in Handlers |-> intr_gate_desc]
  /\ inside = [c \in Contexts |-> 0]
  /\ boot = "early"
-----------------------------------------------------------------------------
(***************************************************************************)
(* Boot, from the first message to sched_start.                            *)
(***************************************************************************)
BootStep(from, to) ==
  /\ Running /\ frame = NoFrame
  /\ boot = from /\ boot' = to
  /\ pc[ctx] = "run"

\* sysc_init, and pgflt_init, whose intr_add is the first to call log_write.
pgflt_init ==
  /\ BootStep("early", "logged")
  /\ gates' = intr_add([gates EXCEPT !["sysc"] = intr_set_mode(@)],
                       "fault", "pgflt_handler")
  /\ Bracket
  /\ UNCHANGED <<ctx, saved, pc, frame, lock, dead, inside>>

\* cpu_init, tsc_init and lapic_tmr_init refuse to run with interrupts on.
cpu_init ==
  /\ BootStep("logged", IF intr_state THEN "fatal" ELSE "cpu")
  /\ UNCHANGED <<ctx, cnt, iflag, saved, pc, frame, lock, dead, gates, inside>>

\* boot() adds the handlers of system calls, in log_init, thr_init and
\* sched_init, creates the init thread and switches to its context.
boot_thr_switch ==
  /\ BootStep("cpu", IF intr_state THEN "fatal" ELSE "threaded")
  /\ ctx' = InitThr
  /\ gates' = intr_add(intr_add(intr_add(gates, "sysc", "log_syscall_handler"),
                                "sysc", "thr_syscall_handler"),
                       "sysc", "sched_syscall_handler")
  /\ UNCHANGED <<cnt, iflag, saved, pc, frame, lock, dead, inside>>

\* The start of a calibration: the RTC has to interrupt for it to finish.
Calibrate(from, wait) ==
  /\ BootStep(from, IF intr_state THEN "fatal" ELSE wait)
  /\ IF intr_state THEN UNCHANGED <<cnt, iflag>> ELSE intr_enable(TRUE)
  /\ UNCHANGED <<ctx, saved, pc, frame, lock, dead, inside>>

\* The loop of the calibration has seen its result.
Calibrated(from, to) ==
  /\ BootStep(from, to)
  /\ intr_disable
  /\ UNCHANGED <<ctx, saved, pc, frame, lock, dead, inside>>

\* From rtc_init, which has added the handler of the RTC before.
tsc_init ==
  \/ /\ Calibrate("threaded", "tsc_wait")
     /\ gates' = intr_add(gates, "rtc", "rtc_tick_handler")
  \/ /\ Calibrated("tsc_cal", "tsc_done")
     /\ UNCHANGED gates

lapic_tmr_init ==
  \/ /\ Calibrate("tsc_done", "lapic_wait")
     /\ UNCHANGED gates
  \/ /\ Calibrated("lapic_cal", "lapic_done")
     /\ gates' = intr_add(gates, "timer", "lapic_tmr_handler")

\* The init thread is marked Exited, the heartbeat is programmed, and
\* interrupts are enabled.
sched_start ==
  /\ BootStep("lapic_done", "done")
  /\ dead' = dead \union {InitThr}
  /\ intr_enable(TRUE)
  /\ UNCHANGED <<ctx, saved, pc, frame, lock, gates, inside>>
-----------------------------------------------------------------------------
(***************************************************************************)
(* The code of a thread.  Kernel threads write to the log and read the     *)
(* time, and so does the init thread while it boots.                       *)
(***************************************************************************)
InThread ==
  /\ Running /\ frame = NoFrame
  /\ \/ ctx \in Kernel
     \/ ctx = InitThr /\ boot \in {"threaded", "tsc_done", "lapic_done"}

\* LOG0: log_write is called.
log_call ==
  /\ InThread /\ pc[ctx] = "run"
  /\ pc' = [pc EXCEPT ![ctx] = "log"]
  /\ UNCHANGED <<ctx, cnt, iflag, saved, frame, lock, dead, gates, inside, boot>>

log_write ==
  /\ InThread
  /\ \E next \in ThreadAt :
       /\ LogStep(pc[ctx], next)
       /\ pc' = [pc EXCEPT ![ctx] = next]
  /\ UNCHANGED <<ctx, saved, frame, dead, gates, inside, boot>>

\* tsc_read, under systime().
tsc_read ==
  /\ InThread
  /\ \/ /\ pc[ctx] = "run"
        /\ pc' = [pc EXCEPT ![ctx] = "tsc"]
        /\ intr_disable
     \/ /\ pc[ctx] = "tsc"
        /\ pc' = [pc EXCEPT ![ctx] = "run"]
        /\ intr_enable(TRUE)
  /\ UNCHANGED <<ctx, saved, frame, lock, dead, gates, inside, boot>>
-----------------------------------------------------------------------------
\* The interrupted state, with the rflags the CPU pushed.
x86_64_isr_state_save ==
  saved' = [saved EXCEPT ![ctx] =
              [at |-> IF frame = NoFrame THEN "thread" ELSE "isr", if |-> iflag]]

(***************************************************************************)
(* Entry of an interrupt service routine: cli, intr_disable, and the       *)
(* interrupted state saved to the current context.                         *)
(***************************************************************************)
isr_entry(num, call) ==
  /\ frame' = [num |-> num, at |-> "entry", after |-> "handled", ctx |-> ctx, call |-> call]
  /\ x86_64_isr_state_save
  /\ intr_disable
  /\ UNCHANGED <<ctx, pc, lock, dead, gates, inside, boot>>

(***************************************************************************)
(* A device interrupt.  The vectors of timer and RTC share a priority      *)
(* class, so neither is delivered before the other's lapic_eoi.  The RTC   *)
(* interrupts from tsc_init on, the timer from sched_start on.             *)
(***************************************************************************)
\* Mutant of InService: lapic_eoi comes before the callback.
mut_eoi_first == frame # NoFrame /\ frame.num \in Irqs /\ frame.at = "entry"

InService == frame # NoFrame /\ frame.num \in Irqs /\ frame.at # "handled"

interrupt ==
  /\ Running /\ iflag = 1 /\ ~InService
  /\ \E num \in Irqs :
       /\ boot = "done" \/ (num = "rtc" /\ boot \in RtcOn)
       /\ isr_entry(num, NoCall)

\* int SYSC_INTERRUPT: a user thread, which passes any number, or a kernel
\* thread that returns to the trampoline, which exits it.
uapi_sysc_call ==
  /\ Running /\ frame = NoFrame /\ pc[ctx] = "run"
  /\ \/ ctx \in User /\ \E call \in Calls \union {Unknown} : isr_entry("sysc", call)
     \/ ctx \in Kernel /\ isr_entry("sysc", "SysThrExit")

\* A page fault, which IF does not mask, anywhere in a thread.
page_fault ==
  /\ Running /\ frame = NoFrame
  /\ ctx \in Kernel \union User
  /\ isr_entry("fault", NoCall)

Handling(num, at) ==
  Running /\ frame # NoFrame /\ frame.num = num /\ frame.at = at

\* intr_dispatch calls the handler.
Called(num, handler) ==
  Handling(num, "entry") /\ intr_dispatch(num, frame.call) = handler

\* The active handler moves on.
Moves(to) == frame' = [frame EXCEPT !.at = to]

\* The ticks of the RTC let a calibration finish.
rtc_tick_handler ==
  /\ Called("rtc", "rtc_tick_handler")
  /\ Moves("handled")
  /\ Bracket
  /\ boot' = IF boot = "tsc_wait" THEN "tsc_cal"
             ELSE IF boot = "lapic_wait" THEN "lapic_cal" ELSE boot
  /\ UNCHANGED <<ctx, saved, pc, lock, dead, gates, inside>>

\* pgflt_handler: the stack is to grow, or thr_abort writes an error message and
\* deschedules a user thread, or stops the kernel for one of its own.
pgflt_handler ==
  /\ Called("fault", "pgflt_handler")
  /\ \/ /\ Moves("growing")
        /\ UNCHANGED <<dead, boot>>
     \/ /\ ctx \in User
        /\ frame' = [frame EXCEPT !.at = "log", !.after = "schedule"]
        /\ dead' = dead \union {ctx}
        /\ UNCHANGED boot
     \/ /\ ctx \in Kernel
        /\ boot' = "fatal"
        /\ UNCHANGED <<frame, dead>>
  /\ Bracket
  /\ UNCHANGED <<ctx, saved, pc, lock, gates, inside>>

\* stka_pgflt: a page is taken, with the lock of pmem_alloc, and mapped.
stka_pgflt ==
  /\ Handling("fault", "growing")
  /\ Moves("handled")
  /\ Bracket
  /\ UNCHANGED <<ctx, saved, pc, lock, dead, gates, inside, boot>>

\* The handlers of system calls.  Each calls its function through sysc_call.
sysc_call(handler, to) ==
  /\ Called("sysc", handler)
  /\ inside' = [inside EXCEPT ![frame.ctx] = (@ + 1) % CntRange]
  /\ Moves(to)
  /\ UNCHANGED <<ctx, cnt, iflag, saved, pc, lock, gates, boot>>

log_syscall_handler == sysc_call("log_syscall_handler", "log") /\ UNCHANGED dead

sched_syscall_handler == sysc_call("sched_syscall_handler", "schedule") /\ UNCHANGED dead

thr_syscall_handler ==
  sysc_call("thr_syscall_handler", "schedule") /\ dead' = dead \union {ctx}

\* intr_dispatch without an answer: a message for a system call, and the end
\* for any other interrupt.
unhandled ==
  /\ Running /\ frame # NoFrame /\ frame.at = "entry"
  /\ intr_dispatch(frame.num, frame.call) = Unhandled
  /\ IF frame.num = "sysc" THEN Moves("log") /\ UNCHANGED boot
     ELSE boot' = "fatal" /\ UNCHANGED frame
  /\ UNCHANGED <<ctx, cnt, iflag, saved, pc, lock, dead, gates, inside>>

\* Mutant of sysc_return: it is the current thread that leaves the call.
mut_return_current ==
  inside' = IF frame.num = "sysc" /\ frame.call # Unknown
            THEN [inside EXCEPT ![ctx'] = (@ - 1) % CntRange] ELSE inside

\* sysc_call, when its function returns, in whichever context.
sysc_return ==
  inside' = IF frame.num = "sysc" /\ intr_dispatch("sysc", frame.call) # Unhandled
            THEN [inside EXCEPT ![frame.ctx] = (@ - 1) % CntRange] ELSE inside

\* log_write called by a handler.
handler_log_write ==
  /\ Running /\ frame # NoFrame
  /\ \E next \in FrameAt \union {"run"} :
       /\ LogStep(frame.at, next)
       /\ Moves(IF next = "run" THEN frame.after ELSE next)
       /\ IF next = "run" THEN sysc_return ELSE UNCHANGED inside
  /\ UNCHANGED <<ctx, saved, pc, dead, gates, boot>>

\* tmr_handle_tick up to the callback of the heartbeat.
lapic_tmr_handler ==
  /\ Called("timer", "lapic_tmr_handler")
  /\ Moves("schedule")
  /\ Bracket
  /\ UNCHANGED <<ctx, saved, pc, lock, dead, gates, inside, boot>>

\* sched_schedule: stay, or thr_switch to another living thread.
sched_schedule ==
  /\ Running /\ frame # NoFrame /\ frame.at = "schedule"
  /\ \/ ctx \notin dead /\ UNCHANGED ctx
     \/ ctx' \in Threads \ (dead \union {ctx})
  /\ Moves(IF frame.num = "timer" THEN "switched" ELSE "handled")
  /\ sysc_return
  /\ UNCHANGED <<cnt, iflag, saved, pc, lock, dead, gates, boot>>

\* The rest of the tick, in the context that is now current: the node of the
\* heartbeat is freed, and systime() read.
tmr_handle_expired ==
  /\ Handling("timer", "switched")
  /\ Moves("expired")
  /\ Bracket
  /\ UNCHANGED <<ctx, saved, pc, lock, dead, gates, inside, boot>>

\* A new node is linked, the next tick programmed, and lapic_eoi called.
tmr_set_next_tick ==
  /\ Handling("timer", "expired")
  /\ Moves("handled")
  /\ UNCHANGED <<ctx, cnt, iflag, saved, pc, lock, dead, gates, inside, boot>>

\* iretq loads the rflags of the state that was restored.
x86_64_isr_state_restore == iflag' = saved[ctx].if

\* Mutant of isr_exit: the sti before iretq decides, not the rflags popped.
mut_exit_sti ==
  /\ Running /\ frame # NoFrame /\ frame.at = "handled"
  /\ frame' = NoFrame
  /\ cnt' = [cnt EXCEPT ![ctx] = Decremented(@)]
  /\ iflag' = 1
  /\ UNCHANGED <<ctx, saved, pc, lock, dead, gates, inside, boot>>

(***************************************************************************)
(* Exit of a service routine, in the context that is current by now:       *)
(* intr_enable(false), the saved state restored, sti, and iretq, which     *)
(* loads the saved rflags.                                                 *)
(***************************************************************************)
isr_exit ==
  /\ Running /\ frame # NoFrame /\ frame.at = "handled"
  /\ frame' = NoFrame
  /\ cnt' = [cnt EXCEPT ![ctx] = Decremented(@)]
  /\ x86_64_isr_state_restore
  /\ UNCHANGED <<ctx, saved, pc, lock, dead, gates, inside, boot>>

\* The kernel has stopped, or runs on a lost context.
Halt == ~Running /\ UNCHANGED vars

CpuStep ==
  \/ rtc_tick_handler
  \/ pgflt_handler
  \/ stka_pgflt
  \/ log_syscall_handler
  \/ sched_syscall_handler
  \/ thr_syscall_handler
  \/ unhandled
  \/ handler_log_write
  \/ lapic_tmr_handler
  \/ sched_schedule
  \/ tmr_handle_expired
  \/ tmr_set_next_tick
  \/ isr_exit

Next ==
  \/ pgflt_init
  \/ cpu_init
  \/ boot_thr_switch
  \/ tsc_init
  \/ lapic_tmr_init
  \/ sched_start
  \/ log_call
  \/ log_write
  \/ tsc_read
  \/ interrupt
  \/ uapi_sysc_call
  \/ page_fault
  \/ CpuStep
  \/ Halt

Spec == Init /\ [][Next]_vars

(***************************************************************************)
(* The CPU executes: a handler goes on, and an instruction of log_write    *)
(* that faults is restarted by iretq until it completes.                   *)
(***************************************************************************)
FairSpec == Spec /\ WF_vars(CpuStep) /\ SF_vars(log_write)
-----------------------------------------------------------------------------
(***************************************************************************)
(* Properties.                                                             *)
(***************************************************************************)
\* Contexts, counters of 8 bits, frames and gates are of their types
\* (thread.h:59-83, intr.h:19-31).
TypeOK ==
  /\ ctx \in Contexts
  /\ cnt \in [Contexts -> 0 .. (CntRange - 1)]
  /\ iflag \in {0, 1}
  /\ saved \in [Contexts -> [at : {"entry", "thread", "isr"}, if : {0, 1}]]
  /\ pc \in [Contexts -> ThreadAt]
  /\ frame \in Frames \union {NoFrame}
  /\ lock \in Contexts \union {Free}
  /\ dead \subseteq Threads
  /\ gates \in [Handlers -> [mode : Modes, handlers : Seq(Functions)]]
  /\ inside \in [Contexts -> 0 .. (CntRange - 1)]
  /\ boot \in BootAt

\* How many intr_disable a piece of code has open.
Depth(at) ==
  IF at = "spinning" THEN 2
  ELSE IF at \in {"tsc", "locking", "writing", "written"} THEN 1 ELSE 0

OwnDepth(c) ==
  Depth(pc[c]) +
    (IF c = InitThr /\ boot \in {"tsc_done", "lapic_done"} THEN 1 ELSE 0)

(***************************************************************************)
(* The counter stays in step with the nesting although ISR entry           *)
(* increments it in one thread's context and ISR exit decrements it in     *)
(* another's: outside handlers it is the number of intr_disable calls the  *)
(* running code has open, and interrupts are on exactly if that is zero; a *)
(* thread off the CPU has one open, the ISR's that took it off, or none if *)
(* it never ran (idt.S:81 and idt.S:112).                                  *)
(***************************************************************************)
CounterMatchesNesting ==
  /\ frame = NoFrame /\ boot # "early" =>
       /\ cnt[ctx] = OwnDepth(ctx)
       /\ iflag = 1 <=> cnt[ctx] = 0
  /\ \A t \in Threads \ {ctx} :
       /\ OwnDepth(t) = 0
       /\ cnt[t] = IF saved[t].at = "entry" THEN 0 ELSE 1

(***************************************************************************)
(* The holder of the screen lock is never switched out, though spl_lock    *)
(* itself turns interrupts back on before it returns: whoever finds the    *)
(* lock taken would spin for ever on this one CPU (spl.S:41-50; log_write  *)
(* keeps a count of its own open around cga_write).                        *)
(***************************************************************************)
HolderNeverPreempted == lock # Free => lock = ctx /\ iflag = 0

(***************************************************************************)
(* "Locks the spinlock. Blocks until the lock is held." (spl.h:22): a      *)
(* thread that enters the loop of spl_lock leaves it with the lock.        *)
(***************************************************************************)
SpinEnds ==
  \A t \in Threads : pc[t] = "spinning" ~> (pc[t] = "writing" \/ ~Running)

(***************************************************************************)
(* No interrupt comes before its handler: boot fills the gates in the      *)
(* order in which it enables what interrupts, with the mode of the system  *)
(* call gate before its three handlers, so that intr_dispatch never stops  *)
(* the kernel and finds every call of syscall_t answered (intr.c:82-86).   *)
(***************************************************************************)
InterruptsAnswered ==
  frame # NoFrame /\ frame.at = "entry" /\ frame.call # Unknown =>
    intr_dispatch(frame.num, frame.call) # Unhandled

(***************************************************************************)
(* A thread counts as inside a system call from the start of the handler   *)
(* to its end, though the function called may have switched to another     *)
(* thread, whose count must not change (syscall.c:16-21).                  *)
(***************************************************************************)
InsideOwnCall ==
  \A t \in Contexts :
    inside[t] = IF /\ frame # NoFrame /\ frame.num = "sysc" /\ frame.ctx = t
                   /\ frame.call # Unknown /\ frame.at \notin {"entry", "handled"}
                THEN 1 ELSE 0

\* A handler uses what has no lock: heap and list nodes, or the map slots.
UsesShared ==
  frame # NoFrame /\ frame.at \in {"growing", "schedule", "switched", "expired"}

(***************************************************************************)
(* The heap (heap.c:206), the map slots (vmem_mgmt.c:107) and pmem_free    *)
(* take no lock, and after boot only handlers use them: sched_schedule     *)
(* and the tick move list nodes, a fault maps a page.  No handler starts   *)
(* while another one is in there, not even after the systime() that turns  *)
(* interrupts on in a tick which has switched to a fresh thread.           *)
(***************************************************************************)
NotReentered ==
  [][UsesShared /\ frame' # NoFrame => frame'.at # "entry"]_vars

(***************************************************************************)
(* A handler runs with interrupts off from entry to iretq: its exit must   *)
(* not "really enable interrupts" (idt.S:111).                             *)
(***************************************************************************)
HandlersMasked == frame # NoFrame => iflag = 0
=============================================================================
