----------------------------- MODULE IntrProofs -----------------------------
(***************************************************************************)
(* Proofs about interrupt masking, for any sets of kernel and user         *)
(* threads: the inductive invariant, what the helpers of the actions do to *)
(* the gates and to the counters, that the steps of threads, of boot, of   *)
(* handlers and the switch keep the invariant, and the theorems.           *)
(***************************************************************************)
EXTENDS Intr, SequenceTheorems, TLAPS

\* How far boot and the threads are: until sched_start only the boot code runs.
Before == {"early", "logged", "cpu"}
Over   == {"done", "fatal"}

BootOrder ==
  /\ boot \in Before <=> ctx = Dummy
  /\ boot \in Before =>
       /\ frame = NoFrame
       /\ \A t \in Threads : saved[t].at = "entry"
  /\ boot \notin Before \union Over => ctx = InitThr
  /\ \A c \in Contexts : pc[c] # "run" =>
       \/ c \in Kernel
       \/ c = InitThr /\ boot \in {"threaded", "tsc_done", "lapic_done"}

\* The gates by the progress of boot.
GatesFilled ==
  /\ gates["sysc"] =
       IF boot = "early" THEN intr_gate_desc
       ELSE [mode |-> Multi,
             handlers |-> IF boot \in Before THEN <<>>
                          ELSE <<"log_syscall_handler", "thr_syscall_handler",
                                 "sched_syscall_handler">>]
  /\ gates["fault"] =
       IF boot = "early" THEN intr_gate_desc
       ELSE [mode |-> "GateModeSingleHandler", handlers |-> <<"pgflt_handler">>]
  /\ gates["rtc"] =
       IF boot \in Before \union {"threaded"} THEN intr_gate_desc
       ELSE [mode |-> "GateModeSingleHandler", handlers |-> <<"rtc_tick_handler">>]
  /\ gates["timer"] =
       IF boot \in Over \union {"lapic_done"}
       THEN [mode |-> "GateModeSingleHandler", handlers |-> <<"lapic_tmr_handler">>]
       ELSE intr_gate_desc

\* Which positions a handler passes, and whom it interrupted.
FrameOrder ==
  frame # NoFrame =>
    /\ frame.num = "rtc" => frame.at \in {"entry", "handled"}
                            /\ boot \in RtcOn \union Over
    /\ frame.num # "rtc" => boot \in Over
    /\ frame.num = "timer" =>
         frame.at \in {"entry", "schedule", "switched", "expired", "handled"}
    /\ frame.num = "sysc" => frame.at \notin {"growing", "switched", "expired"}
    /\ frame.num = "fault" => frame.at \notin {"switched", "expired"}
    /\ frame.num = "fault" /\ frame.at \in LogAt \union {"schedule"} => ctx \in User
    /\ frame.num = "sysc" <=> frame.call # NoCall
    /\ frame.after = "schedule" => frame.num = "fault"
    /\ frame.num # "fault" /\ ~Lost => OwnDepth(ctx) = 0
    /\ frame.at \notin {"switched", "expired", "handled"} => frame.ctx = ctx

\* A thread off the CPU has one intr_disable open, or none if it never ran.
OffCpu ==
  \A t \in Threads \ {ctx} :
    /\ OwnDepth(t) = 0
    /\ saved[t].at \in {"entry", "thread"} /\ saved[t].if = 1
    /\ cnt[t] = IF saved[t].at = "entry" THEN 0 ELSE 1

\* The counter and the interrupt flag outside handlers.
OnCpu ==
  /\ frame = NoFrame => ~Lost /\ cnt[ctx] = OwnDepth(ctx)
  /\ frame = NoFrame /\ boot # "early" => (iflag = 1 <=> cnt[ctx] = 0)
  /\ boot = "early" => iflag = 0

\* And inside: interrupts are only on at the end of a tick that has switched to
\* a thread which never ran.
InIsr ==
  /\ frame # NoFrame /\ ~Lost =>
       /\ cnt[ctx] = (IF saved[ctx].at = "entry" THEN 0 ELSE 1)
                       + OwnDepth(ctx) + Depth(frame.at)
       /\ saved[ctx].if = 1 <=> OwnDepth(ctx) = 0
       /\ saved[ctx].at = "entry" =>
            /\ frame.at \in {"switched", "expired", "handled"}
            /\ OwnDepth(ctx) = 0
       /\ iflag = 1 => frame.at \in {"expired", "handled"} /\ saved[ctx].at = "entry"
  /\ Lost => iflag = 0

\* Who holds the screen lock is writing.
LockHeld ==
  lock # Free =>
    lock = ctx /\ (pc[ctx] = "writing" \/ (frame # NoFrame /\ frame.at = "writing"))

IInv ==
  /\ TypeOK /\ BootOrder /\ GatesFilled /\ FrameOrder
  /\ OffCpu /\ OnCpu /\ InIsr /\ LockHeld /\ InsideOwnCall
-----------------------------------------------------------------------------
\* intr_state is always false: bit 9 does not fit in its result.
LEMMA StateIsLost ==
  ASSUME IInv
  PROVE  ~intr_state
<1>1. iflag \in {0, 1}
  BY DEF IInv, TypeOK
<1>. QED BY <1>1 DEF intr_state

\* A frame has the fields of interrupt_t.
LEMMA FrameFields ==
  ASSUME TypeOK, frame # NoFrame
  PROVE  /\ frame \in Frames
         /\ frame.num \in Handlers /\ frame.at \in FrameAt
         /\ frame.after \in {"handled", "schedule"} /\ frame.ctx \in Contexts
         /\ frame.call \in Calls \union {Unknown, NoCall}
BY DEF TypeOK, Frames

\* At most three intr_disable are open in a thread.
LEMMA DepthBounds ==
  /\ \A at : Depth(at) \in 0 .. 2
  /\ \A c : OwnDepth(c) \in 0 .. 3
BY DEF Depth, OwnDepth

\* What a gate answers once boot has filled it.
LEMMA Dispatch ==
  ASSUME GatesFilled, boot \notin Before, NEW call
  PROVE  /\ intr_dispatch("fault", call) = "pgflt_handler"
         /\ boot # "threaded" => intr_dispatch("rtc", call) = "rtc_tick_handler"
         /\ boot \in Over => intr_dispatch("timer", call) = "lapic_tmr_handler"
BY DEF GatesFilled, Before, Over, intr_dispatch, Answers, intr_gate_desc

LEMMA DispatchCalls ==
  ASSUME GatesFilled, boot \notin Before, NEW call
  PROVE  /\ call \in Calls => intr_dispatch("sysc", call) # Unhandled
         /\ call \notin Calls => intr_dispatch("sysc", call) = Unhandled
BY DEF GatesFilled, Before, intr_dispatch, Answers, Calls, Unhandled,
       intr_gate_desc

\* The invariant holds when boot() begins.
LEMMA InitIInv == Init => IInv
<1> SUFFICES ASSUME Init
             PROVE  IInv
  OBVIOUS
<1> USE ContextsAssumption
<1>1. TypeOK
  <2>1. << >> \in Seq(Functions)
    OBVIOUS
  <2>2. intr_gate_desc \in [mode : Modes, handlers : Seq(Functions)]
    BY <2>1 DEF intr_gate_desc, Modes
  <2>3. gates \in [Handlers -> [mode : Modes, handlers : Seq(Functions)]]
    BY <2>2 DEF Init
  <2>4. ctx \in Contexts /\ lock \in Contexts \union {Free} /\ boot \in BootAt
        /\ frame \in Frames \union {NoFrame} /\ dead \subseteq Threads /\ iflag \in {0, 1}
    BY DEF Init, Contexts, BootAt
  <2>5. saved \in [Contexts -> [at : {"entry", "thread", "isr"}, if : {0, 1}]]
    BY DEF Init
  <2>6. /\ cnt \in [Contexts -> 0 .. (CntRange - 1)]
        /\ inside \in [Contexts -> 0 .. (CntRange - 1)]
        /\ pc \in [Contexts -> ThreadAt]
    BY DEF Init, CntRange, ThreadAt
  <2>. QED BY <2>3, <2>4, <2>5, <2>6 DEF TypeOK
<1>2. BootOrder /\ GatesFilled
  BY DEF Init, BootOrder, GatesFilled, Before, Over, Contexts, Handlers, Irqs, Threads
<1>3. FrameOrder /\ LockHeld /\ InsideOwnCall
  BY DEF Init, FrameOrder, LockHeld, InsideOwnCall
<1>4. OffCpu /\ OnCpu /\ InIsr
  BY DEF Init, OffCpu, OnCpu, InIsr, Lost, Depth, OwnDepth, Contexts
<1>. QED BY <1>1, <1>2, <1>3, <1>4 DEF IInv

Gates == [Handlers -> [mode : Modes, handlers : Seq(Functions)]]

\* intr_add changes one gate.
LEMMA AddProperties ==
  ASSUME NEW table \in Gates, NEW num \in Handlers, NEW handler \in Functions
  PROVE  /\ intr_add(table, num, handler) \in Gates
         /\ intr_add(table, num, handler)[num] =
              [mode |-> table[num].mode,
               handlers |-> IF table[num].mode = Multi THEN Append(table[num].handlers, handler)
                            ELSE <<handler>>]
         /\ \A o \in Handlers \ {num} : intr_add(table, num, handler)[o] = table[o]
<1>1. table[num] \in [mode : Modes, handlers : Seq(Functions)]
  BY DEF Gates
<1>2. <<handler>> \in Seq(Functions) /\ Append(table[num].handlers, handler) \in Seq(Functions)
  BY <1>1
<1> DEFINE hs == IF table[num].mode = Multi THEN Append(table[num].handlers, handler)
                 ELSE <<handler>>
           new == [table[num] EXCEPT !.handlers = hs]
<1>3. intr_add(table, num, handler) = [table EXCEPT ![num] = new]
  BY DEF intr_add
<1>4. hs \in Seq(Functions)
  BY <1>2
<1> HIDE DEF hs
<1>5. new = [mode |-> table[num].mode, handlers |-> hs]
  BY <1>1
<1>6. new \in [mode : Modes, handlers : Seq(Functions)]
  BY <1>1, <1>4, <1>5
<1> HIDE DEF new
<1>. QED BY <1>3, <1>5, <1>6 DEF Gates, hs

\* A gate of one handler, and one of several.
LEMMA AddSingle ==
  ASSUME NEW table \in Gates, NEW num \in Handlers, NEW handler \in Functions,
         table[num] = intr_gate_desc
  PROVE  /\ intr_add(table, num, handler)[num] =
              [mode |-> "GateModeSingleHandler", handlers |-> <<handler>>]
         /\ \A o \in Handlers \ {num} : intr_add(table, num, handler)[o] = table[o]
<1>1. table[num].mode # Multi /\ table[num].mode = "GateModeSingleHandler"
  BY DEF intr_gate_desc, Multi
<1>. QED BY <1>1, AddProperties

LEMMA AddMulti ==
  ASSUME NEW table \in Gates, NEW num \in Handlers, NEW handler \in Functions,
         NEW handlers \in Seq(Functions), table[num] = [mode |-> Multi, handlers |-> handlers]
  PROVE  /\ intr_add(table, num, handler) \in Gates
         /\ intr_add(table, num, handler)[num] =
              [mode |-> Multi, handlers |-> Append(handlers, handler)]
         /\ \A o \in Handlers \ {num} : intr_add(table, num, handler)[o] = table[o]
<1>1. table[num].mode = Multi /\ table[num].handlers = handlers
  OBVIOUS
<1>. QED BY <1>1, AddProperties

LEMMA AppendTriple ==
  ASSUME NEW S, NEW a \in S, NEW b \in S, NEW c \in S
  PROVE  /\ <<>> \in Seq(S)
         /\ Append(<<>>, a) \in Seq(S) /\ Append(Append(<<>>, a), b) \in Seq(S)
         /\ Append(Append(Append(<<>>, a), b), c) = <<a, b, c>>
<1>1. <<>> \in Seq(S) /\ Append(<<>>, a) \in Seq(S) /\ Append(Append(<<>>, a), b) \in Seq(S)
  BY AppendProperties
<1>2. <<a, b, c>> \in Seq(S) /\ Len(<<a, b, c>>) = 3
  OBVIOUS
<1> DEFINE s1 == Append(<<>>, a)
           s2 == Append(s1, b)
           s3 == Append(s2, c)
<1>3. Len(s1) = 1 /\ s1[1] = a
  BY AppendProperties
<1>4. Len(s2) = 2 /\ s2[1] = a /\ s2[2] = b
  BY <1>1, <1>3, AppendProperties
<1>5. s3 \in Seq(S) /\ Len(s3) = 3 /\ s3[1] = a /\ s3[2] = b /\ s3[3] = c
  BY <1>1, <1>4, AppendProperties
<1> HIDE DEF s3
<1>6. \A i \in 1 .. Len(s3) : s3[i] = <<a, b, c>>[i]
  BY <1>5
<1>7. s3 = <<a, b, c>>
  BY <1>2, <1>5, <1>6, SeqEqual
<1>. QED BY <1>1, <1>7 DEF s3

LEMMA AddThree ==
  ASSUME NEW table \in Gates, NEW num \in Handlers, NEW a \in Functions,
         NEW b \in Functions, NEW c \in Functions, NEW new,
         table[num] = [mode |-> Multi, handlers |-> <<>>],
         new = intr_add(intr_add(intr_add(table, num, a), num, b), num, c)
  PROVE  /\ new[num] = [mode |-> Multi, handlers |-> <<a, b, c>>]
         /\ \A o \in Handlers \ {num} : new[o] = table[o]
<1> DEFINE s1 == Append(<<>>, a)
           s2 == Append(s1, b)
           t1 == intr_add(table, num, a)
           t2 == intr_add(t1, num, b)
           t3 == intr_add(t2, num, c)
<1>1. /\ <<>> \in Seq(Functions) /\ s1 \in Seq(Functions) /\ s2 \in Seq(Functions)
      /\ Append(s2, c) = <<a, b, c>>
  BY AppendTriple, Zenon
<1>2. /\ t1 \in Gates /\ t1[num] = [mode |-> Multi, handlers |-> s1]
      /\ \A o \in Handlers \ {num} : t1[o] = table[o]
  BY <1>1, AddMulti, ZenonT(60)
<1> HIDE DEF t1, s1
<1>3. /\ t2 \in Gates /\ t2[num] = [mode |-> Multi, handlers |-> s2]
      /\ \A o \in Handlers \ {num} : t2[o] = t1[o]
  BY <1>1, <1>2, AddMulti, ZenonT(60)
<1> HIDE DEF t2, s2
<1>4. /\ t3 \in Gates /\ t3[num] = [mode |-> Multi, handlers |-> Append(s2, c)]
      /\ \A o \in Handlers \ {num} : t3[o] = t2[o]
  BY <1>1, <1>3, AddMulti, ZenonT(60)
<1> HIDE DEF t3
<1>5. /\ t3[num] = [mode |-> Multi, handlers |-> <<a, b, c>>]
      /\ \A o \in Handlers \ {num} : t3[o] = table[o]
  BY <1>1, <1>2, <1>3, <1>4
<1>. QED BY <1>5 DEF t1, t2, t3

\* What leaves the gates and the progress of boot alone.
Quiet ==
  \/ log_call \/ log_write \/ tsc_read
  \/ interrupt \/ uapi_sysc_call \/ page_fault
  \/ stka_pgflt \/ log_syscall_handler \/ sched_syscall_handler \/ thr_syscall_handler
  \/ handler_log_write \/ lapic_tmr_handler \/ sched_schedule \/ tmr_handle_expired
  \/ tmr_set_next_tick \/ isr_exit \/ Halt

LEMMA QuietSteps ==
  ASSUME Quiet
  PROVE  UNCHANGED <<gates, boot>>
BY Zenon DEF Quiet, log_call, log_write, tsc_read, interrupt, uapi_sysc_call, page_fault,
       isr_entry, stka_pgflt, log_syscall_handler, sched_syscall_handler,
       thr_syscall_handler, sysc_call, handler_log_write, lapic_tmr_handler,
       sched_schedule, tmr_handle_expired, tmr_set_next_tick, isr_exit, Halt, vars

LEMMA NextCases ==
  ASSUME Next
  PROVE  \/ pgflt_init \/ cpu_init \/ boot_thr_switch \/ tsc_init \/ lapic_tmr_init
         \/ sched_start \/ rtc_tick_handler \/ pgflt_handler \/ unhandled \/ Quiet
BY DEF Next, CpuStep, Quiet

\* Only system calls find no answer, so the kernel does not stop there.
LEMMA UnhandledCalls ==
  ASSUME IInv, unhandled
  PROVE  frame.num = "sysc" /\ frame.call = Unknown /\ UNCHANGED boot
<1>1. frame # NoFrame /\ intr_dispatch(frame.num, frame.call) = Unhandled
  BY DEF unhandled
<1>2. frame.num \in Handlers /\ frame.call \in Calls \union {Unknown, NoCall}
  BY <1>1, FrameFields DEF IInv
<1>3. boot \notin Before \union {"threaded"}
  BY <1>1, <1>2 DEF IInv, FrameOrder, Before, Over, RtcOn
<1>4. GatesFilled
  BY DEF IInv
<1>5. frame.num = "sysc"
  <2>1. frame.num = "timer" => boot \in Over
    BY <1>1 DEF IInv, FrameOrder
  <2>. QED BY <1>1, <1>2, <1>3, <1>4, <2>1, Dispatch DEF Unhandled, Handlers, Irqs
<1>6. frame.call = Unknown
  BY <1>1, <1>2, <1>3, <1>4, <1>5, DispatchCalls DEF IInv, FrameOrder
<1>. QED BY <1>5, <1>6 DEF unhandled

LEMMA GatesPreserved ==
  ASSUME IInv, Next
  PROVE  GatesFilled'
<1>1. GatesFilled /\ boot \in BootAt /\ gates \in Gates
  BY DEF IInv, TypeOK, Gates
<1>2. /\ "sysc" \in Handlers /\ "fault" \in Handlers
      /\ "rtc" \in Handlers /\ "timer" \in Handlers
      /\ "pgflt_handler" \in Functions /\ "rtc_tick_handler" \in Functions
      /\ "lapic_tmr_handler" \in Functions
  BY DEF Handlers, Irqs, Functions
<1>3. CASE pgflt_init
  <2> DEFINE table == [gates EXCEPT !["sysc"] = intr_set_mode(@)]
  <2>1. /\ boot = "early" /\ boot' = "logged"
        /\ gates' = intr_add(table, "fault", "pgflt_handler")
    BY <1>3 DEF pgflt_init, BootStep
  <2>2. << >> \in Seq(Functions)
    OBVIOUS
  <2>3. /\ table \in Gates
        /\ table["sysc"] = [mode |-> Multi, handlers |-> << >>]
        /\ \A o \in Handlers \ {"sysc"} : table[o] = intr_gate_desc
    BY <1>1, <1>2, <2>1, <2>2
       DEF Gates, GatesFilled, Before, Over, intr_set_mode, intr_gate_desc, Handlers, Irqs,
           Modes, Multi
  <2> HIDE DEF table
  <2>. QED BY <1>2, <2>1, <2>3, AddProperties
           DEF GatesFilled, Before, Over, intr_gate_desc, Multi
<1>4. CASE cpu_init
  BY <1>1, <1>4, StateIsLost DEF cpu_init, BootStep, GatesFilled, Before, Over
<1>5. CASE boot_thr_switch
  <2>1. /\ boot = "cpu" /\ boot' = "threaded"
        /\ gates' = intr_add(intr_add(intr_add(gates, "sysc", "log_syscall_handler"),
                                      "sysc", "thr_syscall_handler"),
                             "sysc", "sched_syscall_handler")
    BY <1>5, StateIsLost DEF boot_thr_switch, BootStep
  <2>2. gates["sysc"] = [mode |-> Multi, handlers |-> <<>>]
    BY <1>1, <2>1 DEF GatesFilled, Before
  <2>3. /\ "log_syscall_handler" \in Functions /\ "thr_syscall_handler" \in Functions
        /\ "sched_syscall_handler" \in Functions /\ gates \in Gates
    BY <1>1 DEF Functions
  <2>4. /\ gates'["sysc"] = [mode |-> Multi,
                             handlers |-> <<"log_syscall_handler", "thr_syscall_handler",
                                            "sched_syscall_handler">>]
        /\ \A o \in Handlers \ {"sysc"} : gates'[o] = gates[o]
    BY <1>2, <2>1, <2>2, <2>3, AddThree
  <2>. QED BY <1>1, <1>2, <2>1, <2>4 DEF GatesFilled, Before, Over
<1>6. CASE tsc_init
  <2>1. CASE boot' = "tsc_wait"
    <3>1. boot = "threaded" /\ gates' = intr_add(gates, "rtc", "rtc_tick_handler")
      BY <1>6, <2>1 DEF tsc_init, Calibrate, Calibrated, BootStep
    <3> DEFINE new == intr_add(gates, "rtc", "rtc_tick_handler")
    <3>2. gates["rtc"] = intr_gate_desc
      BY <1>1, <3>1 DEF GatesFilled
    <3>3. /\ new["rtc"] = [mode |-> "GateModeSingleHandler",
                           handlers |-> <<"rtc_tick_handler">>]
          /\ \A o \in Handlers \ {"rtc"} : new[o] = gates[o]
      BY <1>1, <1>2, <3>2, AddSingle, ZenonT(60)
    <3> HIDE DEF new
    <3>4. gates' = new
      BY <3>1 DEF new
    <3>. QED BY <1>1, <1>2, <2>1, <3>1, <3>3, <3>4 DEF GatesFilled, Before, Over
  <2>2. CASE boot = "tsc_cal" /\ boot' = "tsc_done" /\ UNCHANGED gates
    BY <1>1, <2>2 DEF GatesFilled, Before, Over
  <2>. QED BY <1>6, <2>1, <2>2, StateIsLost, Zenon DEF tsc_init, Calibrate, Calibrated, BootStep
<1>7. CASE lapic_tmr_init
  <2>1. CASE boot = "tsc_done" /\ boot' = "lapic_wait" /\ UNCHANGED gates
    BY <1>1, <2>1 DEF GatesFilled, Before, Over
  <2>2. CASE boot' = "lapic_done"
    <3>1. boot = "lapic_cal" /\ gates' = intr_add(gates, "timer", "lapic_tmr_handler")
      BY <1>7, <2>2, StateIsLost DEF lapic_tmr_init, Calibrate, Calibrated, BootStep
    <3> DEFINE new == intr_add(gates, "timer", "lapic_tmr_handler")
    <3>2. gates["timer"] = intr_gate_desc
      BY <1>1, <3>1 DEF GatesFilled, Over
    <3>3. /\ new["timer"] = [mode |-> "GateModeSingleHandler",
                             handlers |-> <<"lapic_tmr_handler">>]
          /\ \A o \in Handlers \ {"timer"} : new[o] = gates[o]
      BY <1>1, <1>2, <3>2, AddSingle, ZenonT(60)
    <3> HIDE DEF new
    <3>4. gates' = new
      BY <3>1 DEF new
    <3>. QED BY <1>1, <1>2, <2>2, <3>1, <3>3, <3>4 DEF GatesFilled, Before, Over
  <2>. QED BY <1>7, <2>1, <2>2, StateIsLost, Zenon
           DEF lapic_tmr_init, Calibrate, Calibrated, BootStep
<1>8. CASE sched_start
  BY <1>1, <1>8 DEF sched_start, BootStep, GatesFilled, Before, Over
<1>9. CASE rtc_tick_handler
  BY <1>1, <1>9 DEF rtc_tick_handler, GatesFilled, Before, Over
<1>10. CASE pgflt_handler
  <2>1. boot \in Over
    BY <1>10 DEF pgflt_handler, Called, Handling, IInv, FrameOrder
  <2>. QED BY <1>1, <1>10, <2>1 DEF pgflt_handler, GatesFilled, Before, Over
<1>11. CASE unhandled
  BY <1>1, <1>11, UnhandledCalls DEF unhandled, GatesFilled
<1>12. CASE Quiet
  BY <1>1, <1>12, QuietSteps DEF GatesFilled
<1>. QED BY <1>3, <1>4, <1>5, <1>6, <1>7, <1>8, <1>9, <1>10, <1>11, <1>12, NextCases

-----------------------------------------------------------------------------
\* The counter is far from its limit.
LEMMA CntBound ==
  ASSUME IInv, ~Lost
  PROVE  ctx \in Contexts /\ cnt[ctx] \in 0 .. 6
<1>1. ctx \in Contexts /\ cnt \in [Contexts -> 0 .. (CntRange - 1)]
  BY DEF IInv, TypeOK
<1>2. cnt[ctx] \in 0 .. 255
  BY <1>1 DEF CntRange
<1>. QED BY <1>1, <1>2, DepthBounds DEF IInv, OnCpu, InIsr

LEMMA DisableEffect ==
  ASSUME TypeOK, intr_disable, cnt[ctx] \in 0 .. 6
  PROVE  /\ cnt' = [cnt EXCEPT ![ctx] = cnt[ctx] + 1]
         /\ cnt' \in [Contexts -> 0 .. (CntRange - 1)]
         /\ iflag' = 0
<1>1. (cnt[ctx] + 1) % CntRange = cnt[ctx] + 1 /\ cnt[ctx] + 1 \in 0 .. (CntRange - 1)
  BY DEF CntRange
<1>. QED BY <1>1, Zenon DEF intr_disable, TypeOK

LEMMA BracketEffect ==
  ASSUME TypeOK, Bracket, cnt[ctx] \in 0 .. 6
  PROVE  cnt' = cnt /\ iflag' \in {0, 1} /\ (iflag' = 1 <=> cnt[ctx] = 0)
<1>1. (cnt[ctx] + 1) % CntRange = cnt[ctx] + 1
  BY DEF CntRange
<1>2. Decremented((cnt[ctx] + 1) % CntRange) = cnt[ctx]
  BY <1>1 DEF Decremented
<1>3. cnt' = cnt
  BY <1>2 DEF Bracket, TypeOK
<1>. QED BY <1>3 DEF Bracket

LEMMA EnableEffect ==
  ASSUME TypeOK, intr_enable(TRUE), cnt[ctx] \in 0 .. 6
  PROVE  /\ cnt' = [cnt EXCEPT ![ctx] = IF cnt[ctx] > 0 THEN cnt[ctx] - 1 ELSE 0]
         /\ cnt' \in [Contexts -> 0 .. (CntRange - 1)]
         /\ iflag' \in {0, 1}
         /\ iflag' = IF cnt'[ctx] = 0 THEN 1 ELSE iflag
<1>1. Decremented(cnt[ctx]) = IF cnt[ctx] > 0 THEN cnt[ctx] - 1 ELSE 0
  BY DEF Decremented
<1>2. Decremented(cnt[ctx]) \in 0 .. (CntRange - 1)
  BY <1>1 DEF CntRange
<1>3. cnt' = [cnt EXCEPT ![ctx] = Decremented(cnt[ctx])]
  BY DEF intr_enable
<1>. QED BY <1>1, <1>2, <1>3 DEF intr_enable, TypeOK

\* A step of log_write changes the counter by the difference of the depths.
LEMMA LogEffect ==
  ASSUME TypeOK, NEW at, NEW next, LogStep(at, next), cnt[ctx] \in Depth(at) .. 6
  PROVE  /\ at \in LogAt /\ next \in LogAt \union {"run"}
         /\ cnt' = [cnt EXCEPT ![ctx] = cnt[ctx] + Depth(next) - Depth(at)]
         /\ cnt' \in [Contexts -> 0 .. (CntRange - 1)]
         /\ iflag' \in {0, 1}
         /\ at \in {"log", "locking"} => iflag' = 0
         /\ at \in {"spinning", "writing"} => iflag' = iflag
         /\ at = "written" => next = "run" /\ iflag' = IF cnt'[ctx] = 0 THEN 1 ELSE iflag
         /\ lock' # Free => (next = "writing" /\ lock' = ctx) \/ lock' = lock
         /\ lock' \in Contexts \union {Free}
         /\ at = "writing" => lock' = Free
<1>1. cnt[ctx] \in 0 .. 6 /\ cnt[ctx] >= Depth(at) /\ ctx \in Contexts
      /\ lock \in Contexts \union {Free} /\ iflag \in {0, 1}
      /\ cnt \in [Contexts -> 0 .. (CntRange - 1)]
  BY DepthBounds DEF TypeOK
<1>2. CASE at = "log" /\ next = "locking" /\ intr_disable /\ UNCHANGED lock
  BY <1>1, <1>2, DisableEffect DEF Depth, LogAt
<1>3. CASE at = "locking" /\ next = "spinning" /\ intr_disable /\ UNCHANGED lock
  BY <1>1, <1>3, DisableEffect DEF Depth, LogAt
<1>4. CASE at = "spinning" /\ next = "writing" /\ spl_lock
  <2>1. intr_enable(TRUE) /\ lock' = ctx
    BY <1>4, Zenon DEF spl_lock
  <2>2. cnt[ctx] >= 2
    BY <1>1, <1>4 DEF Depth
  <2>3. /\ cnt' = [cnt EXCEPT ![ctx] = cnt[ctx] - 1]
        /\ cnt' \in [Contexts -> 0 .. (CntRange - 1)]
        /\ iflag' \in {0, 1}
        /\ iflag' = IF cnt'[ctx] = 0 THEN 1 ELSE iflag
    BY <1>1, <2>1, <2>2, EnableEffect
  <2>4. cnt'[ctx] # 0
    BY <1>1, <2>2, <2>3
  <2>5. cnt[ctx] + Depth(next) - Depth(at) = cnt[ctx] - 1
    BY <1>1, <1>4 DEF Depth
  <2>. QED BY <1>1, <1>4, <2>1, <2>3, <2>4, <2>5, Zenon DEF LogAt
<1>5. CASE at = "writing" /\ next = "written" /\ spl_unlock
  BY <1>1, <1>5 DEF spl_unlock, Depth, LogAt
<1>6. CASE at = "written" /\ next = "run" /\ intr_enable(TRUE) /\ UNCHANGED lock
  <2>1. cnt[ctx] >= 1
    BY <1>1, <1>6 DEF Depth
  <2>2. /\ cnt' = [cnt EXCEPT ![ctx] = cnt[ctx] - 1]
        /\ cnt' \in [Contexts -> 0 .. (CntRange - 1)]
        /\ iflag' \in {0, 1}
        /\ iflag' = IF cnt'[ctx] = 0 THEN 1 ELSE iflag
    BY <1>1, <1>6, <2>1, EnableEffect
  <2>3. cnt[ctx] + Depth(next) - Depth(at) = cnt[ctx] - 1
    BY <1>1, <1>6 DEF Depth
  <2>. QED BY <1>1, <1>6, <2>2, <2>3, Zenon DEF LogAt
<1>. QED BY <1>2, <1>3, <1>4, <1>5, <1>6, Zenon DEF LogStep
-----------------------------------------------------------------------------
(***************************************************************************)
(* The code of a thread: log_write and tsc_read.                           *)
(***************************************************************************)
ThreadStep == log_call \/ log_write \/ tsc_read

\* A thread that runs keeps its counter at its depth.
LEMMA ThreadEffect ==
  ASSUME IInv, ThreadStep
  PROVE  \E next \in ThreadAt :
           /\ pc' = [pc EXCEPT ![ctx] = next]
           /\ cnt' = [cnt EXCEPT ![ctx] = cnt[ctx] + Depth(next) - Depth(pc[ctx])]
           /\ cnt' \in [Contexts -> 0 .. (CntRange - 1)]
           /\ iflag' \in {0, 1}
           /\ iflag' = 1 <=> cnt'[ctx] = 0
           /\ lock' \in Contexts \union {Free}
           /\ lock' # Free => lock' = ctx /\ next = "writing"
<1>1. TypeOK /\ Running /\ frame = NoFrame /\ ctx \in Threads /\ ~Lost
  BY Zenon DEF IInv, ThreadStep, log_call, log_write, tsc_read, InThread, Threads, Running
<1>2. /\ ctx \in Contexts /\ pc[ctx] \in ThreadAt /\ lock \in Contexts \union {Free}
      /\ cnt \in [Contexts -> 0 .. (CntRange - 1)] /\ iflag \in {0, 1}
  BY <1>1 DEF TypeOK
<1>3. cnt[ctx] \in 0 .. 6
  BY <1>1, CntBound
<1>4. boot # "early"
  BY <1>1, ContextsAssumption DEF IInv, BootOrder, Before
<1>5. cnt[ctx] = OwnDepth(ctx) /\ (iflag = 1 <=> cnt[ctx] = 0)
  BY <1>1, <1>4 DEF IInv, OnCpu
<1>6. cnt[ctx] >= Depth(pc[ctx])
  BY <1>5 DEF OwnDepth, Depth
<1>7. lock # Free => lock = ctx /\ pc[ctx] = "writing"
  BY <1>1 DEF IInv, LockHeld
<1>8. CASE log_call
  <2>1. Depth(pc[ctx]) = 0 /\ Depth("log") = 0 /\ "log" \in ThreadAt /\ lock = Free
    BY <1>7, <1>8 DEF log_call, Depth, ThreadAt, LogAt
  <2>2. cnt = [cnt EXCEPT ![ctx] = cnt[ctx] + Depth("log") - Depth(pc[ctx])]
    BY <1>2, <1>3, <2>1
  <2>. QED BY <1>2, <1>5, <1>8, <2>1, <2>2, Zenon DEF log_call
<1>9. CASE log_write
  <2>1. PICK next \in ThreadAt :
          LogStep(pc[ctx], next) /\ pc' = [pc EXCEPT ![ctx] = next]
    BY <1>9, Zenon DEF log_write
  <2>2. cnt[ctx] \in Depth(pc[ctx]) .. 6
    BY <1>3, <1>6, DepthBounds
  <2>3. /\ cnt' = [cnt EXCEPT ![ctx] = cnt[ctx] + Depth(next) - Depth(pc[ctx])]
        /\ cnt' \in [Contexts -> 0 .. (CntRange - 1)]
        /\ iflag' \in {0, 1}
        /\ pc[ctx] \in LogAt
        /\ pc[ctx] \in {"log", "locking"} => iflag' = 0
        /\ pc[ctx] \in {"spinning", "writing"} => iflag' = iflag
        /\ pc[ctx] = "written" => iflag' = IF cnt'[ctx] = 0 THEN 1 ELSE iflag
        /\ lock' # Free => (next = "writing" /\ lock' = ctx) \/ lock' = lock
        /\ lock' \in Contexts \union {Free}
        /\ pc[ctx] = "writing" => lock' = Free
    BY <1>1, <2>1, <2>2, LogEffect
  <2>4. iflag' = 1 <=> cnt'[ctx] = 0
    <3>1. cnt'[ctx] = cnt[ctx] + Depth(next) - Depth(pc[ctx])
      BY <1>2, <2>3
    <3>2. CASE pc[ctx] \in {"log", "locking"}
      <4>1. Depth(next) > Depth(pc[ctx])
        <5>1. \/ pc[ctx] = "log" /\ next = "locking"
              \/ pc[ctx] = "locking" /\ next = "spinning"
          BY <2>1, <3>2, Zenon DEF LogStep
        <5>. QED BY <5>1 DEF Depth
      <4>2. cnt'[ctx] > 0
        BY <1>3, <1>6, <3>1, <4>1, DepthBounds
      <4>. QED BY <2>3, <3>2, <4>2
    <3>3. CASE pc[ctx] \in {"spinning", "writing"}
      <4>1. Depth(next) = 1 /\ Depth(pc[ctx]) >= 1
        <5>1. next \in {"writing", "written"}
          BY <2>1, <3>3, Zenon DEF LogStep
        <5>. QED BY <3>3, <5>1 DEF Depth
      <4>2. cnt'[ctx] > 0 /\ cnt[ctx] > 0
        BY <1>3, <1>6, <3>1, <4>1, DepthBounds
      <4>. QED BY <1>5, <2>3, <3>3, <4>2
    <3>4. CASE pc[ctx] = "written"
      BY <1>2, <1>5, <1>6, <2>3, <3>4 DEF Depth
    <3>. QED BY <2>3, <3>2, <3>3, <3>4 DEF LogAt
  <2>5. lock' # Free => lock' = ctx /\ next = "writing"
    BY <1>7, <2>3
  <2>. QED BY <2>1, <2>3, <2>4, <2>5, Zenon
<1>10. CASE tsc_read
  <2>1. "tsc" \in ThreadAt /\ "run" \in ThreadAt /\ Depth("tsc") = 1 /\ Depth("run") = 0
    BY DEF ThreadAt, Depth
  <2>2. UNCHANGED lock /\ lock = Free
    BY <1>7, <1>10, Zenon DEF tsc_read
  <2>3. CASE pc[ctx] = "run" /\ pc' = [pc EXCEPT ![ctx] = "tsc"] /\ intr_disable
    <3>1. cnt[ctx] + Depth("tsc") - Depth(pc[ctx]) = cnt[ctx] + 1
      BY <1>3, <2>1, <2>3
    <3>2. cnt' = [cnt EXCEPT ![ctx] = cnt[ctx] + 1] /\ iflag' = 0
          /\ cnt' \in [Contexts -> 0 .. (CntRange - 1)]
      BY <1>1, <1>3, <2>3, DisableEffect
    <3>3. cnt'[ctx] # 0
      BY <1>2, <1>3, <3>2
    <3>4. cnt' = [cnt EXCEPT ![ctx] = cnt[ctx] + Depth("tsc") - Depth(pc[ctx])]
      BY <3>1, <3>2, Zenon
    <3>5. iflag' \in {0, 1} /\ (iflag' = 1 <=> cnt'[ctx] = 0)
      BY <3>2, <3>3
    <3>. QED BY <1>2, <2>1, <2>2, <2>3, <3>2, <3>4, <3>5, Zenon
  <2>4. CASE pc[ctx] = "tsc" /\ pc' = [pc EXCEPT ![ctx] = "run"] /\ intr_enable(TRUE)
    <3>1. cnt[ctx] + Depth("run") - Depth(pc[ctx]) = cnt[ctx] - 1 /\ cnt[ctx] > 0
      BY <1>3, <1>6, <2>1, <2>4
    <3>2. cnt' = [cnt EXCEPT ![ctx] = cnt[ctx] - 1]
          /\ cnt' \in [Contexts -> 0 .. (CntRange - 1)]
          /\ iflag' \in {0, 1} /\ iflag' = IF cnt'[ctx] = 0 THEN 1 ELSE iflag
      BY <1>1, <1>3, <2>4, <3>1, EnableEffect
    <3>3. iflag' = 1 <=> cnt'[ctx] = 0
      BY <1>2, <1>5, <3>1, <3>2
    <3>. QED BY <1>2, <2>1, <2>2, <2>4, <3>1, <3>2, <3>3, Zenon
  <2>. QED BY <1>10, <2>3, <2>4, Zenon DEF tsc_read
<1>. QED BY <1>8, <1>9, <1>10 DEF ThreadStep

\* The conjuncts of the invariant but for the gates.
Rest ==
  /\ TypeOK /\ BootOrder /\ FrameOrder
  /\ OffCpu /\ OnCpu /\ InIsr /\ LockHeld /\ InsideOwnCall

\* What a step that stays in its context leaves as it was for the others.
LEMMA OthersKept ==
  ASSUME IInv, UNCHANGED <<ctx, saved>>,
         \A t \in Threads \ {ctx} : cnt'[t] = cnt[t] /\ OwnDepth(t)' = OwnDepth(t)
  PROVE  (Lost' <=> Lost) /\ OffCpu'
<1>1. Lost' <=> Lost
  BY DEF Lost
<1>. QED BY <1>1 DEF IInv, OffCpu

LEMMA ThreadPreserves ==
  ASSUME IInv, ThreadStep
  PROVE  Rest'
<1>1. PICK next \in ThreadAt :
        /\ pc' = [pc EXCEPT ![ctx] = next]
        /\ cnt' = [cnt EXCEPT ![ctx] = cnt[ctx] + Depth(next) - Depth(pc[ctx])]
        /\ cnt' \in [Contexts -> 0 .. (CntRange - 1)]
        /\ iflag' \in {0, 1}
        /\ iflag' = 1 <=> cnt'[ctx] = 0
        /\ lock' \in Contexts \union {Free}
        /\ lock' # Free => lock' = ctx /\ next = "writing"
  BY ThreadEffect
<1>2. /\ frame = NoFrame /\ ~Lost
      /\ ctx \in Kernel \/ (ctx = InitThr /\ boot \in {"threaded", "tsc_done", "lapic_done"})
      /\ UNCHANGED <<ctx, saved, frame, dead, gates, inside, boot>>
  BY Zenon DEF ThreadStep, log_call, log_write, tsc_read, InThread, Running
<1>3. TypeOK /\ ctx \in Contexts /\ ctx \in Threads
  BY <1>2 DEF IInv, TypeOK, Threads
<1>4. pc \in [Contexts -> ThreadAt] /\ cnt \in [Contexts -> 0 .. (CntRange - 1)]
  BY <1>3 DEF TypeOK
<1>5. pc'[ctx] = next /\ \A c \in Contexts \ {ctx} : pc'[c] = pc[c] /\ cnt'[c] = cnt[c]
  BY <1>1, <1>3, <1>4
<1>6. TypeOK'
  <2>1. pc' \in [Contexts -> ThreadAt]
    BY <1>1, <1>4
  <2>. QED BY <1>1, <1>2, <1>3, <2>1 DEF TypeOK
<1>7. BootOrder'
  BY <1>2, <1>3, <1>5 DEF IInv, BootOrder
<1>8. FrameOrder' /\ InsideOwnCall'
  BY <1>2 DEF FrameOrder, InsideOwnCall, IInv
<1>9. LockHeld'
  BY <1>1, <1>2, <1>5 DEF LockHeld
<1>10. OffCpu' /\ OnCpu' /\ InIsr'
  <2>1. \A t \in Threads \ {ctx} : cnt'[t] = cnt[t] /\ OwnDepth(t)' = OwnDepth(t)
    BY <1>2, <1>5 DEF OwnDepth, Contexts
  <2>2. boot # "early"
    BY <1>2, <1>3, ContextsAssumption DEF IInv, BootOrder, Before
  <2>3. cnt'[ctx] = OwnDepth(ctx)'
    <3>1. cnt[ctx] = OwnDepth(ctx)
      BY <1>2 DEF IInv, OnCpu
    <3>2. cnt'[ctx] = cnt[ctx] + Depth(next) - Depth(pc[ctx])
      BY <1>1, <1>3, <1>4
    <3>3. OwnDepth(ctx)' = OwnDepth(ctx) + Depth(next) - Depth(pc[ctx])
      BY <1>2, <1>5, DepthBounds DEF OwnDepth
    <3>. QED BY <3>1, <3>2, <3>3
  <2>4. (Lost' <=> Lost) /\ OffCpu'
    BY <1>2, <2>1, OthersKept
  <2>5. OnCpu'
    BY <1>1, <1>2, <2>2, <2>3, <2>4 DEF OnCpu
  <2>6. InIsr'
    BY <1>2, <2>4 DEF InIsr
  <2>. QED BY <2>4, <2>5, <2>6
<1>. QED BY <1>6, <1>7, <1>8, <1>9, <1>10 DEF Rest

-----------------------------------------------------------------------------
(***************************************************************************)
(* Boot.                                                                   *)
(***************************************************************************)
Booting ==
  \/ pgflt_init \/ cpu_init \/ boot_thr_switch \/ tsc_init \/ lapic_tmr_init
  \/ sched_start

LEMMA SetModeTyped ==
  ASSUME NEW table \in Gates, NEW num \in Handlers
  PROVE  [table EXCEPT ![num] = intr_set_mode(@)] \in Gates
<1>1. table[num] \in [mode : Modes, handlers : Seq(Functions)] /\ <<>> \in Seq(Functions)
  BY DEF Gates
<1>2. intr_set_mode(table[num]) \in [mode : Modes, handlers : Seq(Functions)]
  BY <1>1 DEF intr_set_mode, Modes
<1>. QED BY <1>2 DEF Gates

LEMMA BootGatesTyped ==
  ASSUME IInv, Booting
  PROVE  gates' \in Gates
<1>1. gates \in Gates
  BY DEF IInv, TypeOK, Gates
<1>2. /\ "sysc" \in Handlers /\ "fault" \in Handlers
      /\ "rtc" \in Handlers /\ "timer" \in Handlers
      /\ "pgflt_handler" \in Functions /\ "rtc_tick_handler" \in Functions
      /\ "lapic_tmr_handler" \in Functions /\ "log_syscall_handler" \in Functions
      /\ "thr_syscall_handler" \in Functions /\ "sched_syscall_handler" \in Functions
  BY DEF Handlers, Irqs, Functions
<1>3. CASE pgflt_init
  <2> DEFINE table == [gates EXCEPT !["sysc"] = intr_set_mode(@)]
  <2>1. table \in Gates
    BY <1>1, <1>2, SetModeTyped
  <2>2. gates' = intr_add(table, "fault", "pgflt_handler")
    BY <1>3 DEF pgflt_init
  <2> HIDE DEF table
  <2>. QED BY <1>2, <2>1, <2>2, AddProperties, Zenon
<1>4. CASE boot_thr_switch
  <2> DEFINE t1 == intr_add(gates, "sysc", "log_syscall_handler")
             t2 == intr_add(t1, "sysc", "thr_syscall_handler")
  <2>1. gates' = intr_add(t2, "sysc", "sched_syscall_handler")
    BY <1>4 DEF boot_thr_switch
  <2>2. t1 \in Gates
    BY <1>1, <1>2, AddProperties, Zenon
  <2> HIDE DEF t1
  <2>3. t2 \in Gates
    BY <1>2, <2>2, AddProperties, Zenon
  <2> HIDE DEF t2
  <2>. QED BY <1>2, <2>1, <2>3, AddProperties, Zenon
<1>5. CASE gates' = intr_add(gates, "rtc", "rtc_tick_handler")
  BY <1>1, <1>2, <1>5, AddProperties, Zenon
<1>6. CASE gates' = intr_add(gates, "timer", "lapic_tmr_handler")
  BY <1>1, <1>2, <1>6, AddProperties, Zenon
<1>7. CASE UNCHANGED gates
  BY <1>1, <1>7
<1>. QED BY <1>3, <1>4, <1>5, <1>6, <1>7, Zenon
         DEF Booting, cpu_init, tsc_init, lapic_tmr_init, sched_start

\* What boot does to the counter and the flag of the context it runs in.
BootsOn ==
  /\ UNCHANGED <<saved, pc, frame, lock, inside>>
  /\ frame = NoFrame /\ ~Lost /\ lock = Free
  /\ boot \notin Over
  /\ boot' \in BootAt \ {"early", "fatal"}
  /\ boot' \in Before <=> boot \in {"early", "logged"}
  /\ ctx' = IF boot' \in Before THEN Dummy ELSE InitThr
  /\ pc[ctx'] = "run"
  /\ dead' \subseteq Threads
  /\ cnt' \in [Contexts -> 0 .. (CntRange - 1)]
  /\ \A t \in Threads \ {ctx'} : cnt'[t] = cnt[t]
  /\ iflag' \in {0, 1}
  /\ cnt'[ctx'] = OwnDepth(ctx)' /\ (iflag' = 1 <=> cnt'[ctx'] = 0)

LEMMA BootEffect ==
  ASSUME IInv, Booting
  PROVE  BootsOn
<1> USE ContextsAssumption
<1>1. /\ frame = NoFrame /\ ~Lost /\ pc[ctx] = "run"
      /\ UNCHANGED <<saved, pc, frame, lock, inside>>
      /\ boot \notin Over
  BY StateIsLost, Zenon DEF Booting, pgflt_init, cpu_init, boot_thr_switch, tsc_init, lapic_tmr_init,
         sched_start, Calibrate, Calibrated, BootStep, Running, Over
<1>2. TypeOK /\ ctx \in Contexts /\ cnt \in [Contexts -> 0 .. (CntRange - 1)]
      /\ iflag \in {0, 1} /\ boot \in BootAt /\ dead \subseteq Threads /\ cnt[ctx] \in 0 .. 6
  BY <1>1, CntBound DEF IInv, TypeOK
<1>3. lock = Free
  BY <1>1 DEF IInv, LockHeld
<1>4. cnt[ctx] = OwnDepth(ctx) /\ (boot # "early" => (iflag = 1 <=> cnt[ctx] = 0))
  BY <1>1 DEF IInv, OnCpu
<1>5. /\ boot \in Before <=> ctx = Dummy
      /\ boot \notin Before \union Over => ctx = InitThr
  BY DEF IInv, BootOrder
<1>6. ctx = Dummy => cnt[ctx] = 0
  BY <1>1, <1>4 DEF OwnDepth, Depth, Threads
<1>7. CASE pgflt_init
  <2>1. boot = "early" /\ boot' = "logged" /\ Bracket /\ UNCHANGED <<ctx, dead>>
    BY <1>7 DEF pgflt_init, BootStep
  <2>2. ctx = Dummy
    BY <1>5, <2>1 DEF Before
  <2>3. cnt' = cnt /\ iflag' = 1
    BY <1>2, <1>6, <2>1, <2>2, BracketEffect
  <2>4. OwnDepth(ctx)' = 0
    BY <1>1, <2>1, <2>2 DEF OwnDepth, Depth, Threads
  <2>. QED BY <1>1, <1>2, <1>3, <1>6, <2>1, <2>2, <2>3, <2>4 DEF BootsOn, Before, Over, BootAt
<1>8. CASE cpu_init
  <2>1. boot = "logged" /\ boot' = "cpu" /\ UNCHANGED <<ctx, cnt, iflag, dead>>
    BY <1>8, StateIsLost DEF cpu_init, BootStep
  <2>2. ctx = Dummy
    BY <1>5, <2>1 DEF Before
  <2>3. OwnDepth(ctx)' = 0
    BY <1>1, <2>1, <2>2 DEF OwnDepth, Depth, Threads
  <2>. QED BY <1>1, <1>2, <1>3, <1>4, <1>6, <2>1, <2>2, <2>3 DEF BootsOn, Before, Over, BootAt
<1>9. CASE boot_thr_switch
  <2>1. /\ boot = "cpu" /\ boot' = "threaded" /\ ctx' = InitThr
        /\ UNCHANGED <<cnt, iflag, dead>>
    BY <1>9, StateIsLost DEF boot_thr_switch, BootStep
  <2>2. ctx = Dummy /\ InitThr \in Threads \ {ctx} /\ iflag = 1
    BY <1>4, <1>5, <1>6, <2>1 DEF Before, Threads
  <2>3. saved[InitThr].at = "entry"
    BY <2>1, <2>2 DEF IInv, BootOrder, Before
  <2>4. cnt[InitThr] = 0 /\ OwnDepth(InitThr) = 0
    BY <2>2, <2>3 DEF IInv, OffCpu
  <2>5. pc[InitThr] = "run"
    BY <2>1, <2>2 DEF IInv, BootOrder, Contexts, Threads
  <2>6. OwnDepth(ctx)' = 0
    BY <1>1, <2>1, <2>5 DEF OwnDepth, Depth
  <2>. QED BY <1>1, <1>2, <1>3, <2>1, <2>2, <2>4, <2>5, <2>6 DEF BootsOn, Before, Over, BootAt
<1>10. ASSUME boot \in {"threaded", "tsc_done", "lapic_done"}, UNCHANGED ctx,
              boot' \in {"tsc_wait", "lapic_wait", "done"},
              intr_enable(TRUE), dead' \subseteq Threads
       PROVE  BootsOn
  <2>1. ctx = InitThr
    BY <1>5, <1>10 DEF Before, Over
  <2>2. cnt[ctx] \in {0, 1}
    BY <1>1, <1>4 DEF OwnDepth, Depth
  <2>3. /\ cnt' = [cnt EXCEPT ![ctx] = IF cnt[ctx] > 0 THEN cnt[ctx] - 1 ELSE 0]
        /\ cnt' \in [Contexts -> 0 .. (CntRange - 1)]
        /\ iflag' \in {0, 1} /\ iflag' = IF cnt'[ctx] = 0 THEN 1 ELSE iflag
    BY <1>2, <1>10, EnableEffect
  <2>4. cnt'[ctx] = 0 /\ iflag' = 1
    BY <1>2, <2>2, <2>3
  <2>5. OwnDepth(ctx)' = 0
    BY <1>1, <1>10 DEF OwnDepth, Depth
  <2>. QED BY <1>1, <1>2, <1>3, <1>10, <2>1, <2>3, <2>4, <2>5 DEF BootsOn, Before, Over, BootAt
<1>11. CASE tsc_init \/ lapic_tmr_init
  <2>1. CASE \/ boot = "threaded" /\ boot' = "tsc_wait"
             \/ boot = "tsc_done" /\ boot' = "lapic_wait"
    <3>1. intr_enable(TRUE) /\ UNCHANGED <<ctx, dead>>
      BY <1>11, <2>1, StateIsLost, Zenon DEF tsc_init, lapic_tmr_init, Calibrate, Calibrated, BootStep
    <3>. QED BY <1>2, <1>10, <2>1, <3>1
  <2>2. CASE \/ boot = "tsc_cal" /\ boot' = "tsc_done"
             \/ boot = "lapic_cal" /\ boot' = "lapic_done"
    <3>1. intr_disable /\ UNCHANGED <<ctx, dead>>
      BY <1>11, <2>2, Zenon DEF tsc_init, lapic_tmr_init, Calibrate, Calibrated, BootStep
    <3>2. ctx = InitThr
      BY <1>5, <2>2 DEF Before, Over
    <3>3. cnt[ctx] = 0
      BY <1>1, <1>4, <2>2 DEF OwnDepth, Depth
    <3>4. /\ cnt' = [cnt EXCEPT ![ctx] = cnt[ctx] + 1] /\ iflag' = 0
          /\ cnt' \in [Contexts -> 0 .. (CntRange - 1)]
      BY <1>2, <3>1, DisableEffect
    <3>5. cnt'[ctx] = 1
      BY <1>2, <3>3, <3>4
    <3>6. OwnDepth(ctx)' = 1
      BY <1>1, <2>2, <3>1, <3>2 DEF OwnDepth, Depth
    <3>. QED BY <1>1, <1>2, <1>3, <2>2, <3>1, <3>2, <3>4, <3>5, <3>6
             DEF BootsOn, Before, Over, BootAt
  <2>. QED BY <1>11, <2>1, <2>2, StateIsLost, Zenon
           DEF tsc_init, lapic_tmr_init, Calibrate, Calibrated, BootStep
<1>12. CASE sched_start
  <2>1. /\ boot = "lapic_done" /\ boot' = "done" /\ intr_enable(TRUE)
        /\ dead' \subseteq Threads /\ UNCHANGED ctx
    BY <1>2, <1>12, Zenon DEF sched_start, BootStep, Threads
  <2>. QED BY <1>10, <2>1
<1>. QED BY <1>7, <1>8, <1>9, <1>11, <1>12 DEF Booting

LEMMA BootPreserves ==
  ASSUME IInv, Booting
  PROVE  Rest'
<1> USE ContextsAssumption
<1>1. BootsOn /\ gates' \in Gates
  BY BootEffect, BootGatesTyped
<1>2. /\ UNCHANGED <<saved, pc, frame, lock, inside>>
      /\ frame = NoFrame /\ ~Lost /\ lock = Free
      /\ boot \notin Over
      /\ boot' \in BootAt \ {"early", "fatal"}
      /\ boot' \in Before <=> boot \in {"early", "logged"}
      /\ ctx' = IF boot' \in Before THEN Dummy ELSE InitThr
      /\ pc[ctx'] = "run"
      /\ InitThr \in Threads /\ Dummy \notin Threads
  BY <1>1 DEF BootsOn, Threads
<1>3. ctx = IF boot \in Before THEN Dummy ELSE InitThr
  BY <1>2 DEF IInv, BootOrder
<1>4. TypeOK'
  <2>1. TypeOK /\ ctx' \in Contexts
    BY <1>2 DEF IInv, Contexts
  <2>. QED BY <1>1, <1>2, <2>1 DEF TypeOK, BootsOn, Gates
<1>5. BootOrder'
  <2>1. boot' \in Before => boot \in Before
    BY <1>2 DEF Before
  <2>2. pc[InitThr] # "run" => boot' \in Before /\ boot \in Before
    BY <1>2, <2>1
  <2>3. \A c \in Contexts : pc[c] # "run" => c \in Kernel
    BY <2>2, SMTT(20) DEF IInv, BootOrder, Before
  <2>. QED BY <1>2, <2>1, <2>3 DEF IInv, BootOrder
<1>6. FrameOrder' /\ LockHeld' /\ InsideOwnCall'
  BY <1>2 DEF IInv, FrameOrder, LockHeld, InsideOwnCall
<1>7. OffCpu' /\ OnCpu' /\ InIsr'
  <2>1. ~Lost'
    BY <1>2, SMTT(20) DEF Lost
  <2>2. ASSUME NEW t \in Threads \ {ctx'}
        PROVE  /\ OwnDepth(t)' = 0
               /\ saved'[t].at \in {"entry", "thread"} /\ saved'[t].if = 1
               /\ cnt'[t] = IF saved'[t].at = "entry" THEN 0 ELSE 1
    <3>1. t # ctx
      BY <1>2, <1>3, <2>2 DEF Before
    <3>2. OwnDepth(t)' = OwnDepth(t)
      BY <1>2, <2>2 DEF OwnDepth, Before
    <3>3. cnt'[t] = cnt[t]
      BY <1>1, <2>2 DEF BootsOn
    <3>. QED BY <1>2, <2>2, <3>1, <3>2, <3>3 DEF IInv, OffCpu
  <2>3. cnt'[ctx'] = OwnDepth(ctx)' /\ (iflag' = 1 <=> cnt'[ctx'] = 0)
    BY <1>1 DEF BootsOn
  <2>4. OffCpu'
    BY <2>2 DEF OffCpu
  <2>5. OnCpu'
    BY <1>2, <2>1, <2>3 DEF OnCpu
  <2>6. InIsr'
    BY <1>2, <2>1 DEF InIsr
  <2>. QED BY <2>4, <2>5, <2>6
<1>. QED BY <1>4, <1>5, <1>6, <1>7 DEF Rest
-----------------------------------------------------------------------------

(***************************************************************************)
(* Entry of a service routine.                                             *)
(***************************************************************************)
Enters == interrupt \/ uapi_sysc_call \/ page_fault

\* The one place where an interrupt comes in a handler: its end, with a thread
\* current that has never run.
LEMMA EntersWhere ==
  ASSUME IInv, Enters
  PROVE  /\ Running /\ ctx \in Threads
         /\ frame # NoFrame => frame.at = "handled" /\ iflag = 1
         /\ \E num \in Handlers, call \in Calls \union {Unknown, NoCall} :
              /\ isr_entry(num, call)
              /\ num = "sysc" <=> call # NoCall
              /\ num = "rtc" => boot \in RtcOn \union Over
              /\ num # "rtc" => boot \in Over
              /\ num # "fault" => frame # NoFrame \/ OwnDepth(ctx) = 0
<1> USE ContextsAssumption
<1>1. Running /\ ~Lost /\ boot # "fatal" /\ TypeOK
  BY DEF Enters, interrupt, uapi_sysc_call, page_fault, Running, IInv
<1>2. CASE interrupt
  <2>1. PICK num \in Irqs : /\ boot = "done" \/ (num = "rtc" /\ boot \in RtcOn)
                            /\ isr_entry(num, NoCall)
    BY <1>2 DEF interrupt
  <2>2. iflag = 1 /\ ~InService
    BY <1>2 DEF interrupt
  <2>3. boot \notin Before
    BY <2>1 DEF Before, RtcOn
  <2>4. ctx \in Threads
    BY <2>3 DEF IInv, BootOrder, TypeOK, Contexts
  <2>5. frame # NoFrame => frame.at = "handled"
    <3> SUFFICES ASSUME frame # NoFrame
                 PROVE  frame.at = "handled"
      OBVIOUS
    <3>1. frame.at \in {"expired", "handled"}
      BY <1>1, <2>2 DEF IInv, InIsr
    <3>2. frame.at = "expired" => frame.num = "timer"
      BY <1>1, FrameFields DEF IInv, FrameOrder, Handlers, Irqs
    <3>. QED BY <2>2, <3>1, <3>2 DEF InService, Irqs
  <2>6. frame = NoFrame => OwnDepth(ctx) = 0
    BY <2>2, <2>3 DEF IInv, OnCpu, Before
  <2>. QED BY <1>1, <2>1, <2>2, <2>4, <2>5, <2>6
           DEF Irqs, Handlers, Over, NoCall, Calls, Unknown
<1>3. CASE uapi_sysc_call
  <2>1. frame = NoFrame /\ pc[ctx] = "run" /\ ctx \in Kernel \union User
    BY <1>3 DEF uapi_sysc_call
  <2>2. PICK call \in Calls \union {Unknown} : isr_entry("sysc", call)
    BY <1>3 DEF uapi_sysc_call, Calls
  <2>3. ctx \in Threads /\ ctx # Dummy /\ ctx # InitThr
    BY <2>1 DEF Threads
  <2>4. boot \in Over
    BY <2>3 DEF IInv, BootOrder
  <2>5. OwnDepth(ctx) = 0
    BY <2>1, <2>3 DEF OwnDepth, Depth
  <2>6. call # NoCall
    BY DEF Calls, NoCall, Unknown
  <2>. QED BY <1>1, <2>1, <2>2, <2>3, <2>4, <2>5, <2>6 DEF Handlers
<1>4. CASE page_fault
  <2>1. frame = NoFrame /\ ctx \in Kernel \union User /\ isr_entry("fault", NoCall)
    BY <1>4 DEF page_fault
  <2>2. ctx \in Threads /\ ctx # Dummy /\ ctx # InitThr
    BY <2>1 DEF Threads
  <2>3. boot \in Over
    BY <2>2 DEF IInv, BootOrder
  <2>. QED BY <1>1, <2>1, <2>2, <2>3 DEF Handlers
<1>. QED BY <1>2, <1>3, <1>4 DEF Enters

LEMMA EntryPreserves ==
  ASSUME IInv, Enters
  PROVE  Rest'
<1> USE ContextsAssumption
<1>1. PICK num \in Handlers, call \in Calls \union {Unknown, NoCall} :
        /\ isr_entry(num, call)
        /\ num = "sysc" <=> call # NoCall
        /\ num = "rtc" => boot \in RtcOn \union Over
        /\ num # "rtc" => boot \in Over
        /\ num # "fault" => frame # NoFrame \/ OwnDepth(ctx) = 0
  BY EntersWhere
<1>2. /\ ~Lost /\ ctx \in Threads /\ ctx \in Contexts
      /\ frame # NoFrame => frame.at = "handled" /\ iflag = 1
  BY EntersWhere, SMTT(20) DEF Running, Contexts
<1>3. /\ TypeOK /\ cnt[ctx] \in 0 .. 6
      /\ cnt \in [Contexts -> 0 .. (CntRange - 1)]
      /\ saved \in [Contexts -> [at : {"entry", "thread", "isr"}, if : {0, 1}]]
      /\ iflag \in {0, 1}
  BY <1>2, CntBound DEF IInv, TypeOK
<1>4. /\ UNCHANGED <<ctx, pc, lock, dead, gates, inside, boot>>
      /\ frame' = [num |-> num, at |-> "entry", after |-> "handled", ctx |-> ctx, call |-> call]
      /\ saved' = [saved EXCEPT ![ctx] =
                     [at |-> IF frame = NoFrame THEN "thread" ELSE "isr", if |-> iflag]]
      /\ intr_disable
  BY <1>1 DEF isr_entry, x86_64_isr_state_save
<1>5. frame' \in Frames /\ frame' # NoFrame
  BY <1>2, <1>4, NoFrameAssumption DEF Frames, FrameAt
<1>6. /\ frame'.num = num /\ frame'.at = "entry" /\ frame'.after = "handled"
      /\ frame'.ctx = ctx /\ frame'.call = call
  BY <1>4, SMTT(20)
<1>7. /\ cnt' = [cnt EXCEPT ![ctx] = cnt[ctx] + 1]
      /\ cnt' \in [Contexts -> 0 .. (CntRange - 1)]
      /\ iflag' = 0
  BY <1>3, <1>4, DisableEffect
<1>8. /\ saved' \in [Contexts -> [at : {"entry", "thread", "isr"}, if : {0, 1}]]
      /\ saved'[ctx].at = IF frame = NoFrame THEN "thread" ELSE "isr"
      /\ saved'[ctx].if = iflag
      /\ \A t \in Contexts \ {ctx} : saved'[t] = saved[t]
  BY <1>2, <1>3, <1>4
<1>9. Lost' <=> frame # NoFrame
  BY <1>2, <1>4, <1>8 DEF Lost
<1>10. \A t \in Contexts : OwnDepth(t)' = OwnDepth(t)
  BY <1>4 DEF OwnDepth
<1>11. boot \notin Before
  BY <1>2, SMTT(20) DEF IInv, BootOrder
<1>12. TypeOK'
  BY <1>3, <1>4, <1>5, <1>7, <1>8 DEF TypeOK
<1>13. BootOrder'
  BY <1>4, <1>11, Zenon DEF IInv, BootOrder
<1>14. OwnDepth(ctx)' = OwnDepth(ctx)
  BY <1>4 DEF OwnDepth
<1>15. FrameOrder'
  BY <1>1, <1>4, <1>5, <1>6, <1>9, <1>14, SMTT(20) DEF FrameOrder, LogAt
<1>16. LockHeld'
  BY <1>2, <1>4, SMTT(20) DEF IInv, LockHeld
<1>17. InsideOwnCall'
  BY <1>2, <1>4, <1>6 DEF IInv, InsideOwnCall
<1>18. OffCpu' /\ OnCpu' /\ InIsr'
  <2>1. ASSUME NEW t \in Threads \ {ctx'}
        PROVE  /\ OwnDepth(t)' = 0
               /\ saved'[t].at \in {"entry", "thread"} /\ saved'[t].if = 1
               /\ cnt'[t] = IF saved'[t].at = "entry" THEN 0 ELSE 1
    <3>1. t \in Contexts \ {ctx} /\ t \in Threads \ {ctx}
      BY <1>4, <2>1 DEF Contexts
    <3>2. saved'[t] = saved[t] /\ OwnDepth(t)' = OwnDepth(t) /\ cnt'[t] = cnt[t]
      BY <1>3, <1>7, <1>8, <1>10, <3>1
    <3>. QED BY <3>1, <3>2 DEF IInv, OffCpu
  <2>2. ASSUME ~Lost'
        PROVE  /\ cnt'[ctx] = 1 + OwnDepth(ctx)
               /\ saved'[ctx].at = "thread"
               /\ saved'[ctx].if = 1 <=> OwnDepth(ctx) = 0
    <3>1. frame = NoFrame
      BY <1>9, <2>2
    <3>2. cnt[ctx] = OwnDepth(ctx) /\ (iflag = 1 <=> cnt[ctx] = 0)
      BY <1>11, <3>1 DEF IInv, OnCpu, Before
    <3>3. cnt'[ctx] = cnt[ctx] + 1
      BY <1>2, <1>3, <1>7, SMTT(20)
    <3>. QED BY <1>3, <1>8, <3>1, <3>2, <3>3
  <2>3. boot' # "early" /\ Depth(frame'.at) = 0
    BY <1>4, <1>6, <1>11, SMTT(20) DEF Before, Depth
  <2>4. ~Lost' => cnt'[ctx'] = (IF saved'[ctx'].at = "entry" THEN 0 ELSE 1)
                                 + OwnDepth(ctx)' + Depth(frame'.at)
    BY <1>4, <1>14, <2>2, <2>3, DepthBounds
  <2>5. Depth(frame.at)' = Depth(frame'.at)
    OBVIOUS
  <2>6. OffCpu'
    BY <2>1 DEF OffCpu
  <2>7. OnCpu'
    BY <1>5, <2>3, SMTT(20) DEF OnCpu
  <2>8. InIsr'
    BY <1>4, <1>7, <1>14, <2>2, <2>4, <2>5, SMTT(20) DEF InIsr
  <2>. QED BY <2>6, <2>7, <2>8, SMTT(20)
<1>. QED BY <1>12, <1>13, <1>15, <1>16, <1>17, <1>18 DEF Rest
-----------------------------------------------------------------------------
(***************************************************************************)
(* The steps of a handler that stay in its context.                        *)
(***************************************************************************)
HandlerStep ==
  \/ rtc_tick_handler \/ pgflt_handler \/ stka_pgflt \/ lapic_tmr_handler
  \/ tmr_handle_expired \/ tmr_set_next_tick
  \/ log_syscall_handler \/ sched_syscall_handler \/ thr_syscall_handler
  \/ unhandled \/ handler_log_write

\* Where a handler reads the time, and what this does.
LEMMA HandlerBracket ==
  ASSUME IInv, Running, frame # NoFrame, Bracket, frame.at \in {"entry", "growing", "switched"}
  PROVE  /\ cnt' = cnt /\ iflag' \in {0, 1}
         /\ iflag' = 1 => frame.at = "switched" /\ saved[ctx].at = "entry"
<1>1. TypeOK /\ cnt[ctx] \in 0 .. 6 /\ ~Lost
  BY CntBound DEF IInv, Running
<1>2. /\ cnt[ctx] = (IF saved[ctx].at = "entry" THEN 0 ELSE 1)
                      + OwnDepth(ctx) + Depth(frame.at)
      /\ saved[ctx].at = "entry" => frame.at \in {"switched", "expired", "handled"}
  BY <1>1 DEF IInv, InIsr
<1>3. cnt' = cnt /\ iflag' \in {0, 1} /\ (iflag' = 1 <=> cnt[ctx] = 0)
  BY <1>1, BracketEffect
<1>4. cnt[ctx] = 0 => saved[ctx].at = "entry"
  BY <1>1, <1>2, DepthBounds, SMTT(20)
<1>. QED BY <1>2, <1>3, <1>4

\* Whose code a handler is in.
LEMMA HandlerFacts ==
  ASSUME IInv, HandlerStep
  PROVE  /\ Running /\ ~Lost /\ frame # NoFrame /\ boot \notin Before
         /\ frame \in Frames /\ TypeOK /\ ctx \in Contexts /\ boot \in BootAt
         /\ frame.num \in Handlers /\ frame.at \in FrameAt /\ frame.ctx \in Contexts
         /\ frame.after \in {"handled", "schedule"}
         /\ frame.call \in Calls \union {Unknown, NoCall}
         /\ UNCHANGED <<ctx, saved, pc, gates>>
<1>1. Running /\ ~Lost /\ frame # NoFrame /\ UNCHANGED <<ctx, saved, pc, gates>>
  BY SMTT(20) DEF HandlerStep, rtc_tick_handler, pgflt_handler, stka_pgflt, lapic_tmr_handler,
         tmr_handle_expired, tmr_set_next_tick, log_syscall_handler, sched_syscall_handler,
         thr_syscall_handler, sysc_call, unhandled, handler_log_write, Called, Handling, Running
<1>2. boot \notin Before
  BY <1>1 DEF IInv, BootOrder
<1>. QED BY <1>1, <1>2, FrameFields, Zenon DEF IInv, TypeOK

\* A handler's counter follows its depth, the lock its position.
HandlerMoves ==
  /\ frame' \in Frames
  /\ frame'.num = frame.num /\ frame'.ctx = frame.ctx /\ frame'.call = frame.call
  /\ cnt' \in [Contexts -> 0 .. (CntRange - 1)]
  /\ cnt' = [cnt EXCEPT ![ctx] = cnt[ctx] + Depth(frame'.at) - Depth(frame.at)]
  /\ iflag' \in {0, 1}
  /\ iflag' = 1 => frame'.at \in {"expired", "handled"} /\ saved[ctx].at = "entry"
  /\ saved[ctx].at = "entry" => frame'.at \in {"switched", "expired", "handled"}
  /\ lock' \in Contexts \union {Free}
  /\ lock' # Free => lock' = ctx /\ (pc[ctx] = "writing" \/ frame'.at = "writing")
  /\ dead' \subseteq Threads
  /\ boot' \in BootAt
  /\ \/ boot' = boot
     \/ boot \in Over /\ boot' = "fatal"
     \/ boot \in {"tsc_wait", "lapic_wait"} /\ boot' \in {"tsc_cal", "lapic_cal"}

\* The handlers that read the time.
LEMMA BracketMoves ==
  ASSUME IInv,
         \/ rtc_tick_handler \/ pgflt_handler \/ stka_pgflt \/ lapic_tmr_handler
         \/ tmr_handle_expired
  PROVE  HandlerMoves
<1> USE ContextsAssumption
<1>1. /\ Running /\ ~Lost /\ frame # NoFrame /\ boot \notin Before
      /\ frame \in Frames /\ TypeOK /\ ctx \in Contexts /\ boot \in BootAt
      /\ UNCHANGED <<ctx, saved, pc, gates>>
  BY HandlerFacts DEF HandlerStep
<1>2. /\ Bracket /\ UNCHANGED lock /\ frame.at \in {"entry", "growing", "switched"}
      /\ \/ \E to \in {"handled", "growing", "schedule", "expired"} : Moves(to)
         \/ frame' = [frame EXCEPT !.at = "log", !.after = "schedule"]
         \/ UNCHANGED frame
      /\ frame.at # "entry" => frame' = [frame EXCEPT !.at = IF frame.at = "growing"
                                                            THEN "handled" ELSE "expired"]
  BY DEF rtc_tick_handler, pgflt_handler, stka_pgflt, lapic_tmr_handler, tmr_handle_expired,
         Called, Handling, Moves
<1>3. /\ cnt' = cnt /\ iflag' \in {0, 1}
      /\ iflag' = 1 => frame.at = "switched" /\ saved[ctx].at = "entry"
  BY <1>1, <1>2, HandlerBracket
<1>4. /\ frame' \in Frames
      /\ frame'.num = frame.num /\ frame'.ctx = frame.ctx /\ frame'.call = frame.call
      /\ frame'.at \in {"handled", "growing", "schedule", "expired", "log", "entry"}
      /\ frame.at = "switched" => frame'.at = "expired"
  <2>1. CASE \E to \in {"handled", "growing", "schedule", "expired"} : Moves(to)
    BY <1>1, <1>2, <2>1 DEF Moves, Frames, FrameAt, LogAt
  <2>2. CASE frame' = [frame EXCEPT !.at = "log", !.after = "schedule"]
    BY <1>1, <1>2, <2>2, Zenon DEF Frames, FrameAt, LogAt
  <2>3. CASE UNCHANGED frame
    <3>1. frame.at = "entry"
      BY <1>1, <1>2, <2>3 DEF Frames
    <3>. QED BY <1>1, <2>3, <3>1
  <2>. QED BY <1>2, <2>1, <2>2, <2>3
<1>5. Depth(frame.at) = 0 /\ Depth(frame'.at) = 0 /\ frame'.at # "writing"
  BY <1>2, <1>4 DEF Depth
<1>6. cnt \in [Contexts -> 0 .. (CntRange - 1)] /\ cnt[ctx] \in 0 .. 6
      /\ lock \in Contexts \union {Free} /\ dead \subseteq Threads
  BY <1>1, CntBound DEF TypeOK
<1>7. cnt' = [cnt EXCEPT ![ctx] = cnt[ctx] + Depth(frame'.at) - Depth(frame.at)]
  BY <1>1, <1>3, <1>5, <1>6
<1>8. saved[ctx].at = "entry" => frame'.at = "expired"
  BY <1>1, <1>2, <1>4 DEF IInv, InIsr
<1>9. lock # Free => lock = ctx /\ pc[ctx] = "writing"
  BY <1>2 DEF IInv, LockHeld
<1>10. dead' \subseteq Threads
  <2>1. dead' = dead \/ (dead' = dead \union {ctx} /\ ctx \in User)
    BY DEF rtc_tick_handler, pgflt_handler, stka_pgflt, lapic_tmr_handler, tmr_handle_expired
  <2>. QED BY <1>6, <2>1 DEF Threads
<1>11. \/ boot' = boot
       \/ boot \in Over /\ boot' = "fatal"
       \/ boot \in {"tsc_wait", "lapic_wait"} /\ boot' \in {"tsc_cal", "lapic_cal"}
  <2>1. CASE pgflt_handler
    BY <2>1 DEF pgflt_handler, Called, Handling, IInv, FrameOrder
  <2>2. CASE rtc_tick_handler
    BY <2>2 DEF rtc_tick_handler
  <2>3. CASE stka_pgflt \/ lapic_tmr_handler \/ tmr_handle_expired
    BY <2>3 DEF stka_pgflt, lapic_tmr_handler, tmr_handle_expired
  <2>. QED BY <2>1, <2>2, <2>3
<1>12. boot' \in BootAt
  BY <1>1, <1>11 DEF BootAt
<1>. QED BY <1>2, <1>3, <1>4, <1>6, <1>7, <1>8, <1>9, <1>10, <1>11, <1>12, Zenon DEF HandlerMoves

\* The handlers that leave counter and flag alone.
LEMMA PlainMoves ==
  ASSUME IInv,
         \/ log_syscall_handler \/ sched_syscall_handler \/ thr_syscall_handler
         \/ unhandled \/ tmr_set_next_tick
  PROVE  HandlerMoves
<1> USE ContextsAssumption
<1>1. /\ Running /\ ~Lost /\ frame # NoFrame /\ boot \notin Before
      /\ frame \in Frames /\ TypeOK /\ ctx \in Contexts /\ boot \in BootAt
      /\ UNCHANGED <<ctx, saved, pc, gates>>
  BY HandlerFacts, SMTT(20) DEF HandlerStep
<1>2. /\ UNCHANGED <<cnt, iflag, lock, boot>>
      /\ \/ frame.at = "entry" /\ \E to \in {"log", "schedule"} : Moves(to)
         \/ frame.at = "expired" /\ Moves("handled")
  BY UnhandledCalls
     DEF log_syscall_handler, sched_syscall_handler, thr_syscall_handler, sysc_call, unhandled,
         tmr_set_next_tick, Called, Handling
<1>3. /\ frame' \in Frames
      /\ frame'.num = frame.num /\ frame'.ctx = frame.ctx /\ frame'.call = frame.call
      /\ frame'.at \in {"log", "schedule", "handled"}
      /\ frame.at # "entry" => frame'.at = "handled"
  BY <1>1, <1>2 DEF Moves, Frames, FrameAt, LogAt
<1>4. Depth(frame.at) = 0 /\ Depth(frame'.at) = 0
  BY <1>2, <1>3 DEF Depth
<1>5. cnt \in [Contexts -> 0 .. (CntRange - 1)] /\ cnt[ctx] \in 0 .. 6 /\ iflag \in {0, 1}
      /\ lock \in Contexts \union {Free} /\ dead \subseteq Threads
  BY <1>1, CntBound DEF TypeOK
<1>6. cnt' = [cnt EXCEPT ![ctx] = cnt[ctx] + Depth(frame'.at) - Depth(frame.at)]
  BY <1>1, <1>2, <1>4, <1>5
<1>7. /\ iflag' = 1 => frame.at = "expired" /\ saved[ctx].at = "entry"
      /\ saved[ctx].at = "entry" => frame.at = "expired"
  BY <1>1, <1>2, Zenon DEF IInv, InIsr
<1>8. lock # Free => lock = ctx /\ pc[ctx] = "writing"
  BY <1>2 DEF IInv, LockHeld
<1>9. dead' \subseteq Threads
  <2>1. ctx \in Threads
    BY <1>1 DEF IInv, BootOrder, Contexts
  <2>2. dead' = dead \/ dead' = dead \union {ctx}
    BY DEF log_syscall_handler, sched_syscall_handler, thr_syscall_handler, unhandled,
           tmr_set_next_tick
  <2>. QED BY <1>5, <2>1, <2>2
<1>. QED BY <1>1, <1>2, <1>3, <1>5, <1>6, <1>7, <1>8, <1>9, Zenon DEF HandlerMoves

\* log_write in a handler, which ends where the handler goes on.
LEMMA LogMoves ==
  ASSUME IInv, handler_log_write
  PROVE  HandlerMoves
<1> USE ContextsAssumption
<1>1. /\ Running /\ ~Lost /\ frame # NoFrame /\ boot \notin Before
      /\ frame \in Frames /\ TypeOK /\ ctx \in Contexts /\ boot \in BootAt
      /\ frame.after \in {"handled", "schedule"}
      /\ UNCHANGED <<ctx, saved, pc, gates>>
  BY HandlerFacts DEF HandlerStep
<1>2. PICK next \in FrameAt \union {"run"} :
        LogStep(frame.at, next) /\ Moves(IF next = "run" THEN frame.after ELSE next)
  BY DEF handler_log_write
<1>3. frame.at \in LogAt
  BY <1>2, ZenonT(60) DEF LogStep, LogAt
<1>4. /\ cnt \in [Contexts -> 0 .. (CntRange - 1)] /\ cnt[ctx] \in 0 .. 6 /\ iflag \in {0, 1}
      /\ dead \subseteq Threads
  BY <1>1, CntBound, SMTT(20) DEF TypeOK
<1>5. /\ cnt[ctx] = 1 + OwnDepth(ctx) + Depth(frame.at)
      /\ saved[ctx].at # "entry" /\ iflag = 0
  BY <1>1, <1>3, <1>4 DEF IInv, InIsr, LogAt
<1>6. cnt[ctx] \in Depth(frame.at) .. 6 /\ cnt[ctx] > Depth(frame.at)
  BY <1>4, <1>5, DepthBounds, SMTT(20)
<1>7. /\ cnt' = [cnt EXCEPT ![ctx] = cnt[ctx] + Depth(next) - Depth(frame.at)]
      /\ cnt' \in [Contexts -> 0 .. (CntRange - 1)]
      /\ iflag' \in {0, 1}
      /\ frame.at \in {"log", "locking"} => iflag' = 0
      /\ frame.at \in {"spinning", "writing"} => iflag' = iflag
      /\ frame.at = "written" => iflag' = IF cnt'[ctx] = 0 THEN 1 ELSE iflag
      /\ lock' # Free => (next = "writing" /\ lock' = ctx) \/ lock' = lock
      /\ lock' \in Contexts \union {Free}
      /\ frame.at = "writing" => lock' = Free
  BY <1>1, <1>2, <1>6, LogEffect, SMTT(20)
<1>8. iflag' = 0
  <2>1. cnt'[ctx] = cnt[ctx] + Depth(next) - Depth(frame.at)
    BY <1>1, <1>4, <1>7
  <2>2. cnt'[ctx] > 0
    BY <1>4, <1>6, <2>1, DepthBounds
  <2>. QED BY <1>3, <1>5, <1>7, <2>2 DEF LogAt
<1>9. /\ frame' \in Frames
      /\ frame'.num = frame.num /\ frame'.ctx = frame.ctx /\ frame'.call = frame.call
      /\ frame'.at = IF next = "run" THEN frame.after ELSE next
  BY <1>1, <1>2 DEF Moves, Frames, FrameAt, LogAt
<1>10. Depth(frame'.at) = Depth(next)
  BY <1>1, <1>9 DEF Depth
<1>11. lock' # Free => lock' = ctx /\ (pc[ctx] = "writing" \/ frame'.at = "writing")
  <2>1. lock # Free => lock = ctx /\ (pc[ctx] = "writing" \/ frame.at = "writing")
    BY DEF IInv, LockHeld
  <2>. QED BY <1>7, <1>9, <2>1
<1>12. UNCHANGED <<dead, boot>>
  BY DEF handler_log_write
<1>13. cnt' = [cnt EXCEPT ![ctx] = cnt[ctx] + Depth(frame'.at) - Depth(frame.at)]
  BY <1>7, <1>10, SMTT(20)
<1>14. /\ dead' \subseteq Threads /\ boot' = boot /\ boot' \in BootAt
       /\ iflag' \in {0, 1} /\ iflag' # 1 /\ saved[ctx].at # "entry"
       /\ cnt' \in [Contexts -> 0 .. (CntRange - 1)]
       /\ lock' \in Contexts \union {Free}
  BY <1>1, <1>4, <1>5, <1>7, <1>8, <1>12
<1>. QED BY <1>9, <1>11, <1>13, <1>14, Zenon DEF HandlerMoves

\* The positions of a handler follow each other as FrameOrder says.
LEMMA HandlerOrder ==
  ASSUME IInv, HandlerStep, HandlerMoves
  PROVE  FrameOrder'
<1> USE ContextsAssumption
<1>1. /\ Running /\ ~Lost /\ frame # NoFrame /\ boot \notin Before
      /\ frame \in Frames /\ ctx \in Contexts /\ boot \in BootAt
      /\ frame.num \in Handlers /\ frame.at \in FrameAt
      /\ frame.after \in {"handled", "schedule"}
      /\ UNCHANGED <<ctx, saved, pc, gates>>
  BY HandlerFacts, SMTT(20)
<1>2. OwnDepth(ctx)' = OwnDepth(ctx) /\ (Lost' <=> Lost)
  BY <1>1 DEF HandlerMoves, OwnDepth, Over, Lost
<1>3. /\ boot \in RtcOn \union Over => boot' \in RtcOn \union Over
      /\ boot \in Over => boot' \in Over
  BY DEF HandlerMoves, RtcOn, Over
<1>4. frame'.num = frame.num /\ frame'.ctx = frame.ctx /\ frame'.call = frame.call
  BY DEF HandlerMoves
<1>5. FrameOrder
  BY SMTT(20) DEF IInv
<1>6. CASE rtc_tick_handler
  <2>1. frame.num = "rtc" /\ frame'.at = "handled" /\ frame'.after = frame.after
    BY <1>1, <1>6, SMTT(20) DEF rtc_tick_handler, Called, Handling, Moves, Frames
  <2>. QED BY <1>1, <1>2, <1>3, <1>4, <1>5, <2>1 DEF FrameOrder, LogAt
<1>7. CASE pgflt_handler
  <2>1. frame.num = "fault" /\ frame.at = "entry"
    BY <1>7 DEF pgflt_handler, Called, Handling
  <2>2. \/ frame'.at \in {"growing", "entry"} /\ frame'.after = frame.after
        \/ frame'.at = "log" /\ frame'.after = "schedule" /\ ctx \in User
    BY <1>1, <1>7, <2>1, Zenon DEF pgflt_handler, Moves, Frames
  <2>. QED BY <1>1, <1>2, <1>3, <1>4, <1>5, <2>1, <2>2 DEF FrameOrder, LogAt
<1>8. CASE stka_pgflt
  <2>1. frame.num = "fault" /\ frame'.at = "handled" /\ frame'.after = frame.after
    BY <1>1, <1>8, SMTT(20) DEF stka_pgflt, Handling, Moves, Frames
  <2>. QED BY <1>1, <1>2, <1>3, <1>4, <1>5, <2>1 DEF FrameOrder, LogAt
<1>9. CASE lapic_tmr_handler \/ tmr_handle_expired \/ tmr_set_next_tick
  <2>1. /\ frame.num = "timer" /\ frame'.after = frame.after
        /\ \/ frame.at = "entry" /\ frame'.at = "schedule"
           \/ frame'.at \in {"expired", "handled"}
    BY <1>1, <1>9, SMTT(20) DEF lapic_tmr_handler, tmr_handle_expired, tmr_set_next_tick, Called,
                      Handling, Moves, Frames
  <2>. QED BY <1>1, <1>2, <1>3, <1>4, <1>5, <2>1 DEF FrameOrder, LogAt
<1>10. CASE \/ log_syscall_handler \/ sched_syscall_handler \/ thr_syscall_handler
            \/ unhandled
  <2>1. /\ frame.num = "sysc" /\ frame.at = "entry" /\ frame'.after = frame.after
        /\ frame'.at \in {"log", "schedule"}
    BY <1>1, <1>10, UnhandledCalls, SMTT(20)
       DEF log_syscall_handler, sched_syscall_handler, thr_syscall_handler, sysc_call, unhandled,
           Called, Handling, Moves, Frames
  <2>. QED BY <1>1, <1>2, <1>3, <1>4, <1>5, <2>1 DEF FrameOrder
<1>11. CASE handler_log_write
  <2>1. PICK next \in FrameAt \union {"run"} :
          LogStep(frame.at, next) /\ Moves(IF next = "run" THEN frame.after ELSE next)
    BY <1>11 DEF handler_log_write
  <2>2. frame.at \in LogAt /\ next \in LogAt \union {"run"}
    BY <2>1, Zenon DEF LogStep, LogAt
  <2>3. /\ frame'.at = IF next = "run" THEN frame.after ELSE next
        /\ frame'.after = frame.after
    BY <1>1, <2>1, SMTT(20) DEF Moves, Frames
  <2>4. frame'.at \in LogAt \/ frame'.at = "handled" \/ (frame'.at = "schedule" /\ frame.num = "fault")
    BY <1>1, <1>5, <2>2, <2>3, SMTT(20) DEF FrameOrder
  <2>5. frame.num \in {"sysc", "fault"} /\ frame.ctx = ctx
    BY <1>1, <1>5, <2>2, SMTT(20) DEF FrameOrder, LogAt, Handlers, Irqs
  <2>6. /\ frame.num = "fault" => ctx \in User
        /\ boot \in Over
        /\ frame.num = "sysc" <=> frame.call # NoCall
        /\ frame.after = "schedule" => frame.num = "fault"
        /\ frame.num # "fault" /\ ~Lost => OwnDepth(ctx) = 0
    BY <1>1, <1>5, <2>2, <2>5 DEF FrameOrder
  <2>7. frame'.at \notin {"growing", "switched", "expired"}
    BY <2>4 DEF LogAt
  <2>. QED BY <1>1, <1>2, <1>3, <1>4, <2>3, <2>5, <2>6, <2>7 DEF FrameOrder
<1>. QED BY <1>6, <1>7, <1>8, <1>9, <1>10, <1>11 DEF HandlerStep

\* sysc_call ends: no thread is inside a system call any more.
LEMMA ReturnEffect ==
  ASSUME IInv, frame # NoFrame, sysc_return, frame.at \notin {"entry", "handled"}
  PROVE  /\ inside' \in [Contexts -> 0 .. (CntRange - 1)]
         /\ \A t \in Contexts : inside'[t] = 0
<1>1. /\ boot \notin Before /\ frame.call \in Calls \union {Unknown, NoCall}
      /\ frame.num = "sysc" => frame.call # NoCall
      /\ inside \in [Contexts -> 0 .. (CntRange - 1)]
      /\ frame.ctx \in Contexts
  BY FrameFields DEF IInv, BootOrder, FrameOrder, TypeOK
<1>2. CASE frame.num = "sysc" /\ frame.call \in Calls
  <2>1. inside' = [inside EXCEPT ![frame.ctx] = (@ - 1) % CntRange]
    BY <1>1, <1>2, DispatchCalls DEF sysc_return, IInv
  <2>2. frame.call # Unknown
    BY <1>2 DEF Calls, Unknown
  <2>3. \A t \in Contexts : inside[t] = IF frame.ctx = t THEN 1 ELSE 0
    BY <1>2, <2>2 DEF IInv, InsideOwnCall
  <2>4. (inside[frame.ctx] - 1) % CntRange = 0
    BY <1>1, <2>3 DEF CntRange
  <2>5. inside' = [inside EXCEPT ![frame.ctx] = 0]
    BY <2>1, <2>4, Zenon
  <2>. QED BY <1>1, <2>3, <2>5, SMTT(20) DEF CntRange
<1>3. CASE ~(frame.num = "sysc" /\ frame.call \in Calls)
  <2>1. frame.num = "sysc" => frame.call = Unknown
    BY <1>1, <1>3
  <2>2. frame.num = "sysc" => intr_dispatch("sysc", frame.call) = Unhandled
    BY <1>1, <1>3, DispatchCalls DEF IInv
  <2>3. inside' = inside
    BY <2>2 DEF sysc_return
  <2>. QED BY <1>1, <2>1, <2>3 DEF IInv, InsideOwnCall
<1>. QED BY <1>2, <1>3, SMTT(20)

LEMMA HandlerInside ==
  ASSUME IInv, HandlerStep, HandlerMoves
  PROVE  InsideOwnCall' /\ inside' \in [Contexts -> 0 .. (CntRange - 1)]
<1>1. /\ frame # NoFrame /\ frame' # NoFrame /\ boot \notin Before /\ frame \in Frames
      /\ frame.ctx \in Contexts /\ frame.call \in Calls \union {Unknown, NoCall}
      /\ frame'.num = frame.num /\ frame'.ctx = frame.ctx /\ frame'.call = frame.call
  BY HandlerFacts, NoFrameAssumption DEF HandlerMoves
<1>2. inside \in [Contexts -> 0 .. (CntRange - 1)] /\ InsideOwnCall
  BY DEF IInv, TypeOK
<1>3. CASE frame.num # "sysc" /\ UNCHANGED inside
  BY <1>1, <1>2, <1>3 DEF InsideOwnCall
<1>4. CASE log_syscall_handler \/ sched_syscall_handler \/ thr_syscall_handler
  <2>1. PICK handler \in {"log_syscall_handler", "sched_syscall_handler", "thr_syscall_handler"},
             to \in {"log", "schedule"} : sysc_call(handler, to)
    BY <1>4 DEF log_syscall_handler, sched_syscall_handler, thr_syscall_handler
  <2>2. /\ frame.num = "sysc" /\ frame.at = "entry"
        /\ inside' = [inside EXCEPT ![frame.ctx] = (@ + 1) % CntRange]
        /\ intr_dispatch("sysc", frame.call) # Unhandled
        /\ frame'.at = to
    BY <1>1, <2>1 DEF sysc_call, Called, Handling, Moves, Unhandled, Frames
  <2>3. frame.call \in Calls /\ frame.call # Unknown
    BY <1>1, <2>2, DispatchCalls DEF IInv, Calls, Unknown
  <2>4. \A t \in Contexts : inside[t] = 0
    BY <1>2, <2>2 DEF InsideOwnCall
  <2>5. inside' = [inside EXCEPT ![frame.ctx] = 1]
    <3>1. (inside[frame.ctx] + 1) % CntRange = 1
      BY <1>1, <2>4 DEF CntRange
    <3>. QED BY <2>2, <3>1, Zenon
  <2>6. inside' \in [Contexts -> 0 .. (CntRange - 1)]
    BY <1>1, <1>2, <2>5 DEF CntRange
  <2>7. \A t \in Contexts : inside'[t] = IF frame.ctx = t THEN 1 ELSE 0
    BY <1>1, <1>2, <2>4, <2>5
  <2>. QED BY <1>1, <2>2, <2>3, <2>6, <2>7 DEF InsideOwnCall
<1>5. CASE unhandled
  <2>1. frame.call = Unknown /\ UNCHANGED inside
    BY <1>5, UnhandledCalls DEF unhandled
  <2>. QED BY <1>1, <1>2, <2>1 DEF InsideOwnCall
<1>6. CASE handler_log_write
  <2>1. PICK next \in FrameAt \union {"run"} :
          /\ LogStep(frame.at, next)
          /\ Moves(IF next = "run" THEN frame.after ELSE next)
          /\ IF next = "run" THEN sysc_return ELSE UNCHANGED inside
    BY <1>6 DEF handler_log_write
  <2>2. frame.at \in LogAt /\ next \in LogAt \union {"run"}
    BY <2>1, Zenon DEF LogStep, LogAt
  <2>3. frame'.at = IF next = "run" THEN frame.after ELSE next
    BY <1>1, <2>1 DEF Moves, Frames
  <2>4. CASE next = "run"
    <3>1. /\ inside' \in [Contexts -> 0 .. (CntRange - 1)]
          /\ \A t \in Contexts : inside'[t] = 0
      BY <1>1, <2>1, <2>2, <2>4, ReturnEffect, SMTT(20) DEF LogAt
    <3>2. frame.num = "sysc" => frame'.at = "handled"
      BY <1>1, <2>3, <2>4, FrameFields, SMTT(20) DEF IInv, FrameOrder
    <3>. QED BY <1>1, <3>1, <3>2 DEF InsideOwnCall
  <2>5. CASE next # "run"
    <3>1. frame.at \notin {"entry", "handled"} /\ frame'.at \notin {"entry", "handled"}
      BY <2>2, <2>3, <2>5 DEF LogAt
    <3>. QED BY <1>1, <1>2, <2>1, <2>5, <3>1 DEF InsideOwnCall
  <2>. QED BY <2>4, <2>5
<1>7. CASE \/ rtc_tick_handler \/ pgflt_handler \/ stka_pgflt \/ lapic_tmr_handler
           \/ tmr_handle_expired \/ tmr_set_next_tick
  <2>1. frame.num # "sysc" /\ UNCHANGED inside
    BY <1>7 DEF rtc_tick_handler, pgflt_handler, stka_pgflt, lapic_tmr_handler,
                tmr_handle_expired, tmr_set_next_tick, Called, Handling
  <2>. QED BY <1>3, <2>1
<1>. QED BY <1>4, <1>5, <1>6, <1>7, SMTT(20) DEF HandlerStep

LEMMA HandlerPreserves ==
  ASSUME IInv, HandlerStep
  PROVE  Rest'
<1> USE ContextsAssumption
<1>1. HandlerMoves
  BY BracketMoves, PlainMoves, LogMoves DEF HandlerStep
<1>2. FrameOrder' /\ InsideOwnCall' /\ inside' \in [Contexts -> 0 .. (CntRange - 1)]
  BY <1>1, HandlerOrder, HandlerInside, SMTT(20)
<1>3. /\ ~Lost /\ frame # NoFrame /\ frame' # NoFrame /\ boot \notin Before
      /\ TypeOK /\ ctx \in Contexts /\ boot \in BootAt
      /\ UNCHANGED <<ctx, saved, pc, gates>>
  BY <1>1, HandlerFacts, NoFrameAssumption, SMTT(20) DEF HandlerMoves
<1>4. TypeOK'
  BY <1>1, <1>2, <1>3, SMTT(20) DEF TypeOK, HandlerMoves
<1>5. boot' \notin Before /\ (boot' \notin Over => boot \notin Over) /\ boot' # "early"
  BY <1>1, <1>3, SMTT(20) DEF HandlerMoves, Before, Over
<1>6. /\ boot' \in {"threaded", "tsc_done", "lapic_done"} <=>
           boot \in {"threaded", "tsc_done", "lapic_done"}
      /\ boot' \in {"tsc_done", "lapic_done"} <=> boot \in {"tsc_done", "lapic_done"}
  BY <1>1, SMTT(20) DEF HandlerMoves, Over
<1>7. BootOrder'
  BY <1>3, <1>5, <1>6, SMTT(20) DEF IInv, BootOrder
<1>8. LockHeld'
  BY <1>1, <1>3 DEF HandlerMoves, LockHeld
<1>9. OffCpu' /\ OnCpu' /\ InIsr'
  <2>1. /\ \A t \in Contexts : OwnDepth(t)' = OwnDepth(t)
        /\ OwnDepth(ctx)' = OwnDepth(ctx)
    BY <1>3, <1>6 DEF OwnDepth
  <2>2. cnt \in [Contexts -> 0 .. (CntRange - 1)] /\ cnt[ctx] \in 0 .. 6
    BY <1>3, CntBound, SMTT(20) DEF TypeOK
  <2>3. /\ cnt'[ctx] = cnt[ctx] + Depth(frame'.at) - Depth(frame.at)
        /\ \A t \in Threads \ {ctx} : cnt'[t] = cnt[t]
    BY <1>1, <1>3, <2>2, SMTT(20) DEF HandlerMoves, Contexts
  <2>4. \A t \in Threads \ {ctx} : cnt'[t] = cnt[t] /\ OwnDepth(t)' = OwnDepth(t)
    BY <2>1, <2>3, SMTT(20) DEF Contexts
  <2>5. ~Lost' /\ OffCpu'
    BY <1>3, <2>4, OthersKept, SMTT(20)
  <2>6. /\ cnt[ctx] = (IF saved[ctx].at = "entry" THEN 0 ELSE 1)
                        + OwnDepth(ctx) + Depth(frame.at)
        /\ saved[ctx].if = 1 <=> OwnDepth(ctx) = 0
        /\ saved[ctx].at = "entry" => OwnDepth(ctx) = 0
    BY <1>3, SMTT(20) DEF IInv, InIsr
  <2>7. cnt'[ctx] = (IF saved[ctx].at = "entry" THEN 0 ELSE 1)
                      + OwnDepth(ctx) + Depth(frame'.at)
    BY <2>2, <2>3, <2>6, DepthBounds, SMTT(20)
  <2>8. /\ iflag' = 1 => frame'.at \in {"expired", "handled"} /\ saved[ctx].at = "entry"
        /\ saved[ctx].at = "entry" => frame'.at \in {"switched", "expired", "handled"}
    BY <1>1 DEF HandlerMoves
  <2>9. Depth(frame.at)' = Depth(frame'.at)
    OBVIOUS
  <2>10. OnCpu'
    BY <1>3, <1>5, SMTT(20) DEF OnCpu
  <2>11. InIsr'
    BY <1>3, <2>1, <2>5, <2>6, <2>7, <2>8, <2>9, SMTT(20) DEF InIsr
  <2>. QED BY <2>5, <2>10, <2>11
<1>. QED BY <1>2, <1>4, <1>7, <1>8, <1>9 DEF Rest
-----------------------------------------------------------------------------

(***************************************************************************)
(* The switch to another thread, and the end of a service routine.         *)
(***************************************************************************)
\* Nobody is switched out inside an intr_disable of its own.
LEMMA SwitchedOut ==
  ASSUME IInv, sched_schedule
  PROVE  /\ ~Lost /\ frame \in Frames /\ frame # NoFrame /\ boot \in Over /\ ctx \in Threads
         /\ OwnDepth(ctx) = 0 /\ lock = Free /\ iflag = 0
         /\ saved[ctx].at = "thread" /\ saved[ctx].if = 1 /\ cnt[ctx] = 1
<1> USE ContextsAssumption
<1>1. /\ ~Lost /\ frame # NoFrame /\ frame.at = "schedule" /\ TypeOK
      /\ frame \in Frames /\ frame.num \in Handlers /\ ctx \in Contexts
  BY FrameFields, Zenon DEF sched_schedule, Running, IInv, TypeOK
<1>2. frame.num # "rtc" /\ boot \in Over
  BY <1>1 DEF IInv, FrameOrder
<1>3. ctx \in Threads
  BY <1>1, <1>2 DEF IInv, BootOrder, Contexts, Before, Over
<1>4. OwnDepth(ctx) = 0
  <2>1. CASE frame.num = "fault"
    <3>1. ctx \in User
      BY <1>1, <2>1, SMTT(20) DEF IInv, FrameOrder
    <3>2. pc[ctx] = "run" /\ ctx # InitThr
      BY <1>1, <3>1 DEF IInv, BootOrder
    <3>. QED BY <3>2 DEF OwnDepth, Depth
  <2>2. CASE frame.num # "fault"
    BY <1>1, <2>2 DEF IInv, FrameOrder
  <2>. QED BY <2>1, <2>2
<1>5. /\ iflag \in {0, 1}
      /\ saved[ctx].at \in {"entry", "thread", "isr"}
  BY <1>1 DEF TypeOK
<1>6. saved[ctx].at # "isr"
  BY <1>1, SMTT(20) DEF Lost
<1>7. /\ cnt[ctx] = (IF saved[ctx].at = "entry" THEN 0 ELSE 1)
                      + OwnDepth(ctx) + Depth(frame.at)
      /\ saved[ctx].if = 1 <=> OwnDepth(ctx) = 0
      /\ saved[ctx].at # "entry" /\ iflag # 1
  BY <1>1 DEF IInv, InIsr
<1>8. cnt[ctx] = 1
  BY <1>1, <1>4, <1>7 DEF Depth
<1>9. lock = Free
  <2>1. pc[ctx] # "writing"
    BY <1>4 DEF OwnDepth, Depth
  <2>. QED BY <1>1, <2>1 DEF IInv, LockHeld
<1>. QED BY <1>1, <1>2, <1>3, <1>4, <1>5, <1>6, <1>7, <1>8, <1>9

LEMMA SchedulePreserves ==
  ASSUME IInv, sched_schedule
  PROVE  Rest'
<1> USE ContextsAssumption
<1>1. /\ ~Lost /\ frame \in Frames /\ frame # NoFrame /\ boot \in Over /\ ctx \in Threads
      /\ OwnDepth(ctx) = 0 /\ lock = Free /\ iflag = 0
      /\ saved[ctx].at = "thread" /\ saved[ctx].if = 1 /\ cnt[ctx] = 1
  BY SwitchedOut, SMTT(20)
<1>2. /\ frame.at = "schedule" /\ sysc_return /\ ctx' \in Threads
      /\ UNCHANGED <<cnt, iflag, saved, pc, lock, dead, gates, boot>>
      /\ Moves(IF frame.num = "timer" THEN "switched" ELSE "handled")
  BY <1>1 DEF sched_schedule
<1>3. /\ frame' \in Frames /\ frame' # NoFrame
      /\ frame'.num = frame.num /\ frame'.ctx = frame.ctx /\ frame'.call = frame.call
      /\ frame'.after = frame.after
      /\ frame'.at = IF frame.num = "timer" THEN "switched" ELSE "handled"
  BY <1>1, <1>2, NoFrameAssumption, SMTT(20) DEF Moves, Frames, FrameAt
<1>4. /\ inside' \in [Contexts -> 0 .. (CntRange - 1)]
      /\ \A t \in Contexts : inside'[t] = 0
  BY <1>1, <1>2, ReturnEffect, SMTT(20)
<1>5. \A t \in Threads : OwnDepth(t) = 0 /\ OwnDepth(t)' = 0
  BY <1>1, <1>2, SMTT(20) DEF IInv, OffCpu, OwnDepth
<1>6. \A t \in Threads : saved[t].at \in {"entry", "thread"} /\ saved[t].if = 1
                         /\ cnt[t] = IF saved[t].at = "entry" THEN 0 ELSE 1
  BY <1>1, SMTT(20) DEF IInv, OffCpu
<1>7. TypeOK'
  <2>1. TypeOK /\ ctx' \in Contexts
    BY <1>2, SMTT(20) DEF IInv, Contexts
  <2>. QED BY <1>2, <1>3, <1>4, <2>1 DEF TypeOK
<1>8. BootOrder'
  BY <1>1, <1>2, SMTT(20) DEF IInv, BootOrder, Before, Over
<1>9. OwnDepth(ctx)' = 0 /\ ~Lost'
  BY <1>1, <1>2, <1>5, SMTT(20) DEF OwnDepth, Lost
<1>10. FrameOrder'
  <2>1. /\ frame.num # "rtc"
        /\ frame.num = "sysc" <=> frame.call # NoCall
        /\ frame.after = "schedule" => frame.num = "fault"
    BY <1>1, <1>2, Zenon DEF IInv, FrameOrder
  <2>. QED BY <1>1, <1>2, <1>3, <1>9, <2>1, SMTT(20) DEF FrameOrder, LogAt
<1>11. LockHeld'
  BY <1>1, <1>2, Zenon DEF LockHeld
<1>12. InsideOwnCall'
  BY <1>3, <1>4 DEF InsideOwnCall
<1>13. OffCpu' /\ OnCpu' /\ InIsr'
  <2>1. ASSUME NEW t \in Threads \ {ctx'}
        PROVE  /\ OwnDepth(t)' = 0
               /\ saved'[t].at \in {"entry", "thread"} /\ saved'[t].if = 1
               /\ cnt'[t] = IF saved'[t].at = "entry" THEN 0 ELSE 1
    BY <1>2, <1>5, <1>6, <2>1, SMTT(20)
  <2>2. /\ cnt'[ctx'] = (IF saved'[ctx'].at = "entry" THEN 0 ELSE 1)
        /\ saved'[ctx'].if = 1
    BY <1>2, <1>6
  <2>3. Depth(frame.at)' = 0
    BY <1>3, SMTT(20) DEF Depth
  <2>4. boot' # "early" /\ iflag' = 0 /\ frame'.at \in {"switched", "expired", "handled"}
    BY <1>1, <1>2, <1>3 DEF Over
  <2>5. OffCpu'
    BY <2>1, SMTT(20) DEF OffCpu
  <2>6. OnCpu'
    BY <1>3, <2>4, SMTT(20) DEF OnCpu
  <2>7. InIsr'
    BY <1>9, <2>2, <2>3, <2>4 DEF InIsr
  <2>. QED BY <2>5, <2>6, <2>7, SMTT(20)
<1>. QED BY <1>7, <1>8, <1>10, <1>11, <1>12, <1>13, SMTT(20) DEF Rest

LEMMA ExitPreserves ==
  ASSUME IInv, isr_exit
  PROVE  Rest'
<1>1. /\ ~Lost /\ frame # NoFrame /\ frame.at = "handled" /\ frame' = NoFrame
      /\ UNCHANGED <<ctx, saved, pc, lock, dead, gates, inside, boot>>
      /\ cnt' = [cnt EXCEPT ![ctx] = Decremented(cnt[ctx])] /\ iflag' = saved[ctx].if
  BY SMTT(20) DEF isr_exit, Running, x86_64_isr_state_restore
<1>2. /\ TypeOK /\ ctx \in Contexts /\ cnt[ctx] \in 0 .. 6
      /\ cnt \in [Contexts -> 0 .. (CntRange - 1)]
      /\ saved \in [Contexts -> [at : {"entry", "thread", "isr"}, if : {0, 1}]]
  BY <1>1, CntBound DEF IInv, TypeOK
<1>3. /\ cnt[ctx] = (IF saved[ctx].at = "entry" THEN 0 ELSE 1)
                      + OwnDepth(ctx) + Depth(frame.at)
      /\ saved[ctx].if = 1 <=> OwnDepth(ctx) = 0
      /\ saved[ctx].at = "entry" => OwnDepth(ctx) = 0
  BY <1>1, ZenonT(60) DEF IInv, InIsr
<1>4. Decremented(cnt[ctx]) = OwnDepth(ctx)
  <2> DEFINE d == OwnDepth(ctx)
             n == cnt[ctx]
             first == saved[ctx].at = "entry"
  <2>1. Depth(frame.at) = 0 /\ d \in 0 .. 3
    <3>1. Depth("handled") = 0
      BY DEF Depth
    <3>. QED BY <1>1, <3>1, DepthBounds, Zenon
  <2>2. n = (IF first THEN 0 ELSE 1) + d + Depth(frame.at) /\ (first => d = 0)
    BY <1>3, Zenon
  <2>. HIDE DEF d, n, first
  <2>3. Decremented(n) = d
    BY <2>1, <2>2, SMTT(20) DEF Decremented
  <2>. QED BY <2>3, Zenon DEF d, n
<1>5. OwnDepth(ctx) \in 0 .. (CntRange - 1)
  BY DepthBounds DEF CntRange
<1>6. cnt' = [cnt EXCEPT ![ctx] = OwnDepth(ctx)] /\ cnt' \in [Contexts -> 0 .. (CntRange - 1)]
  BY <1>1, <1>2, <1>4, <1>5
<1>7. TypeOK'
  <2>1. iflag' \in {0, 1}
    BY <1>1, <1>2, SMTT(20)
  <2>. QED BY <1>1, <1>2, <1>6, <2>1, Zenon DEF TypeOK
<1>8. BootOrder' /\ boot \notin Before
  BY <1>1, SMTT(20) DEF IInv, BootOrder
<1>9. FrameOrder' /\ LockHeld' /\ InsideOwnCall'
  BY <1>1 DEF IInv, FrameOrder, LockHeld, InsideOwnCall
<1>10. OffCpu' /\ OnCpu' /\ InIsr'
  <2>1. \A t \in Threads \ {ctx} : cnt'[t] = cnt[t] /\ OwnDepth(t)' = OwnDepth(t)
    BY <1>1, <1>2, <1>6, SMTT(20) DEF OwnDepth, Contexts
  <2>2. ~Lost' /\ OffCpu'
    BY <1>1, <2>1, OthersKept, Zenon
  <2>3. OwnDepth(ctx)' = OwnDepth(ctx) /\ cnt'[ctx'] = OwnDepth(ctx)
    BY <1>1, <1>2, <1>6 DEF OwnDepth
  <2>4. boot' # "early"
    BY <1>1, <1>8 DEF Before
  <2>5. OnCpu'
    BY <1>1, <1>3, <2>2, <2>3, <2>4 DEF OnCpu
  <2>6. InIsr'
    BY <1>1, <2>2 DEF InIsr
  <2>. QED BY <2>2, <2>5, <2>6, SMTT(20)
<1>. QED BY <1>7, <1>8, <1>9, <1>10, SMTT(20) DEF Rest

-----------------------------------------------------------------------------
LEMMA StutterPreserves ==
  ASSUME IInv, UNCHANGED vars
  PROVE  IInv'
<1>1. UNCHANGED <<ctx, cnt, iflag, saved, pc, frame, lock, dead, gates, inside, boot>>
  BY SMTT(20) DEF vars
<1>2. TypeOK' /\ BootOrder' /\ GatesFilled'
  <2>1. TypeOK'
    BY <1>1, Zenon DEF IInv, TypeOK
  <2>2. BootOrder'
    BY <1>1, Zenon DEF IInv, BootOrder
  <2>3. GatesFilled'
    BY <1>1, Zenon DEF IInv, GatesFilled
  <2>. QED BY <2>1, <2>2, <2>3, Zenon
<1>3. (Lost' <=> Lost) /\ OwnDepth(ctx)' = OwnDepth(ctx)
  BY <1>1 DEF Lost, OwnDepth
<1>4. \A t \in Threads \ {ctx} : cnt'[t] = cnt[t] /\ OwnDepth(t)' = OwnDepth(t)
  BY <1>1 DEF OwnDepth
<1>5. OffCpu'
  BY <1>1, <1>4, OthersKept, SMTT(20)
<1>6. FrameOrder'
  BY <1>1, <1>3, SMTT(20) DEF IInv, FrameOrder
<1>7. OnCpu' /\ InIsr'
  BY <1>1, <1>3, SMTT(20) DEF IInv, OnCpu, InIsr
<1>8. LockHeld' /\ InsideOwnCall'
  BY <1>1 DEF IInv, LockHeld, InsideOwnCall
<1>. QED BY <1>2, <1>5, <1>6, <1>7, <1>8 DEF IInv

\* Every step keeps the invariant.
LEMMA StepIInv == IInv /\ [Next]_vars => IInv'
<1> SUFFICES ASSUME IInv, [Next]_vars
             PROVE  IInv'
  OBVIOUS
<1>1. CASE Next /\ ~Halt
  <2>1. ThreadStep \/ Booting \/ Enters \/ HandlerStep \/ sched_schedule \/ isr_exit
    BY <1>1 DEF Next, CpuStep, ThreadStep, Booting, Enters, HandlerStep
  <2>2. Rest'
    BY <2>1, ThreadPreserves, BootPreserves, EntryPreserves, HandlerPreserves,
       SchedulePreserves, ExitPreserves
  <2>3. GatesFilled'
    BY <1>1, GatesPreserved
  <2>. QED BY <2>2, <2>3 DEF IInv, Rest
<1>2. CASE Halt \/ UNCHANGED vars
  BY <1>2, StutterPreserves DEF Halt
<1>. QED BY <1>1, <1>2

\* The invariant that the theorems below are read off.
THEOREM Invariance == Spec => []IInv
BY InitIInv, StepIInv, PTL DEF Spec

-----------------------------------------------------------------------------
\* Contexts, counters, frames and gates keep their types: no counter of 8 bits
\* ever wraps (thread.h:59-83, intr.h:19-31).
THEOREM TypeCorrect == Spec => []TypeOK
<1>1. IInv => TypeOK
  BY SMTT(20) DEF IInv
<1>. QED BY <1>1, Invariance, PTL

(***************************************************************************)
(* intr_disable and intr_enable nest whatever ISRs switch contexts between *)
(* their entry and exit, for any number of threads (idt.S:81, idt.S:112).  *)
(***************************************************************************)
THEOREM NestingCorrect == Spec => []CounterMatchesNesting
<1>1. IInv => CounterMatchesNesting
  BY DEF IInv, OffCpu, OnCpu, CounterMatchesNesting
<1>. QED BY <1>1, Invariance, PTL

\* The holder of the screen lock runs with interrupts off, so that nobody who
\* would spin for it gets the CPU (spl.S:41-50).
THEOREM HolderCorrect == Spec => []HolderNeverPreempted
<1>1. ASSUME IInv
      PROVE  HolderNeverPreempted
  <2> SUFFICES ASSUME lock # Free
               PROVE  lock = ctx /\ iflag # 1 /\ iflag \in {0, 1}
    BY DEF HolderNeverPreempted
  <2>1. lock = ctx /\ (pc[ctx] = "writing" \/ (frame # NoFrame /\ frame.at = "writing"))
    BY <1>1 DEF IInv, LockHeld
  <2>2. iflag \in {0, 1} /\ ctx \in Contexts
    BY <1>1 DEF IInv, TypeOK
  <2>3. CASE frame = NoFrame
    <3>1. pc[ctx] = "writing"
      BY <2>1, <2>3
    <3>2. cnt[ctx] = OwnDepth(ctx) /\ OwnDepth(ctx) # 0
      BY <1>1, <2>3, <3>1 DEF IInv, OnCpu, OwnDepth, Depth
    <3>. QED BY <1>1, <2>1, <2>2, <2>3, <3>2 DEF IInv, OnCpu
  <2>4. CASE frame # NoFrame
    <3>1. iflag = 1 => frame.at \in {"expired", "handled"} /\ OwnDepth(ctx) = 0
      BY <1>1, <2>4 DEF IInv, InIsr
    <3>2. pc[ctx] = "writing" => OwnDepth(ctx) # 0
      BY DEF OwnDepth, Depth
    <3>. QED BY <2>1, <2>2, <3>1, <3>2, SMTT(20)
  <2>. QED BY <2>3, <2>4
<1>. QED BY <1>1, Invariance, PTL

\* Every interrupt that comes finds a handler that answers it, whenever it
\* comes in boot (intr.c:82-86).
THEOREM AnswersCorrect == Spec => []InterruptsAnswered
<1>1. ASSUME IInv
      PROVE  InterruptsAnswered
  <2> SUFFICES ASSUME frame # NoFrame, frame.call # Unknown
               PROVE  intr_dispatch(frame.num, frame.call) # Unhandled
    BY DEF InterruptsAnswered
  <2>1. frame.num \in Handlers /\ frame.call \in Calls \union {Unknown, NoCall}
    BY <1>1, FrameFields DEF IInv
  <2>2. /\ boot \notin Before \union {"threaded"} /\ GatesFilled
        /\ frame.num = "timer" => boot \in Over
        /\ frame.num = "sysc" => frame.call \in Calls
    BY <1>1, <2>1 DEF IInv, FrameOrder, Before, Over, RtcOn
  <2>. QED BY <2>1, <2>2, Dispatch, DispatchCalls DEF Unhandled, Handlers, Irqs
<1>. QED BY <1>1, Invariance, PTL

\* A system call is counted in the thread that made it, wherever it ends
\* (syscall.c:16-21).
THEOREM InsideCorrect == Spec => []InsideOwnCall
<1>1. IInv => InsideOwnCall
  BY DEF IInv
<1>. QED BY <1>1, Invariance, PTL

(***************************************************************************)
(* No handler starts while another one is in the heap, the map slots or    *)
(* the page bitmap, none of which has a lock (heap.c:206,                  *)
(* vmem_mgmt.c:107, pmem.c:317).                                           *)
(***************************************************************************)
THEOREM SharedCorrect == Spec => NotReentered
<1>1. ASSUME IInv, [Next]_vars
      PROVE  [UsesShared /\ frame' # NoFrame => frame'.at # "entry"]_vars
  <2> SUFFICES ASSUME Next, UsesShared, frame' # NoFrame, ~Halt
               PROVE  frame'.at # "entry"
    BY <1>1 DEF Halt
  <2>1. frame # NoFrame /\ frame.at \in {"growing", "schedule", "switched", "expired"}
        /\ frame \in Frames
    BY <1>1, FrameFields DEF UsesShared, IInv
  <2>2. ThreadStep \/ Booting \/ Enters \/ HandlerStep \/ sched_schedule \/ isr_exit
    BY DEF Next, CpuStep, ThreadStep, Booting, Enters, HandlerStep
  <2>3. ~ThreadStep /\ ~isr_exit
    BY <2>1, ZenonT(60) DEF ThreadStep, log_call, log_write, tsc_read, InThread, isr_exit
  <2>4. ~Booting /\ ~Enters
    BY <1>1, <2>1, BootEffect, EntersWhere DEF BootsOn
  <2>5. CASE sched_schedule
    BY <2>1, <2>5 DEF sched_schedule, Moves, Frames
  <2>6. CASE HandlerStep
    <3>1. stka_pgflt \/ tmr_handle_expired \/ tmr_set_next_tick
      BY <2>1, <2>6, Zenon
         DEF HandlerStep, rtc_tick_handler, pgflt_handler, lapic_tmr_handler,
             log_syscall_handler, sched_syscall_handler, thr_syscall_handler, sysc_call,
             unhandled, handler_log_write, LogStep, Called, Handling
    <3>. QED BY <2>1, <3>1 DEF stka_pgflt, tmr_handle_expired, tmr_set_next_tick, Moves, Frames
  <2>. QED BY <2>2, <2>3, <2>4, <2>5, <2>6
<1>. QED BY <1>1, Invariance, PTL DEF Spec, NotReentered
=============================================================================
