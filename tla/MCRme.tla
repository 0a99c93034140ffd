-------------------------------- MODULE MCRme -------------------------------
(***************************************************************************)
(* Programs for Rme, each the handler of interrupt 1, with the registers   *)
(* the kernel calls them with, and what they have to compute.  The values  *)
(* are those at the edges of the ranges of a byte, a word, a double word.  *)
(***************************************************************************)
EXTENDS Rme

MCVectors == {1}
MCPortIn == {0, 9}

\* Opcodes and ModR/M bytes.
O(op) == [op |-> op, n |-> 0, x |-> FALSE]
X(op) == [op |-> op, n |-> 0, x |-> TRUE]
N(op, n) == [op |-> op, n |-> n, x |-> FALSE]
XN(op, n) == [op |-> op, n |-> n, x |-> TRUE]
RM(mod, reg, rm) == [mod |-> mod, reg |-> reg, rm |-> rm]
RR(reg, rm) == RM(3, reg, rm)
Operands(w) == IF w = DwordBits THEN <<O("OPER")>> ELSE <<>>
Form(op, n, w) == [op |-> op, n |-> n, x |-> w # ByteBits]

\* Code at 8:0, data at 16:0, stack at 32:64.  The handler of interrupts 2 and
\* 3 returns at once; interrupt 5 has none.
CodeAt == 128
DataAt == 256
Place(a, cells) == [i \in a .. a + Len(cells) - 1 |-> cells[i - a + 1]]
Image(code, data) ==
    Place(4, <<0, 0, 8, 0>> \o <<0, 6, 8, 0>> \o <<0, 6, 8, 0>>)
      @@ Place(CodeAt, code) @@ Place(CodeAt + 96, <<O("IRET")>>)
      @@ Place(DataAt, data)

Regs(reg, fl) ==
    [reg |-> reg @@ [r \in GPR |-> IF r = SP THEN 64 ELSE 0],
     seg |-> [s \in SREG |-> CASE s = SREG_CS -> RME_MAGIC
                               [] s = SREG_SS -> 32 [] OTHER -> 16],
     ip |-> RME_MAGIC, fl |-> fl]

Program(kind, n, w, code, data, regs) ==
    [name |-> [kind |-> kind, n |-> n, w |-> w], mem |-> Image(code, data), regs |-> regs]

Edges(w) ==
    {0, 1, 2^(w - 1) - 1, 2^(w - 1), 2^w - 1}
      \cup (IF w = ByteBits THEN {3, 9, 14} ELSE {})
-----------------------------------------------------------------------------
\* Compare two operands and jump on condition cc; AL tells whether it jumped.
Branch(cc, w, a, b) ==
    Program("branch", cc, w,
            Operands(w) \o <<Form("ARITH_MR", 7, w), RR(BX, AX), N("JCC", cc), 3,
              N("MOV_RI", AX), 0, O("IRET"), N("MOV_RI", AX), 1, O("IRET")>>,
            <<>>, Regs((AX :> a) @@ (BX :> b), {}))

Branches ==
    {Branch(cc, w, a, b) : cc \in 0 .. 15, w \in {ByteBits},
                           a \in Edges(ByteBits), b \in Edges(ByteBits)}
    \cup UNION {{Branch(cc, w, a, b) : cc \in 2 .. 15, a \in Edges(w), b \in Edges(w)} :
                w \in {WordBits, DwordBits}}

\* A sum of words from bytes: ADD AL, BL and ADC AH, BH.
Sums ==
    {Program("sum", 0, ByteBits,
             <<N("ARITH_MR", 0), RR(BX, AX), N("ARITH_MR", 2), RR(BX + 4, AX + 4),
               O("IRET")>>, <<>>, Regs((AX :> a) @@ (BX :> b), fl)) :
       a \in Edges(WordBits) \cup {15, 16, 240}, b \in Edges(WordBits) \cup {15, 16, 240},
       fl \in {{}, {"CF"}}}

\* DIV BL, DIV BX and DIV EBX.
Division(w, hi, lo, d) ==
    Program("div", 0, w, Operands(w) \o <<Form("UNARY", 0, w), RR(6, BX), O("IRET")>>,
            <<>>, Regs((AX :> lo) @@ (DX :> hi) @@ (BX :> d), {}))
Divisions ==
    {Division(ByteBits, 0, a, d) : a \in Word, d \in {0, 1, 3, 8, 15}}
    \cup UNION {{Division(w, h, a, d) : h \in {0, 1, 5}, a \in Edges(w),
                                      d \in Edges(w) \ {2^DwordBits - 1}} :
                w \in {WordBits, DwordBits}}

\* INC EBX in a loop of CX rounds.
Loops ==
    {Program("loop", 0, WordBits, <<O("OPER"), N("INC", BX), O("LOOP"), 12, O("IRET")>>, <<>>,
             Regs((BX :> b) @@ (CX :> c), {})) : b \in {0, 250}, c \in {0, 1, 9}}

\* REP MOVSB, MOVSW and MOVSD within eight bytes of data.
Copies ==
    {Program("copy", 0, w, Operands(w) \o <<O("REP"), Form("MOVS", 0, w), O("IRET")>>,
             <<1, 2, 3, 4, 5, 6, 7, 8>>,
             Regs((CX :> c) @@ (SI :> s) @@ (DI :> d), fl)) :
       w \in {ByteBits, WordBits, DwordBits}, c \in {0, 1, 3}, s \in {2, 4},
       d \in {0, 3, 4, 5}, fl \in {{}, {"DF"}}}

\* REP or REPNZ CMPSB over two strings of two bytes; AL tells the last result.
Finds ==
    {Program("find", IF p = "REP" THEN 0 ELSE 1, ByteBits,
             <<O(p), O("CMPSB"), N("JCC", 4), 3, N("MOV_RI", AX), 0, O("IRET"),
               N("MOV_RI", AX), 1, O("IRET")>>,
             <<a, b, c, d>>, Regs((CX :> n) @@ (SI :> 0) @@ (DI :> 2), {})) :
       p \in {"REP", "REPNZ"}, a \in {1, 2}, b \in {1, 2}, c \in {1, 2}, d \in {1, 2},
       n \in 0 .. 2}

\* Save all registers, change them in a near and a far subroutine, restore them.
Saves ==
    {Program("save", 0, WordBits,
             <<O("PUSHA"), N("PUSH_S", SREG_DS), O("CALL_N"), 9, 0, O("CALL_F"), 11, 1, 8, 0,
               N("POP_S", SREG_DS), O("POPA"), O("IRET"), O("UNDEFINED"),
               XN("MOV_RI", CX), 7, 3, N("XCHG_A", SI), N("INC", BP), O("RET_N"),
               O("UNDEFINED"), O("UNDEFINED"), O("UNDEFINED"), O("UNDEFINED"),
               O("UNDEFINED"), O("UNDEFINED"), O("UNDEFINED"),
               N("PUSH", BX), N("POP", SI), O("MOV_SR"), RR(SREG_DS, CX), O("RET_F")>>,
             <<>>, Regs([r \in GPR |-> IF r = SP THEN sp ELSE 3 * r + 16], {"DF"})) :
       sp \in {64, 4}}

\* Words and double words written at the highest addresses.
Highs ==
    {Program("high", 0, w, Operands(w) \o <<X("MOV_MR"), RM(0, AX, 4), O("IRET")>>, <<>>,
             [Regs((AX :> 7) @@ (SI :> s), {}) EXCEPT !.seg[SREG_DS] = 255]) :
       w \in {WordBits, DwordBits}, s \in {0, 254, 255}}

\* Indirect calls and jumps, and a return to an address that was pushed.
Indirect ==
    {Program("indirect", 0, WordBits,
             <<X("GROUP"), RM(0, 2, 6), 0, 0, X("GROUP"), RM(0, 6, 6), 2, 0, O("RET_N"),
               O("UNDEFINED"), X("GROUP"), RR(4, BX), O("UNDEFINED"), O("IRET"),
               O("RET_N")>>,
             <<14, 0, 10, 0>>, Regs(BX :> 13, {}))}

\* A procedure for rm_call, which returns by a jump to the magic address.
Procedure ==
    {Program("procedure", 0, WordBits, <<N("DEC", AX), O("JMP_F"), 15, 15, 15, 15>>, <<>>,
             [Regs(AX :> 2, {}) EXCEPT !.seg[SREG_CS] = 8, !.ip = 0])}

\* One of each of the other instructions.
Others ==
    {Program("others", 0, WordBits,
       <<N("ARITH_RM", 1), RM(0, AX, 6), 0, 0, N("ARITH_AI", 4), 6,
         X("ARITH_RI"), RM(1, 5, 7), 2, 1, 0, X("ARITH_RI8X"), RR(3, DX), 15,
         X("ARITH_RI8X"), RM(2, 6, 2), 1, 0, 3,
         O("LOGIC_R1"), RR(4, AX), X("LOGIC_RI8"), RR(5, DX), 3, X("LOGIC_RCl"), RR(1, DX),
         O("UNARY"), RR(0, AX), 5, O("UNARY"), RR(2, AX), O("UNARY"), RR(3, BX),
         O("UNARY"), RR(4, BX), O("UNARY"), RR(5, BX),
         X("UNARY"), RR(4, BX), X("UNARY"), RR(5, BX),
         O("GROUP"), RM(0, 0, 4), O("GROUP"), RM(0, 1, 5), O("IRET")>>,
       <<9, 3, 12, 0, 5, 6, 7, 8>>, Regs((BX :> 0) @@ (CX :> 2) @@ (DX :> 200), {})),
     Program("others", 1, WordBits,
       <<XN("MOV_RI", BX), 2, 0, XN("MOV_RI", CX), 2, 0, XN("MOV_RI", SI), 6, 0,
         XN("MOV_RI", DI), 4, 0, O("TEST_RM"), RR(AX, BX), X("TEST_AI"), 1, 2, N("SET", "CF"), N("CLEAR", "DF"),
         O("IN_AI"), 3, X("IN_ADx"), O("OUT_IA"), 3, X("OUT_DxA"),
         O("MOV_MoA"), 4, 0, N("OVR", SREG_ES), O("MOV_AMo"), 4, 0, X("MOV_AMo"), 4, 0,
         X("MOV_MI"), RM(0, 0, 7), 1, 2, X("MOV_RM"), RM(0, DX, 4),
         O("MOV_RS"), RR(SREG_DS, BX), O("JMP_S"), 1, O("UNDEFINED"),
         O("JMP_N"), 1, 0, O("UNDEFINED"), O("TWO_BYTE"), N("JCC", 5), 0, 0,
         O("LOOPNZ"), 0, O("LOOPZ"), 0, O("XCHG_RM"), RR(AX, BX), O("PUSHF"), O("POPF"),
         O("PUSH_I"), 1, 2, O("PUSH_I8"), 3, O("POP_MX"), RM(0, 0, 6), 6, 0, N("POP", DX),
         O("STOS"), O("LODS"), O("LEA"), RM(2, DX, 1), 1, 0, O("LES"), RM(0, DX, 6), 0, 0,
         O("LDS"), RR(DX, SI), O("IRET")>>,
       <<0, 1, 12, 0, 5, 6, 7, 8>>, Regs(CX :> 2, {"DF"}))}

\* Programs that end with an error, or in the middle of the kernel.
Errors ==
    LET codes == <<<<O("ADDR")>>, <<O("REP"), N("XCHG_A", 0)>>,
                   <<O("LOGIC_R1"), RR(0, AX)>>, <<O("UNARY"), RR(1, AX)>>,
                   <<O("OPER"), X("UNARY"), RR(4, AX)>>,
                   <<O("OPER"), X("UNARY"), RR(5, AX)>>, <<O("GROUP"), RR(2, AX)>>,
                   <<O("INT_I"), 5>>, <<O("TWO_BYTE"), O("UNDEFINED")>>,
                   <<O("LEA"), RR(0, 0)>>, <<O("UNDEFINED")>>,
                   <<O("MOV_SR"), RR(5, AX)>>>>
    IN  {Program("error", i, ByteBits, codes[i], <<>>, Regs(<<>>, {})) :
           i \in DOMAIN codes}

\* Instructions that the emulator executes again and again.
Endless ==
    LET codes == <<<<O("INT3")>>, <<O("INT_I"), 2>>, <<X("UNARY"), RR(2, AX)>>,
                   <<X("UNARY"), RR(3, AX)>>>>
    IN  {Program("endless", i, ByteBits, codes[i], <<>>, Regs(<<>>, {})) :
           i \in DOMAIN codes}

MCPrograms ==
    UNION {Branches, Sums, Divisions, Loops, Copies, Finds, Saves, Highs, Indirect,
           Procedure, Others, Errors, Endless}
-----------------------------------------------------------------------------
\* What the programs have to compute.  from is the machine that they were called
\* with; a call that failed leaves the registers of the kernel as they were.
Returned(kind, result) == pc = "kernel" /\ prog.kind = kind /\ ret = result

\* Whether it was the program that ran: the rm_call of this instance returns
\* at once, without an instruction.
Ran == m.off > 0

Before(r, w) == from.reg[r] % 2^w
After(r, w) == ours.reg[r] % 2^w

\* The relation of the operands of CMP that a conditional jump stands for.  For
\* signed bytes and words, and for JG, the emulator decides differently.
Relation(cc, a, b, w) ==
    CASE cc = 2 -> a < b
      [] cc = 3 -> a >= b
      [] cc = 4 -> a = b
      [] cc = 5 -> a # b
      [] cc = 6 -> a <= b
      [] cc = 7 -> a > b
      [] cc = 12 -> Signed(a, w) < Signed(b, w)
      [] cc = 13 -> Signed(a, w) >= Signed(b, w)
      [] cc = 14 -> Signed(a, w) <= Signed(b, w)

Decisive(cc, w) == cc \in 2 .. 7 \/ (w = DwordBits /\ cc \in 12 .. 14)

\* A comparison and the conditional jump behind it (RME_Int_DoCmp, SET_COMM_FLAGS,
\* RME_Int_DoCondJMP) agree with the order of the numbers: for unsigned operands
\* of all widths, and for signed double words.
BranchDecides ==
    Returned("branch", "OK") /\ Ran /\ Decisive(prog.n, prog.w) =>
        ((After(AX, ByteBits) = 1)
           <=> Relation(prog.n, Before(AX, prog.w), Before(BX, prog.w), prog.w))

\* ADD of the low bytes and ADC of the high bytes add words: the carry that
\* RME_Int_DoAdd leaves is the one that RME_Int_DoAdc takes.
CarryChains ==
    Returned("sum", "OK") /\ Ran =>
        After(AX, WordBits) = (Before(AX, WordBits) + Before(BX, WordBits)) % 2^WordBits

\* What an instruction leaves in the flags is what a later one takes from them, be
\* it to jump (rme.c:2345) or to add (rme.c:1989).
FlagsDecide == BranchDecides /\ CarryChains

DividendOf(w) ==
    IF w = ByteBits THEN Before(AX, WordBits) ELSE Before(DX, w) * 2^w + Before(AX, w)
QuotientOf(w) == After(AX, w)
RemainderOf(w) ==
    IF w = ByteBits THEN After(AX, WordBits) \div 2^w ELSE After(DX, w)

\* DIV returns quotient and remainder in the halves of its registers, and the call
\* ends with RME_ERR_DIVERR exactly for a divisor of 0 and a quotient that does
\* not fit.
Divides ==
    LET w == prog.w
        d == Before(BX, w)
        fits == d # 0 /\ DividendOf(w) \div d < 2^w
    IN  /\ Returned("div", "OK") /\ Ran =>
              /\ fits
              /\ QuotientOf(w) * d + RemainderOf(w) = DividendOf(w)
              /\ RemainderOf(w) < d
        /\ Returned("div", "DIVERR") => ~fits

\* LOOP runs CX rounds, 2^16 for CX = 0, and leaves CX = 0.
LoopCounts ==
    Returned("loop", "OK") /\ Ran =>
        /\ LET c == Before(CX, WordBits)
           IN  After(BX, DwordBits) = Before(BX, DwordBits) + (IF c = 0 THEN 2^WordBits ELSE c)
        /\ After(CX, WordBits) = 0

\* Direction and size of a step of a string instruction.
StepOf(w) == (IF "DF" \in from.fl THEN -1 ELSE 1) * (w \div ByteBits)

\* REP MOVS copies CX elements, none for CX = 0, in the direction of DF, and leaves
\* SI and DI behind the last one: all bytes of the target are the ones the source
\* had before, also when the two overlap on the side the direction asks for, and
\* no other byte changes.
Copied ==
    LET n == Before(CX, WordBits)
        s == Before(SI, WordBits)
        d == Before(DI, WordBits)
        step == StepOf(prog.w)
        bytes == (0 .. n - 1) \X (0 .. prog.w \div ByteBits - 1)
        Source(b) == DataAt + ((s + b[1] * step) % 2^WordBits) + b[2]
        Target(b) == DataAt + ((d + b[1] * step) % 2^WordBits) + b[2]
    IN  Returned("copy", "OK") /\ Ran =>
            /\ After(CX, WordBits) = 0
            /\ After(SI, WordBits) = (s + n * step) % 2^WordBits
            /\ After(DI, WordBits) = (d + n * step) % 2^WordBits
            /\ (IF step < 0 THEN d >= s ELSE d <= s) =>
                  \A b \in bytes : Cell(m.mem, Target(b)) = Cell(from.mem, Source(b))
            /\ \A a \in (DataAt .. DataAt + 2^WordBits - 1) \ {Target(b) : b \in bytes} :
                  Cell(m.mem, a) = Cell(from.mem, a)

\* REP CMPSB stops behind the first difference of two strings, REPNZ CMPSB behind
\* the first match, or at their end, and ZF tells which.
FirstFound ==
    LET n == Before(CX, WordBits)
        Same(i) == Cell(from.mem, DataAt + Before(SI, WordBits) + i)
                     = Cell(from.mem, DataAt + Before(DI, WordBits) + i)
        hits == {i \in 0 .. n - 1 : Same(i) # (prog.n = 0)}
        seen == IF hits = {} THEN n ELSE Min(hits) + 1
    IN  Returned("find", "OK") /\ Ran /\ n > 0 =>
            /\ After(SI, WordBits) = Before(SI, WordBits) + seen
            /\ (After(AX, ByteBits) = 1) <=> Same(seen - 1)

\* LOOP, REP and REPNZ go as many rounds as the count and the result of a round ask
\* for, with a count of 0 and with one that wraps, too (rme.c:1490).
RepeatsRight == LoopCounts /\ Copied /\ FirstFound

\* PUSHA and POPA around near and far calls restore the registers and the segment
\* that the calls change, also where the stack wraps at the start of its segment.
RegistersRestored ==
    Returned("save", "OK") => ours.reg = from.reg /\ ours.seg = from.seg

\* A handler that the emulator leaves by IRET gives the kernel back its stack, its
\* flags and the code address it called from, and all registers where it has saved
\* them.
CallBalanced ==
    /\ RegistersRestored
    /\ pc = "kernel" /\ ret = "OK" /\ prog.kind # "procedure" =>
        /\ ours.reg[SP] = from.reg[SP]
        /\ ours.seg[SREG_SS] = from.seg[SREG_SS]
        /\ ours.seg[SREG_CS] = from.seg[SREG_CS]
        /\ ours.ip = from.ip
        /\ ours.fl = from.fl

\* Every call ends, with a result or with the kernel stopped, when its program
\* does not use INT or the NOT and NEG of words, which are executed again and
\* again: loops, repeated instructions and subroutines come to their end.
CallEnds ==
    pc = "call" /\ prog.kind # "endless" ~> pc \in {"kernel", "stopped"}
=============================================================================
