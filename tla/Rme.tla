-------------------------------- MODULE Rme ---------------------------------
(***************************************************************************)
(* Real mode calls of the kernel (src/rm.c) and the emulator that executes *)
(* them (src/contrib/rme2/rme.c).                                          *)
(*                                                                         *)
(* The emulator works on a machine m: the registers and flags of its       *)
(* tRME_State, the real mode memory behind Memory[0], and the state of its *)
(* decoder.  Memory holds instructions and data.  A cell of data is a      *)
(* byte; an opcode is a record with its name in rme.h, its register or     *)
(* operation number n and whether it is the "X" form on words; a ModR/M    *)
(* byte is the record of its three fields.  Instructions that write the    *)
(* cells they are decoded from are not modelled.                           *)
(*                                                                         *)
(* An instruction is executed in one step, except that each prefix and     *)
(* each round of a string instruction is a step of its own.  HLECallbacks  *)
(* is never set, and InstrNum is never read: both are left out.            *)
(***************************************************************************)
EXTENDS RmeAlu, Sequences, SequencesExt, TLC

CONSTANTS Programs,  \* what is in low memory, with the rm_state_t for it
          Vectors,   \* interrupts the kernel calls
          PortIn,    \* values that a device may answer
          MaxCalls   \* bound on the calls of the kernel

VARIABLES m,     \* the machine
          pc,    \* "kernel", "call": head of the loop of RME_Call, "decode"
          ours,  \* the rm_state_t of the caller
          ret,   \* what the last call returned
          from,  \* bookkeeping: the machine when the last call began
          prog,  \* bookkeeping: the name of the program in memory
          calls  \* bookkeeping: calls made, for the bound

vars == <<m, pc, ours, ret, from, prog, calls>>

Word == 0 .. 2^WordBits - 1
Dword == 0 .. 2^DwordBits - 1

\* General purpose registers and segment registers by their numbers.
AX == 0
CX == 1
DX == 2
BX == 3
SP == 4
BP == 5
SI == 6
DI == 7
GPR == 0 .. 7

SREG_ES == 0
SREG_CS == 1
SREG_SS == 2
SREG_DS == 3
SREG == 0 .. 3

RME_MAGIC == 2^WordBits - 1
\* Mutant: only the first megabyte is mapped.
RM_VSZ_OneMegabyte == 16 * 2^WordBits
RM_VSZ == 17 * 2^WordBits
-----------------------------------------------------------------------------
\* Memory: little endian, cells that nothing has written are 0.
Cell(mem, a) == IF a \in DOMAIN mem THEN mem[a] ELSE 0

Load(mem, a, w) ==
    MapThenSumSet(LAMBDA i : Cell(mem, a + i) * 2^(ByteBits * i),
                  0 .. w \div ByteBits - 1)

Store(mem, a, w, v) ==
    [i \in a .. a + w \div ByteBits - 1 |->
        (v \div 2^(ByteBits * (i - a))) % 2^ByteBits] @@ mem

\* The block that rm.c installs covers every address, so the check of
\* Memory[addr / RME_BLOCK_SIZE] never fails: AccessesInBlock.
RME_Int_GetPtr(seg, ofs) == (seg * 16) + (ofs % 2^WordBits)

\* Pointers that the decoder hands out: part of a register, or memory.
RegB(num) == [at |-> "gpr", n |-> num % 4, lo |-> IF num < 4 THEN 0 ELSE ByteBits]
RegW(num) == [at |-> "gpr", n |-> num, lo |-> 0]
Seg(code) == [at |-> "seg", n |-> code, lo |-> 0]
Mem(addr) == [at |-> "mem", n |-> addr, lo |-> 0]
Reg(num, w) == IF w = ByteBits THEN RegB(num) ELSE RegW(num)

Deref(s, p, w) ==
    CASE p.at = "gpr" -> (s.reg[p.n] \div 2^p.lo) % 2^w
      [] p.at = "seg" -> s.seg[p.n]
      [] p.at = "mem" -> Load(s.mem, p.n, w)

Assign(s, p, w, v) ==
    LET new == v % 2^w
    IN  CASE p.at = "gpr" ->
               [s EXCEPT !.reg[p.n] = @ + (new - Deref(s, p, w)) * 2^p.lo]
          [] p.at = "seg" -> [s EXCEPT !.seg[p.n] = new]
          [] p.at = "mem" -> [s EXCEPT !.mem = Store(@, p.n, w, new)]

W(s, r) == Deref(s, RegW(r), WordBits)
SetW(s, r, v) == Assign(s, RegW(r), WordBits, v)

\* The register Flags as a word, and back.
FlagBit == [f \in FLAGS |->
    CASE f = "CF" -> 0 [] f = "PF" -> 1 [] f = "AF" -> 2 [] f = "ZF" -> 3
      [] f = "SF" -> 4 [] f = "IF" -> 5 [] f = "DF" -> 6 [] f = "OF" -> 7]
FlagsWord(fl) == Number({FlagBit[f] : f \in fl})
WordFlags(v) == {f \in FLAGS : FlagBit[f] \in Bits(v, WordBits)}
-----------------------------------------------------------------------------
\* The stack.
PUSH(s, v) ==
    LET down == SetW(s, SP, W(s, SP) - 2)
    IN  Assign(down, Mem(RME_Int_GetPtr(s.seg[SREG_SS], W(down, SP))), WordBits, v)

Top(s) == Load(s.mem, RME_Int_GetPtr(s.seg[SREG_SS], W(s, SP)), WordBits)
Drop(s) == SetW(s, SP, W(s, SP) + 2)
POP(s, p) == Assign(Drop(s), p, WordBits, Top(s))
POP_IP(s) == [Drop(s) EXCEPT !.ip = Top(s)]
POP_Flags(s) == [Drop(s) EXCEPT !.fl = WordFlags(Top(s))]

\* The instruction stream at CS:IP, with the bytes already read in off.
Here(s) == RME_Int_GetPtr(s.seg[SREG_CS], s.ip + s.off)
READ_INSTR(s, w) == Load(s.mem, Here(s), w)
READ_INSTR8S(s) == Signed(READ_INSTR(s, ByteBits), ByteBits)
Past(s, w) == [s EXCEPT !.off = @ + w \div ByteBits]
Byte2(s) == s.mem[Here(s)]

\* The offset that a ModR/M byte with a memory operand names: base registers,
\* displacement, default segment, and the machine behind the bytes read.
BaseRegs(d) ==
    IF d.mod = 0 /\ d.rm = 6 THEN {}
    ELSE <<{BX, SI}, {BX, DI}, {BP, SI}, {BP, DI}, {SI}, {DI}, {BP}, {BX}>>[d.rm + 1]

DispBits(d) ==
    CASE d.mod = 0 -> IF d.rm = 6 THEN WordBits ELSE 0
      [] d.mod = 1 -> ByteBits
      [] d.mod = 2 -> WordBits
      [] d.mod = 3 -> 0

DoFunc(s) ==
    LET d == Byte2(s)
        t == Past(s, ByteBits)
        w == DispBits(d)
        disp == IF w = 0 THEN 0 ELSE Signed(READ_INSTR(t, w), w)
    IN  [ofs |-> (MapThenSumSet(LAMBDA r : W(s, r), BaseRegs(d)) + disp) % 2^WordBits,
         seg |-> IF s.ovr \in SREG THEN s.ovr
                 ELSE IF BP \in BaseRegs(d) THEN SREG_SS ELSE SREG_DS,
         m |-> Past(t, w)]

\* RME_Int_ParseModRM and RME_Int_ParseModRMX: pointers to the operand of the R
\* field and of the M field.
ParseModRM(s, w) ==
    LET d == Byte2(s)
        a == DoFunc(s)
    IN  [num |-> d.reg,
         r |-> Reg(d.reg, w),
         p |-> IF d.mod = 3 THEN Reg(d.rm, w)
               ELSE Mem(RME_Int_GetPtr(s.seg[a.seg], a.ofs)),
         m |-> a.m]
-----------------------------------------------------------------------------
\* How an instruction ends: after it, at the place it jumped to, or with an
\* error.  A repeat prefix is an error unless the instruction has used it up.
Fail(s, e) ==
    /\ m' = s
    /\ pc' = "kernel"
    /\ ret' = e
    /\ UNCHANGED <<ours, from, prog, calls>>

Goto(s) ==
    /\ m' = s
    /\ pc' = "call"
    /\ UNCHANGED <<ours, ret, from, prog, calls>>

Done(s) ==
    IF s.rep # "none" THEN Fail(s, "UNDEFOPCODE")
    ELSE Goto([s EXCEPT !.ip = (@ + s.off) % 2^WordBits])

Jump(s, disp) == [s EXCEPT !.ip = (@ + disp) % 2^WordBits]

\* The opcode, the machine behind it, the width of its operands.
Op == Byte2(m)
A == Past(m, ByteBits)
OperandBits == IF m.wide THEN DwordBits ELSE WordBits
Width == IF Op.x THEN OperandBits ELSE ByteBits

At(ops) == pc = "decode" /\ Op.op \in ops

Put(s, p, w, r) == [Assign(s, p, w, r.to) EXCEPT !.fl = r.fl]
-----------------------------------------------------------------------------
\* Prefixes.
OVR ==
    /\ At({"OVR"})
    /\ m' = [A EXCEPT !.ovr = Op.n]
    /\ UNCHANGED <<pc, ours, ret, from, prog, calls>>

OPER ==
    /\ At({"OPER"})
    /\ m' = [A EXCEPT !.wide = TRUE]
    /\ UNCHANGED <<pc, ours, ret, from, prog, calls>>

ADDR == At({"ADDR"}) /\ Fail(A, "UNDEFOPCODE")

REP ==
    /\ At({"REP", "REPNZ"})
    /\ m' = [A EXCEPT !.rep = Op.op]
    /\ UNCHANGED <<pc, ours, ret, from, prog, calls>>

\* Arithmetic: memory from register, register from memory, accumulator or
\* operand from an immediate value, which in RI8X is a signed byte.
Arith(s, num, to, src) ==
    Done(Put(s, to, Width,
             RME_Int_DoArithOp(num, m.fl, Deref(m, to, Width), src, Width)))

ARITH_MR ==
    /\ At({"ARITH_MR"})
    /\ \E x \in {ParseModRM(A, Width)} : Arith(x.m, Op.n, x.p, Deref(m, x.r, Width))

ARITH_RM ==
    /\ At({"ARITH_RM"})
    /\ \E x \in {ParseModRM(A, Width)} : Arith(x.m, Op.n, x.r, Deref(m, x.p, Width))

ARITH_AI ==
    /\ At({"ARITH_AI"})
    /\ Arith(Past(A, Width), Op.n, Reg(AX, Width), READ_INSTR(A, Width))

ARITH_RI ==
    /\ At({"ARITH_RI"})
    /\ \E x \in {ParseModRM(A, Width)} :
          Arith(Past(x.m, Width), x.num, x.p, READ_INSTR(x.m, Width))

ARITH_RI8X ==
    /\ At({"ARITH_RI8X"})
    /\ \E x \in {ParseModRM(A, Width)} :
          Arith(Past(x.m, ByteBits), x.num, x.p, READ_INSTR8S(x.m) % 2^Width)

\* Shifts by an immediate byte, by 1 and by CL.
Logic(s, x, k) ==
    IF x.num \in LogicOps
    THEN Done(Put(s, x.p, Width,
                  RME_Int_DoLogicOp(x.num, m.fl, Deref(m, x.p, Width), k, Width)))
    ELSE Fail(s, "UNDEFOPCODE")

LOGIC_RI8 ==
    /\ At({"LOGIC_RI8"})
    /\ \E x \in {ParseModRM(A, Width)} :
          Logic(Past(x.m, ByteBits), x, READ_INSTR(x.m, ByteBits))

LOGIC_R1 ==
    /\ At({"LOGIC_R1"})
    /\ \E x \in {ParseModRM(A, Width)} : Logic(x.m, x, 1)

LOGIC_RCl ==
    /\ At({"LOGIC_RCl"})
    /\ \E x \in {ParseModRM(A, Width)} :
          Logic(x.m, x, Deref(m, RegB(CX), ByteBits))
-----------------------------------------------------------------------------
\* Opcodes 0xF6 and 0xF7: the operation is the R field of the ModR/M byte.
UNARY_TEST(x) ==
    /\ x.num = 0
    /\ Done(Put(Past(x.m, Width), x.p, Width,
                RME_Int_DoTest(m.fl, Deref(m, x.p, Width),
                               READ_INSTR(x.m, Width), Width)))

\* On words the result of the parser is tested the wrong way round: the
\* instruction ends without effect, and IP stays where it is.
UNARY_NOT(x) ==
    /\ x.num = 2
    /\ IF Op.x THEN Goto(x.m)
       ELSE Done(Assign(x.m, x.p, Width, 2^Width - 1 - Deref(m, x.p, Width)))

UNARY_NEG(x) ==
    /\ x.num = 3
    /\ IF Op.x THEN Goto(x.m)
       ELSE Done(Put(x.m, x.p, Width, Negate(m.fl, Deref(m, x.p, Width), Width)))

\* A product of words sets carry and overflow unless it is the multiplicand.
Product(s, prod, same) ==
    [SetW(SetW(s, AX, prod % 2^WordBits), DX, (prod \div 2^WordBits) % 2^WordBits)
        EXCEPT !.fl = IF same THEN @ \ {"CF", "OF"} ELSE @ \cup {"CF", "OF"}]

UNARY_MUL(x) ==
    LET prod == Deref(m, Reg(AX, Width), Width) * Deref(m, x.p, Width)
    IN  /\ x.num = 4
        /\ CASE ~Op.x  -> Done(SetW(x.m, AX, prod))
             [] Op.x /\ m.wide -> Fail(A, "UNDEFOPCODE")
             [] Op.x /\ ~m.wide -> Done(Product(x.m, prod, prod = W(m, AX)))

UNARY_IMUL(x) ==
    LET a == Signed(Deref(m, Reg(AX, Width), Width), Width)
        prod == a * Signed(Deref(m, x.p, Width), Width)
    IN  /\ x.num = 5
        /\ CASE ~Op.x -> Done(SetW(x.m, AX, prod))
             [] Op.x /\ m.wide -> Fail(A, "UNDEFOPCODE")
             [] Op.x /\ ~m.wide -> Done(Product(x.m, prod, prod = a))

\* Quotient and remainder go to AL and AH, or to AX and DX.  For words the divisor
\* is read again, for the remainder, when AX has been written.
Dividend ==
    IF Op.x THEN Deref(m, RegW(DX), Width) * 2^Width + Deref(m, RegW(AX), Width)
    ELSE W(m, AX)

\* Mutant: the quotient may be one too large for its register.
UNARY_DIV_Large(x) ==
    LET d == Deref(m, x.p, Width)
        quot == Dividend \div d
        s == Assign(x.m, Reg(AX, Width), Width, quot)
        high == IF Op.x THEN RegW(DX) ELSE RegB(AX + 4)
    IN  /\ x.num = 6
        /\ IF d = 0 \/ quot > 2^Width THEN Fail(x.m, "DIVERR")
           ELSE Done(Assign(s, high, Width, Dividend - quot * d))

UNARY_DIV(x) ==
    LET d == Deref(m, x.p, Width)
        quot == Dividend \div d
        s == Assign(x.m, Reg(AX, Width), Width, quot)
        again == IF Op.x THEN Deref(s, x.p, Width) ELSE d
        high == IF Op.x THEN RegW(DX) ELSE RegB(AX + 4)
    IN  /\ x.num = 6
        /\ IF d = 0 THEN Fail(x.m, "DIVERR")
           ELSE IF quot > 2^Width - 1 THEN Fail(x.m, "DIVERR")
           ELSE Done(Assign(s, high, Width, Dividend - quot * again))

UNARY ==
    /\ At({"UNARY"})
    /\ \E x \in {ParseModRM(A, Width)} :
          \/ UNARY_TEST(x)
          \/ UNARY_NOT(x)
          \/ UNARY_NEG(x)
          \/ UNARY_MUL(x)
          \/ UNARY_IMUL(x)
          \/ UNARY_DIV(x)
          \/ x.num \in {1, 7} /\ Fail(x.m, "UNDEFOPCODE")

\* Opcodes 0xFE and 0xFF.
INCDEC_M(x) ==
    /\ x.num \in {0, 1}
    /\ LET t == Deref(m, x.p, Width)
       IN  Done(Put(x.m, x.p, Width, IF x.num = 0 THEN Increment(m.fl, t, Width)
                                     ELSE Decrement(m.fl, t, Width)))

CALL_R(x) ==
    /\ Op.x /\ x.num = 2
    /\ \E s \in {PUSH(x.m, x.m.ip + x.m.off)} :
          Goto([s EXCEPT !.ip = Deref(s, x.p, WordBits)])

JMP_R(x) ==
    /\ Op.x /\ x.num = 4
    /\ Goto([x.m EXCEPT !.ip = Deref(m, x.p, WordBits)])

PUSH_M(x) ==
    /\ Op.x /\ x.num = 6
    /\ Done(PUSH(x.m, Deref(m, x.p, WordBits)))

GROUP ==
    /\ At({"GROUP"})
    /\ \E x \in {ParseModRM(A, Width)} :
          \/ INCDEC_M(x)
          \/ CALL_R(x)
          \/ JMP_R(x)
          \/ PUSH_M(x)
          \/ /\ x.num \in (IF Op.x THEN {3, 5, 7} ELSE 2 .. 7)
             /\ Fail(x.m, "UNDEFOPCODE")

INC_DEC ==
    /\ At({"INC", "DEC"})
    /\ LET p == RegW(Op.n)
           t == Deref(m, p, OperandBits)
       IN  Done(Put(A, p, OperandBits,
                    IF Op.op = "INC" THEN Increment(m.fl, t, OperandBits)
                    ELSE Decrement(m.fl, t, OperandBits)))

TEST_RM ==
    /\ At({"TEST_RM"})
    /\ \E x \in {ParseModRM(A, Width)} :
          Done(Put(x.m, x.r, Width, RME_Int_DoTest(m.fl, Deref(m, x.r, Width),
                                                   Deref(m, x.p, Width), Width)))

TEST_AI ==
    /\ At({"TEST_AI"})
    /\ LET p == Reg(AX, Width)
       IN  Done(Put(Past(A, Width), p, Width,
                    RME_Int_DoTest(m.fl, Deref(m, p, Width),
                                   READ_INSTR(A, Width), Width)))

\* Flag control: the opcode names the flag and the value.
FLAG ==
    /\ At({"CLEAR", "SET"})
    /\ Done([A EXCEPT !.fl = IF Op.op = "SET" THEN @ \cup {Op.n} ELSE @ \ {Op.n}])
-----------------------------------------------------------------------------
\* Ports: the byte of the port number is skipped in the immediate forms; what
\* is written goes to the devices, which are not modelled.
PortArg == IF Op.op \in {"IN_AI", "OUT_IA"} THEN Past(A, ByteBits) ELSE A

IN_A ==
    /\ At({"IN_AI", "IN_ADx"})
    /\ \E v \in PortIn : Done(Assign(PortArg, Reg(AX, Width), Width, v))

OUT_A == At({"OUT_IA", "OUT_DxA"}) /\ Done(PortArg)
-----------------------------------------------------------------------------
\* Software interrupts.  IP, which is pushed, is that of the instruction
\* itself.  INT 3 has no check for an empty vector.
VectorAt(mem, num) == [ip |-> Load(mem, RME_Int_GetPtr(0, num * 4), WordBits),
                       cs |-> Load(mem, RME_Int_GetPtr(0, num * 4 + 2), WordBits)]

Enter(s, v) == [s EXCEPT !.ip = v.ip, !.seg[SREG_CS] = v.cs]

INT ==
    /\ At({"INT3", "INT_I"})
    /\ LET imm == Op.op = "INT_I"
       IN  \E v \in {VectorAt(m.mem, IF imm THEN READ_INSTR(A, ByteBits) ELSE 3)} :
              IF imm /\ v.ip = 0 /\ v.cs = 0 THEN Fail(A, "BADMEM")
              ELSE Goto(Enter(FoldLeft(PUSH, A, <<FlagsWord(m.fl), m.seg[SREG_CS], m.ip>>),
                              v))

\* Mutant: the flags stay on the stack.
IRET_NoFlags ==
    /\ At({"IRET"})
    /\ Goto(POP(POP_IP(A), Seg(SREG_CS)))

IRET ==
    /\ At({"IRET"})
    /\ Goto(POP_Flags(POP(POP_IP(A), Seg(SREG_CS))))
-----------------------------------------------------------------------------
\* MOV.  A load of AX from an offset ignores a segment override; a register
\* takes 16 bits of immediate value also with an operand override.
DataSegment == m.seg[IF m.ovr \in SREG THEN m.ovr ELSE SREG_DS]

MOV_MoA ==
    /\ At({"MOV_MoA"})
    /\ Done(Assign(Past(A, WordBits),
                   Mem(RME_Int_GetPtr(DataSegment, READ_INSTR(A, WordBits))),
                   Width, Deref(m, Reg(AX, Width), Width)))

MOV_AMo ==
    /\ At({"MOV_AMo"})
    /\ LET seg == IF Op.x THEN m.seg[SREG_DS] ELSE DataSegment
       IN  Done(Assign(Past(A, WordBits), Reg(AX, Width), Width,
                       Load(m.mem, RME_Int_GetPtr(seg, READ_INSTR(A, WordBits)), Width)))

MOV_MI ==
    /\ At({"MOV_MI"})
    /\ \E x \in {ParseModRM(A, Width)} :
          Done(Assign(Past(x.m, Width), x.p, Width, READ_INSTR(x.m, Width)))

MOV_RM ==
    /\ At({"MOV_RM"})
    /\ \E x \in {ParseModRM(A, Width)} :
          Done(Assign(x.m, x.r, Width, Deref(m, x.p, Width)))

MOV_MR ==
    /\ At({"MOV_MR"})
    /\ \E x \in {ParseModRM(A, Width)} :
          Done(Assign(x.m, x.p, Width, Deref(m, x.r, Width)))

MOV_RI ==
    /\ At({"MOV_RI"})
    /\ LET w == IF Op.x THEN WordBits ELSE ByteBits
       IN  Done(Assign(Past(A, w), Reg(Op.n, Width), Width, READ_INSTR(A, w)))

\* Seg returns NULL for a number that is no segment register, and the kernel
\* stops at the page fault.
MOV_S ==
    /\ At({"MOV_RS", "MOV_SR"})
    /\ \E x \in {ParseModRM(A, WordBits)} :
          IF x.num \in SREG
          THEN Done(IF Op.op = "MOV_RS"
                    THEN Assign(x.m, x.p, WordBits, m.seg[x.num])
                    ELSE Assign(x.m, Seg(x.num), WordBits, Deref(m, x.p, WordBits)))
          ELSE pc' = "stopped" /\ UNCHANGED <<m, ours, ret, from, prog, calls>>
-----------------------------------------------------------------------------
\* Jumps.
JMP_S == At({"JMP_S"}) /\ Done(Jump(Past(A, ByteBits), READ_INSTR8S(A)))

JMP_N == At({"JMP_N"}) /\ Done(Jump(Past(A, WordBits), READ_INSTR(A, WordBits)))

\* Two words: the new IP, then the new CS.
FarAddress(s) == [ip |-> READ_INSTR(s, WordBits),
                  cs |-> READ_INSTR(Past(s, WordBits), WordBits)]

JMP_F == At({"JMP_F"}) /\ Goto(Enter(Past(A, DwordBits), FarAddress(A)))

JCC(s, type, w) ==
    Done(IF RME_Int_DoCondJMP(type, m.fl)
         THEN Jump(Past(s, w), Signed(READ_INSTR(s, w), w)) ELSE Past(s, w))

JCC_S == At({"JCC"}) /\ JCC(A, Op.n, ByteBits)

\* Opcode 0x0F: only the near conditional jumps are there.
TWO_BYTE ==
    /\ At({"TWO_BYTE"})
    /\ LET s == Past(A, ByteBits)
       IN  IF Byte2(A).op = "JCC" THEN JCC(s, Byte2(A).n, WordBits)
           ELSE Fail(s, "UNDEFOPCODE")

LOOP ==
    /\ At({"LOOP", "LOOPNZ", "LOOPZ"})
    /\ LET s == SetW(Past(A, ByteBits), CX, W(m, CX) - 1)
           again == /\ W(s, CX) # 0
                    /\ Op.op = "LOOPNZ" => "ZF" \notin m.fl
                    /\ Op.op = "LOOPZ" => "ZF" \in m.fl
       IN  Done(IF again THEN Jump(s, READ_INSTR8S(A)) ELSE s)

\* Exchange.  XCHG AX, AX is NOP.
Swap(s, p, q, w) == Assign(Assign(s, p, w, Deref(s, q, w)), q, w, Deref(s, p, w))

XCHG_A == At({"XCHG_A"}) /\ Done(Swap(A, RegW(AX), RegW(Op.n), OperandBits))

XCHG_RM ==
    /\ At({"XCHG_RM"})
    /\ \E x \in {ParseModRM(A, OperandBits)} : Done(Swap(x.m, x.r, x.p, OperandBits))
-----------------------------------------------------------------------------
\* Stack instructions.
PUSH_R ==
    /\ At({"PUSH", "PUSH_S", "PUSHF"})
    /\ Done(PUSH(A, CASE Op.op = "PUSH" -> W(m, Op.n)
                      [] Op.op = "PUSH_S" -> m.seg[Op.n]
                      [] Op.op = "PUSHF" -> FlagsWord(m.fl)))

PUSH_I ==
    /\ At({"PUSH_I", "PUSH_I8"})
    /\ LET w == IF Op.op = "PUSH_I" THEN WordBits ELSE ByteBits
       IN  Done(PUSH(Past(A, w), READ_INSTR(A, w)))

PUSHA ==
    /\ At({"PUSHA"})
    /\ Done(FoldLeft(PUSH, A, [i \in 1 .. 8 |-> W(m, i - 1)]))

POP_R ==
    /\ At({"POP", "POP_S", "POPF"})
    /\ Done(CASE Op.op = "POP" -> POP(A, RegW(Op.n))
              [] Op.op = "POP_S" -> POP(A, Seg(Op.n))
              [] Op.op = "POPF" -> POP_Flags(A))

\* The saved SP is skipped.
POPA ==
    /\ At({"POPA"})
    /\ LET Restore(s, r) == IF r = SP THEN Drop(s) ELSE POP(s, RegW(r))
       IN  Done(FoldLeft(Restore, A, <<DI, SI, BP, SP, BX, DX, CX, AX>>))

POP_MX ==
    /\ At({"POP_MX"})
    /\ \E x \in {ParseModRM(A, WordBits)} : Done(POP(x.m, x.p))

CALL_N ==
    /\ At({"CALL_N"})
    /\ \E s \in {Jump(Past(A, WordBits), A.off + 2)} :
          Goto(Jump(PUSH(s, s.ip), READ_INSTR(A, WordBits)))

CALL_F ==
    /\ At({"CALL_F"})
    /\ \E s \in {Past(A, DwordBits)} :
          Goto(Enter(FoldLeft(PUSH, s, <<m.seg[SREG_CS], s.ip + s.off>>), FarAddress(A)))

RET_N == At({"RET_N"}) /\ Goto(POP_IP(A))

RET_F == At({"RET_F"}) /\ Goto(POP(POP_IP(A), Seg(SREG_CS)))
-----------------------------------------------------------------------------
\* String instructions: one round per step.  A round that is to be followed by
\* another leaves off at the opcode.  Which prefixes repeat differs.
StringSource == Mem(RME_Int_GetPtr(m.seg[SREG_DS], W(m, SI)))
StringTarget == Mem(RME_Int_GetPtr(m.seg[SREG_ES], W(m, DI)))

Advance(s, r) ==
    SetW(s, r, W(s, r) + (IF "DF" \in s.fl THEN -1 ELSE 1) * (Width \div ByteBits))

MOVS_Round ==
    FoldLeft(Advance,
             Assign(m, StringTarget, Width, Deref(m, StringSource, Width)), <<SI, DI>>)

CMPSB_Round ==
    LET v == Deref(m, StringSource, Width) - Deref(m, StringTarget, Width)
    IN  [FoldLeft(Advance, m, <<SI, DI>>) EXCEPT
            !.fl = ResultFlags(@, v, Width) \cup Flag(v < 0, {"OF", "CF"})]

STOS_Round ==
    Advance(Assign(m, StringTarget, Width, Deref(m, Reg(AX, Width), Width)), DI)

LODS_Round ==
    Advance(Assign(m, Reg(AX, Width), Width, Deref(m, StringSource, Width)), SI)

Repeats(op) ==
    IF op = "CMPSB" \/ (op = "MOVS" /\ Width # DwordBits) THEN m.rep # "none"
    ELSE m.rep = "REP"

NothingToRepeat(op) ==
    /\ W(m, CX) = 0
    /\ IF op = "CMPSB" THEN m.rep # "none" ELSE m.rep = "REP"

\* Mutant: REPNZ stops like REP.
DecidedAtDifference(op, s) == op = "CMPSB" /\ m.rep # "none" /\ "ZF" \notin s.fl

\* A comparison ends at the first difference, or the first match, before CX is
\* counted down.
Decided(op, s) ==
    /\ op = "CMPSB"
    /\ \/ m.rep = "REP" /\ "ZF" \notin s.fl
       \/ m.rep = "REPNZ" /\ "ZF" \in s.fl

StringEnd(s) == Done([Past(s, ByteBits) EXCEPT !.rep = "none"])

\* Mutant: MOVS does not count CX down.
StringRound_NoCount(op, s) ==
    IF ~Repeats(op) \/ Decided(op, s) THEN StringEnd(s)
    ELSE \E t \in {SetW(s, CX, W(s, CX) - (IF op = "MOVS" THEN 0 ELSE 1))} :
            IF W(t, CX) = 0 THEN StringEnd(t)
            ELSE m' = t /\ UNCHANGED <<pc, ours, ret, from, prog, calls>>

StringRound(op, s) ==
    IF ~Repeats(op) \/ Decided(op, s) THEN StringEnd(s)
    ELSE \E t \in {SetW(s, CX, W(s, CX) - 1)} :
            IF W(t, CX) = 0 THEN StringEnd(t)
            ELSE m' = t /\ UNCHANGED <<pc, ours, ret, from, prog, calls>>

STRING_OP ==
    /\ At({"MOVS", "CMPSB", "STOS", "LODS"})
    /\ IF NothingToRepeat(Op.op) THEN StringEnd(m)
       ELSE \/ Op.op = "MOVS" /\ \E s \in {MOVS_Round} : StringRound("MOVS", s)
            \/ Op.op = "CMPSB" /\ \E s \in {CMPSB_Round} : StringRound("CMPSB", s)
            \/ Op.op = "STOS" /\ \E s \in {STOS_Round} : StringRound("STOS", s)
            \/ Op.op = "LODS" /\ \E s \in {LODS_Round} : StringRound("LODS", s)
-----------------------------------------------------------------------------
\* LES and LDS: the segment is taken from the first word of the operand, the offset
\* from behind it, which for a word register is its upper half.  (A double word
\* behind the low half of a register would overlap the next one: not modelled.)
Behind(p) == IF p.at = "mem" THEN [p EXCEPT !.n = @ + 2] ELSE [p EXCEPT !.lo = WordBits]

LES_LDS ==
    /\ At({"LES", "LDS"})
    /\ \E x \in {ParseModRM(A, OperandBits)} :
          /\ x.p.at = "mem" \/ ~m.wide
          /\ LET sr == IF Op.op = "LES" THEN SREG_ES ELSE SREG_DS
                 s == Assign(x.m, Seg(sr), WordBits, Deref(m, x.p, WordBits))
             IN  Done(Assign(s, x.r, OperandBits, Deref(m, Behind(x.p), OperandBits)))

LEA ==
    /\ At({"LEA"})
    /\ IF Byte2(A).mod = 3 THEN Fail(Past(A, ByteBits), "UNDEFOPCODE")
       ELSE \E a \in {DoFunc(A)} : Done(SetW(a.m, Byte2(A).reg, a.ofs))

\* Opcodes that the switch does not know, CMPSW among them.
UNDEFINED == At({"UNDEFINED"}) /\ Fail(A, "UNDEFOPCODE")

\* The switch of RME_Int_DoOpcode.
RME_Int_DoOpcode ==
    \/ OVR \/ OPER \/ ADDR \/ REP
    \/ ARITH_MR \/ ARITH_RM \/ ARITH_AI \/ ARITH_RI \/ ARITH_RI8X
    \/ LOGIC_RI8 \/ LOGIC_R1 \/ LOGIC_RCl
    \/ UNARY \/ GROUP \/ INC_DEC \/ TEST_RM \/ TEST_AI \/ FLAG
    \/ IN_A \/ OUT_A \/ INT \/ IRET
    \/ MOV_MoA \/ MOV_AMo \/ MOV_MI \/ MOV_RM \/ MOV_MR \/ MOV_RI \/ MOV_S
    \/ JMP_S \/ JMP_N \/ JMP_F \/ JCC_S \/ TWO_BYTE \/ LOOP
    \/ XCHG_A \/ XCHG_RM
    \/ PUSH_R \/ PUSH_I \/ PUSHA \/ POP_R \/ POPA \/ POP_MX
    \/ CALL_N \/ CALL_F \/ RET_N \/ RET_F
    \/ STRING_OP \/ LES_LDS \/ LEA \/ UNDEFINED
-----------------------------------------------------------------------------
\* Calls of the kernel.  The tRME_State is a local variable, cleared and then
\* filled from the caller's registers; only the memory outlives a call.
NoSegment == -1
OURS2RME(c, mem) ==
    [reg |-> c.reg, seg |-> c.seg, ip |-> c.ip, fl |-> c.fl, mem |-> mem,
     ovr |-> NoSegment, wide |-> FALSE, off |-> 0, rep |-> "none"]

RME2OURS(s) == [reg |-> s.reg, seg |-> s.seg, ip |-> s.ip, fl |-> s.fl]

\* RME_CallInt pushes the return address that ends RME_Call.
RME_CallInt(s, num) ==
    FoldLeft(PUSH, Enter(s, VectorAt(s.mem, num)),
             <<FlagsWord(s.fl), RME_MAGIC, RME_MAGIC>>)

Call(s) ==
    /\ pc = "kernel"
    /\ calls < MaxCalls
    /\ m' = s
    /\ from' = OURS2RME(ours, m.mem)
    /\ pc' = "call"
    /\ calls' = calls + 1
    /\ UNCHANGED <<ours, ret, prog>>

rm_int(vec) == Call(RME_CallInt(OURS2RME(ours, m.mem), vec))

rm_call == Call(OURS2RME(ours, m.mem))

\* The loop of RME_Call: return to the kernel, or decode an instruction.
RME_Return ==
    /\ pc = "call"
    /\ m.ip = RME_MAGIC /\ m.seg[SREG_CS] = RME_MAGIC
    /\ pc' = "kernel"
    /\ ret' = "OK"
    /\ ours' = RME2OURS(m)
    /\ UNCHANGED <<m, from, prog, calls>>

RME_Decode ==
    /\ pc = "call"
    /\ ~(m.ip = RME_MAGIC /\ m.seg[SREG_CS] = RME_MAGIC)
    /\ m' = [m EXCEPT !.ovr = NoSegment, !.wide = FALSE, !.off = 0, !.rep = "none"]
    /\ pc' = "decode"
    /\ UNCHANGED <<ours, ret, from, prog, calls>>

\* The kernel hangs, or makes no more calls.
Stopped ==
    /\ pc = "stopped" \/ (pc = "kernel" /\ calls = MaxCalls)
    /\ UNCHANGED vars

Init ==
    \E p \in Programs :
       /\ m = OURS2RME(p.regs, p.mem)
       /\ from = m
       /\ ours = p.regs
       /\ prog = p.name
       /\ pc = "kernel"
       /\ ret = "none"
       /\ calls = 0

RME_Call == RME_Return \/ RME_Decode \/ RME_Int_DoOpcode

Next ==
    \/ rm_call
    \/ \E vec \in Vectors : rm_int(vec)
    \/ RME_Call
    \/ Stopped

Spec == Init /\ [][Next]_vars

\* RME_Call is a loop of the kernel that nothing suspends: WF_vars(RME_Call), in
\* which ENABLED is written as the condition it amounts to.
Emulating == pc \in {"call", "decode"}
FairSpec == Spec /\ ([]<>(~Emulating) \/ []<><<Emulating>>_vars)
-----------------------------------------------------------------------------
\* The machine, the decoder and the result of a call have their types.
TypeOK ==
    /\ m.reg \in [GPR -> Dword]
    /\ m.seg \in [SREG -> Word]
    /\ m.ip \in Word
    /\ m.fl \subseteq FLAGS
    /\ m.ovr \in SREG \cup {NoSegment}
    /\ m.wide \in BOOLEAN
    /\ m.off \in Nat
    /\ m.rep \in {"none", "REP", "REPNZ"}
    /\ pc \in {"kernel", "call", "decode", "stopped"}
    /\ ret \in {"none", "OK", "UNDEFOPCODE", "DIVERR", "BADMEM"}

\* No register exceeds its width, and whatever segment and offset a program uses,
\* all bytes of what it writes lie in the block of RM_VSZ bytes that rm_init maps,
\* also above the first megabyte and for an access that begins at the last offset
\* of a segment (rme.c:1908).
AccessesInBlock == TypeOK /\ DOMAIN m.mem \subseteq 0 .. RM_VSZ - 1
=============================================================================
