------------------------------- MODULE RmeAlu -------------------------------
(***************************************************************************)
(* The arithmetic of the real mode emulator (src/contrib/rme2/rme.c): what *)
(* its macros compute, and the flags they leave, for an operand of w bits. *)
(*                                                                         *)
(* A byte has ByteBits bits, 8 in the code; words, double words and the    *)
(* "int" in which C computes scale with it.  The register Flags is the set *)
(* of the flags in it.                                                     *)
(***************************************************************************)
EXTENDS Integers, FiniteSets, FiniteSetsExt

CONSTANT ByteBits
ASSUME ByteBitsAssumption == ByteBits \in Nat \ {0, 1}

WordBits == 2 * ByteBits
DwordBits == 4 * ByteBits

FLAGS == {"CF", "PF", "AF", "ZF", "SF", "IF", "DF", "OF"}
Flag(cond, f) == IF cond THEN f ELSE {}

Bits(v, w) == {i \in 0 .. w - 1 : (v \div 2^i) % 2 = 1}
Number(bits) == MapThenSumSet(LAMBDA i : 2^i, bits)
Negative(v, w) == v >= 2^(w - 1)
Signed(v, w) == IF Negative(v, w) THEN v - 2^w ELSE v
-----------------------------------------------------------------------------
\* Flags.  v is the value as C holds it, which may be below 0 where the code
\* keeps it in an int.
PAIRITY(v, w) == Cardinality(Bits(v % 2^w, w)) % 2

SET_COMM_FLAGS(fl, v, w) ==
    (fl \ {"ZF", "SF", "CF"})
      \cup Flag(v = 0, {"ZF"})
      \cup Flag(v < 0 \/ Negative(v, w), {"SF"})
      \cup Flag(PAIRITY(v, w) = 0, {"PF"})

ResultFlags(fl, v, w) ==
    SET_COMM_FLAGS(fl \ {"PF", "ZF", "SF", "OF", "CF"}, v, w)

\* The difference of two operands in an int: only double words wrap.
IntDiff(t, f, w) == IF w = DwordBits THEN (t - f) % 2^w ELSE t - f

\* ((to ^ from) & (to ^ v)) >> (width - 1)
SignLost(t, f, v, w) ==
    /\ Negative(t, w) # Negative(f, w)
    /\ Negative(t, w) # Negative(v % 2^w, w)
-----------------------------------------------------------------------------
\* The eight arithmetic operations: the new destination and flags, from the
\* destination t, the source f and the flags fl.
RME_Int_DoAdd(fl, t, f, w) ==
    LET r == (t + f) % 2^w
    IN  [to |-> r, fl |-> ResultFlags(fl, r, w) \cup Flag(r < f, {"OF", "CF"})]

RME_Int_DoOr(fl, t, f, w) ==
    LET r == Number(Bits(t, w) \cup Bits(f, w))
    IN  [to |-> r, fl |-> ResultFlags(fl, r, w)]

RME_Int_DoAdc(fl, t, f, w) ==
    LET r == (t + f + (IF "CF" \in fl THEN 1 ELSE 0)) % 2^w
    IN  [to |-> r, fl |-> ResultFlags(fl, r, w) \cup Flag(r < f, {"OF", "CF"})]

\* Zero, sign and parity are those of the destination before the operation.
RME_Int_DoSbb(fl, t, f, w) ==
    LET v == t - f + (IF "CF" \in fl THEN 1 ELSE 0)
    IN  [to |-> v % 2^w,
         fl |-> ResultFlags(fl, t, w)
                  \cup Flag(t < f \/ f = 2^(w - 2) + 2^(w - 1), {"CF"})
                  \cup Flag(SignLost(t, f, v, w), {"OF"})]

RME_Int_DoAnd(fl, t, f, w) ==
    LET r == Number(Bits(t, w) \cap Bits(f, w))
    IN  [to |-> r, fl |-> ResultFlags(fl, r, w)]

RME_Int_DoSub(fl, t, f, w) ==
    [to |-> (t - f) % 2^w,
     fl |-> ResultFlags(fl, t, w)
              \cup Flag(t < f, {"CF"})
              \cup Flag(SignLost(t, f, t - f, w), {"OF"})]

RME_Int_DoXor(fl, t, f, w) ==
    LET r == Number(SymDiff(Bits(t, w), Bits(f, w)))
    IN  [to |-> r, fl |-> ResultFlags(fl, r, w)]

\* Mutant: the flags are those of the destination.
RME_Int_DoCmp_Old(fl, t, f, w) == [RME_Int_DoSub(fl, t, f, w) EXCEPT !.to = t]

\* Unlike RME_Int_DoSub, the flags are those of the difference.
RME_Int_DoCmp(fl, t, f, w) ==
    [to |-> t,
     fl |-> ResultFlags(fl, IntDiff(t, f, w), w)
              \cup Flag(t < f, {"CF"})
              \cup Flag(SignLost(t, f, t - f, w), {"OF"})]

RME_Int_DoTest(fl, t, f, w) == [RME_Int_DoAnd(fl, t, f, w) EXCEPT !.to = t]

RME_Int_DoArithOp(num, fl, t, f, w) ==
    CASE num = 0 -> RME_Int_DoAdd(fl, t, f, w)
      [] num = 1 -> RME_Int_DoOr(fl, t, f, w)
      [] num = 2 -> RME_Int_DoAdc(fl, t, f, w)
      [] num = 3 -> RME_Int_DoSbb(fl, t, f, w)
      [] num = 4 -> RME_Int_DoAnd(fl, t, f, w)
      [] num = 5 -> RME_Int_DoSub(fl, t, f, w)
      [] num = 6 -> RME_Int_DoXor(fl, t, f, w)
      [] num = 7 -> RME_Int_DoCmp(fl, t, f, w)
-----------------------------------------------------------------------------
\* Shifts.  They are done in an int, whose shifts use the count modulo its
\* size; a count may exceed the width of the operand.
ShiftLeft(t, k, w) == (t * 2^(k % DwordBits)) % 2^w
ShiftRight(t, k) == t \div 2^(k % DwordBits)

ShiftFlags(fl, r, carry, w) == ResultFlags(fl, r, w) \cup Flag(carry, {"CF"})

RME_Int_DoRor(fl, t, k, w) ==
    LET r == Number(Bits(ShiftRight(t, k), w) \cup Bits(ShiftLeft(t, w - k, w), w))
    IN  [to |-> r, fl |-> ShiftFlags(fl, r, Negative(r, w), w)]

RME_Int_DoShl(fl, t, k, w) ==
    LET r == ShiftLeft(t, k, w)
    IN  [to |-> r, fl |-> ShiftFlags(fl, r, Negative(r, w), w)]

RME_Int_DoShr(fl, t, k, w) ==
    LET r == ShiftRight(t, k)
    IN  [to |-> r, fl |-> ShiftFlags(fl, r, r % 2 = 1, w)]

\* The other numbers are undefined opcodes.
LogicOps == {1, 4, 5}
RME_Int_DoLogicOp(num, fl, t, k, w) ==
    CASE num = 1 -> RME_Int_DoRor(fl, t, k, w)
      [] num = 4 -> RME_Int_DoShl(fl, t, k, w)
      [] num = 5 -> RME_Int_DoShr(fl, t, k, w)
-----------------------------------------------------------------------------
\* Increment, decrement and negation.
UnaryFlags(fl) == fl \ {"OF", "ZF", "SF", "PF"}

Increment(fl, t, w) ==
    LET r == (t + 1) % 2^w
    IN  [to |-> r,
         fl |-> SET_COMM_FLAGS(UnaryFlags(fl), r, w) \cup Flag(r = 0, {"OF"})]

Decrement(fl, t, w) ==
    LET r == (t - 1) % 2^w
    IN  [to |-> r,
         fl |-> SET_COMM_FLAGS(UnaryFlags(fl), r, w) \cup Flag(r = 2^w - 1, {"OF"})]

\* SET_COMM_FLAGS takes back the carry set for a result of 0.
Negate(fl, t, w) ==
    LET r == (-t) % 2^w
    IN  [to |-> r, fl |-> SET_COMM_FLAGS(fl \ {"OF"}, r, w)]
-----------------------------------------------------------------------------
\* Whether a conditional jump of the given type is taken.
RME_Int_DoCondJMP(type, fl) ==
    LET less == ("SF" \in fl) # ("OF" \in fl)
    IN  CASE type = 0  -> "OF" \in fl
          [] type = 1  -> "OF" \notin fl
          [] type = 2  -> "CF" \in fl
          [] type = 3  -> "CF" \notin fl
          [] type = 4  -> "ZF" \in fl
          [] type = 5  -> "ZF" \notin fl
          [] type = 6  -> fl \cap {"CF", "ZF"} # {}
          [] type = 7  -> fl \cap {"CF", "ZF"} = {}
          [] type = 8  -> "SF" \in fl
          [] type = 9  -> "SF" \notin fl
          [] type = 10 -> "PF" \in fl
          [] type = 11 -> "PF" \notin fl
          [] type = 12 -> less
          [] type = 13 -> ~less
          [] type = 14 -> "ZF" \in fl \/ less
          [] type = 15 -> "ZF" \notin fl \/ ~less
=============================================================================
