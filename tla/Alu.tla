-------------------------------- MODULE Alu --------------------------------
(***************************************************************************)
(* The processor status register P and the arithmetic helpers of           *)
(* opcodes.c.  P is the set of the flags that are set; PByte and PFlags    *)
(* convert to and from the byte that is pushed on and pulled off the       *)
(* stack.  Each helper takes the status before it and returns a record     *)
(* with the byte computed and the status after it.                         *)
(***************************************************************************)
EXTENDS Bytes

Flag == {"C", "Z", "I", "D", "B", "U", "V", "N"}

FlagBit ==
  [C |-> 0, Z |-> 1, I |-> 2, D |-> 3, B |-> 4, U |-> 5, V |-> 6, N |-> 7]

PByte(P)  == ByteOf({FlagBit[f] : f \in P})
PFlags(b) == {f \in Flag : FlagBit[f] \in Bits(b)}

-----------------------------------------------------------------------------
(* cpu_set_flag when the condition holds, cpu_unset_flag otherwise: the    *)
(* body of cpu_set_carry, _overflow, _negative and _zero.                  *)
SetIf(P, f, cond) == IF cond THEN P \cup {f} ELSE P \ {f}

Negative(b) == b >= 128

(* cpu_set_zero and cpu_set_negative, always called together.              *)
SetZN(P, b) == SetIf(SetIf(P, "Z", b = 0), "N", Negative(b))

Carry(P) == IF "C" \in P THEN 1 ELSE 0

-----------------------------------------------------------------------------
(* Mutants: the carry decided without the second operand; the carry of the *)
(* caller ignored; its borrow ignored; the comparison's carry strict; the  *)
(* bit shifted in by a rotation taken from the carry it produces.          *)
AddDropsOperandTest(P, reg, val) ==
  LET res == U8(U8(reg + val) + Carry(P))
      c   == SetIf(P, "C", res <= reg)
      v   == SetIf(c, "V", /\ Negative(reg) = Negative(val)
                           /\ Negative(reg) # Negative(res))
  IN  [val |-> res, P |-> SetZN(v, res)]

AddIgnoresCarry(P, reg, val) ==
  LET res == U8(reg + val)
      c   == SetIf(P, "C", res <= reg /\ val > 0)
      v   == SetIf(c, "V", /\ Negative(reg) = Negative(val)
                           /\ Negative(reg) # Negative(res))
  IN  [val |-> res, P |-> SetZN(v, res)]

SubIgnoresBorrow(P, reg, val) ==
  LET res == U8(reg - val)
      c   == SetIf(P, "C", val <= reg)
      v   == SetIf(c, "V", S8(res) > S8(reg) /\ Negative(reg) # Negative(res))
  IN  [val |-> res, P |-> SetZN(v, res)]

CmpStrict(P, reg, val) ==
  SetZN(SetIf(P, "C", reg > val), U8(reg - val))

RotateLeftNewCarry(P, val) ==
  LET res == U8(2 * val) + (IF Negative(val) THEN 1 ELSE 0)
  IN  [val |-> res, P |-> SetIf(SetZN(P, res), "C", Negative(val))]

-----------------------------------------------------------------------------
(* opcodes.c add: the carry is decided by comparing the wrapped sum with   *)
(* the register, and never set when the operand is zero.                   *)
add(P, reg, val) ==
  LET res == U8(U8(reg + val) + Carry(P))
      c   == SetIf(P, "C", res <= reg /\ val > 0)
      v   == SetIf(c, "V", /\ Negative(reg) = Negative(val)
                           /\ Negative(reg) # Negative(res))
  IN  [val |-> res, P |-> SetZN(v, res)]

(* opcodes.c sub: the carry compares the operands alone, the overflow the  *)
(* signs of register and result.                                           *)
sub(P, reg, val) ==
  LET res == U8(U8(reg - val) - (1 - Carry(P)))
      c   == SetIf(P, "C", val <= reg)
      v   == SetIf(c, "V", S8(res) > S8(reg) /\ Negative(reg) # Negative(res))
  IN  [val |-> res, P |-> SetZN(v, res)]

(* opcodes.c cmp returns nothing but the status.                           *)
cmp(P, reg, val) == SetZN(SetIf(P, "C", reg >= val), U8(reg - val))

(* BIT: zero from the conjunction, N and V copied from the operand.        *)
bit_test(P, reg, val) ==
  SetIf(SetIf(SetIf(P, "Z", AndByte(reg, val) = 0), "N", Negative(val)),
        "V", 6 \in Bits(val))

shift_left(P, val) ==
  LET res == U8(2 * val)
  IN  [val |-> res, P |-> SetIf(SetZN(P, res), "C", Negative(val))]

shift_right(P, val) ==
  LET res == val \div 2
  IN  [val |-> res, P |-> SetIf(SetZN(P, res), "C", val % 2 = 1)]

rotate_left(P, val) ==
  LET res == U8(2 * val) + Carry(P)
  IN  [val |-> res, P |-> SetIf(SetZN(P, res), "C", Negative(val))]

rotate_right(P, val) ==
  LET res == (val \div 2) + 128 * Carry(P)
  IN  [val |-> res, P |-> SetIf(SetZN(P, res), "C", val % 2 = 1)]
=============================================================================
