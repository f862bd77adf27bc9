------------------------------ MODULE AluCheck ------------------------------
(***************************************************************************)
(* The arithmetic helpers of Alu against exact integer arithmetic.  A      *)
(* state holds a register, an operand and a status on entry, one of all    *)
(* the combinations, and the outcome of the helper applied last; the steps *)
(* apply the helpers to it in turn.                                        *)
(***************************************************************************)
EXTENDS Alu

CONSTANT Statuses   \* the statuses on entry

ASSUME StatusesAssumption == Statuses \subseteq SUBSET Flag

VARIABLES reg, val, P, op, out

vars == <<reg, val, P, op, out>>

Init ==
  /\ reg \in Byte
  /\ val \in Byte
  /\ P \in Statuses
  /\ op = "none"
  /\ out = [val |-> reg, P |-> P]

Apply(from, to, outcome) ==
  /\ op \in from
  /\ op' = to
  /\ out' = outcome
  /\ UNCHANGED <<reg, val, P>>

Add      == Apply({"none", "rol"}, "add", add(P, reg, val))
Subtract == Apply({"add"}, "sub", sub(P, reg, val))
Compare  == Apply({"sub"}, "cmp", [val |-> reg, P |-> cmp(P, reg, val)])
Shift    == Apply({"cmp"}, "asl", shift_left(P, val))
Rotate   == Apply({"asl"}, "rol", rotate_left(P, val))

Next == Add \/ Subtract \/ Compare \/ Shift \/ Rotate

Spec == Init /\ [][Next]_vars

-----------------------------------------------------------------------------
(* The reference: a status from an exact result, as the pseudo-code of     *)
(* doc/6502_processor.txt lines 1423-1437 and 1676-1687 computes it.       *)
Carried(n)    == n \notin Byte
Overflowed(n) == n < -128 \/ n > 127

Sum    == reg + val + Carry(P)
SSum   == S8(reg) + S8(val) + Carry(P)
Diff   == reg - val - (1 - Carry(P))
SDiff  == S8(reg) - S8(val) - (1 - Carry(P))

Agrees(n, c, v) ==
  out = [val |-> U8(n), P |-> SetZN(SetIf(SetIf(P, "C", c), "V", v), U8(n))]

(* The only addition whose carry opcodes.c gets wrong: $FF plus zero plus  *)
(* the carry, which wraps without the operand being positive.              *)
CarryLost == reg = 255 /\ val = 0 /\ "C" \in P

(* opcodes.c add computes the exact 9-bit sum and both overflow flags, the *)
(* one lost carry apart.                                                   *)
AddIsExact ==
  op = "add" /\ ~CarryLost => Agrees(Sum, Carried(Sum), Overflowed(SSum))

(* opcodes.c sub computes the exact difference; its carry is exact unless  *)
(* equal operands meet a pending borrow, and its overflow whenever the     *)
(* subtrahend is not negative.                                             *)
SubIsExact ==
  op = "sub" =>
    /\ out.val = U8(Diff)
    /\ (reg # val \/ "C" \in P) => ("C" \in out.P <=> ~Carried(Diff))
    /\ ~Negative(val) => ("V" \in out.P <=> Overflowed(SDiff))

(* A comparison sets C, Z and N as a subtraction without borrow does, and  *)
(* leaves the other flags alone: cmp and sub of opcodes.c are written      *)
(* independently of each other.                                            *)
CmpIsSubtraction ==
  op = "cmp" =>
    LET s == sub(P \cup {"C"}, reg, val)
    IN  /\ out.P \cap {"C", "Z", "N"} = s.P \cap {"C", "Z", "N"}
        /\ out.P \ {"C", "Z", "N"} = P \ {"C", "Z", "N"}

(* A shift drops no bit: the one shifted out of the byte is in the carry,  *)
(* so a right shift or rotation with the carry put back in undoes the left *)
(* one; programs build multi-byte shifts on it.                            *)
ShiftsKeepEveryBit ==
  /\ op = "asl" =>
       shift_right(out.P, out.val).val + 128 * Carry(out.P) = val
  /\ op = "rol" =>
       LET back == rotate_right(out.P, out.val)
       IN  back.val = val /\ Carry(back.P) = Carry(P)

(* The sum of the documentation: SET_CARRY(temp > 0xff), for every operand *)
(* pair.  opcodes.c add violates it.                                       *)
AddCarryAsDocumented ==
  op = "add" => ("C" \in out.P <=> Sum > 255)

(* The comment in opcodes.c sub: if we needed to borrow, clear the flag,   *)
(* otherwise set it.  The code forgets the borrow it took for the carry.   *)
SubCarryAsCommented ==
  op = "sub" => ("C" \in out.P <=> Diff >= 0)
=============================================================================
