--------------------------- MODULE AluCheckProofs ---------------------------
(***************************************************************************)
(* The helpers of opcodes.c against exact arithmetic, for every status on  *)
(* entry: which results, carries and overflows they compute, with the      *)
(* exceptions the properties of AluCheck name and no other.                *)
(***************************************************************************)
EXTENDS AluCheck, AluProofs

(* The outcome is that of the helper applied last.                         *)
Applied ==
  /\ op = "add" => out = add(P, reg, val)
  /\ op = "sub" => out = sub(P, reg, val)
  /\ op = "cmp" => out = [val |-> reg, P |-> cmp(P, reg, val)]
  /\ op = "asl" => out = shift_left(P, val)
  /\ op = "rol" => out = rotate_left(P, val)

IInv == reg \in Byte /\ val \in Byte /\ P \subseteq Flag /\ Applied

LEMMA Invariant == Spec => []IInv
<1>1. Init => IInv
  BY StatusesAssumption DEF Init, IInv, Applied
<1>2. IInv /\ [Next]_vars => IInv'
  <2> SUFFICES ASSUME IInv, [Next]_vars PROVE IInv'
    OBVIOUS
  <2>1. UNCHANGED <<reg, val, P>>
    BY DEF Next, Add, Subtract, Compare, Shift, Rotate, Apply, vars
  <2>2. Applied'
    <3>1. CASE Add
      BY <3>1, Zenon DEF Add, Apply, Applied
    <3>2. CASE Subtract
      BY <3>2, Zenon DEF Subtract, Apply, Applied
    <3>3. CASE Compare
      BY <3>3, Zenon DEF Compare, Apply, Applied
    <3>4. CASE Shift
      BY <3>4, Zenon DEF Shift, Apply, Applied
    <3>5. CASE Rotate
      BY <3>5, Zenon DEF Rotate, Apply, Applied
    <3>6. CASE UNCHANGED vars
      BY <3>6, Zenon DEF IInv, vars, Applied
    <3> QED
      BY <3>1, <3>2, <3>3, <3>4, <3>5, <3>6 DEF Next
  <2> QED
    BY <2>1, <2>2, Zenon DEF IInv
<1> QED
  BY <1>1, <1>2, PTL DEF Spec

-----------------------------------------------------------------------------
(* Wrapping twice is wrapping once.                                        *)
LEMMA Wraps ==
  ASSUME NEW m \in Int, NEW n \in Int
  PROVE  U8(U8(m) + n) = U8(m + n)
  BY SMT DEF U8

(* Carry and overflow of an addition, from the operands and the result.    *)
LEMMA AddFlags ==
  ASSUME NEW a \in Byte, NEW b \in Byte, NEW c \in {0, 1},
         ~(a = 255 /\ b = 0 /\ c = 1)
  PROVE  /\ (U8(a + b + c) <= a /\ b > 0) <=> Carried(a + b + c)
         /\ (Negative(a) = Negative(b) /\ Negative(a) # Negative(U8(a + b + c)))
              <=> Overflowed(S8(a) + S8(b) + c)
<1>1. a \in Int /\ b \in Int /\ 0 <= a /\ a <= 255 /\ 0 <= b /\ b <= 255
  BY Bounds
<1>2. Carried(a + b + c) <=> a + b + c > 255
  BY <1>1, Bounds DEF Carried
<1>3. U8(a + b + c) = IF a + b + c > 255 THEN a + b + c - 256 ELSE a + b + c
  BY <1>1, SMT DEF U8
<1>4. U8(a + b + c) <= a /\ b > 0 <=> a + b + c > 255
  BY <1>1, <1>3
<1>5. (Negative(a) = Negative(b) /\ Negative(a) # Negative(U8(a + b + c)))
              <=> Overflowed(S8(a) + S8(b) + c)
  BY <1>1, <1>3 DEF Negative, S8, Overflowed
<1> QED
  BY <1>2, <1>4, <1>5

(* opcodes.c add is exact for every status, the one lost carry apart.      *)
THEOREM AddExact == Spec => []AddIsExact
<1>1. ASSUME IInv, op = "add", ~CarryLost
      PROVE  Agrees(Sum, Carried(Sum), Overflowed(SSum))
  <2> DEFINE c == Carry(P)
  <2>1. /\ reg \in Byte /\ val \in Byte /\ c \in {0, 1} /\ reg \in Int /\ val \in Int
        /\ c \in Int /\ out = add(P, reg, val)
    BY <1>1, CarryType, Bounds DEF IInv, Applied
  <2>2. ~(reg = 255 /\ val = 0 /\ c = 1)
    BY <1>1 DEF CarryLost, Carry
  <2>3. U8(U8(reg + val) + c) = U8(Sum)
    BY <2>1, Wraps DEF Sum
  <2>4. /\ (U8(Sum) <= reg /\ val > 0) <=> Carried(Sum)
        /\ (Negative(reg) = Negative(val) /\ Negative(reg) # Negative(U8(Sum)))
             <=> Overflowed(SSum)
    <3> HIDE DEF c
    <3> QED
      BY <2>1, <2>2, AddFlags DEF Sum, SSum, c
  <2>5. out = [val |-> U8(Sum),
               P |-> SetZN(SetIf(SetIf(P, "C", U8(Sum) <= reg /\ val > 0), "V",
                              /\ Negative(reg) = Negative(val)
                              /\ Negative(reg) # Negative(U8(Sum))), U8(Sum))]
    BY <2>1, <2>3, Zenon DEF add
  <2>6. \A S, f : /\ SetIf(S, f, U8(Sum) <= reg /\ val > 0) = SetIf(S, f, Carried(Sum))
                  /\ SetIf(S, f, /\ Negative(reg) = Negative(val)
                                 /\ Negative(reg) # Negative(U8(Sum)))
                       = SetIf(S, f, Overflowed(SSum))
    BY <2>4, Zenon DEF SetIf
  <2> QED
    BY <2>5, <2>6, Zenon DEF Agrees
<1> QED
  BY <1>1, Invariant, PTL DEF AddIsExact

-----------------------------------------------------------------------------
(* The carry of a difference, and its overflow for a positive subtrahend.  *)
LEMMA SubFlags ==
  ASSUME NEW a \in Byte, NEW b \in Byte, NEW c \in {0, 1}
  PROVE  LET res == U8(a - b - (1 - c))
         IN  /\ (a # b \/ c = 1) => (b <= a <=> ~Carried(a - b - (1 - c)))
             /\ ~Negative(b) =>
                  (S8(res) > S8(a) /\ Negative(a) # Negative(res)
                     <=> Overflowed(S8(a) - S8(b) - (1 - c)))
<1> DEFINE n == a - b - (1 - c)
<1>1. a \in Int /\ b \in Int /\ 0 <= a /\ a <= 255 /\ 0 <= b /\ b <= 255
  BY Bounds
<1>2. n \in Int /\ (Carried(n) <=> n < 0)
  BY <1>1, Bounds DEF Carried
<1>3. U8(n) = IF n < 0 THEN n + 256 ELSE n
  BY <1>1, SMT DEF U8
<1>4. (a # b \/ c = 1) => (b <= a <=> ~Carried(n))
  BY <1>1, <1>2
<1>5. ~Negative(b) => (S8(U8(n)) > S8(a) /\ Negative(a) # Negative(U8(n))
                         <=> Overflowed(S8(a) - S8(b) - (1 - c)))
  BY <1>1, <1>3 DEF Negative, S8, Overflowed
<1> QED
  BY <1>4, <1>5

(* opcodes.c sub: the difference is exact; its carry but for equal operands*)
(* with a borrow, its overflow for subtrahends that are not negative.      *)
THEOREM SubExact == Spec => []SubIsExact
<1>1. ASSUME IInv, op = "sub"
      PROVE  /\ out.val = U8(Diff)
             /\ (reg # val \/ "C" \in P) => ("C" \in out.P <=> ~Carried(Diff))
             /\ ~Negative(val) => ("V" \in out.P <=> Overflowed(SDiff))
  <2> DEFINE c == Carry(P)
             res == U8(Diff)
  <2>1. /\ reg \in Byte /\ val \in Byte /\ c \in {0, 1} /\ reg \in Int /\ val \in Int
        /\ c \in Int /\ out = sub(P, reg, val)
    BY <1>1, CarryType, Bounds DEF IInv, Applied
  <2>2. "C" \in P <=> c = 1
    BY DEF Carry
  <2>3. U8(U8(reg - val) - (1 - c)) = res
    <3>1. reg - val \in Int /\ 0 - (1 - c) \in Int
      BY <2>1
    <3>2. U8(U8(reg - val) + (0 - (1 - c))) = U8(reg - val + (0 - (1 - c)))
      BY <3>1, Wraps
    <3>3. \A m \in Int : m + (0 - (1 - c)) = m - (1 - c)
      BY <2>1
    <3>4. U8(reg - val) \in Int
      BY <3>1, ConversionTypes, Bounds
    <3> QED
      BY <3>1, <3>2, <3>3, <3>4 DEF Diff
  <2>4. out = [val |-> res,
               P |-> SetZN(SetIf(SetIf(P, "C", val <= reg), "V",
                              S8(res) > S8(reg) /\ Negative(reg) # Negative(res)), res)]
    BY <2>1, <2>3, Zenon DEF sub
  <2>5. /\ "C" \in out.P <=> val <= reg
        /\ "V" \in out.P <=> (S8(res) > S8(reg) /\ Negative(reg) # Negative(res))
    <3> HIDE DEF res
    <3> QED
      BY <2>4 DEF SetZN, SetIf
  <2>6. /\ (reg # val \/ c = 1) => (val <= reg <=> ~Carried(Diff))
        /\ ~Negative(val) => (S8(res) > S8(reg) /\ Negative(reg) # Negative(res)
                                <=> Overflowed(SDiff))
    <3> HIDE DEF c
    <3> QED
      BY <2>1, SubFlags DEF Diff, SDiff, c
  <2>7. out.val = res
    BY <2>4
  <2> HIDE DEF c, res
  <2> QED
    BY <2>2, <2>5, <2>6, <2>7, Zenon DEF res
<1> QED
  BY <1>1, Invariant, PTL DEF SubIsExact

(* opcodes.c cmp and sub agree on C, Z and N.                              *)
THEOREM CmpSubtracts == Spec => []CmpIsSubtraction
<1>1. ASSUME IInv, op = "cmp"
      PROVE  LET s == sub(P \cup {"C"}, reg, val)
             IN  /\ out.P \cap {"C", "Z", "N"} = s.P \cap {"C", "Z", "N"}
                 /\ out.P \ {"C", "Z", "N"} = P \ {"C", "Z", "N"}
  <2> DEFINE s == sub(P \cup {"C"}, reg, val)
             d == U8(reg - val)
             v == S8(d) > S8(reg) /\ Negative(reg) # Negative(d)
  <2>1. reg \in Int /\ val \in Int /\ out.P = SetZN(SetIf(P, "C", reg >= val), d)
    BY <1>1, Bounds DEF IInv, Applied, cmp
  <2>2. U8(U8(reg - val) - (1 - Carry(P \cup {"C"}))) = d
    BY <2>1, SMT DEF Carry, U8
  <2>3. s.P = SetZN(SetIf(SetIf(P \cup {"C"}, "C", val <= reg), "V", v), d)
    BY <2>2, Zenon DEF sub
  <2>4. reg >= val <=> val <= reg
    BY <2>1
  <2> HIDE DEF d, s, v
  <2>5. out.P \cap {"C", "Z", "N"} = s.P \cap {"C", "Z", "N"}
    BY <2>1, <2>3, <2>4 DEF SetZN, SetIf
  <2>6. out.P \ {"C", "Z", "N"} = P \ {"C", "Z", "N"}
    BY <2>1 DEF SetZN, SetIf
  <2> QED
    BY <2>5, <2>6, Zenon DEF s
<1> QED
  BY <1>1, Invariant, PTL DEF CmpIsSubtraction

-----------------------------------------------------------------------------
(* opcodes.c: no shift or rotation loses a bit.                            *)
THEOREM ShiftsExact == Spec => []ShiftsKeepEveryBit
<1>1. ASSUME IInv, op = "asl"
      PROVE  shift_right(out.P, out.val).val + 128 * Carry(out.P) = val
  <2>1. /\ val \in Int /\ 0 <= val /\ val <= 255
        /\ out = shift_left(P, val)
    BY <1>1, Bounds DEF IInv, Applied
  <2>2. out.val = U8(2 * val) /\ Carry(out.P) = IF Negative(val) THEN 1 ELSE 0
    BY <2>1 DEF shift_left, Carry, SetIf
  <2>3. shift_right(out.P, out.val).val = out.val \div 2
    BY DEF shift_right
  <2> QED
    BY <2>1, <2>2, <2>3 DEF Negative, U8
<1>2. ASSUME IInv, op = "rol"
      PROVE  LET back == rotate_right(out.P, out.val)
             IN  back.val = val /\ Carry(back.P) = Carry(P)
  <2> DEFINE c == Carry(P)
  <2>1. /\ val \in Int /\ 0 <= val /\ val <= 255 /\ c \in {0, 1}
        /\ out = rotate_left(P, val)
    BY <1>1, <1>2, CarryType, Bounds DEF IInv, Applied
  <2>2. out.val = U8(2 * val) + c /\ Carry(out.P) = IF Negative(val) THEN 1 ELSE 0
    BY <2>1 DEF rotate_left, Carry, SetIf
  <2>3. /\ rotate_right(out.P, out.val).val = (out.val \div 2) + 128 * Carry(out.P)
        /\ Carry(rotate_right(out.P, out.val).P) = IF out.val % 2 = 1 THEN 1 ELSE 0
    BY DEF rotate_right, Carry, SetIf
  <2> HIDE DEF c
  <2> QED
    BY <2>1, <2>2, <2>3 DEF Negative, U8, c
<1> QED
  BY <1>1, <1>2, Invariant, PTL DEF ShiftsKeepEveryBit
=============================================================================
