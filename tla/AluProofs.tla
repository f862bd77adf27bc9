----------------------------- MODULE AluProofs -----------------------------
(***************************************************************************)
(* Lemmas about the bytes and words of Bytes and the helpers of Alu: what  *)
(* they return is a byte, a word or a set of flags; the unused flag is in  *)
(* no helper's reach; and a word or a status pushed on the stack is the    *)
(* one pulled off it.                                                      *)
(***************************************************************************)
EXTENDS Alu, TLAPS

(* Bytes and words by their bounds: the provers list an interval between   *)
(* two literals element by element.                                        *)
LEMMA Bounds ==
  /\ \A n : n \in Byte <=> n \in Int /\ 0 <= n /\ n <= 255
  /\ \A n : n \in Word <=> n \in Int /\ 0 <= n /\ n <= 65535
<1>1. MaxByte \in Nat /\ MaxWord \in Nat
  BY SMT DEF MaxByte, MaxWord
<1>2. /\ \A n : n \in Byte <=> n \in Int /\ 0 <= n /\ n <= MaxByte
      /\ \A n : n \in Word <=> n \in Int /\ 0 <= n /\ n <= MaxWord
  BY <1>1, SMT DEF Byte, Word
<1> QED
  BY <1>2, SMT DEF MaxByte, MaxWord

(* The C conversions return values of their type.                          *)
LEMMA ConversionTypes ==
  /\ \A n \in Int : U8(n) \in Byte /\ U16(n) \in Word
  /\ \A b \in Byte : S8(b) \in Int
  /\ \A w \in Word : Lo(w) \in Byte /\ Hi(w) \in Byte
<1>1. \A n \in Int : U8(n) \in Byte /\ U16(n) \in Word
  BY Bounds, SMT DEF U8, U16
<1>2. \A b \in Byte : S8(b) \in Int
  BY Bounds, SMT DEF S8
<1>3. \A w \in Word : Lo(w) \in Byte /\ Hi(w) \in Byte
  BY Bounds, SMT DEF Lo, Hi
<1> QED
  BY <1>1, <1>2, <1>3

(* A word split in two bytes, as JSR, BRK and an NMI push it, is the word  *)
(* cpu_pop_u16 puts together.                                              *)
LEMMA WordOfBytes ==
  /\ \A lo, hi \in Byte : u8_to_u16(lo, hi) = lo + 256 * hi
  /\ \A lo, hi \in Byte : u8_to_u16(lo, hi) \in Word
  /\ \A w \in Word : u8_to_u16(Lo(w), Hi(w)) = w
<1>1. \A hi \in Byte : U16(256 * hi) = 256 * hi
  BY Bounds, SMT DEF U16
<1>2. \A lo, hi \in Byte : u8_to_u16(lo, hi) = lo + 256 * hi
  BY <1>1 DEF u8_to_u16
<1>3. \A lo, hi \in Byte : lo + 256 * hi \in Word
  BY Bounds, SMT
<1>4. \A w \in Word : w = Lo(w) + 256 * Hi(w)
  BY Bounds, SMT DEF Lo, Hi
<1> QED
  BY <1>2, <1>3, <1>4, ConversionTypes

(* What ByteOf adds up is a byte.                                          *)
LEMMA ByteOfType ==
  ASSUME NEW S
  PROVE  ByteOf(S) \in Byte
  BY Bounds, SMTT(30) DEF ByteOf, Weight

LEMMA LogicTypes ==
  \A a, b : /\ AndByte(a, b) \in Byte
            /\ OrByte(a, b) \in Byte
            /\ XorByte(a, b) \in Byte
  BY ByteOfType DEF AndByte, OrByte, XorByte

-----------------------------------------------------------------------------
(* The bit positions of ByteOf(S) are S.                                   *)
LEMMA BitsOfByte ==
  ASSUME NEW S \in SUBSET Bit
  PROVE  Bits(ByteOf(S)) = S
<1> DEFINE v(i) == IF i \in S THEN Weight(i) ELSE 0
<1>1. ByteOf(S) = v(0) + v(1) + v(2) + v(3) + v(4) + v(5) + v(6) + v(7)
  BY DEF ByteOf
<1>2. /\ v(0) = (IF 0 \in S THEN 1 ELSE 0)  /\ v(1) = (IF 1 \in S THEN 2 ELSE 0)
      /\ v(2) = (IF 2 \in S THEN 4 ELSE 0)  /\ v(3) = (IF 3 \in S THEN 8 ELSE 0)
      /\ v(4) = (IF 4 \in S THEN 16 ELSE 0) /\ v(5) = (IF 5 \in S THEN 32 ELSE 0)
      /\ v(6) = (IF 6 \in S THEN 64 ELSE 0) /\ v(7) = (IF 7 \in S THEN 128 ELSE 0)
  BY SMT DEF Weight
<1> HIDE DEF v
<1>3. \A i \in Bit : (ByteOf(S) \div Weight(i)) % 2 = 1 <=> i \in S
  <2>1. (ByteOf(S) \div 1) % 2 = 1 <=> 0 \in S
    BY <1>1, <1>2, SMTT(60)
  <2>2. (ByteOf(S) \div 2) % 2 = 1 <=> 1 \in S
    BY <1>1, <1>2, SMTT(60)
  <2>3. (ByteOf(S) \div 4) % 2 = 1 <=> 2 \in S
    BY <1>1, <1>2, SMTT(60)
  <2>4. (ByteOf(S) \div 8) % 2 = 1 <=> 3 \in S
    BY <1>1, <1>2, SMTT(60)
  <2>5. (ByteOf(S) \div 16) % 2 = 1 <=> 4 \in S
    BY <1>1, <1>2, SMTT(60)
  <2>6. (ByteOf(S) \div 32) % 2 = 1 <=> 5 \in S
    BY <1>1, <1>2, SMTT(60)
  <2>7. (ByteOf(S) \div 64) % 2 = 1 <=> 6 \in S
    BY <1>1, <1>2, SMTT(60)
  <2>8. (ByteOf(S) \div 128) % 2 = 1 <=> 7 \in S
    BY <1>1, <1>2, SMTT(60)
  <2>9. /\ Weight(0) = 1  /\ Weight(1) = 2  /\ Weight(2) = 4  /\ Weight(3) = 8
        /\ Weight(4) = 16 /\ Weight(5) = 32 /\ Weight(6) = 64 /\ Weight(7) = 128
    BY SMT DEF Weight
  <2> QED
    BY <2>1, <2>2, <2>3, <2>4, <2>5, <2>6, <2>7, <2>8, <2>9 DEF Bit
<1> QED
  BY <1>3 DEF Bits

(* The status register survives the stack: PHP, BRK and an NMI push the    *)
(* byte of P, and the flags pulled from that byte are those of P.          *)
THEOREM StatusRoundTrip ==
  ASSUME NEW P \in SUBSET Flag
  PROVE  PByte(P) \in Byte /\ PFlags(PByte(P)) = P
<1>1. PByte(P) \in Byte
  BY ByteOfType DEF PByte
<1>2. {FlagBit[f] : f \in P} \in SUBSET Bit
  BY DEF Flag, FlagBit, Bit
<1>3. Bits(PByte(P)) = {FlagBit[f] : f \in P}
  BY <1>2, BitsOfByte DEF PByte
<1>4. \A f, g \in Flag : FlagBit[f] = FlagBit[g] => f = g
  BY DEF Flag, FlagBit
<1> QED
  BY <1>1, <1>3, <1>4, Zenon DEF PFlags

LEMMA PFlagsType == \A b : PFlags(b) \subseteq Flag
  BY DEF PFlags

-----------------------------------------------------------------------------
(* A status that is a set of flags in which the unused one is set.         *)
Status8(P) == P \subseteq Flag /\ "U" \in P

(* The flags a helper sets or clears are not the unused one.               *)
LEMMA SetIfStatus ==
  ASSUME NEW P, NEW f \in Flag \ {"U"}, NEW cond, Status8(P)
  PROVE  Status8(SetIf(P, f, cond))
  BY DEF SetIf, Status8, Flag

LEMMA SetZNStatus ==
  ASSUME NEW P, NEW b, Status8(P)
  PROVE  Status8(SetZN(P, b))
<1>1. "Z" \in Flag \ {"U"} /\ "N" \in Flag \ {"U"}
  BY DEF Flag
<1> QED
  BY <1>1, SetIfStatus DEF SetZN

LEMMA CarryType == \A P : Carry(P) \in {0, 1}
  BY DEF Carry

(* The record a helper returns.                                            *)
Outcome(r) == r.val \in Byte /\ Status8(r.P)

LEMMA AddSubTypes ==
  ASSUME NEW P, NEW reg \in Byte, NEW val \in Byte, Status8(P)
  PROVE  Outcome(add(P, reg, val)) /\ Outcome(sub(P, reg, val))
<1>1. "C" \in Flag \ {"U"} /\ "V" \in Flag \ {"U"}
  BY DEF Flag
<1>2. /\ U8(U8(reg + val) + Carry(P)) \in Byte
      /\ U8(U8(reg - val) - (1 - Carry(P))) \in Byte
  <2>1. Carry(P) \in {0, 1}
    BY CarryType
  <2> QED
    BY <2>1, ConversionTypes, Bounds, SMT
<1>3. Status8(add(P, reg, val).P)
  BY <1>1, SetIfStatus, SetZNStatus, Zenon DEF add
<1>4. Status8(sub(P, reg, val).P)
  BY <1>1, SetIfStatus, SetZNStatus, Zenon DEF sub
<1> QED
  BY <1>2, <1>3, <1>4 DEF Outcome, add, sub

LEMMA CompareTypes ==
  ASSUME NEW P, NEW reg, NEW val, Status8(P)
  PROVE  Status8(cmp(P, reg, val)) /\ Status8(bit_test(P, reg, val))
<1>1. {"C", "V", "N", "Z"} \subseteq Flag \ {"U"}
  BY DEF Flag
<1> QED
  BY <1>1, SetIfStatus, SetZNStatus DEF cmp, bit_test

LEMMA ShiftTypes ==
  ASSUME NEW P, NEW val \in Byte, Status8(P)
  PROVE  /\ Outcome(shift_left(P, val))  /\ Outcome(shift_right(P, val))
         /\ Outcome(rotate_left(P, val)) /\ Outcome(rotate_right(P, val))
<1>1. "C" \in Flag \ {"U"}
  BY DEF Flag
<1>2. /\ U8(2 * val) \in Byte /\ val \div 2 \in Byte
      /\ U8(2 * val) + Carry(P) \in Byte
      /\ (val \div 2) + 128 * Carry(P) \in Byte
  BY CarryType, Bounds, SMT DEF U8
<1>3. \A b, c : Status8(SetIf(SetZN(P, b), "C", c))
  BY <1>1, SetIfStatus, SetZNStatus
<1> QED
  BY <1>2, <1>3 DEF Outcome, shift_left, shift_right, rotate_left, rotate_right
=============================================================================
