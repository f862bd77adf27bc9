------------------------------- MODULE Bytes -------------------------------
(***************************************************************************)
(* The fixed-width integers the emulator computes with: uint8_t, int8_t    *)
(* and uint16_t values, the conversions C applies between them, and the    *)
(* bitwise operators, which act on the set of bit positions of a byte.     *)
(***************************************************************************)
EXTENDS Integers

MaxByte == 255
MaxWord == 65535

Byte == 0 .. MaxByte
Word == 0 .. MaxWord

(* Assigning an int to a uint8_t or a uint16_t keeps the low bits.         *)
U8(n)  == n % 256
U16(n) == n % 65536

(* The cast (int8_t) of a byte: two's complement.                          *)
S8(b) == IF b < 128 THEN b ELSE b - 256

Lo(w) == w % 256
Hi(w) == w \div 256

(* common.c: the word with low byte lo and high byte hi.                   *)
u8_to_u16(lo, hi) == lo + U16(256 * hi)

Bit == 0 .. 7

Weight(i) ==
  CASE i = 0 -> 1  [] i = 1 -> 2  [] i = 2 -> 4  [] i = 3 -> 8
    [] i = 4 -> 16 [] i = 5 -> 32 [] i = 6 -> 64 [] i = 7 -> 128

Bits(b) == {i \in Bit : (b \div Weight(i)) % 2 = 1}

ByteOf(S) ==
  LET v(i) == IF i \in S THEN Weight(i) ELSE 0
  IN  v(0) + v(1) + v(2) + v(3) + v(4) + v(5) + v(6) + v(7)

AndByte(a, b) == ByteOf(Bits(a) \cap Bits(b))
OrByte(a, b)  == ByteOf(Bits(a) \cup Bits(b))
XorByte(a, b) == ByteOf((Bits(a) \ Bits(b)) \cup (Bits(b) \ Bits(a)))
=============================================================================
