-------------------------------- MODULE Bus --------------------------------
(***************************************************************************)
(* The address space of the CPU: cpu_get_u8, cpu_get_u16 and cpu_set_u8 of *)
(* cpu.c and the PRG accessors of mapper.c.                                *)
(*                                                                         *)
(* The save RAM is not a variable.  cpu_reset fills it with $ff and        *)
(* cpu_set_u8 has no branch that stores to it, so it stays that way.       *)
(***************************************************************************)
EXTENDS Bytes

CONSTANTS
  PastSram,   \* the byte that follows sram in cpu_t: padding, never written
  PastPrg     \* the byte that follows the 32K PRG copy on the heap

ASSUME PastBytes == PastSram \in Byte /\ PastPrg \in Byte

RamSize    == 2048
PrgSize    == 32768
SramFill   == 255
PPU_STATUS == \h2002

RamIndex == 0 .. RamSize - 1
PrgIndex == 0 .. PrgSize - 1

Ram == [RamIndex -> Byte]
Prg == [PrgIndex -> Byte]

-----------------------------------------------------------------------------
(* The addresses cpu_get_u8 has no value for: every PPU register but the   *)
(* status, the APU and I/O registers, and the expansion ROM.  Reading one  *)
(* ends the process (_panic calls exit).                                   *)
Unreadable(a) == \h2000 <= a /\ a < \h6000 /\ a # PPU_STATUS

(* cpu_get_u8, where status is what ppu_get_status returns.                *)
cpu_get_u8(ram, prg, status, a) ==
  CASE a < \h2000                  -> ram[a % RamSize]
    [] a = PPU_STATUS              -> status
    [] a >= \h6000 /\ a < \h8000   -> SramFill
    [] a >= \h8000                 -> prg[a - \h8000]
    [] OTHER                       -> 0

(* Mutant: the bytes of a word in PRG memory exchanged.                    *)
cpu_get_u16_exchanged(ram, prg, a) ==
  CASE a < \h2000 ->
         LET i == a % RamSize
         IN  u8_to_u16(ram[i], IF i + 1 = RamSize THEN SramFill ELSE ram[i + 1])
    [] a >= \h6000 /\ a < \h8000 -> u8_to_u16(SramFill, SramFill)
    [] a >= \h8000 ->
         u8_to_u16(IF a = \hffff THEN PastPrg ELSE prg[a - \h7fff],
                   prg[a - \h8000])
    [] OTHER -> 0

(* cpu_get_u16 reads words without the mirroring and the register checks   *)
(* of cpu_get_u8: the byte after the last of the RAM is the first of the   *)
(* save RAM, and anything that is not memory reads as zero.                *)
cpu_get_u16(ram, prg, a) ==
  CASE a < \h2000 ->
         LET i == a % RamSize
         IN  u8_to_u16(ram[i], IF i + 1 = RamSize THEN SramFill ELSE ram[i + 1])
    [] a >= \h6000 /\ a < \h8000 ->
         u8_to_u16(SramFill, IF a = \h7fff THEN PastSram ELSE SramFill)
    [] a >= \h8000 ->
         u8_to_u16(prg[a - \h8000],
                   IF a = \hffff THEN PastPrg ELSE prg[a - \h7fff])
    [] OTHER -> 0

(* Mutant: the mirrors of the RAM forgotten.                               *)
cpu_set_u8_once(ram, a, v) == IF a < RamSize THEN [ram EXCEPT ![a] = v] ELSE ram

(* cpu_set_u8: every store that does not hit the RAM is dropped.           *)
cpu_set_u8(ram, a, v) ==
  IF a < \h2000 THEN [ram EXCEPT ![a % RamSize] = v] ELSE ram
=============================================================================
