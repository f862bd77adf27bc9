-------------------------------- MODULE Ines --------------------------------
(***************************************************************************)
(* iNES files, as doc/nestech.txt (lines 1232-1275) lays them out: a header *)
(* of 16 bytes, then whole pages of 512 bytes: a trainer of one page if the *)
(* header says so, the 16K PRG banks, the 8K CHR banks.  What a page holds  *)
(* does not matter, so a page is known by its number after the header.      *)
(***************************************************************************)
EXTENDS Bytes

CONSTANTS
  Headers,   \* the headers considered
  Files      \* the files considered

PrgBank == 32   \* pages of a PRG bank
ChrBank == 16   \* pages of a CHR bank

(* magic: the first four bytes, as far as the file has them, are 'NES',$1a; *)
(* the other fields are the bytes 4 to 7.                                   *)
Header == [magic : BOOLEAN, prg : Byte, chr : Byte, b6 : Byte, b7 : Byte]

(* size is the number of bytes up to the end of the header, pages the       *)
(* number of complete pages that follow it.                                 *)
File == {f \in [header : Headers, size : 0 .. 16, pages : Nat] :
           f.size < 16 => f.pages = 0}

ASSUME FilesAssumption ==
  Headers # {} /\ Headers \subseteq Header /\ Files \subseteq File

(* The headers h that agree with the file as far as the file has a header.  *)
Agrees(h, f) ==
  /\ h.magic => f.header.magic
  /\ f.size >= 4 => h.magic = f.header.magic
  /\ f.size >= 5 => h.prg = f.header.prg
  /\ f.size >= 6 => h.chr = f.header.chr
  /\ f.size >= 7 => h.b6 = f.header.b6
  /\ f.size >= 8 => h.b7 = f.header.b7

-----------------------------------------------------------------------------
(* What the document says a header means.                                   *)
TrainerPages(h) == IF 2 \in Bits(h.b6) THEN 1 ELSE 0

Mapper(h) == 16 * (h.b7 \div 16) + h.b6 \div 16

FirstChrPage(h) == TrainerPages(h) + h.prg * PrgBank

Complete(h, f) ==
  \/ h.prg = 0 /\ h.chr = 0
  \/ FirstChrPage(h) + h.chr * ChrBank <= f.pages

Pages(first, count) == [p \in 0 .. count - 1 |-> first + p]

NoPages == Pages(0, 0)

DocumentedPrg(h) == Pages(TrainerPages(h), h.prg * PrgBank)
DocumentedChr(h) == Pages(FirstChrPage(h), h.chr * ChrBank)
=============================================================================
