------------------------------ MODULE NesInfo ------------------------------
(***************************************************************************)
(* utils/nes_info.py, the other reader of iNES files in the repository.     *)
(***************************************************************************)
EXTENDS Ines

mapper(h) ==
  ByteOf({i \in 0 .. 3 : i + 4 \in Bits(h.b6)} \cup (Bits(h.b7) \cap 4 .. 7))

(* The script raises an exception for a short or foreign header, and for a  *)
(* mapper that is not in its list of eleven names.                          *)
Accepts(f) == f.size = 16 /\ f.header.magic /\ mapper(f.header) < 11

(* f.read at a position: as many pages as there are.                        *)
Read(f, first, count) ==
  Pages(first, IF first + count <= f.pages THEN count
               ELSE IF first <= f.pages THEN f.pages - first ELSE 0)

(* What it prints, and the pages it computes the checksums of.  It does not *)
(* skip a trainer.                                                          *)
Report(f) ==
  LET prgPages == f.header.prg * PrgBank
  IN  [prg     |-> f.header.prg,
       chr     |-> f.header.chr,
       mapper  |-> mapper(f.header),
       trainer |-> (f.header.b6 \div 4) % 2,
       prgRead |-> Read(f, 0, prgPages),
       chrRead |-> Read(f, prgPages, f.header.chr * ChrBank)]
=============================================================================
