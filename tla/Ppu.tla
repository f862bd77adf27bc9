-------------------------------- MODULE Ppu --------------------------------
(***************************************************************************)
(* The picture unit: ppu.c, which so far counts dots and scanlines and     *)
(* raises the vertical blank, and the two ways the CPU reaches into its    *)
(* state: a read of the status register and the service of the interrupt.  *)
(***************************************************************************)
EXTENDS Integers

CONSTANTS
  PPU_VBLANK_SCANLINE,   \* 240 in ppu.h
  PPU_LAST_SCANLINE,     \* 261
  PPU_LAST_LINE_POS      \* 340

ASSUME PpuAssumption ==
  /\ PPU_VBLANK_SCANLINE \in Nat
  /\ PPU_LAST_SCANLINE \in Nat
  /\ PPU_LAST_LINE_POS \in Nat
  /\ PPU_VBLANK_SCANLINE < PPU_LAST_SCANLINE
  /\ PPU_LAST_LINE_POS > 0

VARIABLES scanline, line_position, is_vblank, is_nmi

raster == <<scanline, line_position>>
vars   == <<scanline, line_position, is_vblank, is_nmi>>

(* ppu_init sets everything but is_nmi, which is as malloc returned it.    *)
Init ==
  /\ scanline = 0
  /\ line_position = 0
  /\ is_vblank = FALSE
  /\ is_nmi \in BOOLEAN

-----------------------------------------------------------------------------
(* Mutants: the position wraps one dot late; the vertical blank raised on  *)
(* every dot of its first line, or one line early.                         *)
LateLineEnd == line_position > PPU_LAST_LINE_POS
VBlankWholeLine(s, p) == s = PPU_VBLANK_SCANLINE + 1 /\ p > 0
VBlankOneLineEarly(s, p) == s = PPU_VBLANK_SCANLINE /\ p = 1

(* The comparisons of ppu_tick, after the position has been incremented.   *)
LineEnds == line_position + 1 > PPU_LAST_LINE_POS
FrameEnds(s) == s > PPU_LAST_SCANLINE
VBlankStarts(s, p) == s = PPU_VBLANK_SCANLINE + 1 /\ p = 1

ppu_tick ==
  LET p == IF LineEnds THEN 0 ELSE line_position + 1
      s == IF LineEnds THEN scanline + 1 ELSE scanline
  IN  /\ line_position' = p
      /\ scanline' = IF ~VBlankStarts(s, p) /\ FrameEnds(s) THEN 0 ELSE s
      /\ is_vblank' = (is_vblank \/ VBlankStarts(s, p))
      /\ is_nmi' = (is_nmi \/ VBlankStarts(s, p))

(* ppu_get_status: what the CPU reads, and the flag cleared by the read.   *)
Status == IF is_vblank THEN 128 ELSE 0
ppu_get_status == is_vblank' = FALSE /\ UNCHANGED <<raster, is_nmi>>

(* cpu_interrupt takes the interrupt.                                      *)
acknowledge == is_nmi /\ is_nmi' = FALSE /\ UNCHANGED <<raster, is_vblank>>

(* ppu_reset, part of the interface; main does not call it.                *)
ppu_reset ==
  /\ scanline' = 0
  /\ line_position' = 0
  /\ is_vblank' = FALSE
  /\ UNCHANGED is_nmi

Next == ppu_tick \/ ppu_get_status \/ acknowledge \/ ppu_reset

Spec == Init /\ [][Next]_vars

(* main calls ppu_tick for ever, after every instruction.                  *)
FairSpec == Spec /\ WF_vars(ppu_tick)

-----------------------------------------------------------------------------
(* The beam stays on the frame: the early wrap of the position and the     *)
(* wrap of the scanline, tested only when no vertical blank starts, never  *)
(* leave a line or a position out of range behind, at any tick.            *)
RasterInRange ==
  /\ scanline \in 0 .. PPU_LAST_SCANLINE
  /\ line_position \in 0 .. PPU_LAST_LINE_POS

TypeOK == RasterInRange /\ is_vblank \in BOOLEAN /\ is_nmi \in BOOLEAN

LineDots  == PPU_LAST_LINE_POS + 1
FrameDots == (PPU_LAST_SCANLINE + 1) * LineDots
RaiseDot  == (PPU_VBLANK_SCANLINE + 1) * LineDots + 1
Beam      == scanline * LineDots + line_position

Frame == INSTANCE FrameCounter WITH dot <- Beam, vblank <- is_vblank, nmi <- is_nmi

(* The nested counters of ppu_tick are a single counter of dots, and the   *)
(* vertical blank is raised once in its cycle, at one dot.                 *)
CountsFrames == Frame!Spec

(* The vertical blank comes round again and again, with its flag and its   *)
(* interrupt raised at its dot, unless resets do.                          *)
VBlankRecurs ==
  []<>(Beam = RaiseDot /\ is_vblank /\ is_nmi) \/ []<>(<<ppu_reset>>_vars)

(* doc/nestech.txt describes bit 7 of $2002 as telling whether the PPU is  *)
(* in the vertical blank or not.                                           *)
VBlankFlagInVBlank == is_vblank => scanline > PPU_VBLANK_SCANLINE
=============================================================================
