----------------------------- MODULE PpuProofs -----------------------------
(***************************************************************************)
(* Theorems about Ppu, for every size of the frame: the beam stays on the  *)
(* frame, and the two nested counters of ppu_tick implement one counter of *)
(* dots that raises the vertical blank at one dot of its cycle.            *)
(***************************************************************************)
EXTENDS Ppu, TLAPS

(* A product is monotonic in its first factor.                             *)
LEMMA ProductMonotonic ==
  ASSUME NEW a \in Nat, NEW b \in Nat, NEW L \in Nat, a <= b
  PROVE  a * L <= b * L
<1>1. PICK d \in Nat : b = a + d
  BY SMT
<1>2. b * L = a * L + d * L
  BY <1>1, SMT
<1>3. d * L \in Nat /\ a * L \in Nat
  BY SMT
<1> QED
  BY <1>2, <1>3

(* A line and a position on it are determined by their dot.                *)
LEMMA DotIsUnique ==
  ASSUME NEW L \in Nat, NEW s \in Nat, NEW t \in Nat,
         NEW p \in 0 .. L - 1, NEW q \in 0 .. L - 1,
         s * L + p = t * L + q
  PROVE  s = t /\ p = q
<1>1. s * L \in Nat /\ t * L \in Nat /\ (s + 1) * L = s * L + L /\ (t + 1) * L = t * L + L
  BY SMT
<1>2. CASE s < t
  <2>1. (s + 1) * L <= t * L
    BY <1>2, ProductMonotonic
  <2> QED
    BY <1>1, <2>1
<1>3. CASE t < s
  <2>1. (t + 1) * L <= s * L
    BY <1>3, ProductMonotonic
  <2> QED
    BY <1>1, <2>1
<1>4. CASE s = t
  BY <1>1, <1>4
<1> QED
  BY <1>2, <1>3, <1>4

-----------------------------------------------------------------------------
(* One tick of the PPU keeps the beam on the frame.                        *)
LEMMA TickStaysInRange ==
  ASSUME TypeOK, ppu_tick
  PROVE  TypeOK'
  BY PpuAssumption
  DEF TypeOK, RasterInRange, ppu_tick, LineEnds, FrameEnds, VBlankStarts

(* ppu.c: line_position and scanline stay on the frame and the flags are   *)
(* booleans, whatever ticks, status reads, interrupts and resets come.     *)
THEOREM TypeCorrect == Spec => []TypeOK
<1>1. Init => TypeOK
  <2>1. Init => RasterInRange
    BY PpuAssumption, SMT DEF Init, RasterInRange
  <2> QED
    BY <2>1 DEF Init, TypeOK
<1>2. TypeOK /\ [Next]_vars => TypeOK'
  <2> SUFFICES ASSUME TypeOK, [Next]_vars
               PROVE  TypeOK'
    OBVIOUS
  <2>1. CASE ppu_tick
    BY <2>1, TickStaysInRange
  <2>2. CASE ppu_get_status
    BY <2>2 DEF ppu_get_status, raster, TypeOK, RasterInRange
  <2>3. CASE acknowledge
    BY <2>3 DEF acknowledge, raster, TypeOK, RasterInRange
  <2>4. CASE ppu_reset
    <3>1. RasterInRange'
      BY <2>4, PpuAssumption, SMT DEF ppu_reset, RasterInRange
    <3> QED
      BY <2>4, <3>1 DEF ppu_reset, TypeOK
  <2>5. CASE UNCHANGED vars
    BY <2>5 DEF vars, TypeOK, RasterInRange
  <2> QED
    BY <2>1, <2>2, <2>3, <2>4, <2>5 DEF Next
<1> QED
  BY <1>1, <1>2, PTL DEF Spec

-----------------------------------------------------------------------------
(* The three ways ppu_tick moves the beam: along a line, to the next line, *)
(* and back to the top.                                                    *)
LEMMA BeamAdvances ==
  ASSUME TypeOK, ppu_tick
  PROVE  Beam' = (Beam + 1) % FrameDots
<1> DEFINE L == LineDots
<1>1. /\ L \in Nat /\ L > 1
      /\ scanline \in Nat /\ line_position \in Nat
      /\ scanline <= PPU_LAST_SCANLINE /\ line_position < L
  BY PpuAssumption DEF TypeOK, RasterInRange, LineDots
<1>2. /\ Beam = scanline * L + line_position
      /\ FrameDots = (PPU_LAST_SCANLINE + 1) * L
      /\ Beam' = scanline' * L + line_position'
  BY DEF Beam, FrameDots, LineDots
<1> HIDE DEF L
<1>3. /\ scanline * L \in Nat
      /\ (scanline + 1) * L = scanline * L + L
      /\ (scanline + 1) * L <= (PPU_LAST_SCANLINE + 1) * L
  BY <1>1, PpuAssumption, ProductMonotonic
<1>4. CASE ~LineEnds
  <2>1. scanline' = scanline /\ line_position' = line_position + 1
    BY <1>1, <1>4, PpuAssumption DEF ppu_tick, FrameEnds
  <2>2. Beam + 1 < FrameDots
    BY <1>1, <1>2, <1>3, <1>4, PpuAssumption DEF LineEnds, L, LineDots
  <2>3. Beam' = Beam + 1 /\ Beam \in Nat /\ FrameDots \in Nat
    BY <1>1, <1>2, <1>3, <2>1, PpuAssumption
  <2> QED
    BY <2>2, <2>3
<1>5. CASE LineEnds
  <2>1. line_position + 1 = L
    BY <1>1, <1>5, PpuAssumption DEF LineEnds, L, LineDots
  <2>2. Beam + 1 = (scanline + 1) * L
    BY <1>1, <1>2, <1>3, <2>1
  <2>3. CASE scanline = PPU_LAST_SCANLINE
    <3>1. scanline' = 0 /\ line_position' = 0
      BY <1>1, <1>5, <2>3, PpuAssumption DEF ppu_tick, FrameEnds, VBlankStarts
    <3>2. Beam' = 0 /\ Beam + 1 = FrameDots /\ FrameDots \in Nat /\ FrameDots > 0
      BY <1>1, <1>2, <1>3, <2>2, <2>3, <3>1, PpuAssumption
    <3> QED
      BY <3>2
  <2>4. CASE scanline # PPU_LAST_SCANLINE
    <3>1. scanline' = scanline + 1 /\ line_position' = 0
      BY <1>1, <1>5, <2>4, PpuAssumption DEF ppu_tick, FrameEnds, VBlankStarts
    <3>2. (scanline + 2) * L <= (PPU_LAST_SCANLINE + 1) * L
      BY <1>1, <2>4, PpuAssumption, ProductMonotonic
    <3>3. (scanline + 2) * L = (scanline + 1) * L + L
      BY <1>1
    <3>4. Beam' = Beam + 1 /\ Beam + 1 < FrameDots /\ Beam \in Nat /\ FrameDots \in Nat
      BY <1>1, <1>2, <1>3, <2>2, <3>1, <3>2, <3>3, PpuAssumption
    <3> QED
      BY <3>4
  <2> QED
    BY <2>3, <2>4
<1> QED
  BY <1>4, <1>5

(* The test of ppu_tick on line and position is a test on the dot alone.   *)
LEMMA RaisedAtOneDot ==
  ASSUME TypeOK, ppu_tick
  PROVE  /\ is_vblank' = (is_vblank \/ Beam' = RaiseDot)
         /\ is_nmi' = (is_nmi \/ Beam' = RaiseDot)
<1> DEFINE L == LineDots
           p == IF LineEnds THEN 0 ELSE line_position + 1
           s == IF LineEnds THEN scanline + 1 ELSE scanline
<1>1. L \in Nat /\ L > 1 /\ s \in Nat /\ p \in 0 .. L - 1 /\ s <= PPU_LAST_SCANLINE + 1
  BY PpuAssumption DEF TypeOK, RasterInRange, LineDots, LineEnds
<1>2. /\ line_position' = p
      /\ scanline' = IF ~VBlankStarts(s, p) /\ FrameEnds(s) THEN 0 ELSE s
      /\ is_vblank' = (is_vblank \/ VBlankStarts(s, p))
      /\ is_nmi' = (is_nmi \/ VBlankStarts(s, p))
  BY DEF ppu_tick
<1>3. Beam' = scanline' * L + line_position' /\ RaiseDot = (PPU_VBLANK_SCANLINE + 1) * L + 1
  BY DEF Beam, RaiseDot, LineDots
<1> HIDE DEF L, p, s
<1>4. ASSUME Beam' = RaiseDot PROVE VBlankStarts(s, p)
  <2>1. scanline' \in Nat /\ 1 \in 0 .. L - 1 /\ line_position' \in 0 .. L - 1
    BY <1>1, <1>2
  <2>2. scanline' = PPU_VBLANK_SCANLINE + 1 /\ line_position' = 1
    <3> DEFINE v == PPU_VBLANK_SCANLINE + 1
               t == scanline'
               q == line_position'
    <3>1. /\ v \in Nat /\ t \in Nat
          /\ q \in 0 .. L - 1 /\ 1 \in 0 .. L - 1
          /\ t * L + q = v * L + 1
      BY <1>3, <1>4, <2>1, PpuAssumption
    <3> HIDE DEF v, t, q
    <3>2. t = v /\ q = 1
      BY <1>1, <3>1, DotIsUnique
    <3> QED
      BY <3>2 DEF v, t, q
  <2> QED
    BY <1>1, <1>2, <2>2, PpuAssumption DEF VBlankStarts
<1>5. ASSUME VBlankStarts(s, p) PROVE Beam' = RaiseDot
  BY <1>1, <1>2, <1>3, <1>5 DEF VBlankStarts
<1> QED
  BY <1>2, <1>4, <1>5

(* The dots of the frame, and the dot of the vertical blank among them.     *)
LEMMA BeamOnFrame ==
  ASSUME RasterInRange
  PROVE  /\ FrameDots \in Nat /\ Beam \in Nat /\ Beam < FrameDots
         /\ RaiseDot \in Nat /\ 0 < RaiseDot /\ RaiseDot < FrameDots
<1> DEFINE L == LineDots
<1>1. /\ L \in Nat /\ L > 1
      /\ scanline \in Nat /\ line_position \in Nat
      /\ scanline <= PPU_LAST_SCANLINE /\ line_position < L
  BY PpuAssumption DEF RasterInRange, LineDots
<1>2. /\ Beam = scanline * L + line_position
      /\ FrameDots = (PPU_LAST_SCANLINE + 1) * L
      /\ RaiseDot = (PPU_VBLANK_SCANLINE + 1) * L + 1
  BY DEF Beam, FrameDots, RaiseDot, LineDots
<1> HIDE DEF L
<1>3. /\ scanline * L \in Nat /\ PPU_LAST_SCANLINE * L \in Nat
      /\ (PPU_VBLANK_SCANLINE + 1) * L \in Nat
      /\ (PPU_LAST_SCANLINE + 1) * L = PPU_LAST_SCANLINE * L + L
  BY <1>1, PpuAssumption
<1>4. /\ scanline * L <= PPU_LAST_SCANLINE * L
      /\ (PPU_VBLANK_SCANLINE + 1) * L <= PPU_LAST_SCANLINE * L
  BY <1>1, PpuAssumption, ProductMonotonic
<1> QED
  BY <1>1, <1>2, <1>3, <1>4

-----------------------------------------------------------------------------
(* ppu.c implements the frame counter: seen from outside, its line and     *)
(* position are one counter of dots, and nothing but the passage of one    *)
(* dot of the frame raises the vertical blank and the interrupt.           *)
THEOREM FrameImplemented == Spec => CountsFrames
<1>1. Init => Frame!Init
  <2>1. 0 * LineDots + 0 = 0
    BY PpuAssumption DEF LineDots
  <2> QED
    BY <2>1 DEF Init, Frame!Init, Beam
<1>2. TypeOK /\ [Next]_vars => [Frame!Next]_(Frame!vars)
  <2> SUFFICES ASSUME TypeOK, [Next]_vars
               PROVE  Frame!Next \/ UNCHANGED Frame!vars
    OBVIOUS
  <2>1. CASE ppu_tick
    BY <2>1, BeamAdvances, RaisedAtOneDot DEF Frame!Next, Frame!Dot
  <2>2. CASE ppu_get_status
    BY <2>2 DEF ppu_get_status, raster, Beam, Frame!Next, Frame!ReadStatus
  <2>3. CASE acknowledge
    BY <2>3 DEF acknowledge, raster, Beam, Frame!Next, Frame!Acknowledge
  <2>4. CASE ppu_reset
    <3>1. 0 * LineDots + 0 = 0
      BY PpuAssumption DEF LineDots
    <3> QED
      BY <2>4, <3>1 DEF ppu_reset, Beam, LineDots, Frame!Next, Frame!Restart
  <2>5. CASE UNCHANGED vars
    BY <2>5 DEF vars, Beam, Frame!vars
  <2> QED
    BY <2>1, <2>2, <2>3, <2>4, <2>5 DEF Next
<1> QED
  BY <1>1, <1>2, TypeCorrect, PTL DEF Spec, CountsFrames, Frame!Spec
=============================================================================
