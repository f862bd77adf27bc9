--------------------------- MODULE EmulatorProofs ---------------------------
(***************************************************************************)
(* Theorems about the loop of main.c over CPU and PPU, for every cartridge *)
(* and every frame longer than a tick: each stays within its own           *)
(* specification, no interrupt is lost, and no dot is lost or repeated.    *)
(***************************************************************************)
EXTENDS Emulator, CpuProofs

PictureProofs == INSTANCE PpuProofs

Beam      == Picture!Beam
FrameDots == Picture!FrameDots
RaiseDot  == Picture!RaiseDot

-----------------------------------------------------------------------------
(* What PpuProofs says of the picture of the emulator.                     *)
LEMMA Sizes == PictureProofs!PpuAssumption
  BY FrameSizes DEF PictureProofs!PpuAssumption

LEMMA SamePicture ==
  /\ Picture!TypeOK <=> PictureProofs!TypeOK
  /\ Picture!TypeOK' <=> PictureProofs!TypeOK'
  /\ Picture!RasterInRange <=> PictureProofs!RasterInRange
  /\ Picture!ppu_tick <=> PictureProofs!ppu_tick
  /\ Beam = PictureProofs!Beam /\ Beam' = PictureProofs!Beam'
  /\ FrameDots = PictureProofs!FrameDots
  /\ RaiseDot = PictureProofs!RaiseDot
  BY DEF Beam, FrameDots, RaiseDot, Picture!TypeOK, PictureProofs!TypeOK,
     Picture!RasterInRange, PictureProofs!RasterInRange,
     Picture!ppu_tick, PictureProofs!ppu_tick, Picture!LineEnds, PictureProofs!LineEnds,
     Picture!FrameEnds, PictureProofs!FrameEnds,
     Picture!VBlankStarts, PictureProofs!VBlankStarts,
     Picture!Beam, PictureProofs!Beam, Picture!LineDots, PictureProofs!LineDots,
     Picture!FrameDots, PictureProofs!FrameDots, Picture!RaiseDot, PictureProofs!RaiseDot

LEMMA OnFrame ==
  ASSUME Picture!TypeOK
  PROVE  /\ FrameDots \in Nat /\ FrameDots > 45
         /\ Beam \in Nat /\ Beam < FrameDots
         /\ RaiseDot \in Nat /\ 0 < RaiseDot /\ RaiseDot < FrameDots
<1>1. PictureProofs!RasterInRange
  BY SamePicture DEF Picture!TypeOK
<1>2. FrameDots > 45
  BY FrameLongerThanTick DEF FrameDots
<1> QED
  BY <1>1, <1>2, Sizes, SamePicture, PictureProofs!BeamOnFrame

LEMMA TickMoves ==
  ASSUME Picture!TypeOK, Picture!ppu_tick
  PROVE  /\ Picture!TypeOK'
         /\ Beam' = IF Beam + 1 = FrameDots THEN 0 ELSE Beam + 1
         /\ is_vblank' = (is_vblank \/ Beam' = RaiseDot)
         /\ is_nmi' = (is_nmi \/ Beam' = RaiseDot)
<1>1. PictureProofs!TypeOK /\ PictureProofs!ppu_tick
  BY SamePicture
<1>2. Picture!TypeOK'
  BY <1>1, Sizes, SamePicture, PictureProofs!TickStaysInRange
<1>3. /\ is_vblank' = (is_vblank \/ Beam' = RaiseDot)
      /\ is_nmi' = (is_nmi \/ Beam' = RaiseDot)
  <2>1. /\ is_vblank' = (is_vblank \/ PictureProofs!Beam' = PictureProofs!RaiseDot)
        /\ is_nmi' = (is_nmi \/ PictureProofs!Beam' = PictureProofs!RaiseDot)
    BY <1>1, Sizes, PictureProofs!RaisedAtOneDot
  <2> QED
    BY <2>1, SamePicture
<1>4. Beam' = (Beam + 1) % FrameDots
  <2>1. PictureProofs!Beam' = (PictureProofs!Beam + 1) % PictureProofs!FrameDots
    BY <1>1, Sizes, PictureProofs!BeamAdvances
  <2> QED
    BY <2>1, SamePicture
<1>5. (Beam + 1) % FrameDots = IF Beam + 1 = FrameDots THEN 0 ELSE Beam + 1
  BY OnFrame, SMT
<1> QED
  BY <1>2, <1>3, <1>4, <1>5

-----------------------------------------------------------------------------
(* Both components within their specifications.                            *)
LEMMA PictureTypes ==
  ASSUME Picture!TypeOK, [EmulatorNext]_emulatorVars
  PROVE  Picture!TypeOK'
<1> USE DEF Picture!TypeOK, Picture!RasterInRange, raster
<1>1. CASE ppu_tick
  BY <1>1, TickMoves DEF ppu_tick
<1>2. CASE cpu_tick
  <2>1. UNCHANGED raster
    BY <1>2 DEF cpu_tick
  <2>2. is_vblank' \in BOOLEAN /\ is_nmi' \in BOOLEAN
    BY <1>2
    DEF cpu_tick, NoInterrupt, ServiceNmi, TakeNmi, Instruction, Panic, ppuFlags
  <2> QED
    BY <2>1, <2>2
<1>3. CASE LoopEnds \/ (Exited /\ UNCHANGED <<raster, i>>)
  BY <1>3 DEF LoopEnds, PpuDone, Exited, vars, ppuFlags
<1>4. CASE UNCHANGED emulatorVars
  BY <1>4 DEF emulatorVars, vars
<1> QED
  BY <1>1, <1>2, <1>3, <1>4 DEF EmulatorNext

LEMMA BeamInit == EmulatorInit => Picture!TypeOK
<1>1. EmulatorInit => Picture!RasterInRange
  BY FrameSizes, SMT DEF EmulatorInit, Picture!Init, Picture!RasterInRange
<1> QED
  BY <1>1 DEF EmulatorInit, Picture!Init, Picture!TypeOK

LEMMA BeamTypes == EmulatorSpec => []Picture!TypeOK
<1>1. EmulatorInit => Picture!TypeOK
  BY BeamInit
<1>2. Picture!TypeOK /\ [EmulatorNext]_emulatorVars => Picture!TypeOK'
  BY PictureTypes
<1> QED
  BY <1>1, <1>2, PTL DEF EmulatorSpec

(* main.c shows the CPU nothing but what Cpu lets its environment do: the  *)
(* flags raised together during the loop of ppu_ticks.                     *)
THEOREM CpuImplemented == EmulatorSpec => CpuSpec
<1>1. EmulatorInit => Init
  BY DEF EmulatorInit
<1>2. ASSUME Picture!TypeOK, [EmulatorNext]_emulatorVars PROVE [Next]_vars
  <2>1. CASE ppu_tick
    <3>1. phase = "ppu" /\ UNCHANGED cpuVars
      BY <2>1 DEF ppu_tick
    <3>2. \/ is_vblank' = TRUE /\ is_nmi' = TRUE
          \/ is_vblank' = is_vblank /\ is_nmi' = is_nmi
      BY <1>2, <2>1, TickMoves DEF ppu_tick, Picture!TypeOK
    <3> QED
      BY <3>1, <3>2 DEF cpuVars, Next, PpuRaises, vars, registers
  <2>2. CASE UNCHANGED emulatorVars
    BY <2>2 DEF emulatorVars
  <2> QED
    BY <1>2, <2>1, <2>2 DEF EmulatorNext, cpu_tick, LoopEnds, Next
<1> QED
  BY <1>1, <1>2, BeamTypes, PTL DEF EmulatorSpec, CpuSpec, Spec

(* And the CPU does nothing to the PPU but read its status and acknowledge *)
(* its interrupt.                                                          *)
THEOREM PpuImplemented == EmulatorSpec => PpuSpec
<1> USE DEF Picture!vars, Picture!raster, raster, ppuFlags
<1>1. EmulatorInit => Picture!Init
  BY DEF EmulatorInit
<1>2. ASSUME Picture!TypeOK, [EmulatorNext]_emulatorVars
      PROVE  [Picture!Next]_(Picture!vars)
  <2>1. CASE ppu_tick
    BY <2>1 DEF ppu_tick, Picture!Next
  <2>2. CASE cpu_tick
    <3>1. UNCHANGED raster
      BY <2>2 DEF cpu_tick
    <3>2. CASE NoInterrupt \/ Panic
      BY <3>1, <3>2 DEF NoInterrupt, Panic
    <3>3. CASE ServiceNmi
      BY <3>1, <3>3 DEF ServiceNmi, TakeNmi, Picture!Next, Picture!acknowledge
    <3>4. CASE Instruction
      <4>1. is_nmi' = is_nmi /\ is_vblank' \in {is_vblank, FALSE}
        BY <1>2, <3>4 DEF Instruction, Picture!TypeOK
      <4> QED
        BY <3>1, <4>1 DEF Picture!Next, Picture!ppu_get_status
    <3> QED
      BY <2>2, <3>2, <3>3, <3>4 DEF cpu_tick
  <2>3. CASE LoopEnds \/ (Exited /\ UNCHANGED <<raster, i>>)
    BY <2>3 DEF LoopEnds, PpuDone, Exited, vars
  <2>4. CASE UNCHANGED emulatorVars
    BY <2>4 DEF emulatorVars, vars
  <2> QED
    BY <1>2, <2>1, <2>2, <2>3, <2>4 DEF EmulatorNext
<1> QED
  BY <1>1, <1>2, BeamTypes, PTL DEF EmulatorSpec, PpuSpec, Picture!Spec

-----------------------------------------------------------------------------
(* The two invariants of the components hold of the composition.           *)
Bounded ==
  /\ IInv
  /\ Picture!TypeOK
  /\ Beam \in Nat /\ Beam < FrameDots
  /\ RaiseDot \in Nat /\ 0 < RaiseDot /\ RaiseDot < FrameDots
  /\ FrameDots \in Nat /\ FrameDots > 45

LEMMA AlwaysBounded == EmulatorSpec => []Bounded
<1>1. IInv /\ Picture!TypeOK => Bounded
  BY OnFrame DEF Bounded
<1> QED
  BY <1>1, BeamTypes, CpuImplemented, Invariant, PTL DEF CpuSpec

-----------------------------------------------------------------------------
(* The loop of ppu_ticks.                                                  *)
LoopCounter ==
  /\ i \in Nat
  /\ phase = "ppu" => i <= 3 * instr_cycles
  /\ phase # "ppu" => i = 0

(* An interrupt that is pending during the loop was raised in this loop,   *)
(* less than its i dots ago.                                               *)
RaisedInLoop ==
  phase = "ppu" /\ is_nmi =>
    \E d \in Nat : d < i /\ (Beam = RaiseDot + d \/ Beam = RaiseDot + d - FrameDots)

InLoop == LoopCounter /\ RaisedInLoop

LEMMA SameDots == RaiseDot' = RaiseDot /\ FrameDots' = FrameDots
  BY DEF RaiseDot, FrameDots, Picture!RaiseDot, Picture!FrameDots, Picture!LineDots

LEMMA InLoopStep ==
  ASSUME Bounded, InLoop, [EmulatorNext]_emulatorVars
  PROVE  InLoop'
<1>1. instr_cycles \in Nat
  BY DEF Bounded, IInv, TypeOK, Byte, MaxByte
<1>2. CASE ppu_tick
  <2>1. /\ phase = "ppu" /\ phase' = "ppu" /\ i' = i + 1 /\ i < instr_cycles * 3
        /\ instr_cycles' = instr_cycles /\ Picture!ppu_tick
    BY <1>2 DEF ppu_tick, cpuVars
  <2>2. LoopCounter' /\ i < 45
    <3>1. instr_cycles \in 2 .. 15
      BY <2>1 DEF Bounded, IInv, TickBounded
    <3> QED
      BY <2>1, <3>1 DEF InLoop, LoopCounter
  <2>3. RaisedInLoop'
    <3>1. Beam' = IF Beam + 1 = FrameDots THEN 0 ELSE Beam + 1
      BY <2>1, TickMoves DEF Bounded
    <3>2. CASE Beam' = RaiseDot
      <4>1. 0 \in Nat /\ 0 < i' /\ Beam' = RaiseDot' + 0
        BY <2>1, <3>2, SameDots DEF Bounded, InLoop, LoopCounter
      <4> QED
        BY <4>1 DEF RaisedInLoop
    <3>3. CASE is_nmi
      <4>1. PICK d \in Nat :
              d < i /\ (Beam = RaiseDot + d \/ Beam = RaiseDot + d - FrameDots)
        BY <2>1, <3>3 DEF InLoop, RaisedInLoop
      <4>2. /\ d + 1 \in Nat /\ d + 1 < i'
            /\ Beam' = RaiseDot' + (d + 1) \/ Beam' = RaiseDot' + (d + 1) - FrameDots'
        BY <2>1, <2>2, <3>1, <4>1, SameDots DEF Bounded, InLoop, LoopCounter
      <4> QED
        BY <4>2 DEF RaisedInLoop
    <3>4. CASE ~is_nmi'
      BY <3>4 DEF RaisedInLoop
    <3>5. is_nmi' = (is_nmi \/ Beam' = RaiseDot)
      BY <2>1, TickMoves DEF Bounded
    <3> QED
      BY <3>2, <3>3, <3>4, <3>5
  <2> QED
    BY <2>2, <2>3 DEF InLoop
<1>3. CASE cpu_tick
  <2>1. CASE Instruction
    <3>1. /\ phase = "execute" /\ phase' = "ppu" /\ UNCHANGED <<i, is_nmi>>
      BY <1>3, <2>1 DEF cpu_tick, Instruction
    <3>2. ~is_nmi' /\ i' = 0
      BY <3>1 DEF Bounded, IInv, NmiBeforeInstruction, InLoop, LoopCounter
    <3>3. instr_cycles' \in Nat
      BY <2>1, InstructionSteps DEF Bounded, IInv, TypeOK, Byte, MaxByte
    <3>4. LoopCounter'
      <4>1. 0 <= 3 * instr_cycles'
        <5>1. \A n \in Nat : 0 <= 3 * n
          OBVIOUS
        <5> QED
          BY <3>3, <5>1, Zenon
      <4> QED
        BY <3>1, <3>2, <4>1 DEF LoopCounter
    <3>5. RaisedInLoop'
      BY <3>2 DEF RaisedInLoop
    <3> QED
      BY <3>4, <3>5 DEF InLoop
  <2>2. CASE NoInterrupt \/ ServiceNmi \/ Panic
    <3>1. phase # "ppu" /\ phase' # "ppu" /\ UNCHANGED i
      BY <1>3, <2>2 DEF cpu_tick, NoInterrupt, ServiceNmi, TakeNmi, Panic
    <3> QED
      BY <3>1 DEF InLoop, LoopCounter, RaisedInLoop
  <2> QED
    BY <1>3, <2>1, <2>2 DEF cpu_tick
<1>4. CASE LoopEnds
  BY <1>4 DEF LoopEnds, PpuDone, InLoop, LoopCounter, RaisedInLoop
<1>5. CASE UNCHANGED emulatorVars
  BY <1>5
  DEF emulatorVars, vars, raster, InLoop, LoopCounter, RaisedInLoop, Beam, Picture!Beam,
      Picture!LineDots
<1> QED
  BY <1>2, <1>3, <1>4, <1>5 DEF EmulatorNext, Exited, emulatorVars

LEMMA AlwaysInLoop == EmulatorSpec => []InLoop
<1>1. EmulatorInit => InLoop
  BY DEF EmulatorInit, Init, InLoop, LoopCounter, RaisedInLoop
<1>2. Bounded /\ InLoop /\ [EmulatorNext]_emulatorVars => InLoop'
  BY InLoopStep
<1> QED
  BY <1>1, <1>2, AlwaysBounded, PTL DEF EmulatorSpec

(* main.c line 50: a tick is shorter than a frame and cpu_interrupt looks  *)
(* at is_nmi between two ticks, so the PPU never raises an interrupt over  *)
(* one that is still pending.                                              *)
THEOREM NoneLost == EmulatorSpec => NoInterruptLost
<1>1. ASSUME Bounded, InLoop, [EmulatorNext]_emulatorVars,
             Beam' # Beam, Beam' = RaiseDot
      PROVE  ~is_nmi
  <2>1. ppu_tick
    BY <1>1
    DEF EmulatorNext, cpu_tick, LoopEnds, emulatorVars, raster, Beam, Picture!Beam,
        Picture!LineDots
  <2>2. phase = "ppu" /\ i < instr_cycles * 3 /\ Picture!ppu_tick
    BY <2>1 DEF ppu_tick
  <2>3. Beam' = IF Beam + 1 = FrameDots THEN 0 ELSE Beam + 1
    BY <1>1, <2>2, TickMoves DEF Bounded
  <2>4. i \in Nat /\ i < 45
    <3>1. instr_cycles \in 2 .. 15
      BY <1>1, <2>2 DEF Bounded, IInv, TickBounded
    <3> QED
      BY <1>1, <2>2, <3>1 DEF InLoop, LoopCounter
  <2>5. ASSUME is_nmi PROVE FALSE
    <3>1. PICK d \in Nat :
            d < i /\ (Beam = RaiseDot + d \/ Beam = RaiseDot + d - FrameDots)
      BY <1>1, <2>2, <2>5 DEF InLoop, RaisedInLoop
    <3> QED
      BY <1>1, <2>3, <2>4, <3>1 DEF Bounded
  <2> QED
    BY <2>5
<1>2. Bounded /\ InLoop /\ [EmulatorNext]_emulatorVars =>
        [Beam' # Beam /\ Beam' = RaiseDot => ~is_nmi]_emulatorVars
  BY <1>1
<1> QED
  BY <1>2, AlwaysBounded, AlwaysInLoop, PTL
  DEF EmulatorSpec, NoInterruptLost, Beam, RaiseDot

-----------------------------------------------------------------------------
(* Remainders.                                                             *)
LEMMA Division ==
  ASSUME NEW F \in Nat, F > 0, NEW x \in Int
  PROVE  /\ x % F \in 0 .. F - 1
         /\ \E q \in Int : x = q * F + (x % F)
<1>1. x \div F \in Int /\ x % F \in 0 .. F - 1 /\ x = F * (x \div F) + (x % F)
  BY SMT
<1>2. F * (x \div F) = (x \div F) * F
  BY <1>1, SMT
<1> QED
  BY <1>1, <1>2, Zenon

LEMMA SameRemainder ==
  ASSUME NEW F \in Nat, F > 0, NEW x \in Int, NEW k \in Int
  PROVE  (x + k * F) % F = x % F
<1> DEFINE y == x + k * F
           r == x % F
           s == y % F
<1>1. y \in Int /\ y = x + k * F
  OBVIOUS
<1> HIDE DEF y
<1>2. r \in 0 .. F - 1 /\ \E p \in Int : x = p * F + r
  BY Division, Zenon
<1>3. s \in 0 .. F - 1 /\ \E q \in Int : y = q * F + s
  BY <1>1, Division, Zenon
<1> HIDE DEF r, s
<1>4. PICK p \in Int : x = p * F + r
  BY <1>2
<1>5. PICK q \in Int : y = q * F + s
  BY <1>3
<1>6. (p + k - q) * F = s - r
  BY <1>1, <1>2, <1>3, <1>4, <1>5, SMT
<1>7. CASE p + k - q >= 1
  <2>1. PICK d \in Nat : p + k - q = d + 1
    BY <1>7
  <2>2. (p + k - q) * F = d * F + F /\ d * F >= 0
    BY <2>1, SMT
  <2> QED
    BY <1>2, <1>3, <1>6, <2>2
<1>8. CASE p + k - q <= -1
  <2>1. PICK d \in Nat : p + k - q = -1 - d
    BY <1>8
  <2>2. (p + k - q) * F = -(d * F) - F /\ d * F >= 0
    BY <2>1, SMT
  <2> QED
    BY <1>2, <1>3, <1>6, <2>2
<1>9. CASE p + k - q = 0
  <2>1. s = r
    BY <1>2, <1>3, <1>6, <1>9
  <2> QED
    BY <2>1 DEF r, s, y
<1> QED
  BY <1>7, <1>8, <1>9

(* A sum that is less than twice its modulus.                              *)
LEMMA WrapsOnce ==
  ASSUME NEW M \in Nat, NEW c \in 0 .. M - 1, NEW n \in Nat, n < M
  PROVE  (c + n) % M = IF c + n < M THEN c + n ELSE c + n - M
<1>1. M > 0 /\ c + n \in Int /\ c + n < 2 * M
  OBVIOUS
<1>2. (c + n) % M \in 0 .. M - 1
  BY <1>1, Division
<1>3. PICK q \in Int : c + n = q * M + ((c + n) % M)
  BY <1>1, Division
<1> DEFINE r == (c + n) % M
<1> HIDE DEF r
<1>4. q = 0 \/ q = 1
  <2>1. CASE q >= 2
    <3>1. q * M >= 2 * M
      BY <2>1, <1>1, SMT
    <3> QED
      BY <1>1, <1>2, <1>3, <3>1 DEF r
  <2>2. CASE q <= -1
    <3>1. q * M <= -M
      BY <2>2, <1>1, SMT
    <3> QED
      BY <1>1, <1>2, <1>3, <3>1 DEF r
  <2> QED
    BY <2>1, <2>2
<1>5. CASE q = 0
  BY <1>1, <1>2, <1>3, <1>5 DEF r
<1>6. CASE q = 1
  BY <1>1, <1>2, <1>3, <1>6 DEF r
<1> QED
  BY <1>4, <1>5, <1>6

-----------------------------------------------------------------------------
(* The dots that cpu->clock stands for, less those still to come.          *)
Drawn == 3 * clock - Owed - Beam

LEMMA DriftOfDrawn == Drift = Drawn % FrameDots
  BY Zenon DEF Drift, Drawn, Beam, FrameDots

LEMMA Counters ==
  ASSUME Bounded, InLoop
  PROVE  /\ clock \in 0 .. ClockMod - 1 /\ instr_cycles \in Nat /\ i \in Nat
         /\ Beam \in Nat /\ Owed \in Int /\ Drawn \in Int
<1>1. /\ clock \in 0 .. ClockMod - 1 /\ instr_cycles \in Nat /\ i \in Nat
      /\ Beam \in Nat
  BY ClockAssumption DEF Bounded, IInv, TypeOK, Byte, MaxByte, InLoop, LoopCounter
<1>2. Owed \in Int
  BY <1>1 DEF Owed
<1> QED
  BY <1>1, <1>2, ClockAssumption DEF Drawn

(* How a step changes it: by a whole frame where the beam wraps, and by    *)
(* what the clock loses where the clock does.                              *)
LEMMA DrawnChanges ==
  ASSUME Bounded, InLoop, [EmulatorNext]_emulatorVars
  PROVE  \/ Drawn' = Drawn - DotsUndone
         \/ Drawn' = Drawn - DotsUndone + FrameDots
<1>1. FrameDots \in Nat /\ ClockMod \in Nat /\ ClockMod > 15
  BY ClockAssumption, ClockLongerThanTick DEF Bounded
<1>2. clock' = clock => DotsUndone = 0
  BY Counters, ClockAssumption DEF DotsUndone
<1>3. CASE ppu_tick
  <2>1. /\ phase = "ppu" /\ i' = i + 1 /\ UNCHANGED <<phase, clock, instr_cycles>>
        /\ Picture!ppu_tick
    BY <1>3 DEF ppu_tick, cpuVars
  <2>2. Owed' = Owed - 1
    BY <2>1, Counters DEF Owed
  <2>3. Beam' = IF Beam + 1 = FrameDots THEN 0 ELSE Beam + 1
    BY <2>1, TickMoves DEF Bounded
  <2>4. Drawn' = 3 * clock - (Owed - 1) - Beam'
    BY <2>1, <2>2 DEF Drawn
  <2> QED
    BY <1>1, <1>2, <2>1, <2>3, <2>4, Counters, ClockAssumption DEF Drawn
<1>4. CASE cpu_tick /\ Instruction
  <2>1. /\ phase = "execute" /\ phase' = "ppu" /\ UNCHANGED <<i, raster>>
        /\ clock' = (clock + instr_cycles') % ClockMod
    BY <1>4 DEF cpu_tick, Instruction
  <2>2. instr_cycles' \in Nat /\ instr_cycles' < ClockMod
    <3>1. IInv'
      BY <1>4, InstructionSteps DEF Bounded
    <3>2. instr_cycles' \in 2 .. 15
      BY <2>1, <3>1 DEF IInv, TickBounded
    <3> QED
      BY <1>1, <3>2
  <2>3. Owed = 0 /\ Owed' = 3 * instr_cycles' /\ Beam' = Beam
    <3>1. i = 0
      BY <2>1 DEF InLoop, LoopCounter
    <3>2. Owed' = 3 * instr_cycles' - 0
      BY <2>1, <3>1 DEF Owed
    <3> QED
      BY <2>1, <2>2, <3>2 DEF Owed, raster, Beam, Picture!Beam, Picture!LineDots
  <2>4. clock' = IF clock + instr_cycles' < ClockMod THEN clock + instr_cycles'
                                                     ELSE clock + instr_cycles' - ClockMod
    BY <1>1, <2>1, <2>2, Counters, WrapsOnce
  <2>5. Drawn' = 3 * clock' - 3 * instr_cycles' - Beam
    BY <2>3 DEF Drawn
  <2>6. Drawn = 3 * clock - 0 - Beam
    BY <2>3 DEF Drawn
  <2> QED
    BY <1>1, <2>2, <2>4, <2>5, <2>6, Counters DEF DotsUndone
<1>5. CASE UNCHANGED <<clock, raster, Owed>>
  <2>1. Drawn' = Drawn
    BY <1>5 DEF Drawn, raster, Beam, Picture!Beam, Picture!LineDots
  <2> QED
    BY <1>2, <1>5, <2>1, Counters
<1>6. CASE cpu_tick /\ (NoInterrupt \/ ServiceNmi \/ Panic)
  BY <1>5, <1>6 DEF cpu_tick, NoInterrupt, ServiceNmi, TakeNmi, Panic, Owed
<1>7. CASE LoopEnds
  <2>1. Owed = 0 /\ Owed' = 0
    BY <1>7, Counters DEF LoopEnds, PpuDone, Owed
  <2> QED
    BY <1>5, <1>7, <2>1 DEF LoopEnds, PpuDone
<1>8. CASE UNCHANGED emulatorVars
  BY <1>5, <1>8 DEF emulatorVars, vars, Owed
<1> QED
  BY <1>3, <1>4, <1>6, <1>7, <1>8
  DEF EmulatorNext, cpu_tick, Exited, emulatorVars

LEMMA DriftChanges ==
  ASSUME Bounded, InLoop, [EmulatorNext]_emulatorVars
  PROVE  Drift' = (Drift - DotsUndone) % FrameDots
<1> DEFINE F == FrameDots
           w == DotsUndone
<1>1. F \in Nat /\ F > 0 /\ Drawn \in Int /\ w \in Int
  BY Counters, ClockAssumption DEF Bounded, DotsUndone
<1>2. Drawn' = Drawn - w \/ Drawn' = Drawn - w + F
  BY DrawnChanges
<1>3. Drift' = Drawn' % F
  BY SameDots, Zenon DEF Drift, Drawn, Beam, FrameDots, Picture!FrameDots, Picture!LineDots
<1>4. Drift \in Int /\ \E q \in Int : Drawn = q * F + Drift
  BY <1>1, DriftOfDrawn, Division
<1>5. PICK q \in Int : Drawn = q * F + Drift
  BY <1>4
<1> HIDE DEF F, w
<1>6. \A k \in Int : (Drift - w + k * F) % F = (Drift - w) % F
  <2>1. Drift - w \in Int
    BY <1>1, <1>4
  <2> QED
    BY <1>1, <2>1, SameRemainder
<1>7. q + 1 \in Int /\ q * F \in Int /\ (q + 1) * F = q * F + F
  BY <1>1, SMT
<1>8. \/ Drawn' = Drift - w + q * F
      \/ Drawn' = Drift - w + (q + 1) * F
  BY <1>1, <1>2, <1>4, <1>5, <1>7
<1>9. Drawn' % F = (Drift - w) % F
  <2>1. CASE Drawn' = Drift - w + q * F
    BY <1>5, <1>6, <2>1
  <2>2. CASE Drawn' = Drift - w + (q + 1) * F
    <3>1. (Drift - w + (q + 1) * F) % F = (Drift - w) % F
      BY <1>6, <1>7, Zenon
    <3> QED
      BY <2>2, <3>1, Zenon
  <2> QED
    BY <1>8, <2>1, <2>2
<1> QED
  BY <1>3, <1>9 DEF F, w

(* main.c line 50: three dots are drawn for each cycle, none is dropped and*)
(* none repeated, whatever the size of the frame and wherever the clock    *)
(* wraps: at 2^64, which is no multiple of the frame, as anywhere.         *)
THEOREM ThreeDotsPerCycle == EmulatorSpec => InStep
<1>1. EmulatorInit => Drift = 0
  <2> SUFFICES ASSUME EmulatorInit PROVE Drift = 0
    OBVIOUS
  <2>1. Drawn = 0
    <3>1. 0 * Picture!LineDots + 0 = 0 /\ 3 * 0 - 0 - 0 = 0
      BY FrameSizes DEF Picture!LineDots
    <3>2. Beam = 0 /\ clock = 0 /\ Owed = 0
      BY <3>1 DEF EmulatorInit, Init, Picture!Init, Beam, Picture!Beam, Owed
    <3> QED
      BY <3>1, <3>2, Zenon DEF Drawn
  <2>2. FrameDots \in Nat /\ FrameDots > 0
    BY BeamInit, OnFrame
  <2>3. 0 % FrameDots = 0
    BY <2>2
  <2> QED
    BY <2>1, <2>3, DriftOfDrawn
<1>2. Bounded /\ InLoop /\ [EmulatorNext]_emulatorVars =>
        [Drift' = (Drift - DotsUndone) % Picture!FrameDots]_emulatorVars
  BY DriftChanges DEF FrameDots
<1> QED
  BY <1>1, <1>2, AlwaysBounded, AlwaysInLoop, PTL DEF EmulatorSpec, InStep
=============================================================================
