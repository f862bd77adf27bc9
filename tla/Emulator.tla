------------------------------ MODULE Emulator ------------------------------
(***************************************************************************)
(* The emulator: the loop of main.c over the CPU and the PPU.  Each pass   *)
(* executes one cpu_tick, then three ppu_ticks for each cycle it took.     *)
(* The two share is_nmi and is_vblank.                                     *)
(***************************************************************************)
EXTENDS Cpu

CONSTANTS PPU_VBLANK_SCANLINE, PPU_LAST_SCANLINE, PPU_LAST_LINE_POS

VARIABLES
  scanline, line_position,   \* the beam
  i                          \* the counter of the loop of ppu_ticks

Picture == INSTANCE Ppu

raster  == <<scanline, line_position>>
cpuVars == <<game, PC, SP, A, X, Y, P, ram, clock, instr_cycles, page_crossed,
             phase>>
emulatorVars == <<vars, raster, i>>

(* The frame of ppu.h, and no tick of the CPU is as long as it: 45 dots of *)
(* 89342.                                                                  *)
ASSUME FrameSizes ==
  /\ PPU_VBLANK_SCANLINE \in Nat
  /\ PPU_LAST_SCANLINE \in Nat
  /\ PPU_LAST_LINE_POS \in Nat
  /\ PPU_VBLANK_SCANLINE < PPU_LAST_SCANLINE
  /\ PPU_LAST_LINE_POS > 0

ASSUME FrameLongerThanTick == Picture!FrameDots > 45

(* Nor as long as the clock runs before it wraps, 2^64 cycles.             *)
ASSUME ClockLongerThanTick == ClockMod > 15

EmulatorInit == Init /\ Picture!Init /\ i = 0

-----------------------------------------------------------------------------
(* Mutants: the PPU ticks while the CPU is between two ticks of its own;   *)
(* the loop one dot short.                                                 *)
ppu_tick_any_time ==
  /\ i < instr_cycles * 3
  /\ i' = i + 1
  /\ Picture!ppu_tick
  /\ UNCHANGED cpuVars

LoopEndsEarly ==
  /\ i = instr_cycles * 3 - 1
  /\ PpuDone
  /\ i' = 0
  /\ UNCHANGED raster

cpu_tick ==
  /\ NoInterrupt \/ ServiceNmi \/ Instruction \/ Panic
  /\ UNCHANGED <<raster, i>>

ppu_tick ==
  /\ phase = "ppu"
  /\ i < instr_cycles * 3
  /\ i' = i + 1
  /\ Picture!ppu_tick
  /\ UNCHANGED cpuVars

LoopEnds ==
  /\ i = instr_cycles * 3
  /\ PpuDone
  /\ i' = 0
  /\ UNCHANGED raster

EmulatorNext ==
  \/ cpu_tick
  \/ ppu_tick
  \/ LoopEnds
  \/ Exited /\ UNCHANGED <<raster, i>>

(* One thread runs the loop: it is never stopped while it can go on.       *)
EmulatorSpec ==
  EmulatorInit /\ [][EmulatorNext]_emulatorVars /\ WF_emulatorVars(EmulatorNext)

-----------------------------------------------------------------------------
(* The dots of the current pass are still to come while the CPU has        *)
(* finished its instruction.                                               *)
Owed == IF phase = "ppu" THEN 3 * instr_cycles - i ELSE 0

(* How far the dots that cpu->clock stands for, less those still owed, are *)
(* from the beam.  A step in which the clock wraps turns it back by all    *)
(* the dots the clock has counted, and they need not be whole frames.      *)
Drift == (3 * clock - Owed - Picture!Beam) % Picture!FrameDots
DotsUndone == IF clock' < clock THEN 3 * ClockMod ELSE 0

(* The PPU is in step with the CPU: it starts with it, and no step moves   *)
(* one against the other, the wrap of the clock apart.  So three dots are  *)
(* drawn for each cycle of cpu->clock; no cycle is drawn twice, and none   *)
(* is dropped, by a tick, by the loop of ppu_ticks or where either wraps.  *)
InStep ==
  /\ Drift = 0
  /\ [][Drift' = (Drift - DotsUndone) % Picture!FrameDots]_emulatorVars

(* No interrupt is lost: when the PPU raises one, cpu_interrupt has taken  *)
(* the one before, although it looks only once per instruction.            *)
NoInterruptLost ==
  [][Picture!Beam' # Picture!Beam /\ Picture!Beam' = Picture!RaiseDot
       => ~is_nmi]_emulatorVars

(* An interrupt raised is served, unless the program panics.               *)
InterruptServed ==
  is_nmi ~> (phase = "panicked" \/ (phase = "execute" /\ instr_cycles = 7))

(* Every pass of the loop makes progress: the program panics, or           *)
(* vertical blanks come for ever.                                          *)
FramesKeepComing ==
  <>(phase = "panicked") \/ []<>(is_nmi /\ Picture!Beam = Picture!RaiseDot)

(* doc/nestech.txt line 289: the NMI is generated by each VBlank.          *)
NmiFromVBlank == [][ServiceNmi => is_vblank]_emulatorVars

(* The composition shows the CPU nothing its own specification does not    *)
(* allow, and likewise the PPU.                                            *)
CpuSpec == Spec
PpuSpec == Picture!Spec
=============================================================================
