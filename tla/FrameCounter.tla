---------------------------- MODULE FrameCounter ----------------------------
(***************************************************************************)
(* What the PPU promises to the rest of the emulator: time is a counter of *)
(* dots that wraps at the end of a frame, and passing one given dot of the *)
(* frame, and only that, raises the vblank flag and the interrupt line.    *)
(***************************************************************************)
EXTENDS Integers

CONSTANTS FrameDots, RaiseDot

VARIABLES dot, vblank, nmi

vars == <<dot, vblank, nmi>>

Init == dot = 0 /\ vblank = FALSE /\ nmi \in BOOLEAN

Dot ==
  /\ dot' = (dot + 1) % FrameDots
  /\ vblank' = (vblank \/ dot' = RaiseDot)
  /\ nmi' = (nmi \/ dot' = RaiseDot)

ReadStatus  == vblank' = FALSE /\ UNCHANGED <<dot, nmi>>
Acknowledge == nmi' = FALSE /\ UNCHANGED <<dot, vblank>>
Restart     == dot' = 0 /\ vblank' = FALSE /\ UNCHANGED nmi

Next == Dot \/ ReadStatus \/ Acknowledge \/ Restart

Spec == Init /\ [][Next]_vars
=============================================================================
