----------------------------- MODULE MCEmulator -----------------------------
(***************************************************************************)
(* Cartridges that live from the vertical blank, on a screen of 8 lines    *)
(* of 36 dots: long enough for a handler to run between two interrupts.    *)
(***************************************************************************)
EXTENDS Emulator, Cartridges

MCGames == {"poll", "clearing", "pad"}

MCPrgRom ==
  [g \in MCGames |->
     Image(CASE g = "poll"     -> PollProgram
             [] g = "clearing" -> ClearingProgram
             [] g = "pad"      -> PadProgram)]

(* The polls of the program end: a vertical blank that is raised stays     *)
(* visible in the status until the program reads it.                       *)
PollsEnd == game = "poll" ~> PC = \h800b

(* doc/nes_emulator_dev_guide.txt lines 219-232: a program whose NMI       *)
(* routine reads $2002 still leaves its loop on the vertical blank flag,   *)
(* because a poll can find the flag set just before the NMI.               *)
PollEndsDespiteHandler == game = "clearing" ~> PC = \h8005
=============================================================================
