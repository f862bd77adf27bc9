----------------------------- MODULE MCCallStack -----------------------------
(***************************************************************************)
(* Two cartridges whose program ends in a jump to itself, with up to       *)
(* MaxNmis interrupts at any instruction boundary.                         *)
(***************************************************************************)
EXTENDS CallStack, Cartridges

MCGames == {"sum", "wrap"}

MCPrgRom == [g \in MCGames |->
               Image(IF g = "sum" THEN SumProgram ELSE WrapProgram)]

(* What CallStackProofs assumes of the cartridges: for NmiTransparent, and *)
(* for what it says of these two programs.                                 *)
ASSUME MCHandler == \A g \in MCGames : HasHandler(MCPrgRom[g])

HasPrograms(image) ==
  Holds(image["sum"], SumProgram) /\ Holds(image["wrap"], WrapProgram)

ASSUME MCPrograms == HasPrograms(MCPrgRom)

(* Where each program ends and what it leaves there.                       *)
End == [sum |-> \h800a, wrap |-> \h800e]

Answer ==
  /\ game = "sum" => /\ A = \hc8 /\ SP = \hff
                     /\ ram[\h12] = \h58 /\ ram[\h13] = \h08
                     /\ ram[\h14] = 1
  /\ game = "wrap" => A = \h5a /\ SP = 2

AtEnd == PC = End[game] /\ frames = <<>>

(* The programs compute what the 6502 computes, through carries, shifts,   *)
(* nested calls and a stack pointer that wraps, wherever interrupts fall.  *)
ResultCorrect == AtEnd => Answer

(* The main loop comes to the end of the program.                          *)
ProgramEnds == <>AtEnd
=============================================================================
