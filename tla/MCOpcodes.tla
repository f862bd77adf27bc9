----------------------------- MODULE MCOpcodes -----------------------------
(***************************************************************************)
(* Every opcode, executed once from the RAM, where a program may have put  *)
(* it, with operands that do and do not cross a page, wrap in the zero     *)
(* page, or name a register of the PPU.                                    *)
(***************************************************************************)
EXTENDS Manual, Cartridges

MCGames  == {"blank"}
MCPrgRom == [g \in MCGames |-> Image({Vectors(\h9000, \h8000, \ha000)})]

(* The second place puts the operand at the end of the RAM, the third is   *)
(* the register whose read clears it.                                      *)
Origins == {\h0380, \h07fe, PPU_STATUS}

(* Words wherever an instruction or a vector is, and around the ends of    *)
(* all memories.                                                           *)
MCWords ==
  Origins \cup {o + 1 : o \in Origins} \cup {NMI_VECTOR, RESET_VECTOR, IRQ_VECTOR}
    \cup 2046 .. 2049 \cup \h1ffd .. \h2004 \cup \h5ffe .. \h6001
    \cup \h7ffd .. \h8001 \cup \h8ffe .. \h9001

(* The zero page holds i at address i, so that a pointer at $ff wraps to   *)
(* $00, and $ff at $40: a pointer to $41ff, which nothing answers.         *)
MCRam(origin, code, lo, hi) ==
  [i \in RamIndex |->
     CASE i = origin                   -> code
       [] i = origin + 1               -> lo
       [] i = (origin + 2) % RamSize   -> hi
       [] i = \h40       -> \hff
       [] i < 256        -> i
       [] OTHER          -> 0]

MCInit ==
  /\ game \in Games
  /\ PC \in Origins
  /\ \E code \in Byte, lo \in {\h00, \h02, \h40, \h7f, \hff}, hi \in {\h07, \h1f, \h20, \h60} :
       ram = MCRam(PC, code, lo, hi)
  /\ A = \h81
  /\ \E r \in {<<0, \hff, 0, TRUE>>, <<\hff, 1, \hfd, FALSE>>} :
       X = r[1] /\ Y = r[2] /\ SP = r[3] /\ page_crossed = r[4]
  /\ P \in {{"U"}, {"U", "C", "Z", "N", "V"}}
  /\ clock = 0
  /\ instr_cycles = 0
  /\ is_nmi = FALSE
  /\ is_vblank = TRUE
  /\ phase = "interrupt"

(* One instruction, then nothing.                                          *)
Stop == phase \in {"ppu", "panicked"} /\ UNCHANGED vars

MCNext == NoInterrupt \/ Instruction \/ Panic \/ Stop

MCSpec == MCInit /\ [][MCNext]_vars
=============================================================================
