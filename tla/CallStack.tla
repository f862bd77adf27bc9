------------------------------ MODULE CallStack ------------------------------
(***************************************************************************)
(* The discipline of the hardware stack.  frames remembers, innermost      *)
(* last, what each JSR, BRK and NMI of cpu.c and opcodes.c must have saved *)
(* and not yet given back; the bytes themselves live in ram, where pushes  *)
(* and interrupts of any depth go over them.                               *)
(***************************************************************************)
EXTENDS Cpu, SequencesExt

CONSTANT MaxNmis   \* bound: interrupts raised in one execution

ASSUME MaxNmisAssumption == MaxNmis \in Nat

VARIABLES frames, nmis

stackVars == <<vars, frames, nmis>>

Frame(kind, return) ==
  [kind |-> kind, return |-> return, SP |-> SP, P |-> P, saved |-> registers]

Enter(kind, return) ==
  frames' = Append(frames, Frame(kind, return)) /\ UNCHANGED nmis

Leave == frames # <<>> /\ frames' = Front(frames) /\ UNCHANGED nmis

StackInit == Init /\ frames = <<>> /\ nmis = 0

(* What an instruction does to the frames.                                 *)
Effect(op) ==
  CASE op = "JSR"            -> Enter("call", U16(PC + 3))
    [] op = "BRK"            -> Enter("break", U16(PC + 2))
    [] op \in {"RTS", "RTI"} -> Leave
    [] OTHER                 -> UNCHANGED <<frames, nmis>>

StackNext ==
  \/ Instruction /\ Effect(entry.op)
  \/ ServiceNmi /\ Enter("nmi", PC)
  \/ /\ PpuRaises
     /\ ~is_nmi
     /\ nmis < MaxNmis
     /\ nmis' = nmis + 1
     /\ UNCHANGED frames
  \/ /\ NoInterrupt \/ Panic \/ PpuDone \/ Exited
     /\ UNCHANGED <<frames, nmis>>

StackSpec == StackInit /\ [][StackNext]_stackVars /\ WF_stackVars(StackNext)

-----------------------------------------------------------------------------
(* The address a frame put on the stack, the values its status may have    *)
(* there, and those of its bytes, by distance below its SP.  BRK pushes B  *)
(* as set.  What B is in the status of an NMI is left open: cpu.c line 397 *)
(* sets it, the documents say that it is clear.                            *)
Pushed(f) == IF f.kind = "call" THEN U16(f.return - 1) ELSE f.return

StatusBytes(f) ==
  {PByte(f.P \cup {"B"})} \cup (IF f.kind = "nmi" THEN {PByte(f.P \ {"B"})} ELSE {})

Saved(f) ==
  IF f.kind = "call"
    THEN <<{Hi(Pushed(f))}, {Lo(Pushed(f))}>>
    ELSE <<{Hi(Pushed(f))}, {Lo(Pushed(f))}, StatusBytes(f)>>

(* Until it returns, the return address and the status an instruction or   *)
(* an interrupt has pushed stay in ram as pushed, at every depth and where *)
(* SP wraps.                                                               *)
FramesIntact ==
  \A i \in 1 .. Len(frames) :
    LET bytes == Saved(frames[i])
    IN  \A k \in 1 .. Len(bytes) :
          ram[StackAt(frames[i].SP - (k - 1))] \in bytes[k]

(* doc/nestech.txt lines 342-345, doc/6502_cpu.txt lines 203-208: a handler *)
(* tells a BRK from an interrupt by the B of the status on the stack, set   *)
(* by the one and clear for the other.  cpu.c line 397 sets it for both.    *)
BreakFlagTells ==
  \A i \in 1 .. Len(frames) :
    frames[i].kind # "call" =>
      ("B" \in PFlags(ram[StackAt(frames[i].SP - 2)]) <=> frames[i].kind = "break")

(* What the handlers of opcodes.c ask of a program.  Untouched: no step,   *)
(* pushes included, writes over a frame that is open.                      *)
Area(f) == {StackAt(f.SP - k) : k \in 0 .. Len(Saved(f)) - 1}

Untouched == \A i \in 1 .. Len(frames) : \A a \in Area(frames[i]) : ram'[a] = ram[a]

DisciplinedStep ==
  /\ Untouched
  /\ Len(frames') < Len(frames) =>
       LET f == Last(frames)
       IN  /\ f.kind = "call" <=> entry.op = "RTS"
           /\ SP = U8(f.SP - Len(Saved(f)))

(* A program that leaves open frames alone and gives back what it pushes,  *)
(* so that it returns with the SP it was entered with and by the           *)
(* instruction for what it is.  Both sides of opcodes.c count for it: what *)
(* JSR, BRK and an NMI put on the stack is what RTS and RTI take off.      *)
Disciplined == [][DisciplinedStep]_stackVars

(* Every RTS ends the innermost JSR and every RTI the innermost BRK or NMI,*)
(* to the instruction after it, with the SP of before; an RTI restores the *)
(* status but for B, which it takes as pushed.                             *)
ReturnsMatch ==
  [][Len(frames') < Len(frames) =>
       LET f == Last(frames)
       IN  /\ f.kind = "call" <=> entry.op = "RTS"
           /\ PC' = f.return
           /\ SP' = f.SP
           /\ f.kind # "call" => P' \ {"B"} = f.P \ {"B"}]_stackVars

(* The registers of the code inside the first n frames: those it runs with,*)
(* or those it was interrupted with.  B is not a register of the 6502.     *)
Code(n) ==
  IF n = Len(frames)
    THEN [PC |-> PC, SP |-> SP, P |-> P \ {"B"}, registers |-> registers]
    ELSE LET f == frames[n + 1]
         IN  [PC |-> f.return, SP |-> f.SP, P |-> f.P \ {"B"}, registers |-> f.saved]

Suspended(n) == n < Len(frames) /\ frames[n + 1].kind = "nmi"

(* What interrupts push: three bytes each, and two by the handler.         *)
NmiBytes == 5

NmiStack(n, sp) == {StackAt(sp - d) : d \in 0 .. NmiBytes * n}

(* An NMI is invisible to the code it interrupts, be it a program or the   *)
(* handler of another NMI: from the interrupt to the return its PC, SP,    *)
(* status, A, X and Y do not change, and at the return they are those of   *)
(* the CPU again; nor does the ram, the stack just below SP apart.         *)
TransparentStep ==
  \A n \in 0 .. Len(frames) :
    Suspended(n) \/ Suspended(n)' =>
      /\ Code(n)' = Code(n)
      /\ \/ ram' = ram
         \/ \A a \in RamIndex :
              ram'[a] # ram[a] => a \in NmiStack(Len(frames') - n, Code(n).SP)

NmiTransparent == [][TransparentStep]_stackVars
=============================================================================
