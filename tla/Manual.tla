------------------------------- MODULE Manual -------------------------------
(***************************************************************************)
(* What the documents in doc/ say of single instructions, against what     *)
(* cpu.c and opcodes.c do.  The length of an instruction is derived from   *)
(* what the 6502 does on its bus in each cycle (doc/6502_cpu.txt, "6510    *)
(* Instruction Timing"); the code counts it from a table and adjusts it.   *)
(***************************************************************************)
EXTENDS Cpu

CONSTANT Words  \* the addresses at which words are compared with bytes

ASSUME WordsAssumption == Words \subseteq Word

Writers   == {"STA", "STX", "STY", "SAX"}
Modifiers == {"ASL", "LSR", "ROL", "ROR", "INC", "DEC",
              "SLO", "SRE", "RLA", "RRA", "ISB", "DCP"}
Readers   == {"LDA", "LDX", "LDY", "EOR", "AND", "ORA", "ADC", "SBC", "CMP",
              "CPX", "CPY", "BIT", "LAX", "NOP"}
Branches  == {"BEQ", "BNE", "BMI", "BPL", "BCS", "BCC", "BVS", "BVC"}

(* The instructions with a sequence of their own.                          *)
Sequence ==
  [BRK |-> 7, RTI |-> 6, RTS |-> 6, JSR |-> 6,
   PHA |-> 3, PHP |-> 3, PLA |-> 4, PLP |-> 4]

(* The opcode and the operand bytes; a byte after the opcode is always     *)
(* read, even if the instruction has no operand.                           *)
Fetches(mode) == IF OperandBytes[mode] = 2 THEN 3 ELSE 2

(* Reads of a zero-page cell to be indexed, or of a pointer.               *)
AddressReads(mode) ==
  CASE mode \in {"ZERO_PAGE_X", "ZERO_PAGE_Y"} -> 1
    [] mode \in {"INDIRECT", "INDIRECT_Y"}     -> 2
    [] mode = "INDIRECT_X"                     -> 3
    [] OTHER                                   -> 0

(* The read of the address before its high byte is fixed: always there     *)
(* when the instruction writes, otherwise only when it was wrong.          *)
FixReads(op, mode) ==
  IF /\ mode \in {"ABSOLUTE_X", "ABSOLUTE_Y", "INDIRECT_Y"}
     /\ op \in Readers => Hi(Address(mode)) # Hi(U16(Address(mode) - CrossingIndex(mode)))
  THEN 1 ELSE 0

(* Reads and writes of the effective address.                              *)
Accesses(op, mode) ==
  IF mode \in {"IMMEDIATE", "IMPLIED", "ACCUMULATOR"} THEN 0
  ELSE CASE op \in Readers \cup Writers -> 1
         [] op \in Modifiers            -> 3
         [] OTHER                       -> 0

(* The condition of a branch.                                              *)
Taken(op) ==
  CASE op = "BEQ" -> "Z" \in P  [] op = "BNE" -> "Z" \notin P
    [] op = "BMI" -> "N" \in P  [] op = "BPL" -> "N" \notin P
    [] op = "BCS" -> "C" \in P  [] op = "BCC" -> "C" \notin P
    [] op = "BVS" -> "V" \in P  [] op = "BVC" -> "V" \notin P

(* A branch fetches once more when taken, be it to the next instruction,   *)
(* and again when that is on another page.                                 *)
BranchFetches(op) ==
  IF ~Taken(op) THEN 0
  ELSE IF Hi(PC') = Hi(U16(PC + 2)) THEN 1 ELSE 2

BusCycles(op, mode) ==
  IF op \in DOMAIN Sequence THEN Sequence[op]
  ELSE IF op \in Branches THEN 2 + BranchFetches(op)
  ELSE Fetches(mode) + AddressReads(mode) + FixReads(op, mode) + Accesses(op, mode)

InstructionStep == phase = "execute" /\ phase' = "ppu"
Counted == instr_cycles' - instr_cycles

(* The one cycle left open: doc/6502_processor.txt lines 386-391 give ADC  *)
(* that of a page crossing, and opcodes.c ADC never adds it.               *)
AdcCrosses == entry.op = "ADC" /\ FixReads("ADC", entry.mode) = 1

(* Each handler counts exactly the cycles the bus needs: the base of the   *)
(* opcode's row in cpu_tick, plus one when the addition of an index        *)
(* crossed a page in this very instruction (page_crossed is a global that  *)
(* earlier instructions leave behind), plus those of a taken branch.       *)
CyclesMatchBus ==
  [][InstructionStep /\ ~AdcCrosses =>
       Counted = BusCycles(entry.op, entry.mode)]_vars

-----------------------------------------------------------------------------
(* The debug log names the instruction that is executed: the switch of     *)
(* cpu_tick and the table of cpu.h are written separately.  At $2002 the   *)
(* log itself reads the opcode away.                                       *)
LogNamesInstruction ==
  [][InstructionStep /\ PC # PPU_STATUS => OPCODES[Get8(PC) + 1] = entry.op]_vars

(* The value a store instruction stores.                                   *)
StoredValue(op) ==
  CASE op = "STA" -> A [] op = "STX" -> X [] op = "STY" -> Y
    [] op = "SAX" -> AndByte(A, X)

(* The cells of the RAM an instruction may change: the one at its address, *)
(* in each of the four mirrors, or those it pushes, below each other in    *)
(* the page of the stack.  A store anywhere else is dropped.               *)
Pushes == [BRK |-> 3, JSR |-> 2, PHA |-> 1, PHP |-> 1]

CellsOf(op, mode) ==
  IF op \in Writers \cup Modifiers /\ mode # "ACCUMULATOR"
    THEN {i \in {Address(mode) % RamSize} : Address(mode) < \h2000}
  ELSE IF op \in DOMAIN Pushes
    THEN {256 + ((SP - n) % 256) : n \in 0 .. Pushes[op] - 1}
  ELSE {}

(* Nothing but the cells i, j and k has changed.                           *)
OnlyChanged(i, j, k) ==
  ram' = [ram EXCEPT ![i] = ram'[i], ![j] = ram'[j], ![k] = ram'[k]]

(* An instruction changes no cell but its own, at most three, and what a   *)
(* store instruction stores in the RAM is what every mirror of the address *)
(* then shows.                                                             *)
StoresArrive ==
  [][InstructionStep =>
       LET cells == CellsOf(entry.op, entry.mode)
       IN  /\ ram' = ram \/ \E i, j, k \in cells : OnlyChanged(i, j, k)
           /\ entry.op \in Writers =>
                \A i \in cells : ram'[i] = StoredValue(entry.op)]_vars

(* A word is the two bytes at its addresses.  cpu_get_u16 is written apart *)
(* from cpu_get_u8 and neither mirrors the RAM nor checks for registers:   *)
(* the exceptions are the ends of the memories, where the second byte      *)
(* comes from what happens to lie behind, against the comment at cpu.c     *)
(* lines 545-546.                                                          *)
MemoryEnds == {\h07ff, \h0fff, \h17ff, \h7fff, \hffff}

WordIsItsBytes(a) ==
  \/ a \in MemoryEnds
  \/ Unreadable(a)
  \/ Unreadable(U16(a + 1))
  \/ Get16(a) = u8_to_u16(Get8(a), Get8(U16(a + 1)))

WordsMatchBytes == \A a \in Words : WordIsItsBytes(a)
=============================================================================
