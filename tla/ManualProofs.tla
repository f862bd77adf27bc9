---------------------------- MODULE ManualProofs ----------------------------
(***************************************************************************)
(* The properties of single instructions that Manual states, for every     *)
(* program of every cartridge: the number of cycles, the name in the log,  *)
(* the cells a store reaches, and words against their bytes.               *)
(***************************************************************************)
EXTENDS Manual, CpuProofs

-----------------------------------------------------------------------------
(* The rows of the switch against the manual.  Bumps is the cycle in which *)
(* the high byte of an indexed address is fixed, for the instructions that *)
(* always take it.                                                         *)
Bumps(op, mode) ==
  IF mode \in {"ABSOLUTE_X", "ABSOLUTE_Y", "INDIRECT_Y"} /\ op \notin Readers
  THEN 1 ELSE 0

BaseCycles(op, mode) ==
  IF op \in DOMAIN Sequence THEN Sequence[op]
  ELSE IF op \in Branches THEN 2
  ELSE Fetches(mode) + AddressReads(mode) + Bumps(op, mode) + Accesses(op, mode)

RowAsDocumented(r) ==
  /\ r.cycles = BaseCycles(r.op, r.mode)
  /\ r.op \in Readers \ (Charging \cup {"ADC"}) =>
       r.mode \notin {"ABSOLUTE_X", "ABSOLUTE_Y", "INDIRECT_Y"}
  /\ r.mode = "ACCUMULATOR" => r.op \in {"ASL", "LSR", "ROL", "ROR"}

(* Every row of the switch, section by section.                            *)
LEMMA RowsAsDocumented == \A r \in AllRows : RowAsDocumented(r)
<1> USE DEF Row, Rows, Implied, RowAsDocumented, BaseCycles, Sequence,
            Branches, Readers, Writers, Modifiers, Charging, Fetches,
            OperandBytes, AddrMode, AddressReads, Bumps, Accesses
<1>1. \A r \in ArithmeticRows : RowAsDocumented(r)
  BY SMT DEF ArithmeticRows, ReadColumn, IndexCompareColumn
<1>2. \A r \in BranchRows : RowAsDocumented(r)
  BY SMT DEF BranchRows
<1>3. \A r \in ClearFlagRows : RowAsDocumented(r)
  BY SMT DEF ClearFlagRows
<1>4. \A r \in JumpRows : RowAsDocumented(r)
  BY SMT DEF JumpRows
<1>5. \A r \in LoadRows : RowAsDocumented(r)
  BY SMTT(60) DEF LoadRows, ReadColumn
<1>6. \A r \in StackRows : RowAsDocumented(r)
  BY SMT DEF StackRows
<1>7. \A r \in SetFlagRows : RowAsDocumented(r)
  BY SMT DEF SetFlagRows
<1>8. \A r \in StoreRows : RowAsDocumented(r)
  BY SMTT(60) DEF StoreRows
<1>9. \A r \in TransferRows : RowAsDocumented(r)
  BY SMT DEF TransferRows
<1>10. \A r \in IncDecRows : RowAsDocumented(r)
  BY SMT DEF IncDecRows, ModifyColumn
<1>11. \A r \in ShiftRows : RowAsDocumented(r)
  BY SMT DEF ShiftRows, ShiftColumn, ModifyColumn
<1>12. \A r \in BreakRows : RowAsDocumented(r)
  BY SMT DEF BreakRows
<1>13. \A r \in LaxSaxRows : RowAsDocumented(r)
  BY SMT DEF LaxSaxRows
<1>14. \A r \in CombinedRows : RowAsDocumented(r)
  BY SMT DEF CombinedRows, CombinedColumn
<1>15. \A r \in NopRows : RowAsDocumented(r)
  BY SMT DEF NopRows
<1> HIDE DEF RowAsDocumented
<1> QED
  BY Sections, <1>1, <1>2, <1>3, <1>4, <1>5, <1>6, <1>7, <1>8, <1>9, <1>10,
     <1>11, <1>12, <1>13, <1>14, <1>15

(* A step from "execute" to "ppu" is one of Instruction.                   *)
LEMMA StepIsInstruction ==
  ASSUME [Next]_vars, InstructionStep
  PROVE  Instruction
  BY DEF Next, vars, InstructionStep, NoInterrupt, ServiceNmi, TakeNmi, Panic,
         PpuRaises, PpuDone, Exited

-----------------------------------------------------------------------------
(* cpu.h OPCODES and the switch of cpu_tick: wherever the log does not     *)
(* itself clear what it reads, the name it prints is that of the handler.  *)
THEOREM LogNames == Spec => LogNamesInstruction
<1>1. ASSUME [Next]_vars, InstructionStep, PC # PPU_STATUS
      PROVE  OPCODES[Get8(PC) + 1] = entry.op
  <2>1. Opcode \in Handled
    BY <1>1, StepIsInstruction DEF Instruction
  <2>2. OPCODES[Opcode + 1] = entry.op
    BY <2>1, EntryRow
  <2>3. Opcode = Get8(PC)
    BY <1>1 DEF Opcode
  <2> QED
    BY <2>2, <2>3
<1>2. [Next]_vars =>
        [InstructionStep /\ PC # PPU_STATUS => OPCODES[Get8(PC) + 1] = entry.op]_vars
  BY <1>1, Zenon
<1> QED
  BY <1>2, PTL DEF Spec, LogNamesInstruction

-----------------------------------------------------------------------------
(* cpu_get_u16 against cpu_get_u8, at every address of every memory: they  *)
(* agree but at the ends of the memories and where a byte cannot be read.  *)
LEMMA WordsAreBytes ==
  ASSUME NEW a \in Word
  PROVE  WordIsItsBytes(a)
<1> SUFFICES ASSUME a \notin MemoryEnds, ~Unreadable(a), ~Unreadable(U16(a + 1))
             PROVE  Get16(a) = u8_to_u16(Get8(a), Get8(U16(a + 1)))
  BY DEF WordIsItsBytes
<1>1. a \in Int /\ 0 <= a /\ a <= 65535 /\ a # 65535
  BY Bounds DEF MemoryEnds
<1>2. U16(a + 1) = a + 1
  BY <1>1 DEF U16
<1>3. CASE a < \h2000
  <2>1. a + 1 < \h2000
    BY <1>1, <1>2, <1>3 DEF Unreadable, PPU_STATUS
  <2>2. (a + 1) % RamSize = (a % RamSize) + 1 /\ (a % RamSize) + 1 # RamSize
    BY <1>1, <2>1, SMT DEF RamSize, MemoryEnds
  <2> QED
    BY <1>1, <1>2, <1>3, <2>1, <2>2 DEF Get8, Get16, cpu_get_u8, cpu_get_u16, PPU_STATUS
<1>4. CASE a >= \h6000 /\ a < \h8000
  <2>1. a + 1 < \h8000
    BY <1>1, <1>4 DEF MemoryEnds
  <2> QED
    BY <1>1, <1>2, <1>4, <2>1 DEF Get8, Get16, cpu_get_u8, cpu_get_u16, PPU_STATUS
<1>5. CASE a >= \h8000
  <2>1. a + 1 - \h8000 = a - \h7fff
    BY <1>1
  <2> QED
    BY <1>1, <1>2, <1>5, <2>1 DEF Get8, Get16, cpu_get_u8, cpu_get_u16, PPU_STATUS
<1>6. CASE a >= \h2000 /\ a < \h6000
  BY <1>1, <1>2, <1>6 DEF Unreadable, PPU_STATUS
<1> QED
  BY <1>1, <1>3, <1>4, <1>5, <1>6

(* WordsMatchBytes of the run, at whatever addresses: no word the program  *)
(* can read differs from its bytes elsewhere than at the listed ends.      *)
THEOREM WordsAlwaysMatch == Spec => []WordsMatchBytes
<1>1. WordsMatchBytes
  BY WordsAreBytes, WordsAssumption DEF WordsMatchBytes
<1> QED
  BY <1>1, PTL

-----------------------------------------------------------------------------
(* What a handler counts on top of its row.                                *)
LEMMA HandlerCharges ==
  ASSUME NEW d, Handler(d)
  PROVE  \/ /\ d.op \in Charging
            /\ Takes(d, IF d.crossed THEN 1 ELSE 0)
         \/ /\ d.op \in Branches
            /\ \E target :
                 IF Taken(d.op)
                 THEN /\ PC' = target
                      /\ Takes(d, IF addr_are_same_page(U16(PC + 2), target) THEN 1 ELSE 2)
                 ELSE Takes(d, 0)
         \/ /\ d.op \notin Charging \cup Branches
            /\ Takes(d, 0)
<1>1. CASE \E op \in Charging : Charged(d, op)
  BY <1>1 DEF Charged, GetAddr
<1>2. CASE \E op \in Branches : d.op = op /\ Branch(d, op, Taken(op))
  BY <1>2 DEF Branch
<1>3. CASE d.op \notin Charging \cup Branches /\ Takes(d, 0)
  BY <1>3
<1>4. SBC(d) \/ AND(d) \/ ORA(d) \/ EOR(d) \/ CMP(d) \/ LDA(d) \/ LDX(d) \/ LDY(d)
        \/ LAX(d) \/ NOP(d) => \E op \in Charging : Charged(d, op)
  BY Zenon DEF SBC, AND, ORA, EOR, CMP, LDA, LDX, LDY, LAX, NOP, Logic, Charging
<1>5. BEQ(d) \/ BNE(d) \/ BMI(d) \/ BPL(d) \/ BCS(d) \/ BCC(d) \/ BVS(d) \/ BVC(d)
        => \E op \in Branches : d.op = op /\ Branch(d, op, Taken(op))
  BY DEF BEQ, BNE, BMI, BPL, BCS, BCC, BVS, BVC, Branch, Taken, Branches
<1>6. ADC(d) \/ CPX(d) \/ CPY(d) \/ BIT(d)
        \/ CLC(d) \/ CLD(d) \/ CLI(d) \/ CLV(d) \/ SEC(d) \/ SED(d) \/ SEI(d)
        \/ JMP(d) \/ JSR(d) \/ RTS(d) \/ RTI(d) \/ BRK(d)
        \/ STA(d) \/ STX(d) \/ STY(d) \/ SAX(d)
        \/ TAX(d) \/ TAY(d) \/ TSX(d) \/ TXA(d) \/ TYA(d) \/ TXS(d)
        \/ PHA(d) \/ PHP(d) \/ PLA(d) \/ PLP(d)
        \/ INC(d) \/ DEC(d) \/ INX(d) \/ INY(d) \/ DEX(d) \/ DEY(d)
        \/ ASL(d) \/ LSR(d) \/ ROL(d) \/ ROR(d)
        \/ DCP(d) \/ ISB(d) \/ RLA(d) \/ SLO(d) \/ SRE(d) \/ RRA(d)
        => d.op \notin Charging \cup Branches /\ Takes(d, 0)
  BY DEF ADC, CPX, CPY, BIT, CLC, CLD, CLI, CLV, SEC, SED, SEI, JMP, JSR, RTS,
         RTI, BRK, STA, STX, STY, SAX, StoreRegister, TAX, TAY, TSX, TXA, TYA,
         TXS, PHA, PHP, PushRegister, PLA, PLP, INC, DEC, INX, INY, DEX, DEY,
         ASL, LSR, ROL, ROR, Shift, DCP, ISB, RLA, SLO, SRE, RRA, ShiftThen,
         Uncharged, NoAddress, Charging, Branches
<1> QED
  BY <1>1, <1>2, <1>3, <1>4, <1>5, <1>6, Zenon DEF Handler

(* In the modes with a crossing to test, cpu_get_addr tests what the bus   *)
(* does; in all others there is no index, and no crossing.                 *)
LEMMA CrossingFixes ==
  ASSUME TypeOK, NEW mode \in AddrMode
  PROVE  Crossed(Address(mode), CrossingIndex(mode)) <=>
           /\ mode \in {"ABSOLUTE_X", "ABSOLUTE_Y", "INDIRECT_Y"}
           /\ Hi(Address(mode)) # Hi(U16(Address(mode) - CrossingIndex(mode)))
<1>1. CASE mode \in {"ABSOLUTE_X", "ABSOLUTE_Y", "INDIRECT_Y"}
  BY <1>1 DEF Crossed, addr_are_same_page
<1>2. CASE mode \notin {"ABSOLUTE_X", "ABSOLUTE_Y", "INDIRECT_Y"}
  <2>1. CrossingIndex(mode) = 0
    BY <1>2 DEF CrossingIndex
  <2>2. \A w \in Word : U16(w - 0) = w
    BY Bounds, SMT DEF U16
  <2>3. U16(Address(mode) - CrossingIndex(mode)) = Address(mode)
    BY <2>1, <2>2, AddressType
  <2> QED
    BY <1>2, <2>3 DEF Crossed, addr_are_same_page
<1> QED
  BY <1>1, <1>2

(* The count does not wrap.                                                *)
LEMMA TakesExactly ==
  ASSUME NEW d, Executing(d), NEW extra \in 0 .. 2, extra <= MostExtra(d.op),
         Takes(d, extra)
  PROVE  Counted = d.cycles + extra
<1>1. instr_cycles \in {0, 7}
  BY DEF Executing, IInv, TickBounded
<1>2. d.cycles \in Nat /\ d.cycles + extra <= 8
  BY DEF Executing, RowOK, MostExtra
<1> QED
  BY <1>1, <1>2, SMT DEF Takes, U8, Counted

(* The length of every instruction, an ADC that crosses a page apart.      *)
LEMMA InstructionCycles ==
  ASSUME IInv, Instruction, ~AdcCrosses
  PROVE  Counted = BusCycles(entry.op, entry.mode)
<1> DEFINE op == entry.op
           mode == entry.mode
           indexed == {"ABSOLUTE_X", "ABSOLUTE_Y", "INDIRECT_Y"}
<1>1. Handler(Decoded) /\ Executing(Decoded)
  BY DecodedType DEF Instruction
<1>2. /\ Decoded.op = op /\ Decoded.mode = mode /\ Decoded.cycles = entry.cycles
      /\ Decoded.crossed = Crossed(Address(mode), CrossingIndex(mode))
  BY Zenon DEF Decoded
<1>3. /\ entry.cycles = BaseCycles(op, mode)
      /\ op \in Readers \ (Charging \cup {"ADC"}) => mode \notin indexed
  BY EntryRow, RowsAsDocumented DEF RowAsDocumented, Instruction
<1>4. /\ Decoded.crossed <=>
           mode \in indexed /\ Hi(Address(mode)) # Hi(U16(Address(mode) - CrossingIndex(mode)))
      /\ mode \in AddrMode /\ TypeOK
  <2>1. mode \in AddrMode /\ TypeOK
    BY <1>1, <1>2 DEF Executing, RowOK, IInv
  <2> QED
    BY <1>2, <2>1, CrossingFixes
<1>5. /\ Charging \subseteq Readers
      /\ Charging \cap (Branches \cup DOMAIN Sequence) = {}
      /\ Branches \cap DOMAIN Sequence = {}
      /\ Branches = Branching
  BY DEF Charging, Readers, Branches, Branching, Sequence
<1>6. op \notin Branches \cup DOMAIN Sequence =>
        BusCycles(op, mode) =
          BaseCycles(op, mode) + (IF op \in Readers /\ Decoded.crossed THEN 1 ELSE 0)
  <2>1. FixReads(op, mode) =
          Bumps(op, mode) + (IF op \in Readers /\ Decoded.crossed THEN 1 ELSE 0)
    BY <1>4 DEF FixReads, Bumps
  <2>2. Fetches(mode) \in Nat /\ AddressReads(mode) \in Nat /\ Accesses(op, mode) \in Nat
        /\ Bumps(op, mode) \in Nat
    BY DEF Fetches, AddressReads, Accesses, Bumps
  <2> HIDE DEF op, mode
  <2> QED
    BY <2>1, <2>2 DEF BusCycles, BaseCycles
<1>7. op \in Branches => BaseCycles(op, mode) = 2
  BY <1>5 DEF BaseCycles
<1>8. op \in DOMAIN Sequence => BusCycles(op, mode) = BaseCycles(op, mode)
  BY DEF BaseCycles, BusCycles
<1> HIDE DEF op, mode, indexed
<1>9. CASE op \in Charging /\ Takes(Decoded, IF Decoded.crossed THEN 1 ELSE 0)
  <2>1. Counted = entry.cycles + (IF Decoded.crossed THEN 1 ELSE 0)
    BY <1>1, <1>2, <1>9, TakesExactly, Extras
  <2> QED
    BY <1>3, <1>5, <1>6, <1>9, <2>1 DEF op, mode
<1>10. CASE /\ op \in Branches
            /\ \E target :
                 IF Taken(op)
                 THEN /\ PC' = target
                      /\ Takes(Decoded, IF addr_are_same_page(U16(PC + 2), target) THEN 1 ELSE 2)
                 ELSE Takes(Decoded, 0)
  <2>1. BranchFetches(op) \in 0 .. 2 /\ Takes(Decoded, BranchFetches(op))
    BY <1>10 DEF BranchFetches, addr_are_same_page
  <2>2. Counted = entry.cycles + BranchFetches(op)
    BY <1>1, <1>2, <1>5, <1>10, <2>1, TakesExactly, Extras
  <2>3. BusCycles(op, mode) = 2 + BranchFetches(op)
    BY <1>5, <1>10 DEF BusCycles
  <2> QED
    BY <1>3, <1>7, <1>10, <2>2, <2>3 DEF op, mode
<1>11. CASE op \notin Charging \cup Branches /\ Takes(Decoded, 0)
  <2>1. 0 <= MostExtra(Decoded.op)
    BY DEF MostExtra
  <2>2. Counted = entry.cycles
    BY <1>1, <1>2, <1>11, <2>1, TakesExactly DEF Executing, RowOK
  <2>3. ~(op \in Readers /\ Decoded.crossed)
    <3>1. CASE op = "ADC"
      BY <1>4, <3>1 DEF AdcCrosses, FixReads, op, mode, indexed
    <3> QED
      BY <1>3, <1>4, <1>11, <3>1 DEF op
  <2>4. BaseCycles(op, mode) \in Nat
    BY <1>1, <1>2, <1>3 DEF Executing, RowOK
  <2> QED
    BY <1>3, <1>6, <1>8, <1>11, <2>2, <2>3, <2>4 DEF op, mode
<1> QED
  BY <1>1, <1>2, <1>9, <1>10, <1>11, HandlerCharges

(* The cycles of every instruction, in every state of every program, an    *)
(* ADC that crosses a page apart: the table of the switch, the test of cpu_get_addr for a page   *)
(* crossing and that of branch count what the bus needs.                   *)
THEOREM CyclesAlwaysMatch == Spec => CyclesMatchBus
<1>1. IInv /\ [Next]_vars =>
        [InstructionStep /\ ~AdcCrosses =>
           Counted = BusCycles(entry.op, entry.mode)]_vars
  BY StepIsInstruction, InstructionCycles
<1> QED
  BY <1>1, Invariant, PTL DEF Spec, CyclesMatchBus

-----------------------------------------------------------------------------
(* What an instruction does to the RAM: nothing, or a store at the address *)
(* it decoded, or pushes from SP down.                                     *)
Pushing(op) ==
  \/ op \in {"PHA", "PHP"} /\ \E b : ram' = [ram EXCEPT ![StackAt(SP)] = b]
  \/ op = "JSR" /\ \E b1, b2 : ram' = Push2(b1, b2)
  \/ op = "BRK" /\ \E b1, b2, b3 : ram' = Push3(b1, b2, b3)

LEMMA HandlerStores ==
  ASSUME NEW d, Handler(d), d.mode = "ACCUMULATOR" => d.op \in {"ASL", "LSR", "ROL", "ROR"}
  PROVE  \/ d.op \notin Writers /\ ram' = ram
         \/ /\ d.op \in Writers \cup Modifiers
            /\ d.mode # "ACCUMULATOR"
            /\ \E v : Store(d, v) /\ (d.op \in Writers => v = StoredValue(d.op))
         \/ Pushing(d.op)
<1>1. CASE \/ ADC(d) \/ SBC(d) \/ AND(d) \/ ORA(d) \/ EOR(d)
           \/ CMP(d) \/ CPX(d) \/ CPY(d) \/ BIT(d)
           \/ LDA(d) \/ LDX(d) \/ LDY(d) \/ LAX(d) \/ NOP(d)
  BY <1>1
  DEF ADC, SBC, AND, ORA, EOR, CMP, CPX, CPY, BIT, LDA, LDX, LDY, LAX, NOP, Logic,
      Charged, Uncharged, SetA, SetX, SetY, SetP, Writers
<1>2. CASE \/ BEQ(d) \/ BNE(d) \/ BMI(d) \/ BPL(d) \/ BCS(d) \/ BCC(d)
           \/ BVS(d) \/ BVC(d) \/ JMP(d) \/ RTS(d) \/ RTI(d)
  BY <1>2
  DEF BEQ, BNE, BMI, BPL, BCS, BCC, BVS, BVC, Branch, JMP, RTS, RTI, Writers
<1>3. CASE \/ CLC(d) \/ CLD(d) \/ CLI(d) \/ CLV(d) \/ SEC(d) \/ SED(d) \/ SEI(d)
           \/ TAX(d) \/ TAY(d) \/ TSX(d) \/ TXA(d) \/ TYA(d) \/ TXS(d)
           \/ INX(d) \/ INY(d) \/ DEX(d) \/ DEY(d) \/ PLA(d) \/ PLP(d)
  BY <1>3
  DEF CLC, CLD, CLI, CLV, SEC, SED, SEI, TAX, TAY, TSX, TXA, TYA, TXS, INX, INY,
      DEX, DEY, PLA, PLP, NoAddress, SetA, SetX, SetY, SetP, Writers
<1>4. CASE STA(d) \/ STX(d) \/ STY(d) \/ SAX(d)
  BY <1>4
  DEF STA, STX, STY, SAX, StoreRegister, Uncharged, Writers, StoredValue
<1>5. CASE INC(d) \/ DEC(d) \/ DCP(d) \/ ISB(d) \/ RLA(d) \/ SLO(d) \/ SRE(d) \/ RRA(d)
  BY <1>5
  DEF INC, DEC, DCP, ISB, RLA, SLO, SRE, RRA, ShiftThen, Uncharged, SetMemory,
      SetBoth, Writers, Modifiers
<1>6. CASE ASL(d) \/ LSR(d) \/ ROL(d) \/ ROR(d)
  <2>1. PICK op \in {"ASL", "LSR", "ROL", "ROR"} : \E r : Shift(d, op, r)
    BY <1>6 DEF ASL, LSR, ROL, ROR
  <2> QED
    BY <2>1 DEF Shift, SetA, SetMemory, Writers, Modifiers
<1>7. CASE PHA(d) \/ PHP(d) \/ JSR(d) \/ BRK(d)
  BY <1>7, Zenon DEF PHA, PHP, PushRegister, NoAddress, JSR, BRK, Pushing
<1> QED
  BY <1>1, <1>2, <1>3, <1>4, <1>5, <1>6, <1>7, Zenon DEF Handler

(* What is written at one, two or three cells changes only these.          *)
LEMMA CellsChanged ==
  ASSUME ram \in Ram, ram' \in Ram,
         NEW i \in RamIndex, NEW j \in RamIndex, NEW k \in RamIndex
  PROVE  /\ \A b : ram' = [ram EXCEPT ![i] = b] => OnlyChanged(i, i, i) /\ ram'[i] = b
         /\ \A b1, b2 : ram' = [ram EXCEPT ![i] = b1, ![j] = b2] => OnlyChanged(i, j, j)
         /\ \A b1, b2, b3 :
              ram' = [[ram EXCEPT ![i] = b1, ![j] = b2] EXCEPT ![k] = b3] => OnlyChanged(i, j, k)
  BY DEF Ram, OnlyChanged

(* An instruction changes nothing but its own cells, and a store           *)
(* instruction stores its register in them.                                *)
LEMMA InstructionStores ==
  ASSUME IInv, Instruction
  PROVE  LET cells == CellsOf(entry.op, entry.mode)
         IN  /\ ram' = ram \/ \E i, j, k \in cells : OnlyChanged(i, j, k)
             /\ entry.op \in Writers => \A i \in cells : ram'[i] = StoredValue(entry.op)
<1> DEFINE op == entry.op
           mode == entry.mode
           cells == CellsOf(op, mode)
           addr == Address(mode)
<1>1. /\ Handler(Decoded) /\ Executing(Decoded)
      /\ Decoded.op = op /\ Decoded.mode = mode /\ Decoded.addr = addr
  <2>1. Handler(Decoded) /\ Executing(Decoded)
    BY DecodedType DEF Instruction
  <2> QED
    BY <2>1, Zenon DEF Decoded
<1>2. mode = "ACCUMULATOR" => op \in {"ASL", "LSR", "ROL", "ROR"}
  BY EntryRow, RowsAsDocumented DEF RowAsDocumented, Instruction
<1>3. ram \in Ram /\ ram' \in Ram /\ TypeOK /\ SP \in Int /\ addr \in Int /\ 0 <= addr
  BY <1>1, HandlerSteps, Bounds DEF Executing, IInv, TypeOK, Computed
<1>4. \A n \in {0, 1, 2} : StackAt(SP - n) \in RamIndex
  BY <1>3, StackTypes
<1> HIDE DEF op, mode, addr
<1>5. CASE op \notin Writers /\ ram' = ram
  BY <1>5 DEF op
<1>6. CASE /\ op \in Writers \cup Modifiers
           /\ mode # "ACCUMULATOR"
           /\ \E v : Store(Decoded, v) /\ (op \in Writers => v = StoredValue(op))
  <2> DEFINE cell == addr % RamSize
  <2>1. cells = {i \in {cell} : addr < \h2000}
    BY <1>6 DEF CellsOf, addr
  <2>2. cell \in RamIndex
    BY <1>3, Indices, SMT DEF RamSize
  <2>3. PICK v : Store(Decoded, v) /\ (op \in Writers => v = StoredValue(op))
    BY <1>6
  <2>4. ram' = IF addr < \h2000 THEN [ram EXCEPT ![cell] = v] ELSE ram
    BY <1>1, <2>3 DEF Store, cpu_set_u8
  <2> HIDE DEF cell, cells
  <2>5. CASE addr < \h2000
    <3>1. ram' = [ram EXCEPT ![cell] = v]
      BY <2>4, <2>5
    <3>2. OnlyChanged(cell, cell, cell) /\ ram'[cell] = v
      BY <1>3, <2>2, <3>1, CellsChanged
    <3>3. cells = {cell}
      BY <2>1, <2>5
    <3> QED
      BY <2>3, <3>2, <3>3 DEF op, mode, cells
  <2>6. CASE ~(addr < \h2000)
    <3>1. ram' = ram
      BY <2>4, <2>6
    <3>2. cells = {}
      BY <2>1, <2>6
    <3> QED
      BY <3>1, <3>2 DEF op, mode, cells
  <2> QED
    BY <2>5, <2>6
<1>7. CASE Pushing(op)
  <2>1. op \notin Writers \cup Modifiers /\ op \in DOMAIN Pushes
    BY <1>7 DEF Pushing, Writers, Modifiers, Pushes
  <2>2. cells = {StackAt(SP - n) : n \in 0 .. Pushes[op] - 1}
    BY <1>3, <2>1 DEF CellsOf, StackAt, U8
  <2>3. SP - 0 = SP
    BY <1>3
  <2> HIDE DEF cells
  <2>4. ASSUME NEW n \in {0, 1, 2}, n < Pushes[op] PROVE StackAt(SP - n) \in cells
    BY <2>2, <2>4, <2>1 DEF Pushes
  <2>5. CASE op \in {"PHA", "PHP"}
    <3>1. PICK b : ram' = [ram EXCEPT ![StackAt(SP)] = b]
      BY <1>7, <2>5 DEF Pushing
    <3>2. StackAt(SP) \in cells
      BY <2>3, <2>4, <2>5 DEF Pushes
    <3>3. OnlyChanged(StackAt(SP), StackAt(SP), StackAt(SP))
      BY <1>3, <1>4, <2>3, <3>1, CellsChanged
    <3> QED
      BY <2>1, <3>2, <3>3 DEF op, mode, cells
  <2>6. CASE op = "JSR"
    <3>1. PICK b1, b2 : ram' = Push2(b1, b2)
      BY <1>7, <2>6 DEF Pushing
    <3>2. StackAt(SP) \in cells /\ StackAt(SP - 1) \in cells
      BY <2>3, <2>4, <2>6 DEF Pushes
    <3>3. OnlyChanged(StackAt(SP), StackAt(SP - 1), StackAt(SP - 1))
      BY <1>3, <1>4, <2>3, <3>1, CellsChanged DEF Push2
    <3> QED
      BY <2>1, <3>2, <3>3 DEF op, mode, cells
  <2>7. CASE op = "BRK"
    <3>1. PICK b1, b2, b3 : ram' = Push3(b1, b2, b3)
      BY <1>7, <2>7 DEF Pushing
    <3>2. StackAt(SP) \in cells /\ StackAt(SP - 1) \in cells /\ StackAt(SP - 2) \in cells
      BY <2>3, <2>4, <2>7 DEF Pushes
    <3>3. OnlyChanged(StackAt(SP), StackAt(SP - 1), StackAt(SP - 2))
      BY <1>3, <1>4, <2>3, <3>1, CellsChanged DEF Push2, Push3
    <3> QED
      BY <2>1, <3>2, <3>3 DEF op, mode, cells
  <2> QED
    BY <1>7, <2>5, <2>6, <2>7 DEF Pushing
<1>8. \/ op \notin Writers /\ ram' = ram
      \/ /\ op \in Writers \cup Modifiers
         /\ mode # "ACCUMULATOR"
         /\ \E v : Store(Decoded, v) /\ (op \in Writers => v = StoredValue(op))
      \/ Pushing(op)
  BY <1>1, <1>2, HandlerStores
<1> QED
  BY <1>5, <1>6, <1>7, <1>8

(* cpu_set_u8 and the pushes: whatever an instruction writes arrives where *)
(* it is meant for, in every mirror of it, and nowhere else.               *)
THEOREM StoresAlwaysArrive == Spec => StoresArrive
<1>1. IInv /\ [Next]_vars =>
        [InstructionStep =>
           LET cells == CellsOf(entry.op, entry.mode)
           IN  /\ ram' = ram \/ \E i, j, k \in cells : OnlyChanged(i, j, k)
               /\ entry.op \in Writers => \A i \in cells : ram'[i] = StoredValue(entry.op)]_vars
  BY StepIsInstruction, InstructionStores
<1> QED
  BY <1>1, Invariant, PTL DEF Spec, StoresArrive
=============================================================================
