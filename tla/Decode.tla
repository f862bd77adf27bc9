------------------------------- MODULE Decode -------------------------------
(***************************************************************************)
(* The switch of cpu_tick: for each opcode it handles, the handler called, *)
(* the addressing mode stored in cpu->addr_mode and the base number of     *)
(* cycles.  One definition per commented section of the switch.            *)
(***************************************************************************)
EXTENDS Integers

AddrMode ==
  {"IMMEDIATE", "ABSOLUTE", "ABSOLUTE_X", "ABSOLUTE_Y", "ZERO_PAGE",
   "ZERO_PAGE_X", "ZERO_PAGE_Y", "IMPLIED", "ACCUMULATOR", "INDIRECT",
   "INDIRECT_X", "INDIRECT_Y", "RELATIVE"}

(* A row of the switch, and the rows of one handler given as a set of      *)
(* <<opcode - base, mode, cycles>>: the instruction set repeats a column   *)
(* of modes at several bases.                                              *)
Row(code, op, mode, cycles) ==
  [code |-> code, op |-> op, mode |-> mode, cycles |-> cycles]

Rows(op, base, column) == {Row(base + c[1], op, c[2], c[3]) : c \in column}

Implied(op, code) == {Row(code, op, "IMPLIED", 2)}

-----------------------------------------------------------------------------
ReadColumn ==
  {<<\h09, "IMMEDIATE", 2>>, <<\h05, "ZERO_PAGE", 3>>,
   <<\h15, "ZERO_PAGE_X", 4>>, <<\h0d, "ABSOLUTE", 4>>,
   <<\h1d, "ABSOLUTE_X", 4>>, <<\h19, "ABSOLUTE_Y", 4>>,
   <<\h01, "INDIRECT_X", 6>>, <<\h11, "INDIRECT_Y", 5>>}

IndexCompareColumn ==
  {<<\h00, "IMMEDIATE", 2>>, <<\h04, "ZERO_PAGE", 3>>, <<\h0c, "ABSOLUTE", 4>>}

(* Arithmetic, logic and comparisons.                                      *)
ArithmeticRows ==
  UNION {Rows("ADC", \h60, ReadColumn), Rows("SBC", \he0, ReadColumn),
         Rows("AND", \h20, ReadColumn), Rows("ORA", \h00, ReadColumn),
         Rows("EOR", \h40, ReadColumn), Rows("CMP", \hc0, ReadColumn),
         Rows("BIT", \h20, {<<\h04, "ZERO_PAGE", 3>>, <<\h0c, "ABSOLUTE", 4>>}),
         Rows("CPX", \he0, IndexCompareColumn),
         Rows("CPY", \hc0, IndexCompareColumn)}

BranchRows ==
  {Row(b[1], b[2], "RELATIVE", 2) :
     b \in {<<\hf0, "BEQ">>, <<\h30, "BMI">>, <<\hd0, "BNE">>, <<\h10, "BPL">>,
            <<\h90, "BCC">>, <<\hb0, "BCS">>, <<\h50, "BVC">>, <<\h70, "BVS">>}}

ClearFlagRows ==
  UNION {Implied("CLC", \h18), Implied("CLD", \hd8),
         Implied("CLI", \h58), Implied("CLV", \hb8)}

JumpRows ==
  {Row(\h4c, "JMP", "ABSOLUTE", 3), Row(\h6c, "JMP", "INDIRECT", 5),
   Row(\h20, "JSR", "ABSOLUTE", 6), Row(\h60, "RTS", "ABSOLUTE", 6),
   Row(\h40, "RTI", "ABSOLUTE", 6)}

LoadRows ==
  UNION {Rows("LDA", \ha0, ReadColumn),
         Rows("LDX", \ha0,
              {<<\h02, "IMMEDIATE", 2>>, <<\h06, "ZERO_PAGE", 3>>,
               <<\h16, "ZERO_PAGE_Y", 4>>, <<\h0e, "ABSOLUTE", 4>>,
               <<\h1e, "ABSOLUTE_Y", 4>>}),
         Rows("LDY", \ha0,
              {<<\h00, "IMMEDIATE", 2>>, <<\h04, "ZERO_PAGE", 3>>,
               <<\h14, "ZERO_PAGE_X", 4>>, <<\h0c, "ABSOLUTE", 4>>,
               <<\h1c, "ABSOLUTE_X", 4>>})}

StackRows ==
  {Row(\h48, "PHA", "IMPLIED", 3), Row(\h08, "PHP", "IMPLIED", 3),
   Row(\h68, "PLA", "IMPLIED", 4), Row(\h28, "PLP", "IMPLIED", 4)}

SetFlagRows ==
  UNION {Implied("SEC", \h38), Implied("SED", \hf8), Implied("SEI", \h78)}

StoreRows ==
  UNION {Rows("STA", \h80,
              {<<\h05, "ZERO_PAGE", 3>>, <<\h15, "ZERO_PAGE_X", 4>>,
               <<\h0d, "ABSOLUTE", 4>>, <<\h1d, "ABSOLUTE_X", 5>>,
               <<\h19, "ABSOLUTE_Y", 5>>, <<\h01, "INDIRECT_X", 6>>,
               <<\h11, "INDIRECT_Y", 6>>}),
         Rows("STX", \h80,
              {<<\h06, "ZERO_PAGE", 3>>, <<\h16, "ZERO_PAGE_Y", 4>>,
               <<\h0e, "ABSOLUTE", 4>>}),
         Rows("STY", \h80,
              {<<\h04, "ZERO_PAGE", 3>>, <<\h14, "ZERO_PAGE_X", 4>>,
               <<\h0c, "ABSOLUTE", 4>>})}

TransferRows ==
  UNION {Implied("TAX", \haa), Implied("TAY", \ha8), Implied("TSX", \hba),
         Implied("TXA", \h8a), Implied("TXS", \h9a), Implied("TYA", \h98)}

(* Read-modify-write handlers on memory.                                   *)
ModifyColumn ==
  {<<\h06, "ZERO_PAGE", 5>>, <<\h16, "ZERO_PAGE_X", 6>>,
   <<\h0e, "ABSOLUTE", 6>>, <<\h1e, "ABSOLUTE_X", 7>>}

IncDecRows ==
  UNION {Rows("INC", \he0, ModifyColumn), Rows("DEC", \hc0, ModifyColumn),
         Implied("INX", \he8), Implied("INY", \hc8),
         Implied("DEX", \hca), Implied("DEY", \h88)}

ShiftColumn == ModifyColumn \cup {<<\h0a, "ACCUMULATOR", 2>>}

(* Mutant: left and right rotation exchanged.                              *)
ShiftRowsExchanged ==
  UNION {Rows("ASL", \h00, ShiftColumn), Rows("LSR", \h40, ShiftColumn),
         Rows("ROR", \h20, ShiftColumn), Rows("ROL", \h60, ShiftColumn)}

ShiftRows ==
  UNION {Rows("ASL", \h00, ShiftColumn), Rows("LSR", \h40, ShiftColumn),
         Rows("ROL", \h20, ShiftColumn), Rows("ROR", \h60, ShiftColumn)}

BreakRows == {Row(\h00, "BRK", "IMPLIED", 7)} \cup Implied("NOP", \hea)

(* Undocumented loads, stores and combined read-modify-write handlers.     *)
CombinedColumn ==
  {<<\h07, "ZERO_PAGE", 5>>, <<\h17, "ZERO_PAGE_X", 6>>, <<\h0f, "ABSOLUTE", 6>>,
   <<\h1f, "ABSOLUTE_X", 7>>, <<\h1b, "ABSOLUTE_Y", 7>>,
   <<\h03, "INDIRECT_X", 8>>, <<\h13, "INDIRECT_Y", 8>>}

LaxSaxRows ==
  UNION {Rows("LAX", \ha0,
              {<<\h07, "ZERO_PAGE", 3>>, <<\h17, "ZERO_PAGE_Y", 4>>,
               <<\h0f, "ABSOLUTE", 4>>, <<\h1f, "ABSOLUTE_Y", 4>>,
               <<\h03, "INDIRECT_X", 6>>, <<\h13, "INDIRECT_Y", 5>>}),
         Rows("SAX", \h80,
              {<<\h07, "ZERO_PAGE", 3>>, <<\h17, "ZERO_PAGE_Y", 4>>,
               <<\h0f, "ABSOLUTE", 4>>, <<\h03, "INDIRECT_X", 6>>})}

CombinedRows ==
  UNION {{Row(\heb, "SBC", "IMMEDIATE", 2)},
         Rows("DCP", \hc0, CombinedColumn), Rows("ISB", \he0, CombinedColumn),
         Rows("RLA", \h20, CombinedColumn), Rows("RRA", \h60, CombinedColumn),
         Rows("SLO", \h00, CombinedColumn), Rows("SRE", \h40, CombinedColumn)}

(* Undocumented opcodes that do nothing but take an operand and cycles.    *)
NopRows ==
  UNION {{Row(c, "NOP", "IMPLIED", 2) :
            c \in {\h1a, \h3a, \h5a, \h7a, \hda, \hfa}},
         {Row(c, "NOP", "IMMEDIATE", 2) : c \in {\h80, \h89}},
         {Row(c, "NOP", "ZERO_PAGE", 3) : c \in {\h04, \h44, \h64}},
         {Row(c, "NOP", "ZERO_PAGE_X", 4) :
            c \in {\h14, \h34, \h54, \h74, \hd4, \hf4}},
         {Row(\h0c, "NOP", "ABSOLUTE", 4)},
         {Row(c, "NOP", "ABSOLUTE_X", 4) :
            c \in {\h1c, \h3c, \h5c, \h7c, \hdc, \hfc}}}

AllRows ==
  UNION {ArithmeticRows, BranchRows, ClearFlagRows, JumpRows, LoadRows,
         StackRows, SetFlagRows, StoreRows, TransferRows, IncDecRows,
         ShiftRows, BreakRows, LaxSaxRows, CombinedRows, NopRows}

(* The opcodes with a case label; any other reaches the default: _panic.   *)
Handled == {r.code : r \in AllRows}

Decode == [c \in Handled |-> CHOOSE r \in AllRows : r.code = c]

-----------------------------------------------------------------------------
(* The table of names in cpu.h, which the log of the debug build prints;   *)
(* that of opcode c is OPCODES[c + 1].                                     *)
OPCODES ==
  <<"BRK", "ORA", "BAD", "SLO", "NOP", "ORA", "ASL", "SLO", "PHP", "ORA", "ASL", "NOP", "NOP", "ORA", "ASL", "SLO",
    "BPL", "ORA", "BAD", "SLO", "NOP", "ORA", "ASL", "SLO", "CLC", "ORA", "NOP", "SLO", "NOP", "ORA", "ASL", "SLO",
    "JSR", "AND", "BAD", "RLA", "BIT", "AND", "ROL", "RLA", "PLP", "AND", "ROL", "NOP", "BIT", "AND", "ROL", "RLA",
    "BMI", "AND", "BAD", "RLA", "NOP", "AND", "ROL", "RLA", "SEC", "AND", "NOP", "RLA", "NOP", "AND", "ROL", "RLA",
    "RTI", "EOR", "BAD", "SRE", "NOP", "EOR", "LSR", "SRE", "PHA", "EOR", "LSR", "NOP", "JMP", "EOR", "LSR", "SRE",
    "BVC", "EOR", "BAD", "SRE", "NOP", "EOR", "LSR", "SRE", "CLI", "EOR", "NOP", "SRE", "NOP", "EOR", "LSR", "SRE",
    "RTS", "ADC", "BAD", "RRA", "NOP", "ADC", "ROR", "RRA", "PLA", "ADC", "ROR", "NOP", "JMP", "ADC", "ROR", "RRA",
    "BVS", "ADC", "BAD", "RRA", "NOP", "ADC", "ROR", "RRA", "SEI", "ADC", "NOP", "RRA", "NOP", "ADC", "ROR", "RRA",
    "NOP", "STA", "NOP", "SAX", "STY", "STA", "STX", "SAX", "DEY", "NOP", "TXA", "NOP", "STY", "STA", "STX", "SAX",
    "BCC", "STA", "BAD", "NOP", "STY", "STA", "STX", "SAX", "TYA", "STA", "TXS", "NOP", "NOP", "STA", "NOP", "NOP",
    "LDY", "LDA", "LDX", "LAX", "LDY", "LDA", "LDX", "LAX", "TAY", "LDA", "TAX", "NOP", "LDY", "LDA", "LDX", "LAX",
    "BCS", "LDA", "BAD", "LAX", "LDY", "LDA", "LDX", "LAX", "CLV", "LDA", "TSX", "NOP", "LDY", "LDA", "LDX", "LAX",
    "CPY", "CMP", "NOP", "DCP", "CPY", "CMP", "DEC", "DCP", "INY", "CMP", "DEX", "NOP", "CPY", "CMP", "DEC", "DCP",
    "BNE", "CMP", "BAD", "DCP", "NOP", "CMP", "DEC", "DCP", "CLD", "CMP", "NOP", "DCP", "NOP", "CMP", "DEC", "DCP",
    "CPX", "SBC", "NOP", "ISB", "CPX", "SBC", "INC", "ISB", "INX", "SBC", "NOP", "SBC", "CPX", "SBC", "INC", "ISB",
    "BEQ", "SBC", "BAD", "ISB", "NOP", "SBC", "INC", "ISB", "SED", "SBC", "NOP", "ISB", "NOP", "SBC", "INC", "ISB">>
=============================================================================
