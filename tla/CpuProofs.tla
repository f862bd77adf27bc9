----------------------------- MODULE CpuProofs -----------------------------
(***************************************************************************)
(* Theorems about Cpu, for every cartridge, every wrap of the clock and    *)
(* both builds: its types, the length of a tick, the unused flag and the   *)
(* order of interrupt and instruction, from one inductive invariant.       *)
(***************************************************************************)
EXTENDS Cpu, AluProofs

-----------------------------------------------------------------------------
(* The switch of cpu_tick, row by row: every row has an addressing mode    *)
(* cpu_get_addr knows, and a number of cycles that is at most 8 with what  *)
(* its handler may add.                                                    *)
Branching == {"BEQ", "BNE", "BMI", "BPL", "BCS", "BCC", "BVS", "BVC"}

(* The handlers that call cpu_increment_cycles_if_page_crossed.            *)
Charging == {"SBC", "AND", "ORA", "EOR", "CMP", "LDA", "LDX", "LDY", "LAX", "NOP"}

MostExtra(op) ==
  IF op \in Branching THEN 2 ELSE IF op \in Charging THEN 1 ELSE 0

RowOK(r) ==
  /\ r.mode \in AddrMode
  /\ r.cycles \in Nat /\ r.cycles >= 2
  /\ r.cycles + MostExtra(r.op) <= 8

ColumnOK(column, most) ==
  \A c \in column : /\ c[2] \in AddrMode
                    /\ c[3] \in Nat /\ 2 <= c[3] /\ c[3] <= most

-----------------------------------------------------------------------------
(* A row is within the bounds if its mode and its cycles are.              *)
LEMMA RowBounds ==
  ASSUME NEW code, NEW op, NEW mode \in AddrMode, NEW cycles \in Nat,
         2 <= cycles, cycles + MostExtra(op) <= 8
  PROVE  RowOK(Row(code, op, mode, cycles))
  BY DEF RowOK, Row

(* All the rows of a handler are, if its column is.                        *)
LEMMA RowsBounds ==
  ASSUME NEW op, NEW base, NEW column, NEW most \in Nat,
         ColumnOK(column, most), most + MostExtra(op) <= 8
  PROVE  \A r \in Rows(op, base, column) : RowOK(r)
<1> SUFFICES ASSUME NEW c \in column
             PROVE  RowOK(Row(base + c[1], op, c[2], c[3]))
  BY DEF Rows
<1>1. c[2] \in AddrMode /\ c[3] \in Nat /\ 2 <= c[3] /\ c[3] <= most
  BY DEF ColumnOK
<1>2. MostExtra(op) \in Nat
  BY DEF MostExtra
<1> QED
  BY <1>1, <1>2, RowBounds

LEMMA ImpliedBounds ==
  ASSUME NEW op, NEW code
  PROVE  \A r \in Implied(op, code) : RowOK(r)
<1>1. "IMPLIED" \in AddrMode /\ 2 + MostExtra(op) <= 8
  BY DEF AddrMode, MostExtra
<1> QED
  BY <1>1, RowBounds DEF Implied

(* What each handler may add.                                              *)
LEMMA Extras ==
  /\ \A op \in Branching : MostExtra(op) = 2
  /\ \A op \in Charging : MostExtra(op) = 1
  /\ \A op : op \notin Branching \cup Charging => MostExtra(op) = 0
  BY DEF MostExtra, Branching, Charging

(* The columns of modes that several handlers share.                       *)
LEMMA Columns ==
  /\ ColumnOK(ReadColumn, 6)
  /\ ColumnOK(IndexCompareColumn, 4)
  /\ ColumnOK(ModifyColumn, 7)
  /\ ColumnOK(ShiftColumn, 7)
  /\ ColumnOK(CombinedColumn, 8)
<1>1. ColumnOK(ReadColumn, 6)
  BY DEF ColumnOK, ReadColumn, AddrMode
<1>2. ColumnOK(IndexCompareColumn, 4)
  BY DEF ColumnOK, IndexCompareColumn, AddrMode
<1>3. ColumnOK(ModifyColumn, 7)
  BY DEF ColumnOK, ModifyColumn, AddrMode
<1>4. ColumnOK(ShiftColumn, 7)
  BY <1>3 DEF ColumnOK, ShiftColumn, AddrMode
<1>5. ColumnOK(CombinedColumn, 8)
  BY DEF ColumnOK, CombinedColumn, AddrMode
<1> QED
  BY <1>1, <1>2, <1>3, <1>4, <1>5

-----------------------------------------------------------------------------
(* The sections of the switch.                                             *)
LEMMA ArithmeticBounds == \A r \in ArithmeticRows : RowOK(r)
<1>1. \A op \in {"SBC", "AND", "ORA", "EOR", "CMP", "ADC"} : 6 + MostExtra(op) <= 8
  BY DEF MostExtra
<1>2. \A op \in {"CPX", "CPY", "BIT"} : 4 + MostExtra(op) <= 8
  BY DEF MostExtra
<1>3. ColumnOK({<<\h04, "ZERO_PAGE", 3>>, <<\h0c, "ABSOLUTE", 4>>}, 4)
  BY DEF ColumnOK, AddrMode
<1>4. \A base : \A op \in {"SBC", "AND", "ORA", "EOR", "CMP", "ADC"} :
        \A r \in Rows(op, base, ReadColumn) : RowOK(r)
  BY <1>1, Columns, RowsBounds
<1>5. \A base : \A op \in {"CPX", "CPY"} :
        \A r \in Rows(op, base, IndexCompareColumn) : RowOK(r)
  BY <1>2, Columns, RowsBounds
<1>6. \A r \in Rows("BIT", \h20, {<<\h04, "ZERO_PAGE", 3>>, <<\h0c, "ABSOLUTE", 4>>}) : RowOK(r)
  BY <1>2, <1>3, RowsBounds
<1> QED
  BY <1>4, <1>5, <1>6 DEF ArithmeticRows

LEMMA BranchBounds == \A r \in BranchRows : RowOK(r)
<1>1. "RELATIVE" \in AddrMode /\ \A op : 2 + MostExtra(op) <= 8
  BY DEF AddrMode, MostExtra
<1> QED
  BY <1>1, RowBounds DEF BranchRows

LEMMA FlagBounds == \A r \in ClearFlagRows \cup SetFlagRows \cup TransferRows : RowOK(r)
  BY ImpliedBounds DEF ClearFlagRows, SetFlagRows, TransferRows

LEMMA JumpBounds == \A r \in JumpRows : RowOK(r)
<1>1. \A op \in {"JMP", "JSR", "RTS", "RTI"} : MostExtra(op) = 0
  BY Extras DEF Branching, Charging
<1>2. "ABSOLUTE" \in AddrMode /\ "INDIRECT" \in AddrMode
  BY DEF AddrMode
<1> QED
  BY <1>1, <1>2, RowBounds DEF JumpRows

LEMMA LoadBounds == \A r \in LoadRows : RowOK(r)
<1>1. \A op \in {"LDA", "LDX", "LDY"} : 6 + MostExtra(op) <= 8
  BY DEF MostExtra
<1>2. ColumnOK({<<\h02, "IMMEDIATE", 2>>, <<\h06, "ZERO_PAGE", 3>>,
                <<\h16, "ZERO_PAGE_Y", 4>>, <<\h0e, "ABSOLUTE", 4>>,
                <<\h1e, "ABSOLUTE_Y", 4>>}, 6)
  BY DEF ColumnOK, AddrMode
<1>3. ColumnOK({<<\h00, "IMMEDIATE", 2>>, <<\h04, "ZERO_PAGE", 3>>,
                <<\h14, "ZERO_PAGE_X", 4>>, <<\h0c, "ABSOLUTE", 4>>,
                <<\h1c, "ABSOLUTE_X", 4>>}, 6)
  BY DEF ColumnOK, AddrMode
<1> QED
  BY <1>1, <1>2, <1>3, Columns, RowsBounds DEF LoadRows

LEMMA StackBounds == \A r \in StackRows : RowOK(r)
<1>1. "IMPLIED" \in AddrMode
      /\ \A op \in {"PHA", "PHP", "PLA", "PLP"} : MostExtra(op) = 0
  BY Extras DEF AddrMode, Branching, Charging
<1> QED
  BY <1>1, RowBounds DEF StackRows

LEMMA StoreBounds == \A r \in StoreRows : RowOK(r)
<1>1. \A op : 6 + MostExtra(op) <= 8
  BY DEF MostExtra
<1>2. ColumnOK({<<\h05, "ZERO_PAGE", 3>>, <<\h15, "ZERO_PAGE_X", 4>>,
                <<\h0d, "ABSOLUTE", 4>>, <<\h1d, "ABSOLUTE_X", 5>>,
                <<\h19, "ABSOLUTE_Y", 5>>, <<\h01, "INDIRECT_X", 6>>,
                <<\h11, "INDIRECT_Y", 6>>}, 6)
  BY DEF ColumnOK, AddrMode
<1>3. ColumnOK({<<\h06, "ZERO_PAGE", 3>>, <<\h16, "ZERO_PAGE_Y", 4>>,
                <<\h0e, "ABSOLUTE", 4>>}, 6)
  BY DEF ColumnOK, AddrMode
<1>4. ColumnOK({<<\h04, "ZERO_PAGE", 3>>, <<\h14, "ZERO_PAGE_X", 4>>,
                <<\h0c, "ABSOLUTE", 4>>}, 6)
  BY DEF ColumnOK, AddrMode
<1> QED
  BY <1>1, <1>2, <1>3, <1>4, RowsBounds DEF StoreRows

LEMMA IncDecBounds == \A r \in IncDecRows : RowOK(r)
<1>1. \A op \in {"INC", "DEC"} : 7 + MostExtra(op) <= 8
  BY Extras DEF Branching, Charging
<1>2. \A base : \A op \in {"INC", "DEC"} :
        \A r \in Rows(op, base, ModifyColumn) : RowOK(r)
  BY <1>1, Columns, RowsBounds
<1> QED
  BY <1>2, ImpliedBounds DEF IncDecRows

LEMMA ShiftBounds == \A r \in ShiftRows : RowOK(r)
<1>1. \A op \in {"ASL", "LSR", "ROL", "ROR"} : 7 + MostExtra(op) <= 8
  BY Extras DEF Branching, Charging
<1> QED
  BY <1>1, Columns, RowsBounds DEF ShiftRows

LEMMA BreakBounds == \A r \in BreakRows : RowOK(r)
<1>1. "IMPLIED" \in AddrMode /\ MostExtra("BRK") = 0
  BY Extras DEF AddrMode, Branching, Charging
<1> QED
  BY <1>1, RowBounds, ImpliedBounds DEF BreakRows

LEMMA LaxSaxBounds == \A r \in LaxSaxRows : RowOK(r)
<1>1. \A op : 6 + MostExtra(op) <= 8
  BY DEF MostExtra
<1>2. ColumnOK({<<\h07, "ZERO_PAGE", 3>>, <<\h17, "ZERO_PAGE_Y", 4>>,
                <<\h0f, "ABSOLUTE", 4>>, <<\h1f, "ABSOLUTE_Y", 4>>,
                <<\h03, "INDIRECT_X", 6>>, <<\h13, "INDIRECT_Y", 5>>}, 6)
  BY DEF ColumnOK, AddrMode
<1>3. ColumnOK({<<\h07, "ZERO_PAGE", 3>>, <<\h17, "ZERO_PAGE_Y", 4>>,
                <<\h0f, "ABSOLUTE", 4>>, <<\h03, "INDIRECT_X", 6>>}, 6)
  BY DEF ColumnOK, AddrMode
<1> QED
  BY <1>1, <1>2, <1>3, RowsBounds DEF LaxSaxRows

LEMMA CombinedBounds == \A r \in CombinedRows : RowOK(r)
<1>1. \A op \in {"DCP", "ISB", "RLA", "RRA", "SLO", "SRE"} : 8 + MostExtra(op) <= 8
  BY Extras DEF Branching, Charging
<1>2. \A base : \A op \in {"DCP", "ISB", "RLA", "RRA", "SLO", "SRE"} :
        \A r \in Rows(op, base, CombinedColumn) : RowOK(r)
  BY <1>1, Columns, RowsBounds
<1>3. RowOK(Row(\heb, "SBC", "IMMEDIATE", 2))
  BY RowBounds DEF AddrMode, MostExtra
<1> QED
  BY <1>2, <1>3 DEF CombinedRows

LEMMA NopBounds == \A r \in NopRows : RowOK(r)
<1>1. /\ \A m \in {"IMPLIED", "IMMEDIATE", "ZERO_PAGE", "ZERO_PAGE_X",
                   "ABSOLUTE", "ABSOLUTE_X"} : m \in AddrMode
      /\ MostExtra("NOP") = 1
  BY Extras DEF AddrMode, Charging
<1>2. \A code : /\ RowOK(Row(code, "NOP", "IMPLIED", 2))
                /\ RowOK(Row(code, "NOP", "IMMEDIATE", 2))
                /\ RowOK(Row(code, "NOP", "ZERO_PAGE", 3))
                /\ RowOK(Row(code, "NOP", "ZERO_PAGE_X", 4))
                /\ RowOK(Row(code, "NOP", "ABSOLUTE", 4))
                /\ RowOK(Row(code, "NOP", "ABSOLUTE_X", 4))
  BY <1>1, RowBounds
<1> QED
  BY <1>2 DEF NopRows

-----------------------------------------------------------------------------
(* A row is in one of the sections.                                        *)
LEMMA Sections ==
  \A r \in AllRows :
    \/ r \in ArithmeticRows \/ r \in BranchRows \/ r \in ClearFlagRows
    \/ r \in JumpRows \/ r \in LoadRows \/ r \in StackRows
    \/ r \in SetFlagRows \/ r \in StoreRows \/ r \in TransferRows
    \/ r \in IncDecRows \/ r \in ShiftRows \/ r \in BreakRows
    \/ r \in LaxSaxRows \/ r \in CombinedRows \/ r \in NopRows
  BY SMT DEF AllRows

(* The row Decode finds is one with the opcode.                            *)
LEMMA DecodeRow ==
  ASSUME NEW c \in Handled
  PROVE  Decode[c] \in AllRows /\ Decode[c].code = c
<1>1. \E r \in AllRows : r.code = c
  BY DEF Handled
<1>2. Decode[c] = CHOOSE r \in AllRows : r.code = c
  BY DEF Decode
<1> QED
  BY <1>1, <1>2

(* cpu_tick of cpu.c: whatever the opcode, if the switch has a case for it,*)
(* the mode stored is one of cpu_get_addr and the cycles counted are 2 to  *)
(* 8 with all its handler may add for a page crossing or a branch.         *)
THEOREM DecodeBounds == \A c \in Handled : RowOK(Decode[c])
<1>1. \A r \in AllRows : RowOK(r)
  BY Sections, ArithmeticBounds, BranchBounds, FlagBounds, JumpBounds,
     LoadBounds, StackBounds, StoreBounds, IncDecBounds, ShiftBounds,
     BreakBounds, LaxSaxBounds, CombinedBounds, NopBounds
<1> QED
  BY <1>1, DecodeRow

-----------------------------------------------------------------------------
(* The table of names of cpu.h against the switch: since a name and the    *)
(* handler of every row agree, an opcode has only one handler.             *)
NameOK(r) == r.code \in Byte /\ OPCODES[r.code + 1] = r.op

LEMMA RowNames == \A r \in AllRows : NameOK(r)
<1> USE Bounds DEF NameOK, OPCODES, Row, Rows, Implied
<1>1. \A r \in ArithmeticRows : NameOK(r)
  BY SMTT(30) DEF ArithmeticRows, ReadColumn, IndexCompareColumn
<1>2. \A r \in BranchRows : NameOK(r)
  BY SMTT(30) DEF BranchRows
<1>3. \A r \in ClearFlagRows : NameOK(r)
  BY SMTT(30) DEF ClearFlagRows
<1>4. \A r \in JumpRows : NameOK(r)
  BY SMTT(30) DEF JumpRows
<1>5. \A r \in LoadRows : NameOK(r)
  BY SMTT(30) DEF LoadRows, ReadColumn
<1>6. \A r \in StackRows : NameOK(r)
  BY SMTT(30) DEF StackRows
<1>7. \A r \in SetFlagRows : NameOK(r)
  BY SMTT(30) DEF SetFlagRows
<1>8. \A r \in StoreRows : NameOK(r)
  BY SMTT(30) DEF StoreRows
<1>9. \A r \in TransferRows : NameOK(r)
  BY SMTT(30) DEF TransferRows
<1>10. \A r \in IncDecRows : NameOK(r)
  BY SMTT(30) DEF IncDecRows, ModifyColumn
<1>11. \A r \in ShiftRows : NameOK(r)
  BY SMTT(30) DEF ShiftRows, ShiftColumn, ModifyColumn
<1>12. \A r \in BreakRows : NameOK(r)
  BY SMTT(30) DEF BreakRows
<1>13. \A r \in LaxSaxRows : NameOK(r)
  BY SMTT(30) DEF LaxSaxRows
<1>14. \A r \in CombinedRows : NameOK(r)
  BY SMTT(30) DEF CombinedRows, CombinedColumn
<1>15. \A r \in NopRows : NameOK(r)
  BY SMTT(30) DEF NopRows
<1> HIDE DEF NameOK
<1> QED
  BY Sections, <1>1, <1>2, <1>3, <1>4, <1>5, <1>6, <1>7, <1>8, <1>9, <1>10,
     <1>11, <1>12, <1>13, <1>14, <1>15

(* The row of cpu_tick is one with the opcode fetched, and its handler is  *)
(* the one the table names.                                                *)
LEMMA EntryRow ==
  ASSUME Opcode \in Handled
  PROVE  entry \in AllRows /\ entry.code = Opcode /\ OPCODES[Opcode + 1] = entry.op
  BY DecodeRow, RowNames DEF entry, NameOK

-----------------------------------------------------------------------------
(* Memory.                                                                 *)
LEMMA Indices ==
  /\ \A n : n \in RamIndex <=> n \in Int /\ 0 <= n /\ n <= 2047
  /\ \A n : n \in PrgIndex <=> n \in Int /\ 0 <= n /\ n <= 32767
<1>1. RamSize \in Nat /\ PrgSize \in Nat
  BY SMT DEF RamSize, PrgSize
<1>2. /\ \A n : n \in RamIndex <=> n \in Int /\ 0 <= n /\ n <= RamSize - 1
      /\ \A n : n \in PrgIndex <=> n \in Int /\ 0 <= n /\ n <= PrgSize - 1
  BY <1>1, SMT DEF RamIndex, PrgIndex
<1> QED
  BY <1>2, SMT DEF RamSize, PrgSize

LEMMA Cells ==
  /\ \A r \in Ram : \A i \in RamIndex : r[i] \in Byte
  /\ \A p \in Prg : \A i \in PrgIndex : p[i] \in Byte
  BY Zenon DEF Ram, Prg

(* Any memory read as a byte or as a word, at any address, and stored to.  *)
LEMMA ReadByteType ==
  ASSUME NEW r \in Ram, NEW p \in Prg, NEW s \in Byte, NEW a \in Word
  PROVE  cpu_get_u8(r, p, s, a) \in Byte
<1>1. a \in Int /\ 0 <= a /\ a <= 65535
  BY Bounds
<1>2. 0 \in Byte /\ SramFill \in Byte
  BY Bounds, SMT DEF SramFill
<1>3. CASE a < \h2000
  <2>1. a % RamSize \in RamIndex
    BY <1>1, Indices, SMT DEF RamSize
  <2>2. cpu_get_u8(r, p, s, a) = r[a % RamSize]
    BY <1>1, <1>3, SMT DEF cpu_get_u8, PPU_STATUS
  <2> QED
    BY <2>1, <2>2, Cells
<1>4. CASE a >= \h8000
  <2>1. a - \h8000 \in PrgIndex
    BY <1>1, <1>4, Indices, SMT
  <2>2. cpu_get_u8(r, p, s, a) = p[a - \h8000]
    BY <1>1, <1>4, SMT DEF cpu_get_u8, PPU_STATUS
  <2> QED
    BY <2>1, <2>2, Cells
<1>5. CASE a >= \h2000 /\ a < \h8000
  BY <1>1, <1>2, <1>5, SMT DEF cpu_get_u8, PPU_STATUS
<1> QED
  BY <1>1, <1>3, <1>4, <1>5

LEMMA ReadWordType ==
  ASSUME NEW r \in Ram, NEW p \in Prg, NEW a \in Word
  PROVE  cpu_get_u16(r, p, a) \in Word
<1>1. a \in Int /\ 0 <= a /\ a <= 65535
  BY Bounds
<1>2. 0 \in Word /\ SramFill \in Byte /\ PastSram \in Byte /\ PastPrg \in Byte
  BY Bounds, PastBytes, SMT DEF SramFill
<1>3. CASE a < \h2000
  <2> DEFINE i == a % RamSize
  <2>1. i \in RamIndex /\ (i + 1 # RamSize => i + 1 \in RamIndex)
    BY <1>1, Indices, SMT DEF RamSize
  <2> HIDE DEF i
  <2>2. r[i] \in Byte /\ (IF i + 1 = RamSize THEN SramFill ELSE r[i + 1]) \in Byte
    BY <1>2, <2>1, Cells
  <2>3. cpu_get_u16(r, p, a) =
          u8_to_u16(r[i], IF i + 1 = RamSize THEN SramFill ELSE r[i + 1])
    BY <1>1, <1>3, SMT DEF cpu_get_u16, i
  <2> QED
    BY <2>2, <2>3, WordOfBytes
<1>4. CASE a >= \h8000
  <2>1. a - \h8000 \in PrgIndex /\ (a # \hffff => a - \h7fff \in PrgIndex)
    BY <1>1, <1>4, Indices, SMT
  <2>2. p[a - \h8000] \in Byte /\ (IF a = \hffff THEN PastPrg ELSE p[a - \h7fff]) \in Byte
    BY <1>2, <2>1, Cells
  <2>3. cpu_get_u16(r, p, a) =
          u8_to_u16(p[a - \h8000], IF a = \hffff THEN PastPrg ELSE p[a - \h7fff])
    BY <1>1, <1>4 DEF cpu_get_u16
  <2> QED
    BY <2>2, <2>3, WordOfBytes
<1>5. CASE a >= \h6000 /\ a < \h8000
  BY <1>1, <1>2, <1>5, WordOfBytes DEF cpu_get_u16
<1>6. CASE a >= \h2000 /\ a < \h6000
  BY <1>1, <1>2, <1>6 DEF cpu_get_u16
<1> QED
  BY <1>1, <1>3, <1>4, <1>5, <1>6

LEMMA StoreType ==
  ASSUME NEW r \in Ram, NEW a, NEW v \in Byte
  PROVE  cpu_set_u8(r, a, v) \in Ram
<1> DEFINE x == a % RamSize
<1>1. [r EXCEPT ![x] = v] \in Ram
  BY Zenon DEF Ram
<1> QED
  BY <1>1 DEF cpu_set_u8

-----------------------------------------------------------------------------
(* What the state has its type for: the memory as an instruction sees it,  *)
(* the stack, and the operand.                                             *)
LEMMA MemoryTypes ==
  ASSUME TypeOK
  PROVE  /\ \A a \in Word : Get8(a) \in Byte /\ Get16(a) \in Word
         /\ \A a \in Byte : Get8(a) \in Byte
         /\ Here \in Word /\ Zp \in Byte /\ Abs \in Word /\ Opcode \in Byte
<1>1. rom \in Prg
  BY GamesAssumption DEF TypeOK, rom
<1>2. Status \in Byte
  BY Bounds, SMT DEF Status
<1>3. \A a \in Word : Get8(a) \in Byte /\ Get16(a) \in Word
  BY <1>1, <1>2, ReadByteType, ReadWordType DEF TypeOK, Get8, Get16
<1>4. Byte \subseteq Word
  BY Bounds
<1>5. Here \in Word /\ PC \in Word
  BY Bounds, ConversionTypes DEF TypeOK, Here
<1>6. Opcode \in Byte
  BY <1>3, <1>5, Bounds DEF Opcode
<1> QED
  BY <1>3, <1>4, <1>5, <1>6 DEF Zp, Abs

LEMMA StackTypes ==
  ASSUME TypeOK
  PROVE  /\ \A n \in Int : StackAt(n) \in RamIndex
         /\ \A n \in Int : Pop8(n) \in Byte /\ Pop16(n) \in Word
         /\ \A n \in Int : U8(SP + n) \in Byte /\ U8(SP - n) \in Byte
         /\ \A b1, b2 \in Byte : Push2(b1, b2) \in Ram
         /\ \A b1, b2, b3 \in Byte : Push3(b1, b2, b3) \in Ram
         /\ \A b \in Byte : [ram EXCEPT ![StackAt(SP)] = b] \in Ram
<1>1. SP \in Int /\ ram \in Ram
  BY Bounds DEF TypeOK
<1>2. ASSUME NEW n \in Int PROVE StackAt(n) \in RamIndex
  <2>1. U8(n) \in Int /\ 0 <= U8(n) /\ U8(n) <= 255
    BY ConversionTypes, Bounds
  <2> QED
    BY <2>1, Indices, SMT DEF StackAt
<1>3. \A n \in Int : Pop8(n) \in Byte
  BY <1>1, <1>2, Cells DEF Pop8
<1>4. \A n \in Int : Pop16(n) \in Word
  BY <1>3, WordOfBytes DEF Pop16
<1>5. \A r \in Ram, b \in Byte : \A x : [r EXCEPT ![x] = b] \in Ram
  BY Zenon DEF Ram
<1>6. ASSUME NEW b1 \in Byte, NEW b2 \in Byte PROVE Push2(b1, b2) \in Ram
  <2>1. [ram EXCEPT ![StackAt(SP)] = b1] \in Ram
    BY <1>1, <1>5
  <2> QED
    BY <2>1, <1>5 DEF Push2
<1>7. ASSUME NEW b1 \in Byte, NEW b2 \in Byte, NEW b3 \in Byte
      PROVE  Push3(b1, b2, b3) \in Ram
  <2>1. Push2(b1, b2) \in Ram
    BY <1>6
  <2> HIDE DEF Push2
  <2> QED
    BY <2>1, <1>5 DEF Push3
<1>8. \A n \in Int : U8(SP + n) \in Byte /\ U8(SP - n) \in Byte
  BY <1>1, ConversionTypes
<1> QED
  BY <1>1, <1>2, <1>3, <1>4, <1>5, <1>6, <1>7, <1>8

(* cpu_get_addr returns a word, in every mode.                             *)
LEMMA AddressType ==
  ASSUME TypeOK, NEW mode \in AddrMode
  PROVE  Address(mode) \in Word
<1>1. X \in Byte /\ Y \in Byte /\ Byte \subseteq Int /\ Word \subseteq Int
      /\ Byte \subseteq Word /\ 0 \in Word
  BY Bounds DEF TypeOK
<1>2. \A m, n \in Int : U8(m + n) \in Byte /\ U16(m + n) \in Word
  BY ConversionTypes
<1>3. ASSUME NEW z \in Byte PROVE ZeroPagePointer(z) \in Word
  <2>1. U8(z + 1) \in Byte
    BY <1>1, <1>2
  <2>2. Get8(z) \in Byte /\ Get8(U8(z + 1)) \in Byte
    BY <2>1, MemoryTypes
  <2> QED
    BY <2>2, WordOfBytes DEF ZeroPagePointer
<1>4. NextInPage(Abs) \in Word
  <2>0. Abs \in Word
    BY MemoryTypes
  <2>1. Abs \in Word /\ Abs + 1 \in Int
    BY <1>1, <2>0
  <2>2. Hi(Abs) \in Byte /\ U8(Abs + 1) \in Byte
    BY <2>1, ConversionTypes
  <2>3. \A lo, hi \in Byte : 256 * hi + lo = lo + 256 * hi
    BY Bounds, SMT
  <2>4. NextInPage(Abs) = u8_to_u16(U8(Abs + 1), Hi(Abs))
    BY <2>2, <2>3, WordOfBytes DEF NextInPage
  <2> QED
    BY <2>2, <2>4, WordOfBytes
<1>5. u8_to_u16(Get8(Abs), Get8(NextInPage(Abs))) \in Word
  BY <1>4, MemoryTypes, WordOfBytes
<1>6. /\ U8(Zp + X) \in Byte /\ U8(Zp + Y) \in Byte
      /\ U16(Abs + X) \in Word /\ U16(Abs + Y) \in Word
      /\ U16(ZeroPagePointer(Zp) + Y) \in Word
  BY <1>1, <1>2, <1>3, MemoryTypes
<1> QED
  BY <1>1, <1>3, <1>5, <1>6, MemoryTypes DEF Address, AddrMode

-----------------------------------------------------------------------------
(* The inductive invariant.  TickBounded needs the bounds of the switch    *)
(* and that an instruction starts from 0 or 7 cycles, the unused flag that *)
(* the status is one in which it is set.  That cpu_interrupt has taken the *)
(* interrupt that was pending is for the loop of main (EmulatorProofs).    *)
NmiBeforeInstruction == phase = "execute" => ~is_nmi

IInv == TypeOK /\ TickBounded /\ UnusedStaysSet /\ NmiBeforeInstruction

(* A handler starts, with what it finds within types.                      *)
Executing(d) ==
  /\ IInv
  /\ phase = "execute"
  /\ RowOK(d)
  /\ d.addr \in Word
  /\ d.operand \in Byte
  /\ d.crossed \in BOOLEAN

LEMMA DecodedType ==
  ASSUME IInv, phase = "execute", Opcode \in Handled
  PROVE  Executing(Decoded)
<1> DEFINE addr == Address(entry.mode)
           op == entry.op
           mode == entry.mode
           cycles == entry.cycles
           operand == IF mode = "ACCUMULATOR" THEN A ELSE Get8(addr)
           crossed == Crossed(addr, CrossingIndex(mode))
<1>1. /\ mode \in AddrMode /\ cycles \in Nat /\ cycles >= 2
      /\ cycles + MostExtra(op) <= 8
  BY DecodeBounds DEF entry, RowOK
<1>2. addr \in Word
  BY <1>1, AddressType DEF IInv
<1>3. operand \in Byte
  <2> HIDE DEF addr, mode
  <2> QED
    BY <1>2, MemoryTypes DEF IInv, TypeOK
<1>4. crossed \in BOOLEAN
  BY Zenon DEF Crossed
<1>5. Decoded = [op |-> op, mode |-> mode, cycles |-> cycles, addr |-> addr,
                 crossed |-> crossed, operand |-> operand]
  BY Zenon DEF Decoded
<1> HIDE DEF addr, op, mode, cycles, operand, crossed
<1> QED
  BY <1>1, <1>2, <1>3, <1>4, <1>5 DEF Executing, RowOK

(* What a handler does to the registers and the RAM, and to the program    *)
(* counter and the counts, within types.                                   *)
Computed ==
  /\ SP' \in Byte /\ A' \in Byte /\ X' \in Byte /\ Y' \in Byte
  /\ Status8(P')
  /\ ram' \in Ram

Moved ==
  /\ PC' \in Word
  /\ page_crossed' \in BOOLEAN
  /\ instr_cycles' \in 2 .. 15

(* The cycles of a row and the extra ones its handler may count.           *)
LEMMA CyclesCounted ==
  ASSUME NEW d, Executing(d), NEW extra \in Nat, extra <= MostExtra(d.op),
         Takes(d, extra)
  PROVE  instr_cycles' \in 2 .. 15
<1>1. instr_cycles \in {0, 7}
  BY DEF Executing, IInv, TickBounded
<1>2. d.cycles \in Nat /\ d.cycles >= 2 /\ d.cycles + MostExtra(d.op) <= 8
  BY DEF Executing, RowOK
<1>3. MostExtra(d.op) \in Nat
  BY DEF MostExtra
<1> QED
  BY <1>1, <1>2, <1>3, SMT DEF Takes, U8

(* The three shapes of a handler.                                          *)
LEMMA AddressStep ==
  ASSUME NEW d, Executing(d), GetAddr(d)
  PROVE  PC' \in Word /\ page_crossed' \in BOOLEAN
<1>1. PC \in Int /\ \A m \in AddrMode : OperandBytes[m] \in Int
  BY Bounds DEF Executing, IInv, TypeOK, OperandBytes
<1>2. OperandBytes[d.mode] \in Int
  BY <1>1 DEF Executing, RowOK
<1>3. PC' \in Word
  BY <1>1, <1>2, ConversionTypes DEF GetAddr
<1> QED
  BY <1>3 DEF GetAddr, Executing

LEMMA ChargedStep ==
  ASSUME NEW d, Executing(d), NEW op \in Charging, Charged(d, op)
  PROVE  Moved
<1> DEFINE extra == IF page_crossed' THEN 1 ELSE 0
<1>1. extra \in Nat /\ extra <= MostExtra(d.op) /\ Takes(d, extra)
  BY Extras DEF Charged
<1>2. GetAddr(d)
  BY DEF Charged
<1> QED
  BY <1>1, <1>2, AddressStep, CyclesCounted DEF Moved

LEMMA UnchargedStep ==
  ASSUME NEW d, Executing(d), NEW op, Uncharged(d, op) \/ NoAddress(d, op)
  PROVE  Moved
<1>1. 0 <= MostExtra(d.op) /\ Takes(d, 0)
  BY DEF MostExtra, Uncharged, NoAddress
<1>2. CASE Uncharged(d, op)
  BY <1>1, <1>2, AddressStep, CyclesCounted DEF Uncharged, Moved
<1>3. CASE NoAddress(d, op)
  <2>1. Here \in Word /\ page_crossed \in BOOLEAN
    BY MemoryTypes DEF Executing, IInv, TypeOK
  <2> QED
    BY <1>1, <1>3, <2>1, CyclesCounted DEF NoAddress, Moved
<1> QED
  BY <1>2, <1>3

-----------------------------------------------------------------------------
(* What a handler does with its result is within types if the result is.   *)
LEMMA ResultTypes ==
  ASSUME NEW d, Executing(d), NEW v \in Byte, NEW a \in Byte,
         NEW status, Status8(status)
  PROVE  /\ SetA(v, status) \/ SetX(v, status) \/ SetY(v, status) => Computed
         /\ SetP(status) => Computed
         /\ SetMemory(d, v, status) => Computed
         /\ SetBoth(d, v, a, status) => Computed
<1>1. /\ SP \in Byte /\ A \in Byte /\ X \in Byte /\ Y \in Byte /\ ram \in Ram
      /\ Status8(P)
  BY DEF Executing, IInv, TypeOK, UnusedStaysSet, Status8
<1>2. Store(d, v) => ram' \in Ram
  BY <1>1, StoreType DEF Store
<1>3. SetA(v, status) \/ SetX(v, status) \/ SetY(v, status) => Computed
  BY <1>1 DEF SetA, SetX, SetY, Computed
<1>4. SetP(status) => Computed
  BY <1>1 DEF SetP, registers, Computed
<1>5. SetMemory(d, v, status) => Computed
  BY <1>1, <1>2 DEF SetMemory, registers, Computed
<1>6. SetBoth(d, v, a, status) => Computed
  BY <1>1, <1>2 DEF SetBoth, Computed
<1> QED
  BY <1>3, <1>4, <1>5, <1>6

(* What the handlers find: the registers, the status and the operand.      *)
LEMMA InputTypes ==
  ASSUME NEW d, Executing(d)
  PROVE  /\ A \in Byte /\ X \in Byte /\ Y \in Byte /\ SP \in Byte
         /\ d.operand \in Byte /\ Incremented(d) \in Byte /\ Decremented(d) \in Byte
         /\ Status8(P) /\ ram \in Ram
<1>1. d.operand \in Byte /\ d.operand \in Int
  BY Bounds DEF Executing
<1>2. Incremented(d) \in Byte /\ Decremented(d) \in Byte
  BY <1>1, ConversionTypes DEF Incremented, Decremented
<1> QED
  BY <1>1, <1>2 DEF Executing, IInv, TypeOK, UnusedStaysSet, Status8

(* Arithmetic, logic, comparisons.                                         *)
LEMMA ArithmeticSteps ==
  ASSUME NEW d, Executing(d),
         \/ ADC(d) \/ SBC(d) \/ AND(d) \/ ORA(d) \/ EOR(d)
         \/ CMP(d) \/ CPX(d) \/ CPY(d) \/ BIT(d)
  PROVE  Computed /\ Moved
<1>1. CASE ADC(d)
  <2>1. Computed
    BY <1>1, InputTypes, AddSubTypes, ResultTypes DEF ADC, Outcome
  <2> QED
    BY <1>1, <2>1, UnchargedStep DEF ADC
<1>2. CASE SBC(d)
  <2>1. Computed
    BY <1>2, InputTypes, AddSubTypes, ResultTypes DEF SBC, Outcome
  <2> QED
    BY <1>2, <2>1, ChargedStep DEF SBC, Charging
<1>3. CASE AND(d) \/ ORA(d) \/ EOR(d)
  <2>1. Computed
    BY <1>3, InputTypes, LogicTypes, SetZNStatus, ResultTypes DEF AND, ORA, EOR, Logic
  <2> QED
    BY <1>3, <2>1, ChargedStep DEF AND, ORA, EOR, Logic, Charging
<1>4. CASE CMP(d)
  <2>1. Computed
    BY <1>4, InputTypes, CompareTypes, ResultTypes DEF CMP
  <2> QED
    BY <1>4, <2>1, ChargedStep DEF CMP, Charging
<1>5. CASE CPX(d) \/ CPY(d) \/ BIT(d)
  <2>1. Computed
    BY <1>5, InputTypes, CompareTypes, ResultTypes DEF CPX, CPY, BIT
  <2> QED
    BY <1>5, <2>1, UnchargedStep DEF CPX, CPY, BIT
<1> QED
  BY <1>1, <1>2, <1>3, <1>4, <1>5

(* Branches.                                                               *)
LEMMA BranchStep ==
  ASSUME NEW d, Executing(d), NEW op \in Branching, NEW taken \in BOOLEAN,
         Branch(d, op, taken)
  PROVE  Computed /\ Moved
<1> DEFINE next   == U16(PC + 2)
           target == U16(next + S8(d.operand))
           extra  == IF ~taken THEN 0 ELSE IF addr_are_same_page(next, target) THEN 1 ELSE 2
<1>1. next \in Word /\ target \in Word
  <2>1. PC + 2 \in Int
    BY Bounds DEF Executing, IInv, TypeOK
  <2>2. next \in Word /\ next \in Int
    BY <2>1, ConversionTypes, Bounds
  <2>3. S8(d.operand) \in Int
    BY InputTypes, ConversionTypes
  <2>4. next + S8(d.operand) \in Int
    BY <2>2, <2>3
  <2> QED
    BY <2>2, <2>4, ConversionTypes
<1> HIDE DEF next, target
<1>2. PC' \in Word /\ Takes(d, extra)
  BY <1>1 DEF Branch, next, target
<1>3. page_crossed' \in BOOLEAN
  BY DEF Branch
<1>4. Computed
  BY InputTypes DEF Branch, registers, Computed
<1>5. extra \in Nat /\ extra <= MostExtra(d.op)
  BY Extras DEF Branch
<1> HIDE DEF extra
<1> QED
  BY <1>2, <1>3, <1>4, <1>5, CyclesCounted DEF Moved

LEMMA BranchSteps ==
  ASSUME NEW d, Executing(d),
         \/ BEQ(d) \/ BNE(d) \/ BMI(d) \/ BPL(d)
         \/ BCS(d) \/ BCC(d) \/ BVS(d) \/ BVC(d)
  PROVE  Computed /\ Moved
<1>1. \A f : (f \in P) \in BOOLEAN /\ (f \notin P) \in BOOLEAN
  OBVIOUS
<1>2. {"BEQ", "BNE", "BMI", "BPL", "BCS", "BCC", "BVS", "BVC"} \subseteq Branching
  BY DEF Branching
<1>3. PICK op \in Branching, taken \in BOOLEAN : Branch(d, op, taken)
  BY <1>1, <1>2, Zenon DEF BEQ, BNE, BMI, BPL, BCS, BCC, BVS, BVC
<1> QED
  BY <1>3, BranchStep

(* Status flags: none of the instructions names the unused one.            *)
LEMMA FlagSteps ==
  ASSUME NEW d, Executing(d),
         CLC(d) \/ CLD(d) \/ CLI(d) \/ CLV(d) \/ SEC(d) \/ SED(d) \/ SEI(d)
  PROVE  Computed /\ Moved
<1>1. /\ \A f \in {"C", "D", "I", "V"} : Status8(P \ {f})
      /\ \A f \in {"C", "D", "I"} : Status8(P \cup {f})
  BY DEF Executing, IInv, TypeOK, UnusedStaysSet, Status8, Flag
<1>2. PICK op, status : NoAddress(d, op) /\ SetP(status) /\ Status8(status)
  BY <1>1 DEF CLC, CLD, CLI, CLV, SEC, SED, SEI
<1>3. 0 \in Byte
  BY Bounds
<1>4. Computed
  BY <1>2, <1>3, ResultTypes
<1> QED
  BY <1>2, <1>4, UnchargedStep

(* Jumps, returns and BRK do not count a page crossing.                    *)
LEMMA JumpSteps ==
  ASSUME NEW d, Executing(d), JMP(d) \/ JSR(d) \/ RTS(d) \/ RTI(d) \/ BRK(d)
  PROVE  Computed /\ Moved
<1>1. instr_cycles' \in 2 .. 15
  <2>1. Takes(d, 0) /\ 0 <= MostExtra(d.op)
    BY DEF JMP, JSR, RTS, RTI, BRK, MostExtra
  <2> QED
    BY <2>1, CyclesCounted
<1>2. /\ TypeOK /\ PC \in Int /\ SP \in Byte /\ A \in Byte /\ X \in Byte /\ Y \in Byte
      /\ ram \in Ram /\ page_crossed \in BOOLEAN /\ Status8(P)
  BY Bounds DEF Executing, IInv, TypeOK, UnusedStaysSet, Status8
<1>3. \A n \in Int : Lo(U16(PC + n)) \in Byte /\ Hi(U16(PC + n)) \in Byte
  BY <1>2, ConversionTypes
<1>4. CASE JMP(d)
  <2>1. Computed
    BY <1>2, <1>4 DEF JMP, registers, Computed
  <2>2. PC' \in Word /\ page_crossed' \in BOOLEAN
    BY <1>4 DEF JMP, Executing
  <2> QED
    BY <1>1, <2>1, <2>2 DEF Moved
<1>5. CASE JSR(d)
  <2>1. Computed
    BY <1>2, <1>3, <1>5, StackTypes DEF JSR, registers, Computed
  <2>2. PC' \in Word /\ page_crossed' \in BOOLEAN
    BY <1>2, <1>5, MemoryTypes DEF JSR
  <2> QED
    BY <1>1, <2>1, <2>2 DEF Moved
<1>6. CASE RTS(d)
  <2>1. Computed
    BY <1>2, <1>6, StackTypes DEF RTS, registers, Computed
  <2>2. Pop16(1) + 1 \in Int
    <3>1. Pop16(1) \in Word
      BY <1>2, StackTypes
    <3> QED
      BY <3>1, Bounds
  <2>3. PC' \in Word /\ page_crossed' \in BOOLEAN
    BY <1>2, <1>6, <2>2, ConversionTypes DEF RTS
  <2> QED
    BY <1>1, <2>1, <2>3 DEF Moved
<1>7. CASE RTI(d)
  <2>1. Status8(P')
    BY <1>2, <1>7, PFlagsType DEF RTI, Status8
  <2>2. Computed
    BY <1>2, <1>7, <2>1, StackTypes DEF RTI, registers, Computed
  <2>3. PC' \in Word /\ page_crossed' \in BOOLEAN
    BY <1>2, <1>7, StackTypes DEF RTI
  <2> QED
    BY <1>1, <2>2, <2>3 DEF Moved
<1>8. CASE BRK(d)
  <2>1. Status8(P')
    BY <1>2, <1>8 DEF BRK, Status8, Flag
  <2>2. PByte(P') \in Byte
    BY ByteOfType DEF PByte
  <2>3. Computed
    BY <1>2, <1>3, <1>8, <2>1, <2>2, StackTypes DEF BRK, registers, Computed
  <2>4. IRQ_VECTOR \in Word
    BY Bounds, SMT DEF IRQ_VECTOR
  <2>5. PC' \in Word /\ page_crossed' \in BOOLEAN
    BY <1>2, <1>8, <2>4, MemoryTypes DEF BRK
  <2> QED
    BY <1>1, <2>3, <2>5 DEF Moved
<1> QED
  BY <1>4, <1>5, <1>6, <1>7, <1>8

(* Loads, stores, transfers.                                               *)
LEMMA LoadSteps ==
  ASSUME NEW d, Executing(d), LDA(d) \/ LDX(d) \/ LDY(d) \/ LAX(d)
  PROVE  Computed /\ Moved
<1>1. PICK op \in Charging : Charged(d, op)
  BY DEF LDA, LDX, LDY, LAX, Charging
<1>2. d.operand \in Byte /\ Status8(SetZN(P, d.operand))
  BY InputTypes, SetZNStatus
<1>3. Computed
  <2>1. CASE LDA(d) \/ LDX(d) \/ LDY(d)
    BY <1>2, <2>1, ResultTypes DEF LDA, LDX, LDY
  <2>2. CASE LAX(d)
    BY <1>2, <2>2, InputTypes DEF LAX, Computed
  <2> QED
    BY <2>1, <2>2
<1> QED
  BY <1>1, <1>3, ChargedStep

LEMMA StoreSteps ==
  ASSUME NEW d, Executing(d), STA(d) \/ STX(d) \/ STY(d) \/ SAX(d)
  PROVE  Computed /\ Moved
<1>1. PICK op : \E v \in {A, X, Y, AndByte(A, X)} : StoreRegister(d, op, v)
  BY DEF STA, STX, STY, SAX
<1>2. PICK v \in {A, X, Y, AndByte(A, X)} : StoreRegister(d, op, v)
  BY <1>1
<1>3. v \in Byte
  BY InputTypes, LogicTypes
<1>4. Computed
  BY <1>2, <1>3, InputTypes, StoreType DEF StoreRegister, Store, registers, Computed
<1> QED
  BY <1>2, <1>4, UnchargedStep DEF StoreRegister

LEMMA TransferSteps ==
  ASSUME NEW d, Executing(d),
         TAX(d) \/ TAY(d) \/ TSX(d) \/ TXA(d) \/ TYA(d) \/ TXS(d)
  PROVE  Computed /\ Moved
<1>1. \A b \in Byte : Status8(SetZN(P, b))
  BY InputTypes, SetZNStatus
<1>2. Computed
  <2>1. CASE TXS(d)
    BY <2>1, InputTypes DEF TXS, registers, Computed
  <2>2. CASE TAX(d) \/ TAY(d) \/ TSX(d) \/ TXA(d) \/ TYA(d)
    BY <1>1, <2>2, InputTypes, ResultTypes DEF TAX, TAY, TSX, TXA, TYA
  <2> QED
    BY <2>1, <2>2
<1>3. \E op : NoAddress(d, op)
  BY DEF TAX, TAY, TSX, TXA, TYA, TXS
<1> QED
  BY <1>2, <1>3, UnchargedStep

(* Stack.                                                                  *)
LEMMA StackSteps ==
  ASSUME NEW d, Executing(d), PHA(d) \/ PHP(d) \/ PLA(d) \/ PLP(d)
  PROVE  Computed /\ Moved
<1>1. TypeOK /\ SP \in Byte /\ A \in Byte /\ X \in Byte /\ Y \in Byte
      /\ Status8(P) /\ ram \in Ram
  BY DEF Executing, IInv, TypeOK, UnusedStaysSet, Status8
<1>2. /\ U8(SP - 1) \in Byte /\ U8(SP + 1) \in Byte
      /\ Pop8(1) \in Byte /\ PByte(P \cup {"B"}) \in Byte
      /\ \A b \in Byte : [ram EXCEPT ![StackAt(SP)] = b] \in Ram
  BY <1>1, StackTypes, ByteOfType DEF PByte
<1>3. CASE PHA(d) \/ PHP(d)
  <2>1. PICK b \in Byte : PushRegister(d, "PHA", b) \/ PushRegister(d, "PHP", b)
    BY <1>1, <1>2, <1>3, Zenon DEF PHA, PHP
  <2>2. Computed
    BY <1>1, <1>2, <2>1 DEF PushRegister, registers, Computed
  <2> QED
    BY <2>1, <2>2, UnchargedStep DEF PushRegister
<1>4. CASE PLA(d)
  <2>1. Status8(P')
    BY <1>1, <1>4, SetZNStatus DEF PLA
  <2>2. Computed
    BY <1>1, <1>2, <1>4, <2>1 DEF PLA, Computed
  <2> QED
    BY <1>4, <2>2, UnchargedStep DEF PLA
<1>5. CASE PLP(d)
  <2>1. Status8(P')
    BY <1>1, <1>5, PFlagsType DEF PLP, Status8
  <2>2. Computed
    BY <1>1, <1>2, <1>5, <2>1 DEF PLP, registers, Computed
  <2> QED
    BY <1>5, <2>2, UnchargedStep DEF PLP
<1> QED
  BY <1>3, <1>4, <1>5

(* Increments and decrements.                                              *)
LEMMA IncDecSteps ==
  ASSUME NEW d, Executing(d),
         INC(d) \/ DEC(d) \/ INX(d) \/ INY(d) \/ DEX(d) \/ DEY(d)
  PROVE  Computed /\ Moved
<1>1. \A b \in Byte : Status8(SetZN(P, b))
  BY InputTypes, SetZNStatus
<1>2. /\ U8(X + 1) \in Byte /\ U8(Y + 1) \in Byte
      /\ U8(X - 1) \in Byte /\ U8(Y - 1) \in Byte
  <2>1. X \in Int /\ Y \in Int
    BY InputTypes, Bounds
  <2> QED
    BY <2>1, ConversionTypes
<1>3. Computed
  BY <1>1, <1>2, InputTypes, ResultTypes DEF INC, DEC, INX, INY, DEX, DEY
<1>4. \E op : Uncharged(d, op) \/ NoAddress(d, op)
  BY DEF INC, DEC, INX, INY, DEX, DEY
<1> QED
  BY <1>3, <1>4, UnchargedStep

(* Shifts and rotations.                                                   *)
LEMMA ShiftSteps ==
  ASSUME NEW d, Executing(d), ASL(d) \/ LSR(d) \/ ROL(d) \/ ROR(d)
  PROVE  Computed /\ Moved
<1>1. PICK op, r : Shift(d, op, r) /\ Outcome(r)
  BY InputTypes, ShiftTypes DEF ASL, LSR, ROL, ROR
<1>2. Computed
  BY <1>1, ResultTypes DEF Shift, Outcome
<1> QED
  BY <1>1, <1>2, UnchargedStep DEF Shift

(* NOP, and the combined undocumented instructions.                        *)
LEMMA CombinedSteps ==
  ASSUME NEW d, Executing(d),
         NOP(d) \/ DCP(d) \/ ISB(d) \/ RLA(d) \/ SLO(d) \/ SRE(d) \/ RRA(d)
  PROVE  Computed /\ Moved
<1>1. CASE NOP(d)
  <2>1. Computed
    BY <1>1, InputTypes DEF NOP, registers, Computed
  <2> QED
    BY <1>1, <2>1, ChargedStep DEF NOP, Charging
<1>2. CASE DCP(d)
  <2>1. Computed
    BY <1>2, InputTypes, CompareTypes, ResultTypes DEF DCP
  <2> QED
    BY <1>2, <2>1, UnchargedStep DEF DCP
<1>3. CASE ISB(d)
  <2>1. Computed
    BY <1>3, InputTypes, AddSubTypes, ResultTypes DEF ISB, Outcome
  <2> QED
    BY <1>3, <2>1, UnchargedStep DEF ISB
<1>4. CASE RLA(d) \/ SLO(d) \/ SRE(d)
  <2>1. /\ Outcome(rotate_left(P, d.operand))
        /\ Outcome(shift_left(P, d.operand))
        /\ Outcome(shift_right(P, d.operand))
    BY InputTypes, ShiftTypes
  <2>2. \A b \in Byte : AndByte(A, b) \in Byte /\ OrByte(A, b) \in Byte
                          /\ XorByte(A, b) \in Byte
    BY LogicTypes
  <2>3. ASSUME NEW op, NEW r, NEW a \in Byte, Outcome(r), ShiftThen(d, op, r, a)
        PROVE  Computed /\ Moved
    <3>1. Computed
      BY <2>3, SetZNStatus, ResultTypes DEF ShiftThen, Outcome
    <3> QED
      BY <2>3, <3>1, UnchargedStep DEF ShiftThen
  <2>4. CASE RLA(d)
    <3> DEFINE r == rotate_left(P, d.operand)
    <3>1. Outcome(r) /\ ShiftThen(d, "RLA", r, AndByte(A, r.val))
      BY <2>1, <2>4 DEF RLA
    <3> HIDE DEF r
    <3> QED
      BY <2>2, <2>3, <3>1 DEF Outcome
  <2>5. CASE SLO(d)
    <3> DEFINE r == shift_left(P, d.operand)
    <3>1. Outcome(r) /\ ShiftThen(d, "SLO", r, OrByte(A, r.val))
      BY <2>1, <2>5 DEF SLO
    <3> HIDE DEF r
    <3> QED
      BY <2>2, <2>3, <3>1 DEF Outcome
  <2>6. CASE SRE(d)
    <3> DEFINE r == shift_right(P, d.operand)
    <3>1. Outcome(r) /\ ShiftThen(d, "SRE", r, XorByte(A, r.val))
      BY <2>1, <2>6 DEF SRE
    <3> HIDE DEF r
    <3> QED
      BY <2>2, <2>3, <3>1 DEF Outcome
  <2> QED
    BY <1>4, <2>4, <2>5, <2>6
<1>5. CASE RRA(d)
  <2> DEFINE r == rotate_right(P, d.operand)
             s == add(r.P, A, r.val)
  <2>1. Outcome(r)
    BY InputTypes, ShiftTypes
  <2>2. Outcome(s)
    BY <2>1, InputTypes, AddSubTypes DEF Outcome
  <2>3. SetBoth(d, r.val, s.val, s.P)
    BY <1>5 DEF RRA
  <2> HIDE DEF r, s
  <2>4. Computed
    BY <2>1, <2>2, <2>3, ResultTypes DEF Outcome
  <2> QED
    BY <1>5, <2>4, UnchargedStep DEF RRA
<1> QED
  BY <1>1, <1>2, <1>3, <1>4, <1>5

-----------------------------------------------------------------------------
(* Whatever the row of the switch, the invariant holds after it.           *)
LEMMA HandlerSteps ==
  ASSUME NEW d, Executing(d), Handler(d)
  PROVE  Computed /\ Moved
  BY ArithmeticSteps, BranchSteps, FlagSteps, JumpSteps, LoadSteps, StoreSteps,
     TransferSteps, StackSteps, IncDecSteps, ShiftSteps, CombinedSteps
  DEF Handler

LEMMA InstructionSteps ==
  ASSUME IInv, Instruction
  PROVE  IInv'
<1>1. PICK d \in {Decoded} : Handler(d) /\ is_vblank' \in BOOLEAN
  BY DEF Instruction
<1>2. Executing(d)
  <2>1. Executing(Decoded)
    BY DecodedType DEF Instruction
  <2>2. d = Decoded
    BY Zenon
  <2> QED
    BY <2>1, <2>2, Zenon
<1>3. Computed /\ Moved
  BY <1>1, <1>2, HandlerSteps
<1>4. game' = game /\ is_nmi' = is_nmi /\ phase' = "ppu"
  BY DEF Instruction
<1>5. clock' \in 0 .. ClockMod - 1
  <2>1. clock' = (clock + instr_cycles') % ClockMod
    BY DEF Instruction
  <2>2. clock + instr_cycles' \in Int
    BY <1>3, ClockAssumption, SMT DEF Moved, IInv, TypeOK
  <2> QED
    BY <2>1, <2>2, ClockAssumption, SMT
<1>6. instr_cycles' \in Byte
  BY <1>3, Bounds DEF Moved
<1>7. TypeOK'
  BY <1>1, <1>3, <1>4, <1>5, <1>6, Zenon
  DEF IInv, TypeOK, Computed, Moved, Status8, Phases
<1>8. TickBounded'
  BY <1>3, <1>4, SMT DEF Moved, TickBounded
<1>9. UnusedStaysSet' /\ NmiBeforeInstruction'
  BY <1>3, <1>4 DEF Computed, Status8, UnusedStaysSet, NmiBeforeInstruction
<1> QED
  BY <1>7, <1>8, <1>9 DEF IInv

(* The interrupt: with none, and with one.                                 *)
LEMMA InterruptSteps ==
  ASSUME IInv, NoInterrupt \/ ServiceNmi
  PROVE  IInv'
<1>1. /\ TypeOK /\ PC \in Word /\ SP \in Byte /\ A \in Byte /\ X \in Byte /\ Y \in Byte
      /\ ram \in Ram /\ page_crossed \in BOOLEAN /\ Status8(P)
  BY DEF IInv, TypeOK, UnusedStaysSet, Status8
<1>2. 0 \in Byte /\ 7 \in Byte /\ NMI_VECTOR \in Word
  BY Bounds, SMT DEF NMI_VECTOR
<1>3. CASE NoInterrupt
  BY <1>1, <1>2, <1>3
  DEF NoInterrupt, IInv, TypeOK, TickBounded, UnusedStaysSet, NmiBeforeInstruction,
      registers, ppuFlags, Phases
<1>4. CASE ServiceNmi
  <2>1. Status8(P')
    BY <1>1, <1>4 DEF ServiceNmi, TakeNmi, Status8, Flag
  <2>2. Hi(PC) \in Byte /\ Lo(PC) \in Byte /\ PByte(P') \in Byte
    BY <1>1, ConversionTypes, ByteOfType DEF PByte
  <2>3. ram' \in Ram
    BY <1>1, <1>4, <2>2, StackTypes DEF ServiceNmi, TakeNmi
  <2>4. SP' \in Byte /\ PC' \in Word
    BY <1>1, <1>2, <1>4, StackTypes, MemoryTypes DEF ServiceNmi, TakeNmi
  <2> QED
    BY <1>2, <1>4, <2>1, <2>3, <2>4
    DEF ServiceNmi, TakeNmi, IInv, TypeOK, TickBounded, UnusedStaysSet,
        NmiBeforeInstruction, registers, Status8, Phases
<1> QED
  BY <1>3, <1>4

(* cpu.c, opcodes.c and the loop of main.c: the variables keep their C     *)
(* types, a tick takes 2 to 15 cycles and never the 255 that ends the loop,*)
(* the unused flag stays set, and no instruction runs over a pending       *)
(* interrupt.                                                              *)
THEOREM Invariant == Spec => []IInv
<1>1. Init => IInv
  <2> SUFFICES ASSUME Init PROVE IInv
    OBVIOUS
  <2>1. ram \in Ram
    BY Bounds DEF Init, Ram
  <2>2. rom \in Prg /\ RESET_VECTOR \in Word
    BY GamesAssumption, Bounds, SMT DEF Init, rom, RESET_VECTOR
  <2>3. PC \in Word
    BY <2>1, <2>2, ReadWordType DEF Init
  <2>4. SP \in Byte /\ 0 \in Byte
    BY Bounds, SMT DEF Init
  <2>5. clock \in 0 .. ClockMod - 1
    BY ClockAssumption, SMT DEF Init
  <2> QED
    BY <2>1, <2>3, <2>4, <2>5
    DEF Init, IInv, TypeOK, TickBounded, UnusedStaysSet, NmiBeforeInstruction, Flag, Phases
<1>2. IInv /\ [Next]_vars => IInv'
  <2> SUFFICES ASSUME IInv, [Next]_vars PROVE IInv'
    OBVIOUS
  <2>1. CASE NoInterrupt \/ ServiceNmi
    BY <2>1, InterruptSteps
  <2>2. CASE Instruction
    BY <2>2, InstructionSteps
  <2>3. CASE Panic
    BY <2>3
    DEF Panic, IInv, TypeOK, TickBounded, UnusedStaysSet, NmiBeforeInstruction,
        registers, ppuFlags, Phases
  <2>4. CASE PpuRaises
    BY <2>4
    DEF PpuRaises, IInv, TypeOK, TickBounded, UnusedStaysSet, NmiBeforeInstruction,
        registers
  <2>5. CASE PpuDone
    BY <2>5
    DEF PpuDone, IInv, TypeOK, TickBounded, UnusedStaysSet, NmiBeforeInstruction,
        registers, ppuFlags, Phases
  <2>6. CASE UNCHANGED vars
    BY <2>6
    DEF vars, IInv, TypeOK, TickBounded, UnusedStaysSet, NmiBeforeInstruction
  <2> QED
    BY <2>1, <2>2, <2>3, <2>4, <2>5, <2>6 DEF Next, Exited
<1> QED
  BY <1>1, <1>2, PTL DEF Spec

(* TypeOK of Cpu, for every cartridge and every clock width.               *)
THEOREM CpuTypeCorrect == Spec => []TypeOK
  BY Invariant, PTL DEF IInv

(* cpu.c and main.c line 45: no tick is counted as 0 or 1 cycles, none     *)
(* wraps the uint8_t, and none has the 255 cycles that end the loop.       *)
THEOREM TickLength == Spec => []TickBounded
  BY Invariant, PTL DEF IInv

(* opcodes.c PLP and RTI, whatever byte they find on the stack: the unused *)
(* flag of cpu_reset is never lost.                                        *)
THEOREM UnusedFlag == Spec => []UnusedStaysSet
  BY Invariant, PTL DEF IInv
=============================================================================
