-------------------------------- MODULE Cpu --------------------------------
(***************************************************************************)
(* The 6502 core: cpu.c and opcodes.c, with the part of the PPU it shares  *)
(* state with.  One pass of the loop of main.c goes through three phases:  *)
(*   "interrupt"  cpu_tick up to the return of cpu_interrupt,              *)
(*   "execute"    the rest of cpu_tick: fetch, decode, one handler,        *)
(*   "ppu"        the ppu_tick calls that follow, seen from the CPU: the   *)
(*                PPU may raise its flags, at any moment.                  *)
(* "panicked" is the process after _panic.                                 *)
(***************************************************************************)
EXTENDS Alu, Bus, Decode

CONSTANTS
  Games,     \* the cartridges the emulator may be started with
  PrgRom,    \* the 32K of PRG memory mapper_init builds for each of them
  ClockMod,  \* where the clock wraps: 2^64 in the program
  Debug      \* the DEBUG build, whose dump_state reads the opcode first

ASSUME GamesAssumption == PrgRom \in [Games -> Prg]
ASSUME ClockAssumption == ClockMod \in Nat \ {0}
ASSUME DebugAssumption == Debug \in BOOLEAN

VARIABLES
  game,                          \* the cartridge in the slot
  PC, SP, A, X, Y, P,            \* the registers
  ram,                           \* cpu->ram
  clock, instr_cycles,           \* cpu->clock, cpu->instr_cycles
  page_crossed,                  \* the global of cpu.c
  is_nmi, is_vblank,             \* ppu->is_nmi, ppu->is_vblank
  phase                          \* where the main loop is

registers == <<A, X, Y>>
ppuFlags  == <<is_nmi, is_vblank>>
vars == <<game, PC, SP, A, X, Y, P, ram, clock, instr_cycles, page_crossed,
          is_nmi, is_vblank, phase>>

Phases == {"interrupt", "execute", "ppu", "panicked"}

NMI_VECTOR   == \hfffa
RESET_VECTOR == \hfffc
IRQ_VECTOR   == \hfffe

-----------------------------------------------------------------------------
(* Memory as the current state has it.                                     *)
rom      == PrgRom[game]
Status   == IF is_vblank THEN 128 ELSE 0
Get8(a)  == cpu_get_u8(ram, rom, Status, a)
Get16(a) == cpu_get_u16(ram, rom, a)

StackAt(sp) == 256 + U8(sp)

(* Mutant: the third byte pushed over the second.                          *)
Push3Overlapping(b1, b2, b3) ==
  [ram EXCEPT ![StackAt(SP)] = b1, ![StackAt(SP - 1)] = b3]

(* Pushing the bytes b1, b2, ... in this order; the caller moves SP.       *)
Push2(b1, b2)     == [ram EXCEPT ![StackAt(SP)] = b1, ![StackAt(SP - 1)] = b2]
Push3(b1, b2, b3) == [Push2(b1, b2) EXCEPT ![StackAt(SP - 2)] = b3]

(* cpu_pop_u16 adds the results of two pops in one expression: C leaves    *)
(* their order open, the compilers of the build make the first the low.    *)
Pop8(n)  == ram[StackAt(SP + n)]
Pop16(n) == u8_to_u16(Pop8(n), Pop8(n + 1))

-----------------------------------------------------------------------------
(* Decoding.  dump_state of the debug build reads the opcode before        *)
(* get_opcode does, and a read of the PPU status clears it.                *)
Opcode == IF Debug /\ PC = PPU_STATUS THEN 0 ELSE Get8(PC)
entry  == Decode[Opcode]

OperandBytes ==
  [m \in AddrMode |->
     CASE m \in {"IMPLIED", "ACCUMULATOR"}                               -> 0
       [] m \in {"ABSOLUTE", "ABSOLUTE_X", "ABSOLUTE_Y", "INDIRECT"}     -> 2
       [] OTHER                                                          -> 1]

-----------------------------------------------------------------------------
(* cpu_get_addr, from the PC of the opcode.                                *)
Here  == U16(PC + 1)
Zp    == Get8(Here)
Abs   == Get16(Here)
ZeroPagePointer(z) == u8_to_u16(Get8(z), Get8(U8(z + 1)))
NextInPage(a)      == 256 * Hi(a) + U8(a + 1)

Address(mode) ==
  CASE mode \in {"IMMEDIATE", "RELATIVE"} -> Here
    [] mode = "ZERO_PAGE"   -> Zp
    [] mode = "ZERO_PAGE_X" -> U8(Zp + X)
    [] mode = "ZERO_PAGE_Y" -> U8(Zp + Y)
    [] mode = "ABSOLUTE"    -> Abs
    [] mode = "ABSOLUTE_X"  -> U16(Abs + X)
    [] mode = "ABSOLUTE_Y"  -> U16(Abs + Y)
    [] mode = "INDIRECT"    -> u8_to_u16(Get8(Abs), Get8(NextInPage(Abs)))
    [] mode = "INDIRECT_X"  -> ZeroPagePointer(U8(Zp + X))
    [] mode = "INDIRECT_Y"  -> U16(ZeroPagePointer(Zp) + Y)
    [] OTHER                -> 0

(* The index whose addition cpu_get_addr tests for a page crossing.        *)
CrossingIndex(mode) ==
  CASE mode = "ABSOLUTE_X"                  -> X
    [] mode \in {"ABSOLUTE_Y", "INDIRECT_Y"} -> Y
    [] OTHER                                -> 0

addr_are_same_page(a, b) == Hi(a) = Hi(b)

Crossed(addr, index) == ~addr_are_same_page(U16(addr - index), addr)

(* What a handler finds: its row of the switch, the address cpu_get_addr   *)
(* returns it, whether that sets page_crossed, and what the handler calls  *)
(* operand: cpu_load_value, or cpu_get_u8 of the address it writes back to.*)
Decoded ==
  LET addr == Address(entry.mode)
  IN  [op      |-> entry.op,
       mode    |-> entry.mode,
       cycles  |-> entry.cycles,
       addr    |-> addr,
       crossed |-> Crossed(addr, CrossingIndex(entry.mode)),
       operand |-> IF entry.mode = "ACCUMULATOR" THEN A ELSE Get8(addr)]

-----------------------------------------------------------------------------
(* The addresses a handler passes to cpu_get_u8, where it may panic or     *)
(* clear the vblank flag.  Words are read with cpu_get_u16, which does     *)
(* neither; the pointers of the zero page are RAM.                         *)
PointerReads(mode) ==
  CASE mode \in {"ZERO_PAGE", "ZERO_PAGE_X", "ZERO_PAGE_Y",
                 "INDIRECT_X", "INDIRECT_Y"} -> {Here}
    [] mode = "INDIRECT" -> {Abs, NextInPage(Abs)}
    [] OTHER             -> {}

NoLoad == {"JMP", "JSR", "RTS", "RTI", "STA", "STX", "STY", "SAX", "NOP"}

(* With the fetch of the opcode.                                           *)
Reads(d) ==
  {PC} \cup PointerReads(d.mode) \cup
  (IF d.mode \in {"IMPLIED", "ACCUMULATOR"} \/ d.op \in NoLoad
     THEN {} ELSE {d.addr})

(* One of the reads ends the process.                                      *)
Fatal(d) == \E a \in Reads(d) : Unreadable(a)

-----------------------------------------------------------------------------
(* main and cpu_reset; ppu_init leaves is_nmi as malloc returned it.       *)
Init ==
  /\ game \in Games
  /\ ram = [i \in RamIndex |-> 0]
  /\ PC = cpu_get_u16(ram, rom, RESET_VECTOR)
  /\ SP = \hfd
  /\ A = 0 /\ X = 0 /\ Y = 0
  /\ P = {"U", "I"}
  /\ clock = 0
  /\ instr_cycles = 0
  /\ page_crossed = FALSE
  /\ is_nmi \in BOOLEAN
  /\ is_vblank = FALSE
  /\ phase = "interrupt"

-----------------------------------------------------------------------------
(* Mutant: the cycles of the last tick not reset.                          *)
NoInterruptKeepsCycles ==
  /\ phase = "interrupt"
  /\ ~is_nmi
  /\ instr_cycles' = instr_cycles
  /\ phase' = "execute"
  /\ UNCHANGED <<game, PC, SP, P, ram, registers, clock, page_crossed, ppuFlags>>

(* An interrupt is taken; nmi and vblank are what it leaves in the flags   *)
(* of the PPU, cycles what it leaves counted.                              *)
TakeNmi(nmi, vblank, cycles) ==
  /\ phase = "interrupt"
  /\ is_nmi
  /\ is_nmi' = nmi
  /\ is_vblank' = vblank
  /\ instr_cycles' = cycles
  /\ P' = P \cup {"B"}
  /\ ram' = Push3(Hi(PC), Lo(PC), PByte(P'))
  /\ SP' = U8(SP - 3)
  /\ PC' = Get16(NMI_VECTOR)
  /\ phase' = "execute"
  /\ UNCHANGED <<game, registers, clock, page_crossed>>

(* Mutants: the interrupt not acknowledged; the vertical blank as well;    *)
(* the cycles reset only after the interrupt has counted its own.          *)
ServiceNmiUnacknowledged == TakeNmi(TRUE, is_vblank, 7)
ServiceNmiEndsVBlank     == TakeNmi(FALSE, FALSE, 7)
ServiceNmiBeforeReset    == TakeNmi(FALSE, is_vblank, 0)

(* cpu_interrupt: without an interrupt, and with one.                      *)
NoInterrupt ==
  /\ phase = "interrupt"
  /\ ~is_nmi
  /\ instr_cycles' = 0
  /\ phase' = "execute"
  /\ UNCHANGED <<game, PC, SP, P, ram, registers, clock, page_crossed, ppuFlags>>

ServiceNmi == TakeNmi(FALSE, is_vblank, 7)

-----------------------------------------------------------------------------
(* What a handler counts: the cycles of its row, and extra ones.           *)
Takes(d, extra) == instr_cycles' = U8(instr_cycles + d.cycles + extra)

(* Mutant: page_crossed not reset before it is set.                        *)
GetAddrStale(d) ==
  /\ PC' = U16(PC + 1 + OperandBytes[d.mode])
  /\ page_crossed' = (page_crossed \/ d.crossed)

(* The effect of cpu_get_addr on the state.                                *)
GetAddr(d) ==
  /\ PC' = U16(PC + 1 + OperandBytes[d.mode])
  /\ page_crossed' = d.crossed

(* A handler that calls cpu_get_addr and charges a page crossing, one that *)
(* calls it and does not, and one that does not call it.                   *)
Charged(d, op) ==
  /\ d.op = op
  /\ GetAddr(d)
  /\ Takes(d, IF page_crossed' THEN 1 ELSE 0)

Uncharged(d, op) == d.op = op /\ GetAddr(d) /\ Takes(d, 0)

NoAddress(d, op) ==
  /\ d.op = op
  /\ PC' = Here
  /\ page_crossed' = page_crossed
  /\ Takes(d, 0)

(* What a handler does with the result it computed.                        *)
SetA(v, status) == A' = v /\ P' = status /\ UNCHANGED <<SP, X, Y, ram>>
SetX(v, status) == X' = v /\ P' = status /\ UNCHANGED <<SP, A, Y, ram>>
SetY(v, status) == Y' = v /\ P' = status /\ UNCHANGED <<SP, A, X, ram>>
SetP(status)    == P' = status /\ UNCHANGED <<SP, registers, ram>>
Store(d, v)     == ram' = cpu_set_u8(ram, d.addr, v)

SetMemory(d, v, status) ==
  Store(d, v) /\ P' = status /\ UNCHANGED <<SP, registers>>
SetBoth(d, m, a, status) ==
  Store(d, m) /\ A' = a /\ P' = status /\ UNCHANGED <<SP, X, Y>>

-----------------------------------------------------------------------------
(* Arithmetic, logic, comparisons.                                         *)
ADC(d) ==
  Uncharged(d, "ADC") /\ LET r == add(P, A, d.operand) IN SetA(r.val, r.P)
SBC(d) ==
  Charged(d, "SBC") /\ LET r == sub(P, A, d.operand) IN SetA(r.val, r.P)

Logic(d, op, v) == Charged(d, op) /\ SetA(v, SetZN(P, v))

AND(d) == Logic(d, "AND", AndByte(A, d.operand))
ORA(d) == Logic(d, "ORA", OrByte(A, d.operand))
EOR(d) == Logic(d, "EOR", XorByte(A, d.operand))

CMP(d) == Charged(d, "CMP")   /\ SetP(cmp(P, A, d.operand))
CPX(d) == Uncharged(d, "CPX") /\ SetP(cmp(P, X, d.operand))
CPY(d) == Uncharged(d, "CPY") /\ SetP(cmp(P, Y, d.operand))
BIT(d) == Uncharged(d, "BIT") /\ SetP(bit_test(P, A, d.operand))

-----------------------------------------------------------------------------
(* Branches: one more cycle when taken, two when to another page.          *)
Branch(d, op, taken) ==
  /\ d.op = op
  /\ page_crossed' = FALSE
  /\ LET next   == U16(PC + 2)
         target == U16(next + S8(d.operand))
     IN  IF taken
           THEN /\ PC' = target
                /\ Takes(d, IF addr_are_same_page(next, target) THEN 1 ELSE 2)
           ELSE PC' = next /\ Takes(d, 0)
  /\ UNCHANGED <<SP, P, registers, ram>>

BEQ(d) == Branch(d, "BEQ", "Z" \in P)
BNE(d) == Branch(d, "BNE", "Z" \notin P)
BMI(d) == Branch(d, "BMI", "N" \in P)
BPL(d) == Branch(d, "BPL", "N" \notin P)
BCS(d) == Branch(d, "BCS", "C" \in P)
BCC(d) == Branch(d, "BCC", "C" \notin P)
BVS(d) == Branch(d, "BVS", "V" \in P)
BVC(d) == Branch(d, "BVC", "V" \notin P)

-----------------------------------------------------------------------------
(* Status flags.                                                           *)
CLC(d) == NoAddress(d, "CLC") /\ SetP(P \ {"C"})
CLD(d) == NoAddress(d, "CLD") /\ SetP(P \ {"D"})
CLI(d) == NoAddress(d, "CLI") /\ SetP(P \ {"I"})
CLV(d) == NoAddress(d, "CLV") /\ SetP(P \ {"V"})
SEC(d) == NoAddress(d, "SEC") /\ SetP(P \cup {"C"})
SED(d) == NoAddress(d, "SED") /\ SetP(P \cup {"D"})
SEI(d) == NoAddress(d, "SEI") /\ SetP(P \cup {"I"})

-----------------------------------------------------------------------------
(* Jumps.  JSR stacks the address of its last byte, and BRK that of the    *)
(* byte after its padding byte; RTI keeps U and takes the B it pulls.      *)
JMP(d) ==
  /\ d.op = "JMP"
  /\ PC' = d.addr
  /\ page_crossed' = FALSE
  /\ Takes(d, 0)
  /\ UNCHANGED <<SP, P, registers, ram>>

(* Mutant: the PC pushed before the operand moves it.                      *)
JSRPushesFirst(d) ==
  /\ d.op = "JSR"
  /\ ram' = Push2(Hi(PC), Lo(PC))
  /\ SP' = U8(SP - 2)
  /\ PC' = Abs
  /\ Takes(d, 0)
  /\ UNCHANGED <<P, registers, page_crossed>>

JSR(d) ==
  /\ d.op = "JSR"
  /\ LET last == U16(PC + 2)
     IN  ram' = Push2(Hi(last), Lo(last))
  /\ SP' = U8(SP - 2)
  /\ PC' = Abs
  /\ Takes(d, 0)
  /\ UNCHANGED <<P, registers, page_crossed>>

(* Mutant: the return address not incremented.                             *)
RTSToLastByte(d) ==
  /\ d.op = "RTS"
  /\ PC' = Pop16(1)
  /\ SP' = U8(SP + 2)
  /\ Takes(d, 0)
  /\ UNCHANGED <<P, registers, ram, page_crossed>>

RTS(d) ==
  /\ d.op = "RTS"
  /\ PC' = U16(Pop16(1) + 1)
  /\ SP' = U8(SP + 2)
  /\ Takes(d, 0)
  /\ UNCHANGED <<P, registers, ram, page_crossed>>

(* Mutant: only the address taken off the stack.                          *)
RTILeavesByte(d) ==
  /\ d.op = "RTI"
  /\ P' = PFlags(Pop8(1)) \cup (P \cap {"U"})
  /\ PC' = Pop16(2)
  /\ SP' = U8(SP + 2)
  /\ Takes(d, 0)
  /\ UNCHANGED <<registers, ram, page_crossed>>

RTI(d) ==
  /\ d.op = "RTI"
  /\ P' = PFlags(Pop8(1)) \cup (P \cap {"U"})
  /\ PC' = Pop16(2)
  /\ SP' = U8(SP + 3)
  /\ Takes(d, 0)
  /\ UNCHANGED <<registers, ram, page_crossed>>

BRK(d) ==
  /\ d.op = "BRK"
  /\ P' = P \cup {"B"}
  /\ LET return == U16(PC + 2)
     IN  ram' = Push3(Hi(return), Lo(return), PByte(P'))
  /\ SP' = U8(SP - 3)
  /\ PC' = Get16(IRQ_VECTOR)
  /\ Takes(d, 0)
  /\ UNCHANGED <<registers, page_crossed>>

-----------------------------------------------------------------------------
(* Loads, stores, transfers.                                               *)
LDA(d) == Charged(d, "LDA") /\ SetA(d.operand, SetZN(P, d.operand))
LDX(d) == Charged(d, "LDX") /\ SetX(d.operand, SetZN(P, d.operand))
LDY(d) == Charged(d, "LDY") /\ SetY(d.operand, SetZN(P, d.operand))
LAX(d) ==
  /\ Charged(d, "LAX")
  /\ A' = d.operand
  /\ X' = d.operand
  /\ P' = SetZN(P, d.operand)
  /\ UNCHANGED <<SP, Y, ram>>

StoreRegister(d, op, v) ==
  Uncharged(d, op) /\ Store(d, v) /\ UNCHANGED <<SP, P, registers>>

STA(d) == StoreRegister(d, "STA", A)
STX(d) == StoreRegister(d, "STX", X)
STY(d) == StoreRegister(d, "STY", Y)
SAX(d) == StoreRegister(d, "SAX", AndByte(A, X))

TAX(d) == NoAddress(d, "TAX") /\ SetX(A, SetZN(P, A))
TAY(d) == NoAddress(d, "TAY") /\ SetY(A, SetZN(P, A))
TSX(d) == NoAddress(d, "TSX") /\ SetX(SP, SetZN(P, SP))
TXA(d) == NoAddress(d, "TXA") /\ SetA(X, SetZN(P, X))
TYA(d) == NoAddress(d, "TYA") /\ SetA(Y, SetZN(P, Y))
TXS(d) == NoAddress(d, "TXS") /\ SP' = X /\ UNCHANGED <<P, registers, ram>>

-----------------------------------------------------------------------------
(* Stack.  PHP pushes B as set; PLP drops the B it pulls and keeps U.      *)
PushRegister(d, op, b) ==
  /\ NoAddress(d, op)
  /\ ram' = [ram EXCEPT ![StackAt(SP)] = b]
  /\ SP' = U8(SP - 1)
  /\ UNCHANGED <<P, registers>>

PHA(d) == PushRegister(d, "PHA", A)
PHP(d) == PushRegister(d, "PHP", PByte(P \cup {"B"}))

(* Mutants: the pop reads before it moves SP; PLP takes all the flags.     *)
PLABeforeIncrement(d) ==
  /\ NoAddress(d, "PLA")
  /\ A' = Pop8(0)
  /\ P' = SetZN(P, A')
  /\ SP' = U8(SP + 1)
  /\ UNCHANGED <<X, Y, ram>>

PLPTakesUnused(d) ==
  /\ NoAddress(d, "PLP")
  /\ P' = PFlags(Pop8(1)) \ {"B"}
  /\ SP' = U8(SP + 1)
  /\ UNCHANGED <<registers, ram>>

PLA(d) ==
  /\ NoAddress(d, "PLA")
  /\ A' = Pop8(1)
  /\ P' = SetZN(P, A')
  /\ SP' = U8(SP + 1)
  /\ UNCHANGED <<X, Y, ram>>

PLP(d) ==
  /\ NoAddress(d, "PLP")
  /\ P' = (PFlags(Pop8(1)) \ {"B"}) \cup (P \cap {"U"})
  /\ SP' = U8(SP + 1)
  /\ UNCHANGED <<registers, ram>>

-----------------------------------------------------------------------------
(* Increments, decrements, shifts: the last ones on A or on memory.        *)
Incremented(d) == U8(d.operand + 1)
Decremented(d) == U8(d.operand - 1)

(* Mutant: the index register wider than a byte.                           *)
INXUnwrapped(d) == NoAddress(d, "INX") /\ SetX(X + 1, SetZN(P, U8(X + 1)))

INC(d) ==
  /\ Uncharged(d, "INC")
  /\ SetMemory(d, Incremented(d), SetZN(P, Incremented(d)))
DEC(d) ==
  /\ Uncharged(d, "DEC")
  /\ SetMemory(d, Decremented(d), SetZN(P, Decremented(d)))
INX(d) == NoAddress(d, "INX") /\ SetX(U8(X + 1), SetZN(P, U8(X + 1)))
INY(d) == NoAddress(d, "INY") /\ SetY(U8(Y + 1), SetZN(P, U8(Y + 1)))
DEX(d) == NoAddress(d, "DEX") /\ SetX(U8(X - 1), SetZN(P, U8(X - 1)))
DEY(d) == NoAddress(d, "DEY") /\ SetY(U8(Y - 1), SetZN(P, U8(Y - 1)))

Shift(d, op, r) ==
  /\ d.op = op
  /\ \/ d.mode = "ACCUMULATOR" /\ NoAddress(d, op) /\ SetA(r.val, r.P)
     \/ d.mode # "ACCUMULATOR" /\ Uncharged(d, op) /\ SetMemory(d, r.val, r.P)

ASL(d) == Shift(d, "ASL", shift_left(P, d.operand))
LSR(d) == Shift(d, "LSR", shift_right(P, d.operand))
ROL(d) == Shift(d, "ROL", rotate_left(P, d.operand))
ROR(d) == Shift(d, "ROR", rotate_right(P, d.operand))

-----------------------------------------------------------------------------
(* NOP in all its addressing modes, and the combined undocumented ones.    *)
NOP(d) == Charged(d, "NOP") /\ UNCHANGED <<SP, P, registers, ram>>

DCP(d) ==
  /\ Uncharged(d, "DCP")
  /\ SetMemory(d, Decremented(d), cmp(P, A, Decremented(d)))
ISB(d) ==
  /\ Uncharged(d, "ISB")
  /\ LET r == sub(P, A, Incremented(d))
     IN  SetBoth(d, Incremented(d), r.val, r.P)

(* A shift of memory followed by an operation of A with the result; the    *)
(* operation sees the carry of the shift.                                  *)
ShiftThen(d, op, shifted, a) ==
  Uncharged(d, op) /\ SetBoth(d, shifted.val, a, SetZN(shifted.P, a))

RLA(d) == LET r == rotate_left(P, d.operand)
       IN  ShiftThen(d, "RLA", r, AndByte(A, r.val))
SLO(d) == LET r == shift_left(P, d.operand)
       IN  ShiftThen(d, "SLO", r, OrByte(A, r.val))
SRE(d) == LET r == shift_right(P, d.operand)
       IN  ShiftThen(d, "SRE", r, XorByte(A, r.val))
RRA(d) ==
  /\ Uncharged(d, "RRA")
  /\ LET r == rotate_right(P, d.operand)
         s == add(r.P, A, r.val)
     IN  SetBoth(d, r.val, s.val, s.P)

-----------------------------------------------------------------------------
(* The switch: the handler of the opcode's row.                            *)
Handler(d) ==
  \/ ADC(d) \/ SBC(d) \/ AND(d) \/ ORA(d) \/ EOR(d)
  \/ CMP(d) \/ CPX(d) \/ CPY(d) \/ BIT(d)
  \/ BEQ(d) \/ BNE(d) \/ BMI(d) \/ BPL(d) \/ BCS(d) \/ BCC(d)
  \/ BVS(d) \/ BVC(d)
  \/ CLC(d) \/ CLD(d) \/ CLI(d) \/ CLV(d) \/ SEC(d) \/ SED(d) \/ SEI(d)
  \/ JMP(d) \/ JSR(d) \/ RTS(d) \/ RTI(d) \/ BRK(d)
  \/ LDA(d) \/ LDX(d) \/ LDY(d) \/ LAX(d)
  \/ STA(d) \/ STX(d) \/ STY(d) \/ SAX(d)
  \/ TAX(d) \/ TAY(d) \/ TSX(d) \/ TXA(d) \/ TYA(d) \/ TXS(d)
  \/ PHA(d) \/ PHP(d) \/ PLA(d) \/ PLP(d)
  \/ INC(d) \/ DEC(d) \/ INX(d) \/ INY(d) \/ DEX(d) \/ DEY(d)
  \/ ASL(d) \/ LSR(d) \/ ROL(d) \/ ROR(d)
  \/ NOP(d) \/ DCP(d) \/ ISB(d) \/ RLA(d) \/ SLO(d) \/ SRE(d) \/ RRA(d)

(* cpu_tick from the fetch on, where no read is fatal.  The clock moves by *)
(* the cycles the handler counted; a read of the status clears its flag.   *)
Instruction ==
  /\ phase = "execute"
  /\ Opcode \in Handled
  /\ \E d \in {Decoded} :
       /\ ~Fatal(d)
       /\ Handler(d)
       /\ is_vblank' = (is_vblank /\ PPU_STATUS \notin Reads(d))
  /\ clock' = (clock + instr_cycles') % ClockMod
  /\ phase' = "ppu"
  /\ UNCHANGED <<game, is_nmi>>

Panic ==
  /\ phase = "execute"
  /\ Opcode \in Handled => Fatal(Decoded)
  /\ phase' = "panicked"
  /\ UNCHANGED <<game, PC, SP, P, ram, registers, clock, instr_cycles,
                 page_crossed, ppuFlags>>

(* The PPU during the loop of ppu_tick calls in main: it may raise both    *)
(* flags, and the loop ends, unless the count of cycles broke out of it.   *)
PpuRaises ==
  /\ phase = "ppu"
  /\ is_vblank' = TRUE
  /\ is_nmi' = TRUE
  /\ UNCHANGED <<game, PC, SP, P, ram, registers, clock, instr_cycles,
                 page_crossed, phase>>

PpuDone ==
  /\ phase = "ppu"
  /\ instr_cycles # 255
  /\ phase' = "interrupt"
  /\ UNCHANGED <<game, PC, SP, P, ram, registers, clock, instr_cycles,
                 page_crossed, ppuFlags>>

(* exit(1) of _panic: the process is gone.                                 *)
Exited == phase = "panicked" /\ UNCHANGED vars

Next ==
  \/ NoInterrupt \/ ServiceNmi
  \/ Instruction \/ Panic
  \/ PpuRaises \/ PpuDone
  \/ Exited

Spec == Init /\ [][Next]_vars

-----------------------------------------------------------------------------
(* Every variable holds a value of its C type; clock wraps where it does.  *)
TypeOK ==
  /\ game \in Games
  /\ PC \in Word
  /\ SP \in Byte
  /\ A \in Byte /\ X \in Byte /\ Y \in Byte
  /\ P \subseteq Flag
  /\ ram \in Ram
  /\ clock \in 0 .. ClockMod - 1
  /\ instr_cycles \in Byte
  /\ page_crossed \in BOOLEAN
  /\ is_nmi \in BOOLEAN /\ is_vblank \in BOOLEAN
  /\ phase \in Phases

(* A tick takes 2 to 15 cycles: instr_cycles never wraps, a tick always    *)
(* advances the PPU, and the count never takes the value 255 on which the  *)
(* loop of main.c stops, whatever the instruction and the interrupt.       *)
TickBounded ==
  /\ phase = "execute" => instr_cycles \in {0, 7}
  /\ phase \in {"ppu", "interrupt"} => instr_cycles = 0 \/ instr_cycles \in 2 .. 15
  /\ phase = "ppu" => instr_cycles # 0

(* RTI and PLP of opcodes.c keep the unused flag as it is, whatever byte   *)
(* they pull; set by cpu_reset, it is set for ever.                        *)
UnusedStaysSet == "U" \in P
=============================================================================
