# acidnes: specifications and proofs

acidnes is a NES emulator written in C: a 6502 interpreter, a picture unit that
so far only keeps time, a mapper for unbanked cartridges and a loader for iNES
files. This directory holds TLA+ modules translated from `src/src/*.c`,
`src/tests/main.c` and `src/utils/nes_info.py`, the TLC configurations that check
them, and TLAPS proofs about them. Line numbers below are those of the files
under `src/src/`.

## The system

| part | files | state | operations | talks to |
|---|---|---|---|---|
| CPU core | `cpu.c` | `PC SP A X Y P`, `ram`, `sram`, `clock`, `instr_cycles`, `addr_mode`, the global `page_crossed` | `cpu_init`, `cpu_reset`, `cpu_tick`, `cpu_interrupt`, addressing, stack, flags | handlers (call), PPU (shared `is_nmi`; `ppu_get_status`), mapper (reads) |
| Instruction handlers | `opcodes.c` | none of their own | one function per mnemonic, `add sub cmp shift_* rotate_* branch` | CPU core |
| Picture unit | `ppu.c` | `scanline`, `line_position`, `is_vblank`, `is_nmi` | `ppu_init`, `ppu_reset`, `ppu_tick`, `ppu_get_status` | CPU (flags) |
| Main loop | `main.c` | `cycles`, the loop counter `i` | start-up, then for ever one `cpu_tick` and three `ppu_tick`s per cycle | all |
| Mapper | `mapper.c` | the copies of PRG and CHR memory | `mapper_init`, `mapper_free`, readers | CPU (reads) |
| Cartridge loader | `cartridge.c` | the loaded file | `cartridge_load`, `cartridge_free` | main |
| Test harness | `tests/main.c` | – | the same start-up, a loop without PPU that stops at `$0001`, then all releases | all |
| nes_info | `utils/nes_info.py` | – | reads a file and reports its header and checksums | – |
| Common | `common.c` | none | `u8_to_u16`, `get_bit_at`, `_panic` (exit), logging, `hexdump` | all |

One thread runs everything, so the hard behaviour is not in threads. It is in
the interleaving of two clocks: the PPU raises `is_vblank` and `is_nmi` at a dot
that falls inside some instruction, the CPU looks at `is_nmi` between two
instructions, and `$2002` gives the flag away to whoever reads it first. The
rest is in 8-bit arithmetic (carries inferred from wrapped results), in state
left behind (`page_crossed`, an uninitialised `is_nmi`, `is_vblank` nobody
clears), in a stack that wraps under interrupts of any depth, and in a counter
whose value 255 would end the program. Around the emulation it is in partial
failure: a loader whose six error paths each release another set of blocks by
hand, `malloc` and `fread` calls whose results nobody looks at, a `mapper_free`
that is called twice. `PROJECT.json` lists these hazards at their lines, with the
properties that would catch each.

## Modules

| module | models | extends / composes |
|---|---|---|
| `Bytes` | `uint8_t`, `int8_t`, `uint16_t`, the conversions between them, bitwise operators on sets of bit positions | – |
| `Alu` | status register as a set of flags; `add`, `sub`, `cmp`, `BIT`, shifts and rotations of `opcodes.c` | `Bytes` |
| `Decode` | the switch of `cpu_tick`: opcode → handler, addressing mode, base cycles | – |
| `Bus` | `cpu_get_u8`, `cpu_get_u16`, `cpu_set_u8` | `Bytes` |
| `Cpu` | the CPU: interrupt, fetch and decode, one operator per handler, panic | `Alu`, `Bus`, `Decode` |
| `Ppu` | `ppu.c` | refines `FrameCounter` |
| `FrameCounter` | abstract: one counter of dots, one dot that raises the blank | – |
| `Emulator` | the loop of `main.c` | `Cpu`, `INSTANCE Ppu` |
| `CallStack` | `Cpu` with the frames that JSR, BRK and NMI have saved as a history variable, and the discipline a program keeps | `Cpu` |
| `Ines` | iNES files and what `doc/nestech.txt` says their header means | `Bytes` |
| `Loader` | abstract: a file is loaded as its header describes it, or refused with nothing kept | `Ines` |
| `Lifecycle` | `cartridge_load` call by call, `mapper_init`, the start-up of both mains, the end of their loops, the releases | `Ines`; refines `Loader`; compared with `NesInfo` |
| `NesInfo` | what `utils/nes_info.py` accepts and reports | `Ines` |
| `AluCheck` | the helpers of `Alu` against exact arithmetic | `Alu` |
| `Manual` | properties of single instructions, from `doc/` | `Cpu` |
| `Cartridges`, `MC*` | small programs, constants of the runs | |
| `AluProofs`, `AluCheckProofs`, `PpuProofs`, `LifecycleProofs` | theorems | the module named, `TLAPS` |
| `CpuProofs` | theorems about `Decode` and `Cpu` | `Cpu`, `AluProofs` |
| `ManualProofs` | theorems | `Manual`, `CpuProofs` |
| `EmulatorProofs` | theorems | `Emulator`, `CpuProofs`, `INSTANCE PpuProofs` |
| `CallStackProofs` | theorems | `MCCallStack`, `CpuProofs`, `SequenceTheorems` |

### How the state corresponds

* `P` is the set of flags that are set. `PByte` and `PFlags` convert it where
  the code pushes or pulls it as a byte.
* `sram` is not a variable: `cpu_reset` fills it with `$ff` and `cpu_set_u8` has
  no branch that stores to it. `addr_mode` is not one either: each row of the
  switch sets it just before its handler reads it, so it is `entry.mode`, the `mode` of `Decoded`.
* A word read at the last address of a memory takes its second byte from
  outside. After `ram` that is the first byte of `sram` (`cpu_t` has them next
  to each other), after `sram` a padding byte (`PastSram`), and after the PRG
  copy a heap byte (`PastPrg`); the last two are constants, any byte.
* `phase` is where the loop is: `interrupt` up to the return of
  `cpu_interrupt`; `execute` for the rest of `cpu_tick`; `ppu` for the
  `ppu_tick` calls; `panicked` once `_panic` has called `exit`, when the other
  variables no longer mean anything. A tick is two steps because nothing but
  the two calls can be told apart inside it.
* `clock` wraps at `ClockMod`, 2^64 in the program.
* `Debug` chooses the build. With `DEBUG`, `dump_state` reads the opcode before
  `get_opcode` does, which matters when it is read from `$2002`.
* `cpu_pop_u16` (line 611) adds two pops in one expression, whose order C leaves
  open. The model takes the low byte first, as gcc does at every optimisation
  level.
* `ppu_init` does not set `is_nmi`; `Init` lets it be either.

In `Cpu`, an open system, the PPU is an environment that may raise both flags at
any moment of `ppu` phase; `Emulator` puts the real one there, and its run checks
that each component then stays within its own specification (`CpuSpec`,
`PpuSpec`). An instruction is one step, `Instruction`: `Decoded` is what the
row of the switch and `cpu_get_addr` give the handler (its name, addressing mode,
base cycles, address, whether a page was crossed, operand), and `Handler(d)` is
the switch, one operator per handler. A handler is one of three shapes, by
whether it calls `cpu_get_addr` and charges the crossing (`Charged`), calls it
only (`Uncharged`) or does not call it (`NoAddress`), followed by what it
computes; branches and jumps stand for themselves. `Instruction` then adds the
cycles to the clock and clears `is_vblank` if `$2002` was among the addresses
read. `Fatal` says that the fetch or a read of the handler reaches an address
`cpu_get_u8` panics on.

In `Lifecycle`:

* A step is one call of `main`, or the part of `cartridge_load` up to the next
  call that can fail; `pc` names the call that is next. `GiveUp` is what the
  error paths share, with the blocks each of them frees as its parameter.
* The heap is the set `live` of blocks that `malloc` has given and `free` has
  not taken, and for each pointer whether it was never assigned, is NULL or was
  assigned (`ptr`). `wild` collects the pointers used or freed while they pointed
  to no live block.
* The operating system may refuse every `fopen` and `malloc` (`refused` records
  it). Where the code goes on with NULL, what follows is undefined: `crashed`, or
  what a `fread` that reports too little leads to.
* A file is its header and a number of 512-byte pages behind it. All positions
  the loader computes are multiples of a page, and what a page holds is its
  number, so that a bank read from the wrong place is seen. A file shorter than
  16 bytes leaves the rest of the buffer as the stack had it, which `Init` chooses.
* Reads of the PRG copy past its end, which a file without PRG banks makes
  possible, find anything or crash.

As a cross-check while `Cpu` was written, the program of `tests/nestest.nes` was
stepped through it from `$c000`, the way `tests/main.c` does; registers, status,
stack pointer and clock agreed with all 8991 lines of
`tests/nestest-output.txt`. That comparison is not one of the runs (nestest is
one deterministic execution and raises no interrupt).

## Runs that pass

| run | module / cfg | what it shows |
|---|---|---|
| `alu` | `AluCheck` | All 65536 operand pairs, both carries. `AddIsExact`: `add` is the exact 9-bit sum but for one case. `SubIsExact`: the difference is exact, its carry except for equal operands with a borrow, its overflow when the subtrahend is not negative. `CmpIsSubtraction`. `ShiftsKeepEveryBit`: left and right undo each other through the carry. |
| `opcodes` | `MCOpcodes` / `Opcodes` | Every byte as opcode, executed from two places of the RAM and from `$2002`, with twenty operands, two settings of index registers, status and stale `page_crossed`, in the debug build. `TypeOK`; `CyclesMatchBus`: the cycles counted equal the accesses the 6502 needs on its bus, derived independently of the table (left open: the crossing cycle of ADC, see the disagreements). `LogNamesInstruction`: the name table of `cpu.h` and the switch agree, wherever the log does not itself read the opcode away. `StoresArrive`: an instruction changes no RAM cell but its own, and every mirror shows what it stored. `WordsMatchBytes`: a word is its two bytes, but at the ends of the memories. |
| `call_stack` | `MCCallStack` / `CallStack` | Two programs (a 16-bit sum and shift in nested subroutines with a BRK; a stack pointer that wraps from `$00` to `$ff`) with up to two interrupts at any instruction boundaries, nested ones too. `FramesIntact`, `ReturnsMatch`, `Disciplined` (the two programs keep what the theorems about frames assume), `NmiTransparent` (no register, no flag and no byte of RAM above the stack pointer differs after an interrupt, for the program and for an interrupted handler), `ResultCorrect`, `TickBounded`, `UnusedStaysSet`, and `ProgramEnds` under fairness. `FramesIntact` leaves the B of the status an interrupt stacks open, where code and documents differ (run `break_flag`). |
| `ppu` | `Ppu` | The real frame, 262 × 341, every interleaving of ticks with status reads, acknowledgements and resets. `CountsFrames` is the refinement of `FrameCounter`; `VBlankRecurs` is its liveness. |
| `emulator` | `MCEmulator` / `Emulator` | The whole loop with three cartridges. `InStep`: three dots per cycle of `clock`, none lost or repeated: CPU and PPU start in step, and no step moves one against the other but the wrap of the clock, by exactly what the clock loses. `NoInterruptLost`: when an interrupt is raised the previous one has been taken. `InterruptServed`, `FramesKeepComing`, `PollsEnd`: liveness. `CpuSpec`, `PpuSpec`. |
| `lifecycle` | `MCLifecycle` / `Lifecycle` | Both mains with every header and file, every refusal. `NoWildPointer`, `NothingLeft`, `CpuSeesPrgBanks` (what the CPU reads at `$8000` is what the document says), `NesInfoAgrees` (the script reports of an accepted file what the loader loaded); `LoaderPromise` is the refinement of `Loader`; `GoodFilesRun`, `BadFilesEnd`: liveness. |

### Bounds, and why they are enough

* `opcodes` executes one instruction and stops: its properties are about one
  step. The operands are chosen at the edges: `$ff` and `$02` cross a page with
  one of the index registers and not with the other, `$40` names the pointer
  `$ff`/`$41`, `$7f` and `$ff` branch forwards and backwards and `$00` to the next
  instruction, high bytes `$07`,
  `$1f`, `$20`, `$60` reach the RAM, its last mirror, the PPU registers (among
  them `$2002`) and the save RAM; the second origin ends the RAM under the
  operand; the third is the register whose read clears it.
* `call_stack`: two interrupts (`MaxNmis = 2`) are the least that nest; a third
  would only repeat the second's relation to what it interrupts. `ClockMod = 1`
  removes the clock, which no property here reads. The programs end in a jump to
  themselves, so that the state space is finite.
* `emulator`: a screen of 8 lines of 36 dots, 288 dots or 96 cycles, instead of
  89342 dots. The blank comes at line 5. A frame must be longer than a tick
  (15 cycles, 45 dots, which `Emulator` assumes by name and which holds for the
  real screen); it is about four handlers long here, so an interrupt may fall
  anywhere in polls and handlers. With `ClockMod = 32` the clock wraps after a
  third of a frame, so that its wrap falls at every place of the beam it can, and
  like the 2^64 of the program it is no whole number of frames. (There it wraps
  after about 300 000 years.)
* `ppu` has no bound.
* `lifecycle`: up to three PRG banks and one CHR bank (0, 1, 2 and more than the
  CPU can address are the cases the code tells apart), trainer and other mappers
  given by either byte; files that end where the loader stops reading, a page
  before and a page after, or inside the header at each place that matters.

### Fairness

There is one thread and no blocking call: `main` goes round its loop for ever.
`EmulatorSpec` therefore has weak fairness of its whole next-state relation, and
`StackSpec` likewise: the process is not stopped while it can take a step. In `StackSpec`
the interrupts are bounded, so an execution cannot stay in `ppu` phase for ever.
`Ppu!FairSpec` assumes that `ppu_tick` keeps being called, which the loop of
`main.c` does after every instruction; `VBlankRecurs` excepts infinitely many
calls of `ppu_reset`. In `Lifecycle` the calls before and after the loop return
(`WF_vars(Load \/ Boot \/ End)`); nothing is assumed of the loop, which for
`acidnes` goes on for ever.

## Runs that find a disagreement

Each checks one statement of a document or comment, and TLC shows an execution
that violates it. `PROJECT.json` quotes the lines.

| run | the code does | the text says |
|---|---|---|
| `add_carry` | `$FF + 0` with carry clears the carry (`opcodes.c` 526) | `SET_CARRY(temp > 0xff)` |
| `sub_carry` | equal operands with a borrow set the carry (547) | comment above it: "If we needed to borrow, clear the flag" |
| `break_flag` | an NMI pushes the status with B set, as BRK does (`cpu.c` 397) | "On an IRQ or NMI, the CPU pushes the status flag onto the stack with the 'b' bit clear" |
| `vblank_flag` | the flag outlives the blank (`ppu.c` 45) | "indicates whether PPU is in VBlank or not" |
| `cold_nmi` | the first tick may serve an interrupt nobody raised (`ppu.c` 7) | NMIs are generated by each VBlank |
| `poll_race` | flag and NMI rise together, the handler reads first (`ppu.c` 43) | the flag should be seen just before the NMI |

`poll_race` is a temporal counterexample under the fairness above: the loop polls
for ever.

Other disagreements are visible in the modules, which follow the code, and have
no run of their own: `sub` ignores the sign of the subtrahend in the overflow
(`opcodes.c` 552; `SubIsExact` states where it is right), ADC charges no page
crossing (16) although `6502_processor.txt` 386-391 adds a cycle for it
(`CyclesMatchBus` leaves that cycle open and states all others), a word at the last
address of the RAM takes its high byte from `sram` (`cpu.c` 547) although the comment
above says that the addresses mirror (`WordsMatchBytes` leaves these ends out), BRK
leaves I clear (429), stores to the save RAM vanish (562), and `$82 $c2 $e2`, which `cpu.h` names
NOP, panic (382). Writes to
`$2000` are dropped, so a program cannot turn its NMI off. A file of four to
fifteen bytes that starts with the magic number is accepted if the bytes the
stack had for the rest name no banks (`cartridge.c` 19), and a file without PRG
banks is run although every read of its program lies past the image; banks past
the second are loaded and cannot be reached. `nes_info.py` refuses such short
files, and does not skip a trainer before it computes its checksums, which
`cartridge_load` does.

## Theorems

All are proved by TLAPS for every value of the constants, from the named
assumptions `GamesAssumption` (each cartridge is a 32K image), `ClockAssumption`,
`PastBytes`, `DebugAssumption`, `PpuAssumption` and `FrameSizes` (the lines of
the frame are in order), `FrameLongerThanTick`, `ClockLongerThanTick`, `FilesAssumption` (headers
are bytes, files shorter than a header have no pages), and the types of what the
runs choose (`StatusesAssumption`, `WordsAssumption`, `MaxNmisAssumption`).

* `CpuProofs!Invariant`: `Spec => []IInv`, where
  `IInv == TypeOK /\ TickBounded /\ UnusedStaysSet /\ NmiBeforeInstruction`.
  The conjunction is the inductive invariant. `TypeOK` alone is inductive, but
  the other three lean on it, and `TickBounded` is seen to hold only with the bounds of the decoding
  table: `TickBounded` needs an instruction to start from 0 or 7 cycles, and
  `DecodeBounds` (row by row over the switch: base plus what the
  handler may add lies between 2 and 8) gives 2 to 15. The unused flag needs that
  no helper of `Alu` touches it (lemmas `CompareTypes`, `ShiftTypes`,
  `AddSubTypes`), so that only PLP and RTI are left to look at.
  `NmiBeforeInstruction`, that no interrupt is pending when the instruction runs,
  follows from the phases and is there for `NoneLost`. The proof has one lemma per
  family of handlers (`ArithmeticSteps` to `CombinedSteps`), each showing that
  registers, status and RAM (`Computed`) and program counter and cycles (`Moved`)
  stay within types; `ChargedStep` and `UnchargedStep` do the second once for
  all handlers of a shape, and `InstructionSteps` concludes. The parts of the
  invariant that say something by themselves are stated as `CpuTypeCorrect`,
  `TickLength` and `UnusedFlag`.
  `TickLength` means that `main` never leaves its loop: the code after line 53
  is dead.
* `PpuProofs!TypeCorrect`: the beam stays on the frame, for every size of frame.
* `PpuProofs!FrameImplemented`: `Ppu!Spec => CountsFrames`. Initial states map to
  initial states; under `TypeOK` a tick maps to one step of the abstract counter
  (`BeamAdvances`, and `RaisedAtOneDot`, which needs that a dot determines its
  line and position), the other operations to their namesakes.
* `AluProofs!StatusRoundTrip`: the status pushed is the status pulled;
  `WordOfBytes`: so is an address.

* `LifecycleProofs!Invariant`: `IInv` says, for each call of `main`, which blocks
  the process owns when it comes to it: a block is live exactly between the call
  that allocates it and the one that frees it, and its pointer is then set
  (`Ownership`, `PointersReady`). `NoWildPointer` is inductive only with it,
  because a use is safe by what is owned at its `pc`. `PointersReady` holds the
  fact the first `mapper_free` depends on, that the three pointers of `mapper.c`
  are NULL until then. Ownership is claimed only while the process is `Orderly`,
  since after a failure `main` returns with what it has. `NoUseAfterFree` and
  `EverythingReleased` follow.
* `LifecycleProofs!LoaderImplemented`: `Spec => LoaderPromise`. Nothing that is
  loaded can be other than what the header describes, since `ReadingInvariant`
  follows the position in the file from one read to the next.
* `EmulatorProofs!CpuImplemented`, `PpuImplemented`: each component of the whole
  keeps its own specification. So what `CpuProofs` and `PpuProofs` say holds of
  the emulator, and the proofs below start from it (`Bounded`).
* `EmulatorProofs!NoneLost`: `NoInterruptLost`, for every frame longer than a
  tick. The inductive invariant is `InLoop`: the loop counter stays within three
  dots per cycle, and an interrupt pending during the loop was raised less than
  `i` dots before the beam (`RaisedInLoop`). As `i < 45 <` frame, the beam
  cannot come to its dot again; and when the loop begins nothing is pending, by
  `NmiBeforeInstruction` of the CPU.
* `EmulatorProofs!ThreeDotsPerCycle`: `InStep`, for every frame and every clock
  longer than a tick, the 89342 dots and 2^64 cycles of the program among them.
  `DrawnChanges` shows what a step does to the dots that `clock` stands for, less
  those still owed and the beam's place (`Drawn`): they stay as they are, but where
  the beam wraps they grow by a frame, and where the clock wraps they shrink by
  `DotsUndone`. `Drift` is their remainder by the frame (`DriftChanges`). It is 0 at
  the start, so it is 0 until the clock wraps for the first time.
* `LifecycleProofs!PrgBanksSeen`: `CpuSeesPrgBanks`, for every file. By
  `ReadingInvariant` and `WholeHeader` the banks in `cart` are those of the file
  where the header says; `CopyStep` shows that `mapper_init` makes of them what is
  read at `$8000`, and `Copied` that nothing changes it afterwards.
* `CallStackProofs!FramesSafe` and `FramesReturn`: `FramesIntact` and
  `ReturnsMatch`, for every cartridge and interrupts at any instruction, nested to
  any depth, **for programs that are `Disciplined`**. That is an assumption about
  the program in the cartridge and not about the emulator: it writes over no open
  frame (a stack of 256 bytes that overflows does), and returns with the SP it was
  entered with. The theorems have the form `StackSpec /\ Disciplined => ...`; what
  they say of the code is that what `JSR`, `BRK` and an interrupt write, address by
  address where SP wraps, is what `RTS` and `RTI` read, the distances of the return
  address (last byte, byte after the padding, PC) included. The invariant `SInv`
  has the bytes of each frame as the code pushes them (`AllKept`, of which
  `FramesIntact` forgets the B of an interrupt), the frames' types, and that the unused
  flag is set in the status of each, the theorem `UnusedFlag` of the CPU: without it
  the status would not come back.
* `CallStackProofs!NmisUnnoticed`: `NmiTransparent`, for every cartridge that has
  the handler of the runs (`HandlerInstalled`; an assumption of `MCCallStack` that
  TLC evaluates), whatever its program does, `Disciplined` or not, and with
  interrupts anywhere, in the handler of another one too. It says that from the
  interrupt to the return the code it suspends keeps its PC, SP, status, A, X and Y
  (`Code`), that the CPU runs on with them afterwards, and that no byte of RAM
  changes but those of the stack just below its SP (`NmiStack`), five for each
  interrupt that is open. The hypothesis
  `[]NmisFit` says that fewer than 50 interrupts are open above any: an open one
  takes up to five of the 256 bytes of the stack, and a stack that runs full writes
  over the oldest. `FewNmisUnnoticed` discharges it where `MaxNmis < 50`.
  The property is far from inductive. `NInv` says for each open interrupt where
  its handler is, what of A and X is still in the registers and what already on the
  stack (`Within`), and that the frames above an interrupt are interrupts
  themselves, each taken where the one below now is (`Resumes`), with parts of the
  stack that do not overlap (the distances in `Interrupted`, which wrap). The step
  has three cases: an instruction of the innermost handler moves it on
  (`HandlerAdvances`) and writes only below the parts of the others (`PartsApart`);
  its RTI returns to the point the one below resumes from, with its registers
  (`HandlerReturns`); a new interrupt pushes its frame below all parts
  (`HandlerEntered`, `AboveSP`). `HandlerInstructions` shows by the table of the
  switch that the bytes of the handler are executed as the instructions they are.
  Which bytes a step may write follows from the same three cases (`SuspendedAt`,
  `Below`).
* `CallStackProofs!ProgramsDisciplined`, `ProgramsReturn`, `ProgramsCorrect`: for the
  two programs of the `call_stack` run, `Disciplined`, and so `FramesIntact` and
  `ReturnsMatch` with nothing left to assume, and `ResultCorrect`. They hold of
  every image that has the bytes of the programs (`ProgramsInstalled`; that those
  of the run do is an assumption of `MCCallStack` that TLC evaluates), whatever lies
  in the other bytes, and where the PPU raises fewer than 49 interrupts. With the one
  it may begin with, 49 can then be open; they reach down to 245 bytes below SP, and
  the second program uses the six bytes above it.
  The invariant (`ProgInv`) is an assertion for each instruction of a program
  (`SumMain` to `WrapInner`), of what it finds in A, X, SP, the carry, the memory it
  uses and the frames it is in. It speaks of the registers of the program, those
  suspended while interrupts are open. A step of the program leads from one assertion
  to the next (`SumStep`, `WrapStep`, by the bytes of the program, the table of the
  switch and one lemma about each kind of instruction: `LoadEffects`,
  `ArithmeticEffects`, `StackEffects`, `CallEffects`, `Returns`); a step of an
  interrupt keeps the assertion, which is what `NmisUnnoticed` shows of it
  (`OthersKeep`). `Returns` needs intact frames and `FramesIntact` needs
  `Disciplined`, so `SInv`, `NInv` and `ProgInv` are proved together (`PInv`).
* `AluCheckProofs!AddExact`, `SubExact`, `CmpSubtracts`, `ShiftsExact`: the four
  properties of the `alu` run, for every set of statuses. The invariant is that
  `out` is the outcome of the helper applied last (`Applied`); the carry that
  `add` infers from the wrapped sum is then arithmetic on two bytes.
* `ManualProofs!CyclesAlwaysMatch`: `CyclesMatchBus` in every state of every
  program. Each row of the switch is compared with the accesses its addressing mode
  and kind of instruction need; each handler charges what `cpu_get_addr` has
  just found (`HandlerCharges`), never a crossing that an earlier instruction left
  in `page_crossed`. Proving it corrected the reference: the bus fetches once more for
  every branch that is taken, also one to the next instruction.
* `ManualProofs!StoresAlwaysArrive`, `WordsAlwaysMatch`, `LogNames`: `StoresArrive`,
  `WordsMatchBytes` at any addresses, and `LogNamesInstruction`, in every state of
  every program. They rest on `EntryRow` of `CpuProofs`: the row of an opcode is the
  one row of the switch with its code, and `cpu.h` gives it the same name.
* `LifecycleProofs!TypeCorrect`: `TypeOK`. `Contents` (a memory holds only pages of
  the file) is inductive only with the positions of `ReadingInvariant`: that a read
  stays inside the file is what it says.
* `LifecycleProofs!ScriptAgrees`: `NesInfoAgrees`, the script and the loader as two
  readings of one header, for every file.

Only model-checked: all liveness (`VBlankRecurs`, `InterruptServed`,
`FramesKeepComing`, `PollsEnd`, `ProgramEnds`, `GoodFilesRun`, `BadFilesEnd`), since
fairness is out of the prover's reach. Every other property of a passing run is a
theorem, `FramesIntact` and `ReturnsMatch` for `Disciplined` programs, of which the
two of the run are proved to be. The bounds of the runs that are left behind by the
theorems are the operands, registers and addresses of `opcodes`, the two interrupts
of `call_stack` and the bytes of its images beside the programs, the cartridges and
the small screen of `emulator`, and the files of `lifecycle`.

## Not modelled

* `CpuSpec` is about 32K images, as `mapper_init` builds them for 16K (twice) and
  32K cartridges. That it does build them is `CpuSeesPrgBanks`; programs on files
  without PRG banks are followed in `Lifecycle` only, where any read may crash.
* `cpu_free` and `ppu_free` are called by the tests only: `main` never leaves its
  loop (`TickLength`).
* CHR and expansion-RAM accessors of `mapper.c`, which nothing calls; the header
  fields for mirroring, battery, VS, RAM banks and PAL, which nothing reads;
  rendering, sound, controllers and sprite DMA, which the code does not implement:
  their addresses panic when read and ignore stores, and that is modelled.
* Logging and `hexdump`: formatting. The comparison of a trace with a file in
  `tests/`, and what `nes_info.py` prints beyond the fields of `NesInfo!Report`.
* The order of the two pops in `cpu_pop_u16`: one is taken, see above.

## Plan

1. *(done)* `Bytes`, `Alu`, `Decode`, `Bus`, `Cpu`; `Ppu` over `FrameCounter`;
   `Emulator`; their runs and theorems.
2. *(done)* `Ines`, `Loader`, `Lifecycle`, `NesInfo` and their run; the ownership
   and refinement theorems; the theorems about `Emulator`.
3. *(done)* The discipline of the stack as an assumption about programs, and the
   theorems `FramesSafe`, `FramesReturn` and `PrgBanksSeen`.
4. *(done)* `NmisUnnoticed`; the theorems about `AluCheck` and `Manual`;
   `NesInfoAgrees` and `TypeOK` of `Lifecycle`.
5. *(done)* `NmiTransparent` with the status, PC, SP and RAM as well;
   `ProgramsDisciplined` and `ProgramsCorrect`.
6. `NmiTransparent` for every handler that saves what it uses, as `Disciplined` is
   an assumption about every program.
