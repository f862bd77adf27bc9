----------------------------- MODULE Lifecycle -----------------------------
(***************************************************************************)
(* The life of the process around the emulation: cartridge_load, the        *)
(* start-up calls of main.c and tests/main.c in their order, and the calls  *)
(* that release everything at the end of the tests.  A step is one call,    *)
(* or the part of cartridge_load up to the next call that can fail.         *)
(*                                                                          *)
(* Every request to the operating system may be refused at any time.        *)
(***************************************************************************)
EXTENDS Ines

(* What malloc is called for, by the pointer that receives it; cpu->ppu is  *)
(* a second pointer to the ppu.                                             *)
MapperBlocks == {"_prg_rom", "_chr_rom", "_ex_ram"}
Blocks       == {"cart", "rom", "vrom", "cpu", "ppu"} \cup MapperBlocks
Pointers     == Blocks \cup {"cpu->ppu"}
Memories     == {"rom", "vrom", "_prg_rom", "_chr_rom"}

Block(p) == IF p = "cpu->ppu" THEN "ppu" ELSE p

VARIABLES
  program,    \* acidnes or tests: whose main
  file,       \* what the path names
  pc,         \* the call that is next
  crashed,    \* undefined behaviour has ended the process
  is_open,    \* cartridge_load has the file open
  position,   \* of the file, in pages after the header
  buffer,     \* the header, of which *cart is another view
  ptr,        \* unset: never assigned; null; set: to a block, live or not
  live,       \* the blocks malloc has given and free has not taken
  mem,        \* what the memories hold, in pages of the file
  refused,    \* history: what the operating system has refused
  wild        \* history: pointers used or freed that were not to a live block

vars == <<program, file, pc, crashed, is_open, position, buffer, ptr, live, mem,
          refused, wild>>

At(call) == ~crashed /\ pc = call

Loading  == {"fopen", "fread", "cart", "rom", "vrom"}
StartUp  == {"mapper_init", "cpu_init", "cpu_reset", "ppu_init"}
Shutdown == {"ppu_free", "cpu_free", "mapper_free", "cartridge_free"}
Ended    == {"done", "exited"}

(* mapper.c gives its three pointers a value, the others have none.         *)
Init ==
  /\ program \in {"acidnes", "tests"}
  /\ file \in Files
  /\ pc = "fopen"
  /\ crashed = FALSE
  /\ is_open = FALSE
  /\ position = 0
  /\ buffer \in {h \in Headers : Agrees(h, file)}
  /\ ptr = [p \in Pointers |-> IF p \in MapperBlocks THEN "null" ELSE "unset"]
  /\ live = {}
  /\ mem = [m \in Memories |-> NoPages]
  /\ refused = {}
  /\ wild = {}

-----------------------------------------------------------------------------
(* Pointers.                                                                *)
IsWild(p) ==
  \/ ptr[p] = "unset"
  \/ ptr[p] = "set" /\ Block(p) \notin live

(* What free takes away for the pointers of S; NULL is a legal argument.    *)
Freed(S) == {p \in S : ptr[p] = "set"}

Touch(S) == wild' = wild \cup {p \in S : IsWild(p)}

Free(S) == live' = live \ Freed(S) /\ Touch(S)

(* malloc for the blocks of S: the granted ones are given, the others not.  *)
Malloc(S, granted) ==
  /\ ptr' = [p \in Pointers |-> IF p \notin S THEN ptr[p]
                                ELSE IF p \in granted THEN "set" ELSE "null"]
  /\ refused' = refused \cup (S \ granted)

-----------------------------------------------------------------------------
(* cartridge_load.                                                          *)
get_bit_at(c, pos) == IF pos >= 8 THEN 255 ELSE (c \div Weight(pos)) % 2

(* Mutant: the second half of the mapper number forgotten.                  *)
MapperTypeLowBits == buffer.b6 \div 16

mapper_type ==
  ByteOf({i \in 0 .. 3 : i + 4 \in Bits(buffer.b6)} \cup (Bits(buffer.b7) \cap 4 .. 7))
trainer     == get_bit_at(buffer.b6, 2)

prg_rom_size == buffer.prg * PrgBank
chr_rom_size == buffer.chr * ChrBank

(* return NULL, after the blocks S and the file have been given back.       *)
GiveUp(S) ==
  /\ Free(S)
  /\ ptr' = [ptr EXCEPT !["cart"] = "null"]
  /\ is_open' = FALSE
  /\ pc' = "failed"

OpenFile ==
  /\ At("fopen")
  /\ \/ is_open' = TRUE /\ pc' = "fread" /\ UNCHANGED <<ptr, live, wild, refused>>
     \/ GiveUp({}) /\ refused' = refused \cup {"fopen"}
  /\ UNCHANGED <<program, file, crashed, position, buffer, mem>>

(* Bytes of the buffer that the file is too short for keep what was on the  *)
(* stack, which Init has chosen.                                            *)
ReadHeader ==
  /\ At("fread")
  /\ \/ buffer.magic /\ pc' = "cart" /\ UNCHANGED <<ptr, live, wild, is_open>>
     \/ ~buffer.magic /\ GiveUp({})
  /\ UNCHANGED <<program, file, crashed, position, buffer, mem, refused>>

(* Mutant: a cartridge of another mapper not freed.                         *)
AllocateCartLeaks ==
  /\ At("cart")
  /\ Malloc({"cart"}, {"cart"})
  /\ live' = live \cup {"cart"}
  /\ position' = position + trainer
  /\ pc' = IF mapper_type = 0 THEN "rom" ELSE "failed"
  /\ is_open' = (mapper_type = 0)
  /\ UNCHANGED <<program, file, crashed, buffer, mem, wild>>

(* malloc(sizeof(cartridge_t)) and the header's meaning; seeks the banks.   *)
AllocateCart ==
  /\ At("cart")
  /\ \/ GiveUp({}) /\ refused' = refused \cup {"cart"} /\ UNCHANGED position
     \/ mapper_type # 0 /\ GiveUp({}) /\ UNCHANGED <<refused, position>>
     \/ /\ mapper_type = 0
        /\ Malloc({"cart"}, {"cart"})
        /\ live' = live \cup {"cart"}
        /\ position' = position + trainer
        /\ pc' = "rom"
        /\ UNCHANGED <<is_open, wild>>
  /\ UNCHANGED <<program, file, crashed, buffer, mem>>

(* Mutants: the result of fread not checked; one page more asked for.       *)
InFileUnchecked(count)  == TRUE
InFileAndMore(count) == count = 0 \/ position + count < file.pages

(* fread has count pages to read from the position in the file.             *)
InFile(count) == count = 0 \/ position + count <= file.pages

(* Room for count pages of block p, and the reading of them.  Without room, *)
(* fread writes to NULL, which is undefined unless there is nothing to      *)
(* write: it crashes or reports that too little could be read.  On the      *)
(* error path the room is given back with the blocks held.                  *)
ReadBanks(p, count, held) ==
  \E granted \in SUBSET {p} :
    LET complete == InFile(count) /\ (p \in granted \/ count = 0)
    IN  \/ /\ complete
           /\ Malloc({p}, granted)
           /\ live' = live \cup granted
           /\ mem' = [mem EXCEPT ![p] = Pages(position, count)]
           /\ position' = position + count
           /\ pc' = IF p = "rom" THEN "vrom" ELSE "mapper_init"
           /\ is_open' = (p = "rom")
           /\ UNCHANGED <<wild, crashed>>
        \/ /\ ~complete
           /\ GiveUp(held)
           /\ refused' = refused \cup ({p} \ granted)
           /\ UNCHANGED <<mem, position, crashed>>
        \/ /\ ~complete /\ p \notin granted
           /\ crashed' = TRUE
           /\ refused' = refused \cup {p}
           /\ UNCHANGED <<pc, ptr, live, wild, is_open, mem, position>>

(* Mutants: the error path of the PRG banks by cartridge_free; that of the  *)
(* CHR banks without the PRG banks.                                         *)
ReadRomFreesAll ==
  /\ At("rom")
  /\ ReadBanks("rom", prg_rom_size, {"cart", "vrom"})
  /\ UNCHANGED <<program, file, buffer>>

ReadVromLeaksRom ==
  /\ At("vrom")
  /\ ReadBanks("vrom", chr_rom_size, {"cart"})
  /\ UNCHANGED <<program, file, buffer>>

ReadRom ==
  /\ At("rom")
  /\ ReadBanks("rom", prg_rom_size, {"cart"})
  /\ UNCHANGED <<program, file, buffer>>

ReadVrom ==
  /\ At("vrom")
  /\ ReadBanks("vrom", chr_rom_size, {"cart", "rom"})
  /\ UNCHANGED <<program, file, buffer>>

-----------------------------------------------------------------------------
(* mapper.c.                                                                *)

(* Mutant: one bank copied once.                                            *)
PrgCopyOnce == mem["rom"]

(* What the copy of the PRG banks holds: one bank is there twice.           *)
PrgCopy ==
  IF prg_rom_size = PrgBank
    THEN [p \in 0 .. 2 * PrgBank - 1 |-> mem["rom"][p % PrgBank]]
    ELSE mem["rom"]

(* mapper_init.  It calls mapper_free first.  The copies are not checked    *)
(* for NULL, so that copying anything to one crashes.                       *)
mapper_init ==
  /\ At("mapper_init")
  /\ Touch({"cart", "rom", "vrom"} \cup MapperBlocks)
  /\ \E granted \in SUBSET MapperBlocks :
       /\ Malloc(MapperBlocks, granted)
       /\ live' = (live \ Freed(MapperBlocks)) \cup granted
       /\ IF /\ "_prg_rom" \in granted \/ prg_rom_size = 0
             /\ "_chr_rom" \in granted \/ chr_rom_size = 0
            THEN /\ mem' = [mem EXCEPT !["_prg_rom"] = PrgCopy,
                                       !["_chr_rom"] = mem["vrom"]]
                 /\ pc' = "cpu_init"
                 /\ UNCHANGED crashed
            ELSE crashed' = TRUE /\ UNCHANGED <<mem, pc>>
  /\ UNCHANGED <<program, file, position, buffer, is_open>>

(* get_prg_u8 and get_prg_u16 index the copy without a check.  The page at  *)
(* addr past $8000, if there is one.                                        *)
InImage(addr)    == addr \div 512 \in DOMAIN mem["_prg_rom"]
get_prg_u8(addr) == mem["_prg_rom"][addr \div 512]

-----------------------------------------------------------------------------
(* main.                                                                    *)
cpu_init ==
  /\ At("cpu_init")
  /\ \E granted \in SUBSET {"cpu"} :
       /\ Malloc({"cpu"}, granted)
       /\ live' = live \cup granted
       /\ pc' = IF "cpu" \in granted THEN "cpu_reset" ELSE "failed"
  /\ UNCHANGED <<program, file, crashed, position, buffer, is_open, mem, wild>>

(* Reads the reset vector.  Past the end of the image anything may be read, *)
(* or nothing is mapped.                                                    *)
cpu_reset ==
  /\ At("cpu_reset")
  /\ Touch({"cpu", "_prg_rom"})
  /\ \/ pc' = "ppu_init" /\ UNCHANGED crashed
     \/ ~InImage(\h7ffc) /\ crashed' = TRUE /\ UNCHANGED pc
  /\ UNCHANGED <<program, file, position, buffer, is_open, ptr, live, mem, refused>>

(* ppu_init and the assignment to cpu->ppu.                                 *)
ppu_init ==
  /\ At("ppu_init")
  /\ \/ /\ refused' = refused \cup {"ppu"}
        /\ ptr' = [ptr EXCEPT !["ppu"] = "null"]
        /\ pc' = "failed"
        /\ UNCHANGED live
     \/ /\ ptr' = [ptr EXCEPT !["ppu"] = "set", !["cpu->ppu"] = "set"]
        /\ live' = live \cup {"ppu"}
        /\ pc' = "loop"
        /\ UNCHANGED refused
  /\ UNCHANGED <<program, file, crashed, position, buffer, is_open, mem, wild>>

(* One turn of the loop: cpu_tick, and in acidnes the ppu_ticks.  The turn  *)
(* may end in _panic, which calls exit(1), or past the end of the image;    *)
(* the tests leave the loop when the program has returned to $0001.         *)
(* acidnes leaves it for a tick of 255 cycles, and there is none            *)
(* (CpuProofs!TickLength).                                                  *)
Turn ==
  /\ At("loop")
  /\ Touch({"cpu", "cpu->ppu", "_prg_rom"} \cup
           (IF program = "acidnes" THEN {"ppu"} ELSE {}))
  /\ \/ pc' \in {"loop", "exited"} /\ UNCHANGED crashed
     \/ program = "tests" /\ pc' = "ppu_free" /\ UNCHANGED crashed
     \/ ~InImage(\h7fff) /\ crashed' = TRUE /\ UNCHANGED pc
  /\ UNCHANGED <<program, file, position, buffer, is_open, ptr, live, mem, refused>>

(* The calls after the loop free the blocks of S and leave every pointer as *)
(* it is.                                                                   *)
Release(call, S, next) ==
  /\ At(call)
  /\ Free(S)
  /\ pc' = next
  /\ UNCHANGED <<program, file, crashed, position, buffer, is_open, ptr, mem, refused>>

(* Mutant: the expansion RAM forgotten.                                     *)
mapper_free_ROMs_only ==
  Release("mapper_free", {"_prg_rom", "_chr_rom"}, "cartridge_free")

ppu_free       == Release("ppu_free", {"ppu"}, "cpu_free")
cpu_free       == Release("cpu_free", {"cpu"}, "mapper_free")
mapper_free    == Release("mapper_free", MapperBlocks, "cartridge_free")
cartridge_free == Release("cartridge_free", {"rom", "vrom", "cart"}, "done")

(* return 1: what is still allocated goes with the process.                 *)
Quit ==
  /\ At("failed")
  /\ pc' = "exited"
  /\ UNCHANGED <<program, file, crashed, position, buffer, is_open, ptr, live, mem,
                 refused, wild>>

Over == (crashed \/ pc \in Ended) /\ UNCHANGED vars

Load == OpenFile \/ ReadHeader \/ AllocateCart \/ ReadRom \/ ReadVrom
Boot == mapper_init \/ cpu_init \/ cpu_reset \/ ppu_init \/ Quit
End  == ppu_free \/ cpu_free \/ mapper_free \/ cartridge_free

Next == Load \/ Boot \/ Turn \/ End \/ Over

(* No call but the loop can go on for ever.                                 *)
Spec == Init /\ [][Next]_vars /\ WF_vars(Load \/ Boot \/ End)

-----------------------------------------------------------------------------
TypeOK ==
  /\ program \in {"acidnes", "tests"}
  /\ file \in Files
  /\ pc \in Loading \cup StartUp \cup {"loop", "failed"} \cup Shutdown \cup Ended
  /\ crashed \in BOOLEAN
  /\ is_open \in BOOLEAN
  /\ position \in Nat
  /\ buffer \in Headers
  /\ ptr \in [Pointers -> {"unset", "null", "set"}]
  /\ live \subseteq Blocks
  /\ DOMAIN mem = Memories
  /\ \A m \in Memories :
       \A p \in DOMAIN mem[m] : mem[m][p] \in 0 .. file.pages - 1
  /\ refused \subseteq Blocks \cup {"fopen"}
  /\ wild \subseteq Pointers

(* No pointer is used before it is assigned or after its block is freed,    *)
(* and no block is freed twice: not by the error paths of the loader, where *)
(* vrom is still unset; not by cpu_reset, which runs before cpu->ppu is     *)
(* set; not by mapper_free, which main calls twice.                         *)
NoWildPointer == wild = {}

(* A process that returns from main at its end has released everything.     *)
NothingLeft == pc = "done" => live = {} /\ ~is_open

(* What the CPU finds at $8000 and up is what the document says: 32K of the *)
(* file from the first PRG bank on, one bank twice; and no address is past  *)
(* the image once there is a bank.                                          *)
CpuSeesPrgBanks ==
  pc = "loop" /\ buffer.prg > 0 =>
    \A page \in 0 .. 63 :
      /\ InImage(512 * page)
      /\ get_prg_u8(512 * page) =
           TrainerPages(file.header) +
             (IF file.header.prg = 1 THEN page % PrgBank ELSE page)

(* The loader loads completely or refuses and keeps nothing.                *)
LoaderState ==
  IF pc \in Loading THEN "loading"
  ELSE IF pc = "done" THEN "released"
  ELSE IF ptr["cart"] = "set" THEN "loaded" ELSE "refused"

Promise == INSTANCE Loader WITH
  state     <- LoaderState,
  cartridge <- IF LoaderState = "loaded"
                 THEN [prg |-> mem["rom"], chr |-> mem["vrom"]]
                 ELSE [prg |-> NoPages, chr |-> NoPages],
  held      <- IF LoaderState = "loading" THEN {}
               ELSE (live \cap {"cart", "rom", "vrom"}) \cup
                    (IF is_open THEN {"file"} ELSE {})

LoaderPromise == Promise!Spec

(* Where the loader accepts a file with a whole header, nes_info.py accepts *)
(* it and says the same of it, and without a trainer the pages it computes  *)
(* its checksums of are the loaded ones.                                    *)
Script == INSTANCE NesInfo

NesInfoAgrees ==
  pc = "mapper_init" /\ file.size = 16 =>
    LET report == Script!Report(file)
    IN  /\ Script!Accepts(file)
        /\ report.prg = buffer.prg
        /\ report.chr = buffer.chr
        /\ report.mapper = mapper_type
        /\ report.trainer = trainer
        /\ trainer = 0 => report.prgRead = mem["rom"] /\ report.chrRead = mem["vrom"]

(* A complete file of mapper 0 with a PRG bank is run, unless the operating *)
(* system refuses something that is used: nothing uses the expansion RAM.   *)
Runnable(f) ==
  /\ f.size = 16 /\ f.header.magic
  /\ Mapper(f.header) = 0 /\ f.header.prg > 0 /\ Complete(f.header, f)

GoodFilesRun ==
  (pc = "fopen" /\ Runnable(file)) ~> (pc = "loop" \/ refused \ {"_ex_ram"} # {})

(* Any other file with a whole header and a PRG bank ends in exit(1).       *)
BadFilesEnd ==
  (pc = "fopen" /\ file.size = 16 /\ file.header.prg > 0 /\ ~Runnable(file))
     ~> ((pc = "exited" /\ live = {}) \/ refused # {})
=============================================================================
