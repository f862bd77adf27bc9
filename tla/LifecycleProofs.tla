-------------------------- MODULE LifecycleProofs --------------------------
(***************************************************************************)
(* No pointer is used that does not point to a live block, the process      *)
(* ends with nothing left, and cartridge_load keeps the promise of Loader:  *)
(* for every set of files, whatever the operating system refuses.           *)
(***************************************************************************)
EXTENDS Lifecycle, TLAPS

Calls == Loading \cup StartUp \cup {"loop", "failed"} \cup Shutdown \cup Ended

(* The calls that are next while a block is owned: between its malloc and   *)
(* its free in the order of main.                                           *)
HeldByMapper == {"cpu_init", "cpu_reset", "ppu_init", "loop",
                 "ppu_free", "cpu_free", "mapper_free"}
HeldAsVrom   == HeldByMapper \cup {"mapper_init", "cartridge_free"}
HeldAsRom    == HeldAsVrom \cup {"vrom"}
HeldAsCart   == HeldAsRom \cup {"rom"}
HeldAsCpu    == {"cpu_reset", "ppu_init", "loop", "ppu_free", "cpu_free"}
HeldAsPpu    == {"loop", "ppu_free"}

(* A block is live at these calls, if malloc gave it, and at no other.      *)
Owned(b, calls) ==
  /\ b \in live <=> pc \in calls /\ ptr[b] = "set"
  /\ pc \in calls => ptr[b] # "unset"

(* After a failure main only returns, and the blocks stay where they are.   *)
Orderly == ~crashed /\ pc \notin {"failed", "exited"}

Ownership ==
  /\ \A b \in MapperBlocks : Owned(b, HeldByMapper)
  /\ Owned("vrom", HeldAsVrom)
  /\ Owned("rom", HeldAsRom)
  /\ Owned("cart", HeldAsCart)
  /\ Owned("cpu", HeldAsCpu)
  /\ Owned("ppu", HeldAsPpu)

(* What mapper_free, called first by mapper_init, and the loop rely on.     *)
PointersReady ==
  /\ pc \in Loading \cup {"mapper_init"} => \A b \in MapperBlocks : ptr[b] = "null"
  /\ pc \in HeldAsCart => ptr["cart"] = "set"
  /\ pc \in HeldAsPpu => ptr["cpu->ppu"] = "set" /\ ptr["ppu"] = "set"

Types ==
  /\ pc \in Calls
  /\ crashed \in BOOLEAN
  /\ ptr \in [Pointers -> {"unset", "null", "set"}]
  /\ live \subseteq Blocks

Open ==
  /\ ~crashed => (is_open <=> pc \in Loading \ {"fopen"})
  /\ crashed => pc \notin Ended

IInv ==
  /\ Types
  /\ Orderly => Ownership /\ PointersReady
  /\ Open
  /\ NoWildPointer

-----------------------------------------------------------------------------
(* A block that is owned is safe to use and to free.                        *)
LEMMA OwnedNotWild ==
  ASSUME NEW b \in Blocks, NEW calls, Owned(b, calls), pc \in calls
  PROVE  ~IsWild(b)
  BY DEF Owned, IsWild, Block, Blocks, MapperBlocks

(* Giving up releases what is owned and leaves the process at its failure.  *)
LEMMA GivesUp ==
  ASSUME IInv, NEW S \in SUBSET Blocks, GiveUp(S), \A b \in S : ~IsWild(b),
         crashed' = crashed
  PROVE  IInv'
  <1>1. wild' = {}
    BY DEF IInv, NoWildPointer, GiveUp, Free, Touch
  <1>2. Types'
    BY DEF IInv, Types, GiveUp, Free, Freed, Calls, Pointers, Blocks
  <1>3. ~Orderly' /\ Open'
    BY DEF GiveUp, Orderly, Open, Loading, Ended
  <1> QED
    BY <1>1, <1>2, <1>3 DEF IInv, NoWildPointer

LEMMA InitInvariant == Init => IInv
  <1> SUFFICES ASSUME Init PROVE IInv
    OBVIOUS
  <1>1. Types
    BY DEF Init, Types, Calls, Loading, Pointers, Blocks
  <1>2. Ownership
    BY DEF Init, Ownership, Owned, HeldByMapper, HeldAsVrom, HeldAsRom, HeldAsCart,
           HeldAsCpu, HeldAsPpu
  <1>3. PointersReady
    BY DEF Init, PointersReady, Pointers, Blocks, MapperBlocks, HeldByMapper,
           HeldAsVrom, HeldAsRom, HeldAsCart, HeldAsPpu
  <1> QED
    BY <1>1, <1>2, <1>3 DEF Init, IInv, Open, NoWildPointer, Loading

-----------------------------------------------------------------------------
(* cartridge_load.                                                          *)
USE DEF Calls, Loading, StartUp, Shutdown, Ended, HeldByMapper, HeldAsVrom, HeldAsRom,
        HeldAsCart, HeldAsCpu, HeldAsPpu

LEMMA OpenFileStep == ASSUME IInv, OpenFile PROVE IInv'
  <1>1. CASE GiveUp({})
    BY <1>1, GivesUp DEF OpenFile
  <1>2. CASE is_open' = TRUE /\ pc' = "fread" /\ UNCHANGED <<ptr, live, wild>>
    <2>1. Orderly /\ pc = "fopen" /\ UNCHANGED crashed
      BY DEF OpenFile, At, Orderly
    <2>2. Types' /\ Open' /\ NoWildPointer'
      BY <1>2, <2>1 DEF IInv, Types, Open, NoWildPointer, Orderly
    <2>3. Ownership' /\ PointersReady'
      BY <1>2, <2>1 DEF IInv, Ownership, Owned, PointersReady
    <2> QED
      BY <2>2, <2>3 DEF IInv
  <1> QED
    BY <1>1, <1>2 DEF OpenFile

LEMMA ReadHeaderStep == ASSUME IInv, ReadHeader PROVE IInv'
  <1>1. CASE GiveUp({})
    BY <1>1, GivesUp DEF ReadHeader
  <1>2. CASE pc' = "cart" /\ UNCHANGED <<ptr, live, wild, is_open>>
    <2>1. Orderly /\ pc = "fread" /\ UNCHANGED crashed
      BY DEF ReadHeader, At, Orderly
    <2>2. Types' /\ Open' /\ NoWildPointer'
      BY <1>2, <2>1 DEF IInv, Types, Open, NoWildPointer, Orderly
    <2>3. Ownership' /\ PointersReady'
      BY <1>2, <2>1 DEF IInv, Ownership, Owned, PointersReady
    <2> QED
      BY <2>2, <2>3 DEF IInv
  <1> QED
    BY <1>1, <1>2 DEF ReadHeader

LEMMA AllocateCartStep == ASSUME IInv, AllocateCart PROVE IInv'
  <1>1. CASE GiveUp({})
    BY <1>1, GivesUp DEF AllocateCart
  <1>2. CASE /\ Malloc({"cart"}, {"cart"})
             /\ live' = live \cup {"cart"}
             /\ pc' = "rom"
             /\ UNCHANGED <<is_open, wild>>
    <2>1. Orderly /\ pc = "cart" /\ UNCHANGED crashed
      BY DEF AllocateCart, At, Orderly
    <2>2. \A p \in Pointers : ptr'[p] = IF p = "cart" THEN "set" ELSE ptr[p]
      BY <1>2 DEF Malloc
    <2>3. Types' /\ Open' /\ NoWildPointer'
      BY <1>2, <2>1 DEF IInv, Types, Open, NoWildPointer, Orderly, Malloc, Blocks
    <2>4. Ownership' /\ PointersReady'
      BY <1>2, <2>1, <2>2
      DEF IInv, Ownership, Owned, PointersReady, Pointers, Blocks, MapperBlocks
    <2> QED
      BY <2>3, <2>4 DEF IInv
  <1> QED
    BY <1>1, <1>2 DEF AllocateCart

(* Reading the banks of a block, at its call and with what is owned there.  *)
LEMMA ReadBanksStep ==
  ASSUME IInv, ~crashed, UNCHANGED <<program, file, buffer>>,
         NEW p \in {"rom", "vrom"}, pc = p, NEW count,
         NEW held, held = IF p = "rom" THEN {"cart"} ELSE {"cart", "rom"},
         ReadBanks(p, count, held)
  PROVE  IInv'
  <1>1. Orderly
    BY DEF Orderly
  <1>2. PICK granted \in SUBSET {p} : ReadBanks(p, count, held)!(granted)
    BY DEF ReadBanks
  <1>3. CASE GiveUp(held) /\ UNCHANGED crashed
    <2>1. \A b \in held : ~IsWild(b)
      BY <1>1, OwnedNotWild DEF IInv, Ownership, Blocks
    <2> QED
      BY <1>3, <2>1, GivesUp DEF Blocks
  <1>4. CASE crashed' = TRUE /\ UNCHANGED <<pc, ptr, live, wild>>
    BY <1>4 DEF IInv, Types, Orderly, Open, NoWildPointer
  <1>5. CASE /\ Malloc({p}, granted)
             /\ live' = live \cup granted
             /\ pc' = IF p = "rom" THEN "vrom" ELSE "mapper_init"
             /\ is_open' = (p = "rom")
             /\ UNCHANGED <<wild, crashed>>
    <2>1. \A q \in Pointers :
            ptr'[q] = IF q # p THEN ptr[q] ELSE IF p \in granted THEN "set" ELSE "null"
      BY <1>5 DEF Malloc
    <2>2. Types' /\ Open' /\ NoWildPointer'
      BY <1>1, <1>5 DEF IInv, Types, Open, NoWildPointer, Orderly, Malloc, Blocks
    <2>3. Ownership' /\ PointersReady'
      BY <1>1, <1>5, <2>1
      DEF IInv, Ownership, Owned, PointersReady, Pointers, Blocks, MapperBlocks
    <2> QED
      BY <2>2, <2>3 DEF IInv
  <1> QED
    BY <1>2, <1>3, <1>4, <1>5

LEMMA LoadSteps == ASSUME IInv, Load PROVE IInv'
  <1>1. CASE ReadRom
    BY <1>1, ReadBanksStep DEF ReadRom, At
  <1>2. CASE ReadVrom
    BY <1>2, ReadBanksStep DEF ReadVrom, At
  <1> QED
    BY <1>1, <1>2, OpenFileStep, ReadHeaderStep, AllocateCartStep DEF Load

-----------------------------------------------------------------------------
(* The start-up calls of main.                                              *)
LEMMA MapperInitStep == ASSUME IInv, mapper_init PROVE IInv'
  <1>1. Orderly /\ pc = "mapper_init"
    BY DEF mapper_init, At, Orderly
  <1>2. PICK granted \in SUBSET MapperBlocks :
          /\ Malloc(MapperBlocks, granted)
          /\ live' = (live \ Freed(MapperBlocks)) \cup granted
          /\ \/ pc' = "cpu_init" /\ UNCHANGED crashed
             \/ crashed' = TRUE /\ UNCHANGED pc
    BY DEF mapper_init
  <1>3. \A q \in Pointers :
          ptr'[q] = IF q \notin MapperBlocks THEN ptr[q]
                    ELSE IF q \in granted THEN "set" ELSE "null"
    BY <1>2 DEF Malloc
  <1>4. \A b \in {"cart", "rom", "vrom"} : ~IsWild(b)
    BY <1>1, OwnedNotWild DEF IInv, Ownership, Blocks
  <1>5. \A b \in MapperBlocks : ~IsWild(b) /\ b \notin Freed(MapperBlocks)
    BY <1>1 DEF IInv, PointersReady, IsWild, Freed
  <1>6. NoWildPointer'
    BY <1>4, <1>5 DEF mapper_init, Touch, IInv, NoWildPointer
  <1>7. Types' /\ Open'
    BY <1>1, <1>2 DEF mapper_init, IInv, Types, Open, Orderly, Malloc, Blocks
  <1>8. Orderly' => pc' = "cpu_init"
    BY <1>1, <1>2 DEF Orderly
  <1>9. live' = live \cup granted
    BY <1>2, <1>5 DEF Freed
  <1>10. pc' = "cpu_init" => Ownership' /\ PointersReady'
    BY <1>1, <1>2, <1>3, <1>9
    DEF IInv, Ownership, Owned, PointersReady, Pointers, Blocks, MapperBlocks
  <1> QED
    BY <1>6, <1>7, <1>8, <1>10 DEF IInv

LEMMA CpuInitStep == ASSUME IInv, cpu_init PROVE IInv'
  <1>1. Orderly /\ pc = "cpu_init" /\ UNCHANGED crashed
    BY DEF cpu_init, At, Orderly
  <1>2. PICK granted \in SUBSET {"cpu"} :
          /\ Malloc({"cpu"}, granted)
          /\ live' = live \cup granted
          /\ pc' = IF "cpu" \in granted THEN "cpu_reset" ELSE "failed"
    BY DEF cpu_init
  <1>3. \A q \in Pointers :
          ptr'[q] = IF q # "cpu" THEN ptr[q]
                    ELSE IF q \in granted THEN "set" ELSE "null"
    BY <1>2 DEF Malloc
  <1>4. Types' /\ Open' /\ NoWildPointer'
    BY <1>1, <1>2
    DEF cpu_init, IInv, Types, Open, NoWildPointer, Orderly, Malloc, Blocks
  <1>5. Orderly' => Ownership' /\ PointersReady'
    BY <1>1, <1>2, <1>3
    DEF IInv, Ownership, Owned, PointersReady, Orderly, Pointers, Blocks, MapperBlocks
  <1> QED
    BY <1>4, <1>5 DEF IInv

LEMMA CpuResetStep == ASSUME IInv, cpu_reset PROVE IInv'
  <1>1. Orderly /\ pc = "cpu_reset" /\ UNCHANGED <<ptr, live, is_open>>
    BY DEF cpu_reset, At, Orderly
  <1>2. \A b \in {"cpu", "_prg_rom"} : ~IsWild(b)
    BY <1>1, OwnedNotWild DEF IInv, Ownership, Blocks, MapperBlocks
  <1>3. NoWildPointer'
    BY <1>2 DEF cpu_reset, Touch, IInv, NoWildPointer
  <1>4. \/ pc' = "ppu_init" /\ crashed' = FALSE
        \/ pc' = pc /\ crashed' = TRUE
    BY <1>1 DEF cpu_reset, Orderly, IInv, Types
  <1>5. Types' /\ Open'
    BY <1>1, <1>4 DEF IInv, Types, Open, Orderly
  <1>6. Orderly' => Ownership' /\ PointersReady'
    BY <1>1, <1>4 DEF IInv, Ownership, Owned, PointersReady, Orderly
  <1> QED
    BY <1>3, <1>5, <1>6 DEF IInv

LEMMA PpuInitStep == ASSUME IInv, ppu_init PROVE IInv'
  <1>1. Orderly /\ pc = "ppu_init" /\ UNCHANGED <<crashed, is_open, wild>>
    BY DEF ppu_init, At, Orderly
  <1>2. /\ pc' \in {"failed", "loop"}
        /\ live' \subseteq live \cup {"ppu"}
        /\ ptr' \in [Pointers -> {"unset", "null", "set"}]
    BY DEF ppu_init, IInv, Types, Pointers, Blocks
  <1>3. Types' /\ Open' /\ NoWildPointer'
    BY <1>1, <1>2 DEF IInv, Types, Open, NoWildPointer, Orderly, Blocks
  <1>4. Orderly' => Ownership' /\ PointersReady'
    BY <1>1
    DEF ppu_init, IInv, Types, Ownership, Owned, PointersReady, Orderly, Pointers,
        Blocks, MapperBlocks
  <1> QED
    BY <1>3, <1>4 DEF IInv

LEMMA QuitStep == ASSUME IInv, Quit PROVE IInv'
  BY DEF Quit, At, IInv, Types, Open, NoWildPointer, Orderly

-----------------------------------------------------------------------------
(* The loop and the calls after it.                                         *)
LEMMA TurnStep == ASSUME IInv, Turn PROVE IInv'
  <1>1. Orderly /\ pc = "loop" /\ UNCHANGED <<ptr, live, is_open>>
    BY DEF Turn, At, Orderly
  <1>2. \A b \in {"cpu", "ppu", "_prg_rom"} : ~IsWild(b)
    BY <1>1, OwnedNotWild DEF IInv, Ownership, Blocks, MapperBlocks
  <1>3. ~IsWild("cpu->ppu")
    BY <1>1, <1>2 DEF IInv, PointersReady, IsWild, Block
  <1>4. NoWildPointer'
    BY <1>2, <1>3 DEF Turn, Touch, IInv, NoWildPointer
  <1>5. \/ pc' \in {"loop", "exited", "ppu_free"} /\ crashed' = FALSE
        \/ pc' = pc /\ crashed' = TRUE
    BY <1>1 DEF Turn, Orderly, IInv, Types
  <1>6. Types' /\ Open'
    BY <1>1, <1>5 DEF IInv, Types, Open, Orderly
  <1>7. Orderly' => Ownership' /\ PointersReady'
    BY <1>1, <1>5 DEF IInv, Ownership, Owned, PointersReady, Orderly
  <1> QED
    BY <1>4, <1>6, <1>7 DEF IInv

LEMMA EndSteps == ASSUME IInv, End PROVE IInv'
  <1> USE DEF Release, At, Orderly
  <1>1. Orderly
    BY DEF End, ppu_free, cpu_free, mapper_free, cartridge_free
  <1>2. CASE ppu_free
    <2>1. ~IsWild("ppu")
      BY <1>1, <1>2, OwnedNotWild DEF ppu_free, IInv, Ownership, Blocks
    <2>2. Types' /\ Open' /\ NoWildPointer'
      BY <1>2, <2>1 DEF ppu_free, Free, Freed, Touch, IInv, Types, Open, NoWildPointer
    <2>3. Ownership' /\ PointersReady'
      BY <1>1, <1>2
      DEF ppu_free, Free, Freed, IInv, Ownership, Owned, PointersReady, MapperBlocks
    <2> QED
      BY <2>2, <2>3 DEF IInv
  <1>3. CASE cpu_free
    <2>1. ~IsWild("cpu")
      BY <1>1, <1>3, OwnedNotWild DEF cpu_free, IInv, Ownership, Blocks
    <2>2. Types' /\ Open' /\ NoWildPointer'
      BY <1>3, <2>1 DEF cpu_free, Free, Freed, Touch, IInv, Types, Open, NoWildPointer
    <2>3. Ownership' /\ PointersReady'
      BY <1>1, <1>3
      DEF cpu_free, Free, Freed, IInv, Ownership, Owned, PointersReady, MapperBlocks
    <2> QED
      BY <2>2, <2>3 DEF IInv
  <1>4. CASE mapper_free
    <2>1. \A b \in MapperBlocks : ~IsWild(b)
      BY <1>1, <1>4, OwnedNotWild DEF mapper_free, IInv, Ownership, Blocks
    <2>2. Types' /\ Open' /\ NoWildPointer'
      BY <1>4, <2>1 DEF mapper_free, Free, Freed, Touch, IInv, Types, Open, NoWildPointer
    <2>3. Ownership' /\ PointersReady'
      BY <1>1, <1>4
      DEF mapper_free, Free, Freed, IInv, Ownership, Owned, PointersReady, MapperBlocks
    <2> QED
      BY <2>2, <2>3 DEF IInv
  <1>5. CASE cartridge_free
    <2>1. \A b \in {"rom", "vrom", "cart"} : ~IsWild(b)
      BY <1>1, <1>5, OwnedNotWild DEF cartridge_free, IInv, Ownership, Blocks
    <2>2. Types' /\ Open' /\ NoWildPointer'
      BY <1>5, <2>1
      DEF cartridge_free, Free, Freed, Touch, IInv, Types, Open, NoWildPointer
    <2>3. Ownership' /\ PointersReady'
      BY <1>1, <1>5
      DEF cartridge_free, Free, Freed, IInv, Ownership, Owned, PointersReady, MapperBlocks
    <2> QED
      BY <2>2, <2>3 DEF IInv
  <1> QED
    BY <1>2, <1>3, <1>4, <1>5 DEF End

-----------------------------------------------------------------------------
(* The ownership of every block follows the order of the calls of main.     *)
THEOREM Invariant == Spec => []IInv
  <1>1. ASSUME IInv, [Next]_vars PROVE IInv'
    <2>1. CASE UNCHANGED vars
      BY <1>1, <2>1 DEF vars, IInv, Types, Orderly, Ownership, Owned, PointersReady,
         Open, NoWildPointer
    <2>2. CASE Boot
      BY <1>1, <2>2, MapperInitStep, CpuInitStep, CpuResetStep, PpuInitStep, QuitStep
      DEF Boot
    <2> QED
      BY <1>1, <2>1, <2>2, LoadSteps, TurnStep, EndSteps DEF Next, Over
  <1> QED
    BY <1>1, InitInvariant, PTL DEF Spec

(* No pointer is ever used or freed that does not point to a live block: in *)
(* no error path, whatever is refused, by neither main.                     *)
THEOREM NoUseAfterFree == Spec => []NoWildPointer
  <1>1. IInv => NoWildPointer
    BY DEF IInv
  <1> QED
    BY <1>1, Invariant, PTL

(* A process that reaches the end of main has freed every block and closed  *)
(* the file.                                                                *)
THEOREM EverythingReleased == Spec => []NothingLeft
  <1>1. IInv => NothingLeft
    BY DEF IInv, Types, Orderly, Ownership, Owned, Open, NothingLeft, Blocks, MapperBlocks
  <1> QED
    BY <1>1, Invariant, PTL

-----------------------------------------------------------------------------
(* The data of the loader.                                                  *)

(* What has been read when a call is next.                                  *)
Reading ==
  /\ pc \in {"fopen", "fread", "cart"} => position = 0
  /\ pc \in HeldAsCart \cup {"cart"} => buffer.magic
  /\ pc \in HeldAsCart => mapper_type = 0
  /\ pc = "rom" => position = TrainerPages(buffer)
  /\ pc = "vrom" => position = FirstChrPage(buffer)
  /\ pc \in HeldAsRom =>
       /\ mem["rom"] = DocumentedPrg(buffer)
       /\ prg_rom_size = 0 \/ FirstChrPage(buffer) <= file.pages
  /\ pc \in HeldAsVrom =>
       /\ mem["vrom"] = DocumentedChr(buffer)
       /\ chr_rom_size = 0 \/ FirstChrPage(buffer) + chr_rom_size <= file.pages

HeaderRead ==
  /\ file \in Files /\ buffer \in Headers /\ Agrees(buffer, file)
  /\ mem = [m \in Memories |-> mem[m]]

RInv == IInv /\ HeaderRead /\ Reading

(* The code's view of the header bytes is the document's.                   *)
LEMMA HeaderMeaning ==
  ASSUME HeaderRead
  PROVE  /\ buffer.prg \in Nat /\ buffer.chr \in Nat
         /\ trainer = TrainerPages(buffer) /\ trainer \in {0, 1}
         /\ mapper_type = 0 => Mapper(buffer) = 0
  <1>1. buffer \in Header
    BY FilesAssumption DEF HeaderRead
  <1>2. buffer.prg \in Nat /\ buffer.chr \in Nat
    BY <1>1 DEF Header, Byte, MaxByte
  <1>3. buffer.b6 \in 0 .. 255 /\ buffer.b7 \in 0 .. 255
    BY <1>1 DEF Header, Byte, MaxByte
  <1>4. trainer = TrainerPages(buffer) /\ trainer \in {0, 1}
    BY <1>3 DEF trainer, get_bit_at, TrainerPages, Bits, Bit, Weight
  <1>5. ASSUME mapper_type = 0 PROVE Mapper(buffer) = 0
    <2> DEFINE S == {i \in 0 .. 3 : i + 4 \in Bits(buffer.b6)}
                      \cup (Bits(buffer.b7) \cap 4 .. 7)
    <2>1. ByteOf(S) = 0
      BY <1>5 DEF mapper_type
    <2>2. \A i \in 0 .. 7 : i \notin S
      <3> HIDE DEF S
      <3> QED
        BY <2>1 DEF ByteOf, Weight
    <2>3. \A i \in 4 .. 7 : i \notin Bits(buffer.b6) /\ i \notin Bits(buffer.b7)
      BY <2>2
    <2>4. buffer.b6 \div 16 = 0 /\ buffer.b7 \div 16 = 0
      BY <1>3, <2>3 DEF Bits, Bit, Weight
    <2> QED
      BY <2>4 DEF Mapper
  <1> QED
    BY <1>2, <1>4, <1>5

(* Steps that read nothing.                                                 *)
LEMMA KeepsReading ==
  ASSUME HeaderRead, Reading, UNCHANGED <<file, buffer, mem, position>>,
         \/ pc' \in {pc, "failed", "exited", "done"}
         \/ pc \in HeldAsVrom /\ pc' \in HeldAsVrom
         \/ pc = "fopen" /\ pc' = "fread"
         \/ pc = "fread" /\ pc' = "cart" /\ buffer.magic
  PROVE  HeaderRead' /\ Reading'
  BY DEF HeaderRead, Reading, mapper_type, prg_rom_size, chr_rom_size

LEMMA AllocateCartReads ==
  ASSUME HeaderRead, Reading, AllocateCart
  PROVE  HeaderRead' /\ Reading'
  <1>1. pc = "cart" /\ UNCHANGED <<file, buffer, mem>>
    BY DEF AllocateCart, At
  <1>2. CASE pc' = "failed" /\ UNCHANGED position
    BY <1>1, <1>2, KeepsReading
  <1>3. CASE mapper_type = 0 /\ position' = position + trainer /\ pc' = "rom"
    <2>1. position' = TrainerPages(buffer)
      BY <1>1, <1>3, HeaderMeaning DEF Reading
    <2> QED
      BY <1>1, <1>3, <2>1 DEF HeaderRead, Reading, mapper_type, prg_rom_size, chr_rom_size
  <1> QED
    BY <1>2, <1>3 DEF AllocateCart, GiveUp

LEMMA ReadRomReads ==
  ASSUME HeaderRead, Reading, ReadRom
  PROVE  HeaderRead' /\ Reading'
  <1>1. pc = "rom" /\ UNCHANGED <<file, buffer>>
    BY DEF ReadRom, At
  <1>2. \/ UNCHANGED <<mem, position>> /\ pc' \in {"failed", "rom"}
        \/ /\ InFile(prg_rom_size)
           /\ mem' = [mem EXCEPT !["rom"] = Pages(position, prg_rom_size)]
           /\ position' = position + prg_rom_size
           /\ pc' = "vrom"
    BY <1>1 DEF ReadRom, ReadBanks, GiveUp
  <1>3. CASE UNCHANGED <<mem, position>> /\ pc' \in {"failed", "rom"}
    BY <1>1, <1>3, KeepsReading
  <1>4. CASE /\ InFile(prg_rom_size)
             /\ mem' = [mem EXCEPT !["rom"] = Pages(position, prg_rom_size)]
             /\ position' = position + prg_rom_size
             /\ pc' = "vrom"
    <2>1. position = TrainerPages(buffer) /\ position' = FirstChrPage(buffer)
      BY <1>1, <1>4 DEF Reading, FirstChrPage, prg_rom_size
    <2>2. /\ mem'["rom"] = DocumentedPrg(buffer)
          /\ mem' = [m \in Memories |-> mem'[m]]
      BY <1>4, <2>1 DEF HeaderRead, Memories, DocumentedPrg, prg_rom_size
    <2>3. prg_rom_size = 0 \/ FirstChrPage(buffer) <= file.pages
      BY <1>4, <2>1 DEF InFile
    <2> QED
      BY <1>1, <1>4, <2>1, <2>2, <2>3
      DEF HeaderRead, Reading, mapper_type, prg_rom_size, chr_rom_size
  <1> QED
    BY <1>2, <1>3, <1>4

LEMMA ReadVromReads ==
  ASSUME HeaderRead, Reading, ReadVrom
  PROVE  HeaderRead' /\ Reading'
  <1>1. pc = "vrom" /\ UNCHANGED <<file, buffer>>
    BY DEF ReadVrom, At
  <1>2. \/ UNCHANGED <<mem, position>> /\ pc' \in {"failed", "vrom"}
        \/ /\ InFile(chr_rom_size)
           /\ mem' = [mem EXCEPT !["vrom"] = Pages(position, chr_rom_size)]
           /\ pc' = "mapper_init"
    BY <1>1 DEF ReadVrom, ReadBanks, GiveUp
  <1>3. CASE UNCHANGED <<mem, position>> /\ pc' \in {"failed", "vrom"}
    BY <1>1, <1>3, KeepsReading
  <1>4. CASE /\ InFile(chr_rom_size)
             /\ mem' = [mem EXCEPT !["vrom"] = Pages(position, chr_rom_size)]
             /\ pc' = "mapper_init"
    <2>1. position = FirstChrPage(buffer)
      BY <1>1 DEF Reading
    <2>2. /\ mem'["vrom"] = DocumentedChr(buffer)
          /\ mem'["rom"] = mem["rom"]
          /\ mem' = [m \in Memories |-> mem'[m]]
      BY <1>4, <2>1 DEF HeaderRead, Memories, DocumentedChr, chr_rom_size
    <2>3. chr_rom_size = 0 \/ FirstChrPage(buffer) + chr_rom_size <= file.pages
      BY <1>4, <2>1 DEF InFile
    <2> QED
      BY <1>1, <1>4, <2>2, <2>3
      DEF HeaderRead, Reading, mapper_type, prg_rom_size, chr_rom_size
  <1> QED
    BY <1>2, <1>3, <1>4

LEMMA MapperInitReads ==
  ASSUME HeaderRead, Reading, mapper_init
  PROVE  HeaderRead' /\ Reading'
  <1>1. pc = "mapper_init" /\ UNCHANGED <<file, buffer, position>>
    BY DEF mapper_init, At
  <1>2. pc' \in {"mapper_init", "cpu_init"}
    BY <1>1 DEF mapper_init
  <1>3. \/ UNCHANGED mem
        \/ mem' = [mem EXCEPT !["_prg_rom"] = PrgCopy, !["_chr_rom"] = mem["vrom"]]
    BY DEF mapper_init
  <1>4. /\ mem'["rom"] = mem["rom"] /\ mem'["vrom"] = mem["vrom"]
        /\ mem' = [m \in Memories |-> mem'[m]]
    BY <1>3 DEF HeaderRead, Memories
  <1> QED
    BY <1>1, <1>2, <1>4
    DEF HeaderRead, Reading, mapper_type, prg_rom_size, chr_rom_size

LEMMA OtherReads ==
  ASSUME HeaderRead, Reading,
         OpenFile \/ ReadHeader \/ Turn \/ End \/ cpu_init \/ cpu_reset \/ ppu_init
           \/ Quit \/ UNCHANGED vars
  PROVE  HeaderRead' /\ Reading'
  <1>1. UNCHANGED <<file, buffer, mem, position>>
    BY DEF OpenFile, ReadHeader, Turn, End, cpu_init, cpu_reset, ppu_init, Quit, vars,
       ppu_free, cpu_free, mapper_free, cartridge_free, Release
  <1>2. \/ pc' \in {pc, "failed", "exited", "done"}
        \/ pc \in HeldAsVrom /\ pc' \in HeldAsVrom
        \/ pc = "fopen" /\ pc' = "fread"
        \/ pc = "fread" /\ pc' = "cart" /\ buffer.magic
    BY DEF OpenFile, ReadHeader, Turn, End, cpu_init, cpu_reset, ppu_init, Quit, vars,
       ppu_free, cpu_free, mapper_free, cartridge_free, Release, GiveUp, At
  <1> QED
    BY <1>1, <1>2, KeepsReading

(* Ownership and contents together.                                         *)
LEMMA ReadingInvariant == Spec => []RInv
  <1>1. Init => HeaderRead /\ Reading
    BY DEF Init, HeaderRead, Reading, Memories
  <1>2. ASSUME HeaderRead, Reading, [Next]_vars PROVE HeaderRead' /\ Reading'
    BY <1>2, AllocateCartReads, ReadRomReads, ReadVromReads, MapperInitReads, OtherReads
    DEF Next, Load, Boot, Over
  <1> QED
    BY <1>1, <1>2, Invariant, PTL DEF Spec, RInv

-----------------------------------------------------------------------------
(* The copy of the PRG banks is made once and never changed.                *)
Copied == pc \in HeldByMapper => mem["_prg_rom"] = PrgCopy

LEMMA CopyStep ==
  ASSUME HeaderRead, Copied, [Next]_vars
  PROVE  Copied'
  <1>1. CASE mapper_init /\ pc' = "cpu_init"
    <2>1. mem' = [mem EXCEPT !["_prg_rom"] = PrgCopy, !["_chr_rom"] = mem["vrom"]]
          /\ UNCHANGED buffer
      BY <1>1 DEF mapper_init, At
    <2>2. mem'["_prg_rom"] = PrgCopy /\ mem'["rom"] = mem["rom"]
      BY <2>1 DEF HeaderRead, Memories
    <2> QED
      BY <2>1, <2>2 DEF Copied, PrgCopy, prg_rom_size
  <1>2. CASE UNCHANGED <<mem, buffer>> /\ (pc' \in HeldByMapper => pc \in HeldByMapper)
    BY <1>2 DEF Copied, PrgCopy, prg_rom_size
  <1>3. CASE pc' \notin HeldByMapper
    BY <1>3 DEF Copied
  <1>4. CASE Load
    BY <1>3, <1>4
    DEF Load, OpenFile, ReadHeader, AllocateCart, ReadRom, ReadVrom, ReadBanks, GiveUp, At
  <1>5. CASE mapper_init /\ pc' # "cpu_init"
    BY <1>3, <1>5 DEF mapper_init, At
  <1>6. CASE cpu_init \/ cpu_reset \/ ppu_init \/ Quit
    BY <1>2, <1>6 DEF cpu_init, cpu_reset, ppu_init, Quit, At
  <1>7. CASE Turn
    BY <1>2, <1>7 DEF Turn, At
  <1>8. CASE End
    BY <1>2, <1>8
    DEF End, ppu_free, cpu_free, mapper_free, cartridge_free, Release, At
  <1>9. CASE UNCHANGED vars
    BY <1>2, <1>9 DEF vars
  <1> QED
    BY <1>1, <1>4, <1>5, <1>6, <1>7, <1>8, <1>9 DEF Next, Boot, Over

(* A file that has banks to read has a whole header.                        *)
LEMMA WholeHeader ==
  ASSUME RInv, pc = "loop", buffer.prg > 0
  PROVE  file.header.prg = buffer.prg /\ TrainerPages(file.header) = TrainerPages(buffer)
  <1>1. /\ file \in File /\ buffer.prg \in Nat
        /\ TrainerPages(buffer) \in {0, 1}
    BY FilesAssumption, HeaderMeaning DEF RInv, HeaderRead
  <1>2. file.size \in 0 .. 16 /\ file.pages \in Nat /\ (file.size < 16 => file.pages = 0)
    BY <1>1 DEF File
  <1>3. TrainerPages(buffer) + buffer.prg * 32 <= file.pages
    BY <1>1 DEF RInv, Reading, prg_rom_size, FirstChrPage, PrgBank
  <1>4. file.size = 16
    BY <1>1, <1>2, <1>3
  <1> QED
    BY <1>4 DEF RInv, HeaderRead, Agrees, TrainerPages

(* mapper.c: whatever file is run, the CPU finds at $8000 and up what the   *)
(* document says, and no address is past the image once there is a bank.    *)
THEOREM PrgBanksSeen == Spec => []CpuSeesPrgBanks
  <1>1. ASSUME RInv, Copied PROVE CpuSeesPrgBanks
    <2> SUFFICES ASSUME pc = "loop", buffer.prg > 0, NEW page \in 0 .. 63
                 PROVE  /\ InImage(512 * page)
                        /\ get_prg_u8(512 * page) =
                             TrainerPages(file.header) +
                               (IF file.header.prg = 1 THEN page % PrgBank ELSE page)
      BY DEF CpuSeesPrgBanks
    <2> DEFINE banks == buffer.prg
               t == TrainerPages(buffer)
    <2>1. banks \in Nat /\ banks > 0 /\ t \in {0, 1}
      BY <1>1, HeaderMeaning DEF RInv
    <2>2. mem["rom"] = [p \in 0 .. banks * 32 - 1 |-> t + p]
      BY <1>1 DEF RInv, Reading, DocumentedPrg, Pages, PrgBank
    <2>3. mem["_prg_rom"] = PrgCopy
      BY <1>1 DEF Copied
    <2>4. (512 * page) \div 512 = page
      OBVIOUS
    <2>5. file.header.prg = banks /\ TrainerPages(file.header) = t
      BY <1>1, WholeHeader
    <2> HIDE DEF banks, t
    <2>6. CASE banks = 1
      <3>1. mem["_prg_rom"] = [p \in 0 .. 63 |-> mem["rom"][p % 32]]
        BY <2>3, <2>6 DEF PrgCopy, prg_rom_size, PrgBank, banks
      <3>2. page % 32 \in 0 .. 31 /\ mem["rom"] = [p \in 0 .. 31 |-> t + p]
        BY <2>2, <2>6
      <3> QED
        BY <2>4, <2>5, <2>6, <3>1, <3>2 DEF InImage, get_prg_u8, PrgBank
    <2>7. CASE banks # 1
      <3>1. mem["_prg_rom"] = [p \in 0 .. banks * 32 - 1 |-> t + p]
        BY <2>1, <2>2, <2>3, <2>7 DEF PrgCopy, prg_rom_size, PrgBank, banks
      <3>2. page \in 0 .. banks * 32 - 1
        BY <2>1, <2>7
      <3> QED
        BY <2>4, <2>5, <2>7, <3>1, <3>2 DEF InImage, get_prg_u8, PrgBank
    <2> QED
      BY <2>6, <2>7
  <1>2. Init => Copied
    BY DEF Init, Copied, HeldByMapper
  <1>3. ASSUME RInv, Copied, [Next]_vars PROVE Copied'
    BY <1>3, CopyStep DEF RInv
  <1> QED
    BY <1>1, <1>2, <1>3, ReadingInvariant, PTL DEF Spec

-----------------------------------------------------------------------------
(* Types: what every memory holds are pages of the file.                    *)
InFilePages(f) == \A p \in DOMAIN f : f[p] \in 0 .. file.pages - 1

Contents == \A m \in Memories : InFilePages(mem[m])

OtherTypes ==
  /\ program \in {"acidnes", "tests"}
  /\ is_open \in BOOLEAN
  /\ position \in Nat
  /\ refused \subseteq Blocks \cup {"fopen"}

LEMMA ReadPages ==
  ASSUME NEW count \in Nat, position \in Nat, file.pages \in Nat, InFile(count)
  PROVE  InFilePages(Pages(position, count))
  BY DEF InFile, InFilePages, Pages

LEMMA StoredContents ==
  ASSUME Contents, HeaderRead, UNCHANGED file, NEW m \in Memories, NEW f, InFilePages(f),
         mem' = [mem EXCEPT ![m] = f]
  PROVE  Contents'
  <1>1. \A n \in Memories : mem'[n] = IF n = m THEN f ELSE mem[n]
    BY DEF HeaderRead
  <1> QED
    BY <1>1 DEF Contents, InFilePages

LEMMA Sizes ==
  ASSUME HeaderRead
  PROVE  /\ prg_rom_size \in Nat /\ chr_rom_size \in Nat /\ trainer \in Nat
         /\ file.pages \in Nat
  <1>1. file.pages \in Nat
    BY FilesAssumption DEF HeaderRead, File
  <1> QED
    BY <1>1, HeaderMeaning DEF prg_rom_size, chr_rom_size, PrgBank, ChrBank

LEMMA BanksContents ==
  ASSUME HeaderRead, Contents, OtherTypes, ReadRom \/ ReadVrom
  PROVE  Contents' /\ OtherTypes'
  <1>1. PICK p \in {"rom", "vrom"}, count \in Nat, held \in SUBSET Blocks :
          ReadBanks(p, count, held)
    BY Sizes DEF ReadRom, ReadVrom, Blocks
  <1>2. /\ p \in Memories /\ p \in Blocks /\ position \in Nat /\ file.pages \in Nat
        /\ UNCHANGED <<program, file>>
    BY Sizes DEF Memories, Blocks, OtherTypes, ReadRom, ReadVrom
  <1>3. refused' \subseteq Blocks \cup {"fopen"} /\ is_open' \in BOOLEAN
    BY <1>1, <1>2 DEF ReadBanks, GiveUp, Malloc, OtherTypes
  <1>4. CASE UNCHANGED <<mem, position>>
    BY <1>2, <1>3, <1>4 DEF Contents, InFilePages, OtherTypes
  <1>5. CASE /\ InFile(count) /\ position' = position + count
             /\ mem' = [mem EXCEPT ![p] = Pages(position, count)]
    <2>1. Contents'
      <3> DEFINE f == Pages(position, count)
      <3>1. InFilePages(f)
        BY <1>2, <1>5, ReadPages
      <3> HIDE DEF f
      <3> QED
        BY <1>2, <1>5, <3>1, StoredContents DEF f
    <2>2. position' \in Nat
      BY <1>2, <1>5
    <2> QED
      BY <1>2, <1>3, <2>1, <2>2 DEF OtherTypes
  <1> QED
    BY <1>1, <1>4, <1>5 DEF ReadBanks

LEMMA CopyContents ==
  ASSUME RInv, Contents, OtherTypes, mapper_init
  PROVE  Contents' /\ OtherTypes'
  <1>1. pc = "mapper_init" /\ UNCHANGED <<program, file, position, is_open>>
    BY DEF mapper_init, At
  <1>2. refused' \subseteq Blocks \cup {"fopen"}
    BY DEF mapper_init, Malloc, OtherTypes, Blocks
  <1>3. InFilePages(mem["rom"]) /\ InFilePages(mem["vrom"])
    BY DEF Contents, Memories
  <1>4. InFilePages(PrgCopy)
    <2>1. DOMAIN mem["rom"] = 0 .. prg_rom_size - 1
      BY <1>1 DEF RInv, Reading, DocumentedPrg, Pages, prg_rom_size
    <2>2. CASE prg_rom_size = PrgBank
      <3>1. \A q \in 0 .. 63 : q % 32 \in 0 .. 31
        OBVIOUS
      <3> QED
        BY <1>3, <2>1, <2>2, <3>1 DEF PrgCopy, PrgBank, InFilePages
    <2>3. CASE prg_rom_size # PrgBank
      BY <1>3, <2>3 DEF PrgCopy
    <2> QED
      BY <2>2, <2>3
  <1>5. \/ UNCHANGED mem
        \/ mem' = [mem EXCEPT !["_prg_rom"] = PrgCopy, !["_chr_rom"] = mem["vrom"]]
    BY DEF mapper_init
  <1>6. Contents'
    <2>1. CASE UNCHANGED mem
      BY <1>1, <2>1 DEF Contents, InFilePages
    <2>2. CASE mem' = [mem EXCEPT !["_prg_rom"] = PrgCopy, !["_chr_rom"] = mem["vrom"]]
      <3> DEFINE f == PrgCopy
      <3>1. \A n \in Memories : mem'[n] = IF n = "_chr_rom" THEN mem["vrom"]
                                          ELSE IF n = "_prg_rom" THEN f ELSE mem[n]
        BY <2>2 DEF RInv, HeaderRead
      <3>2. InFilePages(f)
        BY <1>4
      <3> HIDE DEF f
      <3> QED
        BY <1>1, <1>3, <3>1, <3>2 DEF Contents, InFilePages
    <2> QED
      BY <1>5, <2>1, <2>2
  <1> QED
    BY <1>1, <1>2, <1>6 DEF OtherTypes

LEMMA OtherContents ==
  ASSUME HeaderRead, Contents, OtherTypes, [Next]_vars
  PROVE  \/ ReadRom \/ ReadVrom \/ mapper_init
         \/ Contents' /\ OtherTypes'
  <1>1. CASE OpenFile \/ ReadHeader \/ Quit \/ UNCHANGED vars
    BY <1>1 DEF OpenFile, ReadHeader, Quit, vars, GiveUp, Contents, InFilePages, OtherTypes
  <1>2. CASE AllocateCart
    <2>1. UNCHANGED <<program, file, mem>> /\ position' \in Nat /\ is_open' \in BOOLEAN
      <3>1. /\ UNCHANGED <<program, file, mem>>
            /\ is_open' \in {is_open, FALSE} /\ position' \in {position, position + trainer}
        BY <1>2, Zenon DEF AllocateCart, GiveUp
      <3>2. trainer \in Nat
        BY Sizes
      <3>3. is_open' \in BOOLEAN
        BY <3>1, Zenon DEF OtherTypes
      <3>4. position' \in Nat
        BY <3>1, <3>2 DEF OtherTypes
      <3> QED
        BY <3>1, <3>3, <3>4, Zenon
    <2>2. refused' \subseteq Blocks \cup {"fopen"}
      <3>1. refused' \in {refused, refused \cup {"cart"}, refused \cup ({"cart"} \ {"cart"})}
        BY <1>2, Zenon DEF AllocateCart, Malloc
      <3> QED
        BY <3>1 DEF OtherTypes, Blocks
    <2> QED
      BY <2>1, <2>2 DEF Contents, InFilePages, OtherTypes
  <1>3. CASE cpu_init \/ cpu_reset \/ ppu_init
    <2>1. UNCHANGED <<program, file, mem, position, is_open>>
      BY <1>3 DEF cpu_init, cpu_reset, ppu_init
    <2>2. refused' \subseteq Blocks \cup {"fopen"}
      <3>1. refused' \subseteq refused \cup {"cpu", "ppu"}
        BY <1>3 DEF cpu_init, cpu_reset, ppu_init, Malloc
      <3> QED
        BY <3>1 DEF OtherTypes, Blocks
    <2> QED
      BY <2>1, <2>2 DEF Contents, InFilePages, OtherTypes
  <1>4. CASE Turn \/ End
    BY <1>4 DEF Turn, End, ppu_free, cpu_free, mapper_free, cartridge_free, Release,
                Contents, InFilePages, OtherTypes
  <1> QED
    BY <1>1, <1>2, <1>3, <1>4 DEF Next, Load, Boot, Over

(* Every variable of the process is what it may be; above all, no memory    *)
(* holds anything but pages of the file (cartridge.c, mapper.c), whatever   *)
(* the header claims.                                                       *)
THEOREM TypeCorrect == Spec => []TypeOK
  <1>1. ASSUME RInv, Contents, OtherTypes PROVE TypeOK
    BY <1>1 DEF RInv, IInv, Types, HeaderRead, Contents, InFilePages, OtherTypes, TypeOK,
                NoWildPointer
  <1>2. Init => Contents /\ OtherTypes
    <2> SUFFICES ASSUME Init PROVE Contents /\ OtherTypes
      OBVIOUS
    <2>1. \A m \in Memories : mem[m] = [p \in 0 .. -1 |-> 0 + p]
      BY DEF Init, NoPages, Pages
    <2>2. Contents
      BY <2>1 DEF Contents, InFilePages
    <2> QED
      BY <2>2 DEF Init, OtherTypes
  <1>3. RInv /\ Contents /\ OtherTypes /\ [Next]_vars => (Contents /\ OtherTypes)'
    BY OtherContents, BanksContents, CopyContents DEF RInv
  <1> QED
    BY <1>1, <1>2, <1>3, ReadingInvariant, PTL DEF Spec

-----------------------------------------------------------------------------
(* The two modules read the bits and the pages of a file alike.             *)
LEMMA SameReading ==
  /\ Script!PrgBank = PrgBank /\ Script!ChrBank = ChrBank
  /\ \A first, count : Script!Pages(first, count) = Pages(first, count)
  /\ \A b : Script!Bits(b) = Bits(b)
  /\ \A S : Script!ByteOf(S) = ByteOf(S)
  <1>1. Script!PrgBank = PrgBank /\ Script!ChrBank = ChrBank
    BY DEF Script!PrgBank, PrgBank, Script!ChrBank, ChrBank
  <1>2. \A first, count : Script!Pages(first, count) = Pages(first, count)
    BY Zenon DEF Script!Pages, Pages
  <1>3. \A b : Script!Bits(b) = Bits(b)
    BY Zenon DEF Script!Bits, Bits, Script!Bit, Bit, Script!Weight, Weight
  <1>4. \A S : Script!ByteOf(S) = ByteOf(S)
    BY Zenon DEF Script!ByteOf, ByteOf, Script!Weight, Weight
  <1> QED
    BY <1>1, <1>2, <1>3, <1>4

(* The script and the loader read a header alike, as two transcriptions of  *)
(* the same bytes; the pages they find behind it are the same unless there  *)
(* is a trainer.                                                            *)
THEOREM ScriptAgrees == Spec => []NesInfoAgrees
  <1>1. ASSUME RInv PROVE NesInfoAgrees
    <2> SUFFICES ASSUME pc = "mapper_init", file.size = 16
                 PROVE  LET report == Script!Report(file)
                        IN  /\ Script!Accepts(file)
                            /\ report.prg = buffer.prg
                            /\ report.chr = buffer.chr
                            /\ report.mapper = mapper_type
                            /\ report.trainer = trainer
                            /\ trainer = 0 => /\ report.prgRead = mem["rom"]
                                              /\ report.chrRead = mem["vrom"]
      BY DEF NesInfoAgrees
    <2>1. /\ buffer.magic /\ mapper_type = 0
          /\ mem["rom"] = DocumentedPrg(buffer) /\ mem["vrom"] = DocumentedChr(buffer)
          /\ prg_rom_size = 0 \/ FirstChrPage(buffer) <= file.pages
          /\ chr_rom_size = 0 \/ FirstChrPage(buffer) + chr_rom_size <= file.pages
      BY <1>1 DEF RInv, Reading
    <2>2. /\ file.header.magic
          /\ file.header.prg = buffer.prg /\ file.header.chr = buffer.chr
          /\ file.header.b6 = buffer.b6 /\ file.header.b7 = buffer.b7
      BY <1>1, <2>1 DEF RInv, HeaderRead, Agrees
    <2>3. Script!mapper(file.header) = mapper_type
      <3>1. \A h : Script!mapper(h) = ByteOf({i \in 0 .. 3 : i + 4 \in Bits(h.b6)}
                                               \cup (Bits(h.b7) \cap 4 .. 7))
        BY SameReading, Zenon DEF Script!mapper
      <3> QED
        BY <2>2, <3>1, Zenon DEF mapper_type
    <2>4. /\ prg_rom_size \in Nat /\ chr_rom_size \in Nat /\ file.pages \in Nat
          /\ trainer = TrainerPages(buffer)
      BY <1>1, Sizes, HeaderMeaning DEF RInv
    <2>5. (file.header.b6 \div 4) % 2 = trainer
      BY <2>2 DEF trainer, get_bit_at, Weight
    <2>6. ASSUME trainer = 0
          PROVE  /\ Script!Read(file, 0, prg_rom_size) = mem["rom"]
                 /\ Script!Read(file, prg_rom_size, chr_rom_size) = mem["vrom"]
      <3>1. FirstChrPage(buffer) = prg_rom_size /\ TrainerPages(buffer) = 0
        BY <2>4, <2>6 DEF FirstChrPage, prg_rom_size
      <3>2. /\ mem["rom"] = Pages(0, prg_rom_size)
            /\ mem["vrom"] = Pages(prg_rom_size, chr_rom_size)
        BY <2>1, <3>1 DEF DocumentedPrg, DocumentedChr, prg_rom_size, chr_rom_size
      <3>3. prg_rom_size <= file.pages
        BY <2>1, <2>4, <3>1
      <3>4. prg_rom_size + chr_rom_size <= file.pages
        BY <2>1, <2>4, <3>1, <3>3
      <3> QED
        BY <2>4, <3>2, <3>3, <3>4, SameReading DEF Script!Read
    <2>7. /\ Script!Report(file).prg = buffer.prg
          /\ Script!Report(file).chr = buffer.chr
          /\ Script!Report(file).mapper = Script!mapper(file.header)
          /\ Script!Report(file).trainer = (file.header.b6 \div 4) % 2
          /\ Script!Report(file).prgRead = Script!Read(file, 0, prg_rom_size)
          /\ Script!Report(file).chrRead = Script!Read(file, prg_rom_size, chr_rom_size)
      BY <2>2, SameReading, Zenon DEF Script!Report, prg_rom_size, chr_rom_size
    <2> QED
      BY <2>1, <2>2, <2>3, <2>5, <2>6, <2>7 DEF Script!Accepts
  <1> QED
    BY <1>1, ReadingInvariant, PTL

-----------------------------------------------------------------------------
(* cartridge_load implements Loader: the steps that finish the loading are  *)
(* its Load and its Refuse, cartridge_free is its Release, and every other  *)
(* step leaves what Loader speaks of as it is.                              *)
LoaderCartridge ==
  IF LoaderState = "loaded" THEN [prg |-> mem["rom"], chr |-> mem["vrom"]]
                            ELSE [prg |-> NoPages, chr |-> NoPages]
LoaderHeld ==
  IF LoaderState = "loading" THEN {}
  ELSE (live \cap {"cart", "rom", "vrom"}) \cup (IF is_open THEN {"file"} ELSE {})

(* Loader and Lifecycle speak of the same files.                            *)
LEMMA SameFormat ==
  /\ Promise!NoPages = NoPages
  /\ \A h \in Headers : /\ Promise!DocumentedPrg(h) = DocumentedPrg(h)
                        /\ Promise!DocumentedChr(h) = DocumentedChr(h)
                        /\ Promise!Mapper(h) = Mapper(h)
                        /\ \A f \in Files : /\ Promise!Agrees(h, f) <=> Agrees(h, f)
                                           /\ Promise!Complete(h, f) <=> Complete(h, f)
  <1> USE DEF Promise!PrgBank, PrgBank, Promise!ChrBank, ChrBank,
      Promise!TrainerPages, TrainerPages, Promise!Bits, Bits, Promise!Bit, Bit,
      Promise!Weight, Weight, Promise!FirstChrPage, FirstChrPage
  <1>1. Promise!NoPages = NoPages
    BY DEF Promise!NoPages, NoPages, Promise!Pages, Pages
  <1>2. ASSUME NEW h \in Headers
        PROVE  /\ Promise!DocumentedPrg(h) = DocumentedPrg(h)
               /\ Promise!DocumentedChr(h) = DocumentedChr(h)
    BY DEF Promise!DocumentedPrg, DocumentedPrg, Promise!DocumentedChr, DocumentedChr,
       Promise!Pages, Pages
  <1>3. ASSUME NEW h \in Headers
        PROVE  Promise!Mapper(h) = Mapper(h)
    BY DEF Promise!Mapper, Mapper
  <1>4. ASSUME NEW h \in Headers, NEW f \in Files
        PROVE  /\ Promise!Agrees(h, f) <=> Agrees(h, f)
               /\ Promise!Complete(h, f) <=> Complete(h, f)
    BY DEF Promise!Agrees, Agrees, Promise!Complete, Complete
  <1> QED
    BY <1>1, <1>2, <1>3, <1>4

LEMMA PromiseInit == Init => Promise!Init
  <1> SUFFICES ASSUME Init PROVE Promise!Init
    OBVIOUS
  <1>1. file \in Files /\ LoaderState = "loading"
    BY DEF Init, LoaderState
  <1>2. [prg |-> NoPages, chr |-> NoPages] = Promise!NoCartridge
    BY SameFormat DEF Promise!NoCartridge
  <1> QED
    BY <1>1, <1>2 DEF Promise!Init

LEMMA StuttersIf ==
  ASSUME UNCHANGED <<file, LoaderState, LoaderCartridge, LoaderHeld>>
  PROVE  UNCHANGED Promise!promised
  BY DEF Promise!promised, LoaderCartridge, LoaderHeld

(* Within the loading, whatever happens to memory and file.                 *)
LEMMA LoadingStutters ==
  ASSUME UNCHANGED file, pc \in Loading, pc' \in Loading
  PROVE  UNCHANGED Promise!promised
  <1>1. LoaderState = "loading" /\ LoaderState' = "loading"
    BY DEF LoaderState
  <1> QED
    BY <1>1, StuttersIf DEF LoaderCartridge, LoaderHeld

(* After it, while the blocks of the cartridge are neither freed nor filled.*)
LEMMA LoadedStutters ==
  ASSUME pc \notin Loading, pc' \notin Loading, pc # "done", pc' # "done",
         UNCHANGED <<file, is_open>>,
         ptr'["cart"] = ptr["cart"],
         mem'["rom"] = mem["rom"], mem'["vrom"] = mem["vrom"],
         live' \cap {"cart", "rom", "vrom"} = live \cap {"cart", "rom", "vrom"}
  PROVE  UNCHANGED Promise!promised
  <1>1. UNCHANGED LoaderState
    BY DEF LoaderState
  <1> QED
    BY <1>1, StuttersIf DEF LoaderCartridge, LoaderHeld

(* An error path: what was held is given back.                              *)
LEMMA GiveUpRefuses ==
  ASSUME IInv, Orderly, UNCHANGED file, pc \in Loading, NEW S, GiveUp(S),
         \A b \in {"cart", "rom", "vrom"} \cap live : b \in S
  PROVE  Promise!Refuse
  <1>1. LoaderState = "loading" /\ LoaderState' = "refused"
    BY DEF LoaderState, GiveUp, IInv, Types, Pointers, Blocks
  <1>2. live' \cap {"cart", "rom", "vrom"} = {}
    BY DEF GiveUp, Free, Freed, IInv, Ownership, Owned
  <1>3. LoaderHeld = {} /\ LoaderHeld' = {}
    BY <1>1, <1>2 DEF LoaderHeld, GiveUp
  <1>4. UNCHANGED <<LoaderCartridge, LoaderHeld>>
    BY <1>1, <1>3 DEF LoaderCartridge
  <1> QED
    BY <1>1, <1>4 DEF Promise!Refuse, LoaderCartridge, LoaderHeld

LEMMA LastBanksLoad ==
  ASSUME RInv, RInv', ReadVrom, pc' = "mapper_init"
  PROVE  Promise!Load
  <1>1. pc = "vrom" /\ ~crashed /\ UNCHANGED <<file, buffer>>
    BY DEF ReadVrom, At
  <1>2. PICK granted \in SUBSET {"vrom"} :
          /\ Malloc({"vrom"}, granted)
          /\ live' = live \cup granted
          /\ is_open' = FALSE
          /\ UNCHANGED crashed
    BY DEF ReadVrom, ReadBanks, GiveUp, At
  <1>3. LoaderState = "loading" /\ LoaderState' = "loaded"
    <2>1. Orderly'
      BY <1>1, <1>2 DEF Orderly
    <2>2. ptr'["cart"] = "set"
      BY <2>1 DEF RInv, IInv, PointersReady
    <2> QED
      BY <1>1, <2>2 DEF LoaderState
  <1>4. LoaderCartridge' = [prg |-> DocumentedPrg(buffer), chr |-> DocumentedChr(buffer)]
    BY <1>1, <1>3 DEF LoaderCartridge, RInv, Reading, DocumentedPrg, DocumentedChr,
       FirstChrPage, TrainerPages
  <1>5. Agrees(buffer, file) /\ buffer.magic /\ Mapper(buffer) = 0 /\ buffer \in Headers
    BY <1>1, HeaderMeaning DEF RInv, HeaderRead, Reading
  <1>6. Complete(buffer, file)
    <2>1. prg_rom_size = 0 \/ FirstChrPage(buffer) <= file.pages
      BY <1>1 DEF RInv, Reading
    <2>2. chr_rom_size = 0 \/ FirstChrPage(buffer) + chr_rom_size <= file.pages
      BY <1>1 DEF RInv, Reading, chr_rom_size, FirstChrPage, TrainerPages
    <2>3. buffer.prg \in Nat /\ buffer.chr \in Nat
      BY HeaderMeaning DEF RInv
    <2>4. TrainerPages(buffer) \in {0, 1} /\ file.pages \in Nat
      BY FilesAssumption DEF TrainerPages, RInv, HeaderRead, File
    <2> QED
      BY <2>1, <2>2, <2>3, <2>4
      DEF Complete, FirstChrPage, prg_rom_size, chr_rom_size, PrgBank, ChrBank
  <1>7. LoaderHeld' \in {{"cart"} \cup banks : banks \in SUBSET {"rom", "vrom"}}
    <2>1. "cart" \in live'
      BY <1>1, <1>2 DEF RInv, IInv, Orderly, Ownership, Owned, PointersReady
    <2>2. LoaderHeld' = {"cart"} \cup (live' \cap {"rom", "vrom"})
      BY <1>2, <1>3, <2>1 DEF LoaderHeld
    <2> QED
      BY <2>2
  <1> QED
    <2>1. Promise!Agrees(buffer, file) /\ Promise!Complete(buffer, file)
      BY <1>5, <1>6, SameFormat DEF RInv, HeaderRead
    <2>2. Promise!Mapper(buffer) = 0
      BY <1>5, SameFormat
    <2>3. LoaderCartridge' = [prg |-> Promise!DocumentedPrg(buffer),
                              chr |-> Promise!DocumentedChr(buffer)]
      BY <1>4, <1>5, SameFormat
    <2> QED
      BY <1>1, <1>3, <1>5, <1>7, <2>1, <2>2, <2>3
      DEF Promise!Load, LoaderCartridge, LoaderHeld

(* The steps up to the last banks: they go on, give up, or crash.           *)
LEMMA LoadImplements ==
  ASSUME RInv, RInv', Load
  PROVE  [Promise!Next]_(Promise!promised)
  <1> USE DEF At
  <1>1. Orderly /\ pc \in Loading /\ UNCHANGED file
    BY DEF Load, OpenFile, ReadHeader, AllocateCart, ReadRom, ReadVrom, Orderly
  <1>2. CASE pc' \in Loading
    BY <1>1, <1>2, LoadingStutters
  <1>3. CASE ReadVrom /\ pc' = "mapper_init"
    BY <1>3, LastBanksLoad DEF Promise!Next
  <1>4. ASSUME NEW S, GiveUp(S), \A b \in {"cart", "rom", "vrom"} \cap live : b \in S
        PROVE  [Promise!Next]_(Promise!promised)
    BY <1>1, <1>4, GiveUpRefuses DEF Promise!Next, RInv
  <1>5. ASSUME pc \in {"fopen", "fread", "cart"}
        PROVE  {"cart", "rom", "vrom"} \cap live = {}
    BY <1>1, <1>5 DEF RInv, IInv, Ownership, Owned
  <1>6. ASSUME pc = "rom" PROVE {"cart", "rom", "vrom"} \cap live \subseteq {"cart"}
    BY <1>1, <1>6 DEF RInv, IInv, Ownership, Owned
  <1>7. ASSUME pc = "vrom"
        PROVE  {"cart", "rom", "vrom"} \cap live \subseteq {"cart", "rom"}
    BY <1>1, <1>7 DEF RInv, IInv, Ownership, Owned
  <1>8. CASE OpenFile \/ ReadHeader \/ AllocateCart
    BY <1>2, <1>4, <1>5, <1>8 DEF OpenFile, ReadHeader, AllocateCart
  <1>9. CASE ReadRom
    <2>1. pc' \in Loading \/ GiveUp({"cart"})
      BY <1>9 DEF ReadRom, ReadBanks
    <2> QED
      BY <1>2, <1>4, <1>6, <1>9, <2>1 DEF ReadRom
  <1>10. CASE ReadVrom
    <2>1. pc' \in {"mapper_init", "vrom"} \/ GiveUp({"cart", "rom"})
      BY <1>10 DEF ReadVrom, ReadBanks
    <2> QED
      BY <1>2, <1>3, <1>4, <1>7, <1>10, <2>1 DEF ReadVrom
  <1> QED
    BY <1>8, <1>9, <1>10 DEF Load

(* The start-up calls and the loop leave the cartridge alone.               *)
LEMMA BootImplements ==
  ASSUME RInv, Boot \/ Turn
  PROVE  UNCHANGED Promise!promised
  <1> USE DEF Boot, Turn, mapper_init, cpu_init, cpu_reset, ppu_init, Quit, At
  <1>1. /\ UNCHANGED <<file, is_open>>
        /\ pc \in StartUp \cup {"loop", "failed"}
        /\ pc' \in StartUp \cup {"loop", "failed", "exited", "ppu_free"}
    OBVIOUS
  <1>2. ptr'["cart"] = ptr["cart"]
    BY DEF Malloc, RInv, IInv, Types, Pointers, Blocks, MapperBlocks
  <1>3. mem'["rom"] = mem["rom"] /\ mem'["vrom"] = mem["vrom"]
    <2>1. mem = [m \in Memories |-> mem[m]]
      BY DEF RInv, HeaderRead
    <2>2. \/ UNCHANGED mem
          \/ mem' = [mem EXCEPT !["_prg_rom"] = PrgCopy, !["_chr_rom"] = mem["vrom"]]
      OBVIOUS
    <2> QED
      BY <2>1, <2>2 DEF Memories
  <1>4. live' \cap {"cart", "rom", "vrom"} = live \cap {"cart", "rom", "vrom"}
    BY DEF Freed, MapperBlocks
  <1> QED
    BY <1>1, <1>2, <1>3, <1>4, LoadedStutters

(* After the loop the blocks of the cartridge are the last to go.           *)
LEMMA EndImplements ==
  ASSUME RInv, End
  PROVE  [Promise!Next]_(Promise!promised)
  <1> USE DEF Release, At
  <1>1. CASE ppu_free \/ cpu_free \/ mapper_free
    <2>1. live' \cap {"cart", "rom", "vrom"} = live \cap {"cart", "rom", "vrom"}
      BY <1>1 DEF ppu_free, cpu_free, mapper_free, Free, Freed, MapperBlocks
    <2> QED
      BY <1>1, <2>1, LoadedStutters DEF ppu_free, cpu_free, mapper_free
  <1>2. CASE cartridge_free
    <2>1. Orderly /\ pc = "cartridge_free" /\ pc' = "done" /\ UNCHANGED <<file, is_open>>
      BY <1>2 DEF cartridge_free, Orderly
    <2>2. LoaderState = "loaded" /\ LoaderState' = "released"
      BY <2>1 DEF LoaderState, RInv, IInv, PointersReady
    <2>3. live' \cap {"cart", "rom", "vrom"} = {} /\ ~is_open
      BY <1>2, <2>1
      DEF cartridge_free, Free, Freed, RInv, IInv, Ownership, Owned, Open, Orderly
    <2>4. LoaderHeld' = {} /\ LoaderCartridge' = Promise!NoCartridge
      BY <2>1, <2>2, <2>3, SameFormat DEF LoaderHeld, LoaderCartridge, Promise!NoCartridge
    <2> QED
      BY <2>1, <2>2, <2>4
      DEF Promise!Next, Promise!Release, LoaderHeld, LoaderCartridge
  <1> QED
    BY <1>1, <1>2 DEF End

(* cartridge_load and cartridge_free keep the promise of a loader, whatever *)
(* the files hold and whatever the operating system refuses: what is loaded *)
(* is what the header describes, and a refusal leaves nothing behind.       *)
THEOREM LoaderImplemented == Spec => LoaderPromise
  <1>1. ASSUME RInv, RInv', [Next]_vars PROVE [Promise!Next]_(Promise!promised)
    <2>1. CASE UNCHANGED vars
      BY <2>1, StuttersIf DEF vars, LoaderState, LoaderCartridge, LoaderHeld
    <2> QED
      BY <1>1, <2>1, LoadImplements, BootImplements, EndImplements DEF Next, Over
  <1> QED
    BY <1>1, PromiseInit, ReadingInvariant, PTL DEF Spec, LoaderPromise, Promise!Spec
=============================================================================
