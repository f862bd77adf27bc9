SPECIFICATION MCSpec
CONSTANTS
  Games <- MCGames
  PrgRom <- MCPrgRom
  ClockMod = 16
  Debug = TRUE
  PastSram = 0
  PastPrg = 0
  Words <- MCWords
INVARIANTS
  TypeOK
  WordsMatchBytes
PROPERTIES
  CyclesMatchBus
  LogNamesInstruction
  StoresArrive
