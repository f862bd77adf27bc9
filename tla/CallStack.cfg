SPECIFICATION StackSpec
CONSTANTS
  Games <- MCGames
  PrgRom <- MCPrgRom
  ClockMod = 1
  Debug = TRUE
  PastSram = 0
  PastPrg = 0
  MaxNmis = 2
INVARIANTS
  TickBounded
  UnusedStaysSet
  FramesIntact
  ResultCorrect
PROPERTIES
  Disciplined
  ReturnsMatch
  NmiTransparent
  ProgramEnds
