SPECIFICATION StackSpec
CONSTANTS
  Games <- MCGames
  PrgRom <- MCPrgRom
  ClockMod = 1
  Debug = TRUE
  PastSram = 0
  PastPrg = 0
  MaxNmis = 2
INVARIANT BreakFlagTells
