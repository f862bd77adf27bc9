SPECIFICATION EmulatorSpec
CONSTANTS
  Games <- MCGames
  PrgRom <- MCPrgRom
  ClockMod = 32
  Debug = TRUE
  PastSram = 0
  PastPrg = 0
  PPU_VBLANK_SCANLINE = 4
  PPU_LAST_SCANLINE = 7
  PPU_LAST_LINE_POS = 35
PROPERTY NmiFromVBlank
