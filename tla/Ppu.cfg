SPECIFICATION FairSpec
CONSTANTS
  PPU_VBLANK_SCANLINE = 240
  PPU_LAST_SCANLINE = 261
  PPU_LAST_LINE_POS = 340
INVARIANTS
  TypeOK
PROPERTIES
  CountsFrames
  VBlankRecurs
