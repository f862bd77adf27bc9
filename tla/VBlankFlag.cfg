SPECIFICATION Spec
CONSTANTS
  PPU_VBLANK_SCANLINE = 2
  PPU_LAST_SCANLINE = 4
  PPU_LAST_LINE_POS = 3
INVARIANT VBlankFlagInVBlank
