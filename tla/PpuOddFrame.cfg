CONSTANTS
  TileSize = 2
  TilesWide = 3
  TilesHigh = 2
  NametableSize = 8
  LastCycle = 7
  VblankLine = 5
  LastLine = 7
  OamSize = 4
  Garbage <- MCGarbage
  Games <- MCGames

SPECIFICATION Spec

\* A store outside the memories of the PPU ends the process.
CHECK_DEADLOCK FALSE

PROPERTY OneFewerCycle
