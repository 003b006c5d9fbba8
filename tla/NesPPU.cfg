CONSTANTS
  TileSize = 2
  TilesWide = 3
  TilesHigh = 2
  NametableSize = 8
  LastCycle = 7
  VblankLine = 5
  LastLine = 7
  OamSize = 4
  AttributeTiles = 2
  Overscan = 1
  Garbage <- MCGarbage
  Games <- MCPictureGames
  Patterns <- MCPatterns
  Nametables <- MCNametables

SPECIFICATION PictureSpec

INVARIANT PictureComposed
INVARIANT PointerFollowsPixel
INVARIANT VblankOnlyBetweenPictures
PROPERTY ImplementsPorts
PROPERTY BlankComesAgain
PROPERTY PictureIsShown

\* A store outside the memories of the PPU ends the process.
CHECK_DEADLOCK FALSE
