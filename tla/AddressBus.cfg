CONSTANTS
  Roms <- MCRoms
  Programs <- MCPrograms
  Cells <- MCCells
  ButtonStates <- MCButtonStates

SPECIFICATION Spec

INVARIANT BanksFollowRegisters
INVARIANT ReadsInButtonOrder
PROPERTY ImplementsSerialPort
PROPERTY StoresReachMirrors

\* A failed assertion, an overrun and an exception end the process.
CHECK_DEADLOCK FALSE
