CONSTANTS
  Programs <- MCPrograms
  Breakpoints <- MCBreakpoints
  Watchpoints <- MCWatchpoints
  MaxInterrupts = 2
  MaxResets = 1

SPECIFICATION FairSpec

INVARIANT CycleExact

PROPERTY ImplementsAtomic
PROPERTY ExactArithmetic
PROPERTY CallsAndInterruptsReturn
PROPERTY BreakpointsStopEveryTime
PROPERTY NmiTaken

\* An unknown opcode ends the process.
CHECK_DEADLOCK FALSE
