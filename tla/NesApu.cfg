CONSTANTS
  EnvelopeUnits = 8
  FrameTicks = 87
  StepTicks = 4
  Garbage <- MCGarbage
  Unset <- MCUnset
  Programs <- MCPrograms

SPECIFICATION Spec

INVARIANT ClockedTwiceAFrame
INVARIANT NoteLasts
INVARIANT WritesHandledInTime
PROPERTY PulseSoundsOnRequest

\* The clock is bounded.
CHECK_DEADLOCK FALSE
