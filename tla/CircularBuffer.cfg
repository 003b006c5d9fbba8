SPECIFICATION Spec
CONSTANTS
  Size = 4
  Values = {v1, v2, v3}
  NoValue = NoValue
INVARIANT LiveSlotsWritten
INVARIANT FullIsAtCapacity
PROPERTY ImplementsDropOldest
