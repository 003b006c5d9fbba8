SPECIFICATION FairSpec
CONSTANTS
  EnvelopeUnits = 4
  Channels <- MCChannels
  ParamChoices <- MCParamChoices
  Garbage <- MCGarbage
  SamplesPerStep = 2
  OutputCapacity = 3
  RequestLengths <- MCRequestLengths
  MaxCalls = 2
CHECK_DEADLOCK FALSE
INVARIANT DisabledStaysDisabled
