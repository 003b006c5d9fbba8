SPECIFICATION FairSpec
CONSTANTS
  EnvelopeUnits = 4
  Channels <- MCChannels
  ParamChoices <- MCParamChoices
  Garbage <- MCGarbage
  SamplesPerStep = 2
  OutputCapacity = 3
  RequestLengths <- MCRequestLengths
  MaxCalls = 3
INVARIANT SemaphoreCountsEvents
INVARIANT ParamsMatchEvents
INVARIANT DrainedInOrder
INVARIANT RightNumberOfSamples
INVARIANT HeardInOrder
PROPERTY EventsDrain
PROPERTY StopJoins
CHECK_DEADLOCK FALSE
