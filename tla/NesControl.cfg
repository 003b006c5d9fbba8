SPECIFICATION FairSpec
CONSTANTS
  Prompts = {p1, p2}
  Nobody = Nobody
  Commands = {"run", "step", "exit"}
  MaxQueued = 2
INVARIANT TypeOK
INVARIANT OneCommandAtATime
INVARIANT NeverPopsEmpty
INVARIANT RunningIsReal
INVARIANT NothingRunsAfterShutdown
PROPERTY StopEndsTheRun
CHECK_DEADLOCK FALSE
