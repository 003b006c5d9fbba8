SPECIFICATION FairSpec
CONSTANTS
  Prompts = {p1, p2}
  Nobody = Nobody
  Commands = {"run", "step", "exit"}
  MaxQueued = 2
CHECK_DEADLOCK FALSE
PROPERTY InterruptReturnsStopped
