\* Two clients against the server, the emulator and the end of the program.
SPECIFICATION FairSpec
CONSTANTS
  Clients = {c1, c2}
  Nobody = Nobody
INVARIANTS
  AnyConnectionsRight
  ThreadsJoined
PROPERTIES
  HangUpsRemoved
  CallsReturn
\* The interface stops when it has been destroyed, and when the process ends.
CHECK_DEADLOCK FALSE
