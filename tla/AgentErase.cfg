\* Three clients, so that two may have ended before a third.
SPECIFICATION Spec
CONSTANTS
  Clients = {c1, c2, c3}
  Nobody = Nobody
PROPERTIES
  ErasesEndedOnly
SYMMETRY Symmetry
CHECK_DEADLOCK FALSE
