SPECIFICATION LiveSpec
CONSTANTS
  HttpTimeout = 7
  Poll = 2
  Pieces = 2
  Jobs = 2
CHECK_DEADLOCK FALSE
INVARIANTS
    WaitBounds
PROPERTIES
    JobsEnd
