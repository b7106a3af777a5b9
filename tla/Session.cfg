SPECIFICATION LiveSpec
CONSTANTS
  Mishaps = {"terminated", "badAuth", "badMessage", "noMemory"}
  MaxSends = 2
INVARIANTS
  BlockHasOneCall
  NotDeaf
PROPERTIES
  StopNotUndone
  SessionSettles
  QuitEnds
  FailureEnds
CHECK_DEADLOCK FALSE
