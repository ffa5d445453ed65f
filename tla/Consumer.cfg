SPECIFICATION FairSpec
CONSTANTS
  e1 = e1
  w1 = w1
  Events = {e1}
  Workers = {w1}
  NumLevels = 2
  MaxAttempts = 3
  MaxCopies = 6
  MaxFaults = 3
CHECK_DEADLOCK FALSE
INVARIANTS AttemptsCounted NothingLost
PROPERTIES Implements LadderEnds ShutdownEnds
