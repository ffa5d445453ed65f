SPECIFICATION FairSpec
CONSTANTS
  u1 = u1
  u2 = u2
  Units = {u1, u2}
  NumMigrations = 2
INVARIANTS StartsUsable WorkSpared LeavesInOrder ExitZeroMeansDone
PROPERTY Stops
CHECK_DEADLOCK FALSE
