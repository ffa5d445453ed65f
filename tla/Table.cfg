SPECIFICATION FairSpec
CONSTANTS
  u1 = u1
  u2 = u2
  NumAvatars = 3
  Users = {u1, u2}
  Owner <- TwoOwners
  Batch = 2
  Unremovable = {1}
  MaxDeletes = 2
  MaxFaults = 1
INVARIANTS AnsweredStaysCurrent OneDeletionEach
PROPERTIES BacklogDrains
