SPECIFICATION Spec
CONSTANTS
  a1 = a1
  d1 = d1
  w1 = w1
  Avatars = {a1}
  MaxUploads = 1
  Deleters = {d1}
  Workers = {w1}
  DecodeSlots = 1
  Broken = {a1}
  TimelyUploads = TRUE
  FaultKinds = {"db"}
  MaxFaults = 2
  MaxCopies = 1
  MaxAttempts = 2
INVARIANTS ProcessingLeavesTrace
