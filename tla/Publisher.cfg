SPECIFICATION FairSpec
CONSTANTS
  c1 = c1
  c2 = c2
  Callers = {c1, c2}
  MaxFrames = 3
  MaxFaults = 3
INVARIANT NilMeansQueued
PROPERTY PublishEnds
