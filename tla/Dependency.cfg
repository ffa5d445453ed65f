SPECIFICATION PartSpec
CONSTANTS
  p1 = p1
  c1 = c1
  c2 = c2
  c3 = c3
  Probes = {p1}
  MaxChanges = 3
  Callers = {c1, c2, c3}
  ConsecutiveFailures = 2
  MaxFaults = 5
  MaxCancels = 1
  MaxGenerations = 13
INVARIANTS ReportsAreTrue OneProbe
PROPERTIES ProbesEnd OpensOnStreak Heals
CHECK_DEADLOCK FALSE
