SPECIFICATION Spec
CONSTANTS
  a1 = a1
  u1 = u1
  u2 = u2
  r1 = r1
  r2 = r2
  Avatars = {a1}
  Users = {u1, u2}
  Owner <- OneOwner
  Requests = {r1, r2}
  MayFail = TRUE
  MaxKept = 1
SYMMETRY Symmetry
INVARIANTS DayOldIsTrue MissingMeansGone
