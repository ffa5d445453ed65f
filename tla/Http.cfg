SPECIFICATION Spec
CONSTANTS
  MaxPixels = 2
  HeadLen = 2
  HeaderLen = 3
  Forms <- SampleForms
  MayFail = TRUE
  UserKey = "user"
  HostKey = "host"
  Clients = {"user", "host"}
  Second = 2
  Cost = 2
  ConfigBurst = 0
  IdleTTL = 4
  SweepInterval = 2
  Horizon = 9
  BodyLen = 2
  Objects = {"a", "b", "default"}
  Untagged = {"b"}
INVARIANTS VerdictIsTrue TakenIsGood LeavesNothing LimitHolds
  RecordedIsSent WholeOrSeen NotModifiedIsTrue
CHECK_DEADLOCK FALSE
