SPECIFICATION FairSpec
CONSTANTS
  a1 = a1
  a2 = a2
  d1 = d1
  w1 = w1
  Avatars = {a1, a2}
  MaxUploads = 1
  Deleters = {d1}
  Workers = {w1}
  DecodeSlots = 1
  Broken = {a2}
  TimelyUploads = FALSE
  FaultKinds = {"db", "s3", "amqp", "crash", "timeout", "panic"}
  MaxFaults = 1
  MaxCopies = 1
  MaxAttempts = 2
INVARIANTS LiveOriginal AckedUploaded
PROPERTIES UploadsEnd UploadSettles CleanupHappens
