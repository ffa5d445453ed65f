SPECIFICATION Spec
CONSTANTS
  a1 = a1
  d1 = d1
  w1 = w1
  w2 = w2
  Avatars = {a1}
  MaxUploads = 1
  Deleters = {d1}
  Workers = {w1, w2}
  DecodeSlots = 1
  Broken = {}
  TimelyUploads = TRUE
  FaultKinds = {"db", "s3", "amqp", "crash"}
  MaxFaults = 1
  MaxCopies = 1
  MaxAttempts = 2
SYMMETRY Symmetry
INVARIANTS CompletedServable RemovedOriginalGone ProcessingIsOwned
PROPERTIES FilesOutliveUse DecisionsLast Implements
