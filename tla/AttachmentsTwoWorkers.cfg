CONSTANTS
  a1 = a1
  a2 = a2
  w1 = w1
  w2 = w2
  NoWorker = NoWorker
  NoJob = NoJob
  NoAtt = NoAtt
  Atts <- OneAttachment
  Workers <- TwoWorkers
  MaxVersion = 1
  MaxDerivatives = 2
  MaxQueue = 2
  FaultKinds <- NoFaults
  MaxFaults = 0
SPECIFICATION Spec
INVARIANTS OriginalKept PreviewsKept JobNotLost
SYMMETRY WorkerSymmetry
CHECK_DEADLOCK FALSE
