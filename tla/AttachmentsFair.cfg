CONSTANTS
  a1 = a1
  a2 = a2
  w1 = w1
  w2 = w2
  NoWorker = NoWorker
  NoJob = NoJob
  NoAtt = NoAtt
  Atts <- OneAttachment
  Workers <- OneWorker
  MaxVersion = 1
  MaxDerivatives = 1
  MaxQueue = 2
  FaultKinds <- AllFaults
  MaxFaults = 1
SPECIFICATION FairSpec
INVARIANTS OutboxCoversFiles
PROPERTIES DraftsSettle DeletionCompletes OutboxDrains
