CONSTANTS
  a1 = a1
  a2 = a2
  w1 = w1
  w2 = w2
  NoWorker = NoWorker
  NoJob = NoJob
  NoAtt = NoAtt
  Atts <- TwoAttachments
  Workers <- OneWorker
  MaxVersion = 1
  MaxDerivatives = 0
  MaxQueue = 2
  FaultKinds <- NoFaults
  MaxFaults = 0
SPECIFICATION Spec
PROPERTIES TurnIsWhole
