CONSTANTS
  a1 = a1
  a2 = a2
  w1 = w1
  w2 = w2
  NoWorker = NoWorker
  NoJob = NoJob
  NoAtt = NoAtt
  Atts <- OneAttachment
  Workers <- OneWorker
  MaxVersion = 2
  MaxDerivatives = 1
  MaxQueue = 2
  FaultKinds <- AnsweredFaults
  MaxFaults = 2
SPECIFICATION Spec
INVARIANTS ReadyHasResult
PROPERTIES AttachedIsFinal StaleJobHarmless ImplementsLifecycle
