CONSTANTS
  w1 = w1
  api = api
  nobody = nobody
  Workers <- OneWorker
  Recoverer = api
  NoOne = nobody
  Gated = FALSE
  Limit <- FaultsLimit
SPECIFICATION Spec
INVARIANTS TypeOK LeaseHeld DeliveredIsComplete DeliveredIsVerified NoStandoff Resumable
CHECK_DEADLOCK FALSE
CONSTRAINT AtMostThree
