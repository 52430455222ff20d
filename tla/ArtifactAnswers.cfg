CONSTANTS
  w1 = w1
  api = api
  nobody = nobody
  Workers <- OneWorker
  Recoverer = api
  NoOne = nobody
  Gated = TRUE
  Limit <- AnswersLimit
SPECIFICATION FairSpec
PROPERTIES ImplementsPromise FinishedLeavesQueue
CHECK_DEADLOCK FALSE
