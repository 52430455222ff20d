CONSTANTS
  j1 = j1
  j2 = j2
  runner = runner
  q1 = q1
  q2 = q2
  Nobody = Nobody
  NoJob = NoJob
  Jobs = {j1, j2}
  Runners = {runner}
  Requests = {q1, q2}
  MaxAttempts = 2
  BatchSize = 2
  MaxFaults = 1
SPECIFICATION FairSpec
INVARIANTS TypeOK OneAtATime AttemptsBounded
PROPERTIES JobsSettle
