CONSTANTS
  h1 = h1
  sync = sync
  m1 = m1
  Handlers = {h1}
  Loop = sync
  Mails = {m1}
  MaxBatch = 1
  Overlap = 1
  Day = 2
  MaxTime = 3
  MaxFaults = 1
SPECIFICATION FairSpec
INVARIANTS TypeOK MailCovered
PROPERTIES OwnersWordStands MailIsRead
