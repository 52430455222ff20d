SPECIFICATION Spec
CONSTANTS
  chat = chat  mail = mail  meeting = meeting
  MaxEntries = 3
  SortKey <- LateFirst
  KeyOf <- TwoOfAChat
  AgendaOf <- OneMeeting
  NoItem = NoItem
  Quiet <- FirstIsQuiet
  ReadCount = 3  ProcessCount = 2  Threads = 2
  MaxItems = 2
  FaultKinds = {}
  MaxFaults = 0
INVARIANT CommittedIsConsolidated
