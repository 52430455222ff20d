SPECIFICATION FairSpec
CONSTANTS
  chat = chat  mail = mail  meeting = meeting
  MaxEntries = 3
  SortKey <- LateFirst
  KeyOf <- TwoOfAChat
  AgendaOf <- OneMeeting
  NoItem = NoItem
  Quiet <- FirstIsQuiet
  ReadCount = 3  ProcessCount = 2  Threads = 2
  MaxItems = 2
  FaultKinds = {"get", "set", "db", "error", "reply", "flush", "crash", "letter"}
  MaxFaults = 2
INVARIANTS TypeOK CheckpointCovers StoredOnce OneItemPerConversation EnrichmentKept
PROPERTIES CatchesUp EnrichmentArrives
