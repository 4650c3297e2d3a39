SPECIFICATION FairSpec
CONSTANTS
  Job = {j1}
  Reader = {r1}
  NoJob = NoJob
  MaxSentences = 2
  MaxChunks = 2
  MaxReads = 2
INVARIANTS TypeOK SpokenAndRemembered ReadAsSpoken AttachmentLifetime
PROPERTIES TurnsEnd
CHECK_DEADLOCK FALSE
