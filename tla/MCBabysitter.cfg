\* Four messages, one multipart, one that Redis rejects, one malformed; an
\* outage, a crash and a restart, a disk fault, a rotation at two entries.
SPECIFICATION Spec
CONSTANTS
  Msgs = {m1, m2, m3, m4}
  Multipart = {m3}
  Malformed = {m4}
  Rejected = {m2}
  Workers = {w1}
  Replay = replay
  NoMsg = noMsg
  NoFile = noFile
  Junk = junk
  QueueMax = 2
  Retries = 2
  FileMax = 2
  MaxFiles = 3
  MaxOutages = 1
  MaxCrashes = 1
  MaxFaults = 1
CHECK_DEADLOCK FALSE
INVARIANTS TypeOK NoUnexplainedLoss DuplicatesExplained ReplayAwayFromWriter
