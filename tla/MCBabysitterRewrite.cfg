\* The rewrite of a file whose replay fails: an outage to fill the files, a
\* second one to interrupt the replay.
SPECIFICATION Spec
CONSTANTS
  Msgs = {m1, m2, m3}
  Multipart = {}
  Malformed = {}
  Rejected = {}
  Workers = {w1}
  Replay = replay
  NoMsg = noMsg
  NoFile = noFile
  Junk = junk
  QueueMax = 2
  Retries = 2
  FileMax = 2
  MaxFiles = 2
  MaxOutages = 2
  MaxCrashes = 0
  MaxFaults = 0
CHECK_DEADLOCK FALSE
PROPERTY RewriteKeepsEntries
