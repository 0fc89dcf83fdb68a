\* Progress: two workers share the disk buffer, one of the messages is
\* multipart, every entry fills a file; two outages and a disk fault.
SPECIFICATION FairSpec
CONSTANTS
  Msgs = {m1, m2}
  Multipart = {m2}
  Malformed = {}
  Rejected = {}
  Workers = {w1, w2}
  Replay = replay
  NoMsg = noMsg
  NoFile = noFile
  Junk = junk
  QueueMax = 2
  Retries = 2
  FileMax = 1
  MaxFiles = 4
  MaxOutages = 2
  MaxCrashes = 0
  MaxFaults = 1
CHECK_DEADLOCK FALSE
PROPERTIES ClosedFilesDrain QueueDrains
