\* One outage, after which Redis stays: is what was buffered replayed?
SPECIFICATION FairSpec
CONSTANTS
  Msgs = {m1, m2}
  Multipart = {}
  Malformed = {}
  Rejected = {}
  Workers = {w1}
  Replay = replay
  NoMsg = noMsg
  NoFile = noFile
  Junk = junk
  QueueMax = 2
  Retries = 2
  FileMax = 2
  MaxFiles = 3
  MaxOutages = 1
  MaxCrashes = 0
  MaxFaults = 0
CHECK_DEADLOCK FALSE
PROPERTY BufferedIsReplayed
