\* A burst that fills the queue: does it hold the producers up?
SPECIFICATION Spec
CONSTANTS
  Msgs = {m1, m2, m3}
  Multipart = {m3}
  Malformed = {}
  Rejected = {}
  Workers = {w1}
  Replay = replay
  NoMsg = noMsg
  NoFile = noFile
  Junk = junk
  QueueMax = 2
  Retries = 2
  FileMax = 2
  MaxFiles = 2
  MaxOutages = 0
  MaxCrashes = 0
  MaxFaults = 0
CHECK_DEADLOCK FALSE
PROPERTY BackPressure
