\* Two processes, which may share a process id, two targets, and one lost
\* reply or outage.
SPECIFICATION FairSpec
CONSTANTS
  Targets = {core, ocr}
  Kinds = {core, ocr, "start", "toggle", "stop", "junk"}
  Pids = {p1, p2}
  NoPid = noPid
  MaxBatch = 2
  MaxCmds = 2
  MaxLives = 2
  MaxLosses = 1
  MaxFaults = 1
CHECK_DEADLOCK FALSE
INVARIANTS TypeOK ForwardOrder AcknowledgedIsSettled RecorderFollowsHistory
PROPERTY EveryCommandDecided
