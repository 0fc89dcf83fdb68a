\* One process that is left running, and Redis always there: is a command
\* for which the socket had no room sent later?
SPECIFICATION FairSpec
CONSTANTS
  Targets = {core}
  Kinds = {core, "toggle"}
  Pids = {p1}
  NoPid = noPid
  MaxBatch = 2
  MaxCmds = 2
  MaxLives = 1
  MaxLosses = 0
  MaxFaults = 0
CHECK_DEADLOCK FALSE
PROPERTY RefusedIsResent
