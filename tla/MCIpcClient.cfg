\* Three messages of different sizes, a pipe that holds one, an outage of
\* the peer, a crash or an orderly close, and a second process.
SPECIFICATION FairSpec
CONSTANTS
  small = small
  medium = medium
  large = large
  Msgs <- MCMsgs
  Size <- MCSize
  Area = 3
  NoMsg = noMsg
  QueueMax = 2
  Hwm = 1
  MaxLives = 2
  MaxCrashes = 1
  MaxOutages = 1
CHECK_DEADLOCK FALSE
INVARIANTS TypeOK NoUnexplainedLoss HeadIntact AtMostOncePerLife FastPathOrder
PROPERTY QueueIsServed
