\* One process, one outage of the peer, after which it stays: is what was
\* buffered sent?
SPECIFICATION FairSpec
CONSTANTS
  small = small
  medium = medium
  large = large
  Msgs <- MCMsgs
  Size <- MCSize
  Area = 3
  NoMsg = noMsg
  QueueMax = 2
  Hwm = 1
  MaxLives = 1
  MaxCrashes = 0
  MaxOutages = 1
CHECK_DEADLOCK FALSE
PROPERTY BufferedIsSent
