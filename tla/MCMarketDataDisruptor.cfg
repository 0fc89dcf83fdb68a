\* A ring of two slots that is filled twice over, for two consumers.
SPECIFICATION FairSpec
CONSTANTS
  Consumers = 2
  BufferSize = 2
  MaxTicks = 5
CHECK_DEADLOCK FALSE
INVARIANTS TypeOK LossIsCounted HandedFromSlot HandedInTurn
PROPERTY ConsumersCatchUp
