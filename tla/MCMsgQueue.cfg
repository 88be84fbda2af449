SPECIFICATION FairSpec
CONSTANTS
  QueueSize = 3
  MaxPut = 7
INVARIANTS
  ReadsWholeCommand
  NothingLeaks
PROPERTIES
  HandledInOrder
  ImplementsFifo
  RingIsServed
CHECK_DEADLOCK FALSE
