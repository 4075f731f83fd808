\* Every fault of the send job, callbacks in any order and overlap.
CONSTANTS
  MaxCopies = 2
  MaxShutdowns = 1
  MaxRetries = 1
  Faults <- AllFaults
CHECK_DEADLOCK FALSE
SPECIFICATION FairSpec
INVARIANTS
  OneCopyPerLostAnswer
  TicksAreTrue
PROPERTIES
  OrderedIfSerial
  EventuallySettled
