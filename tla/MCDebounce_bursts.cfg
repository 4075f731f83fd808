\* Three messages in one burst or several; shutdowns hit inbound jobs and flushes.
CONSTANTS
  m1 = m1
  m2 = m2
  m3 = m3
  Messages <- ThreeMessages
  Window = 2
  Grace = 2
  MaxLate = 1
  MaxTime = 6
  MaxShutdowns = 1
  Faults <- AllFaults
CHECK_DEADLOCK FALSE
SPECIFICATION FairSpec
INVARIANTS
  NothingStranded
  NoDoubleReply
PROPERTIES
  EventuallyAnswered
