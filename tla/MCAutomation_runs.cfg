\* One event and its continuation, one queued row at a time.
CONSTANTS
  t1 = t1
  p1 = p1
  p2 = p2
  Triggers = {t1}
  Runners = {p1, p2}
  PendingTTL = 2
  DedupTTL = 3
  JobTimeout = 2
  Wait = 1
  MaxNow = 5
  MaxQueued = 1
  MaxCut = 1
  Sweeps = {p1, p2}
  MaxInstant = 3
  MaxRows = 2
  MaxLapses = 1
SPECIFICATION FairSpec
CHECK_DEADLOCK FALSE
INVARIANTS
  RunSafe
  HoursSafe
PROPERTIES
  SentAgainOnlyIf
  EventuallyContinued
  EventuallyResent
