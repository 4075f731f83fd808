\* Two questions and a human, two overlapping sweeps, one of them cut short.
CONSTANTS
  m1 = m1
  m2 = m2
  s1 = s1
  s2 = s2
  Messages <- TwoMessages
  Sweeps <- TwoSweeps
  MaxTime = 3
  MaxFaults = 1
  Faults <- AllFaults
SPECIFICATION FairSpec
INVARIANTS
  QuestionsKept
  ResumedOnce
PROPERTIES
  HumanNotTalkedOver
  EventuallyResumed
