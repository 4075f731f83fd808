\* Every part on its own small instance.
CONSTANTS
  l1 = l1
  l2 = l2
  x1 = x1
  x2 = x2
  Locations = {l1, l2}
  Users = {"u1", "u2"}
  Installers = {"i1"}
  Linkers = {"u1"}
  MaxTokens = 3
  MaxEvents = 3
  MaxMishaps = 1
  CrmWorkers = {"w1", "w2"}
  Movers = {"m1"}
  MaxOpps = 2
  MaxPosts = 2
  MaxCrmDrops = 2
  Indexers = {x1, x2}
  Blank = {2}
  MaxPages = 3
  MaxManual = 2
  MaxBreaks = 1
  Reindexers = {x1, x2}
  MaxWrites = 3
  MaxSecond = 2
  MaxFaqBreaks = 1
  MaxLen = 11
  Target = 8
  Overlap = 2
  Texts <- MCTexts
SPECIFICATION Spec
INVARIANTS
  GhlSafe
  CrmSafe
  KnowledgeSafe
PROPERTIES
  ErrorIfNotOvertaken
CHECK_DEADLOCK FALSE
