\* Every part on its own small instance.
CONSTANTS
  t1 = t1
  t2 = t2
  w1 = w1
  w2 = w2
  AgencyTemplates = {t1, t2}
  Writers = {w1, w2}
  Readers = {"r1"}
  TTL = 1
  ReadLag = 1
  MaxChanges = 2
  MaxClock = 3
  MaxRedisFaults = 1
  MaxModels = 2
  Trainers = {"x1", "x2"}
  Requests = {"s1"}
  MaxTrains = 2
  MaxHalts = 1
  Palette <- MCPalette
  DefaultHours = {24}
  MaxHours = 168
  MaxNodes = 4
  MaxEdges = 4
  MaxVariables = 2
  MaxBodyLen = 5
  MaxRun = 1
  MaxButtons = 2
  MaxUrlButtons = 1
  MaxPhoneButtons = 1
  MaxCopyButtons = 1
  Slots = {1, 2, 3}
  MaxMarks = 5
  MaxPressed = 2
  WeekLength = 3
  HourLength = 2
  DayHours = 4
  LookaheadDays = 5
  SearchDays = 4
  Weeks <- MCWeeks
  GhlWeeks <- MCGhlWeeks
  CustomWeeks <- MCCustom
  SpecTimes = {0, 3}
  Days = {3, 4}
  MaxEdits = 2
  MaxSlips = 1
SPECIFICATION Spec
SYMMETRY Interchangeable
INVARIANTS
  CascadeSafe
  FtSafe
  DraftsSafe
  
CHECK_DEADLOCK FALSE
