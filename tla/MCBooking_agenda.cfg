CONSTANTS
  Turns = {t1, t2}
  Operators = {o1}
  Slots = {s1, s2}
  Window = 0
  MaxTries = 2
  MaxApps = 2
  MaxNow = 2
  MaxEdits = 1
  MaxFaults = 1
  LeadTicks = {1, 3}
  DefaultLead = 2
  Starts = {3, 6}
  MaxClock = 7
  MaxChanges = 2
  MaxCrashes = 1
SPECIFICATION FairSpec
INVARIANTS
  
  RemindersSafe

  
CHECK_DEADLOCK FALSE
