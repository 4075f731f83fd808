\* A run that replies and then escalates, on the instance of the parts.
CONSTANTS
  t = t
  k1 = k1
  k2 = k2
  k3 = k3
  k4 = k4
  a1 = a1
  a2 = a2
  e1 = e1
  e2 = e2
  p1 = p1
  p2 = p2
  Events = {e1, e2}
  Dispatchers = {p1, p2}
  Lookback = 2
  Limit = 2
  CommitDelay = 1
  MaxMinute = 4
  MaxCutOff = 1
  Nodes = {t, k1, k2, k3, k4}
  FlowGraphs <- MCGraphs
  MaxTurns = 3
  MaxFailures = 1
  MaxIterations = 2
  MaxBubbles = 2
  MaxTurnsTaken = 2
  Merchants = {"m1", "m2"}
  Numbers = {"n1", "n2"}
  Connectors = {"r1", "r2"}
  MaxKeys = 2
  MaxChannelDrops = 3
  Owners = {"r1", "r2"}
  MaxHooks = 3
  MaxHookDrops = 3
  Submitters = {"r1", "r2"}
  MaxBodies = 2
  MaxSubs = 2
  MaxVerdicts = 1
  MaxStray = 1
  Automations = {a1, a2}
  Filtered = {a2}
  Delay <- MCDelay
  CloseAfter = 2
  Grace = 2
  DormantAfter = 3
  MaxTick = 5
  MaxActs = 2
SPECIFICATION Spec
INVARIANT
  ClaimNotBlocked
CHECK_DEADLOCK FALSE
