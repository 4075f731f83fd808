\* Two turns against every other writer: sends and handlers that fail, one
\* worker shutdown.
CONSTANTS
  t1 = t1
  t2 = t2
  Turns <- TwoTurns
  StartStates <- Pitching
  FsmEnabled = TRUE
  MaxEpisodes = 1
  MaxShutdowns = 1
  Faults <- AllFaults
  Listening = {TRUE, FALSE}
SYMMETRY Symmetric
SPECIFICATION Spec
INVARIANTS
  Consistent
  OncePerEpisode
PROPERTY
  PromiseKept
