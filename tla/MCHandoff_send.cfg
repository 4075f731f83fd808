\* One turn whose send may fail after its claim was committed.
CONSTANTS
  t1 = t1
  t2 = t2
  Turns <- OneTurn
  StartStates <- Pitching
  FsmEnabled = TRUE
  MaxEpisodes = 1
  MaxShutdowns = 0
  Faults <- SendFault
  Listening = {TRUE}
SPECIFICATION Spec
INVARIANT
  AnnouncedOrInFlight
