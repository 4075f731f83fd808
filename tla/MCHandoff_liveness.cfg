\* Two turns under the scheduler's fairness; an automation listens to the alert.
CONSTANTS
  t1 = t1
  t2 = t2
  Turns <- TwoTurns
  StartStates <- Closing
  FsmEnabled = TRUE
  MaxEpisodes = 1
  MaxShutdowns = 0
  Faults <- NoFaults
  Listening = {TRUE}
SPECIFICATION FairSpec
PROPERTIES
  EventuallyAnnounced
  EventuallyAlerted
