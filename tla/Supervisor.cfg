SPECIFICATION FairSpec
CONSTANTS
  c1 = c1
  c2 = c2
  s1 = s1
  s2 = s2
  Clients <- MCClients
  Slots <- MCSlots
  MaxRuns = 3
  RestartPolicy = TRUE
INVARIANTS OneSupervisor NoSpuriousCancel EntryIsTrue
PROPERTIES StopStops BounceRelaunches ShutdownCompletes
CHECK_DEADLOCK FALSE
