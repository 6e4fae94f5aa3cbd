SPECIFICATION Spec
CONSTANTS
  o1 = o1
  p1 = p1
  Operators <- OneOperator
  Speakers <- OneSpeaker
  Reflexes <- AllReflexes
  QueueCap = 1
INVARIANTS SingleActive NoStrandedPark FreezeReachesDetour
