CONSTANTS
  s1 = s1
  s2 = s2
  s3 = s3
  t1 = t1
  t2 = t2
  NoOne = NoOne
  NoTimer = NoTimer
  Speakers <- MCSpeakers
  Peers <- MCPeers
  Timers <- MCTimers
  MaxSpeakers = 2
  MaxLatches = 1
  MaxInflight = 1
  MaxCallbacks = 1
  MaxInputs = 4
SPECIFICATION Spec
SYMMETRY MCSymmetry
INVARIANT BooksBalance
INVARIANT LineNotForgotten
INVARIANT HintNotStale
PROPERTY EngagedKept
