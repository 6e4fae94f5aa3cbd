CONSTANTS
  k1 = k1
  k2 = k2
  p1 = p1
  p2 = p2
  g1 = g1
  g2 = g2
  Base = Base
  None = None
  Streams <- MCStreams
  Pushers <- MCOneOperator
  Goals <- MCGoals
  ChanCap = 1
  WireCap = 1
SPECIFICATION FairSpec
INVARIANT GoalOnItsWay
PROPERTY Converges
PROPERTY DrainEnds
