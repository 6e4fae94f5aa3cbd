SPECIFICATION FairSpec
CONSTANTS
  Goals <- MCGoals
  Acquirable = {"sell"}
  Question <- MCQuestion
  Enabler <- MCEnabler
  Chains <- MCChains
  Order <- MCOrder
  FirstGoal = "mine"
  Cap = 2
  MaxClock = 1
  MaxEvents = 3
PROPERTIES LiveWorkKept ChainArrives MirrorCatchesUp
