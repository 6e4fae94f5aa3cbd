CONSTANTS
  RecvCap = 1
  SendCap = 1
  MaxFrames = 2
  Stalls = TRUE
SPECIFICATION FairSpec
INVARIANTS EndIsTruthful VerdictIsRight
PROPERTIES RunEnds
CHECK_DEADLOCK FALSE
