SPECIFICATION FairSpec
CONSTANTS
  o1 = o1
  p1 = p1
  Operators <- OneOperator
  Speakers <- NoSpeaker
  Reflexes <- NapAndAbort
  QueueCap = 1
PROPERTIES FreezeSettles ShutdownReturns
