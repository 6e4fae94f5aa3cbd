CONSTANTS
  p1 = p1
  p2 = p2
  t1 = t1
  h = h
  Publishers <- MCPublishers
  Translators <- MCTranslators
  Plain <- MCPlain
  Of <- MCOf
  Buffer = 2
  QueueCap = 2
  Fan = 2
  MaxEvents = 2
SPECIFICATION FairSpec
INVARIANT SendsAreSafe
PROPERTY ImplementsFeed
PROPERTY TranslatorLeaves
CHECK_DEADLOCK FALSE
