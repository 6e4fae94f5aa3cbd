CONSTANTS
  key1 = key1  key2 = key2  c1 = c1
  Keys = {key1}
  Callers = {c1}
  Deleters = {c1}
  NoKey = NoKey
  Users <- AllUse
  Policies <- FourClasses
  MaxWrites = 4
  MaxPuts <- PutsOfClass
  MaxCrashes = 1
SPECIFICATION FairSpec
INVARIANTS AckedWriteSafe JournalBounded CachedReadIsFresh
PROPERTIES RemoteInOrder JournalDrains
