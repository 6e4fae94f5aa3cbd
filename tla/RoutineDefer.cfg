CONSTANTS
  w1 = w1
  d1 = d1
  Watchers <- MCWatchers
  Qual <- MCQual
  Events <- MCEvents
  Handlers <- MCHandlers
  SelectStmts <- MCSelects
  Defers <- MCDefers
  QueueCap = 1
  OpBudget = 5
  MaxFlips = 1
  MaxArrivals = 1
SPECIFICATION Spec
INVARIANT DeferAtExit
