SPECIFICATION Spec
CONSTANTS
  s1 = s1
  s2 = s2
  t1 = t1
  t2 = t2
  Sessions = {s1, s2}
  Threads = {t1, t2}
  Assignments <- SharedOrApart
  Budgets = {2}
  Usages = {0, 1}
  MaxTurns <- UserTurns
  MaxRounds <- Rounds
  MaxSamples = 2
  MaxOrders = 2
  MaxCreates = 1
CHECK_DEADLOCK FALSE
INVARIANTS
  TypeOK
  ActiveWithinBudget
  EveryTokenOnce
  LoopIsCharged
