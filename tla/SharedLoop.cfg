\* Two tasks on one loop, with a shared budget of two rounds.
SPECIFICATION FairSpec
CONSTANTS
  t1 = t1
  t2 = t2
  Tasks <- MCTasks
  Calls <- MCCalls
  Verdict <- MCVerdict
  MaxIterations = 2
  MaxCalls = 1
INVARIANTS TypeOK ExhaustionIsEarned
PROPERTIES BudgetFloor RunsEnd
CHECK_DEADLOCK FALSE
