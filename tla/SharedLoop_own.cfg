\* What a task reports is not only its own.
SPECIFICATION Spec
CONSTANTS
  t1 = t1
  t2 = t2
  Tasks <- MCTasks
  Calls <- MCCalls
  Verdict <- MCVerdict
  MaxIterations = 2
  MaxCalls = 1
INVARIANTS ShownIsOwn
CHECK_DEADLOCK FALSE
