\* Wait is called as the tests call it: never while a Submit is in progress.
SPECIFICATION Spec
CONSTANTS
  c1 = c1
  c2 = c2
  Clients <- MCClients
  MaxTasks = 2
  WaitAlone = TRUE
INVARIANTS NoWaitPanic
PROPERTIES EveryTaskEnds WaitReturns ImplementsLifecycle
