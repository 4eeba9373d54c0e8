\* An accepted Cancel does not always leave the task cancelled.
SPECIFICATION SafetySpec
CONSTANTS
  c1 = c1
  c2 = c2
  Clients <- MCClients
  MaxTasks = 1
  WaitAlone = TRUE
INVARIANTS CancelAcceptedMeansCancelled
