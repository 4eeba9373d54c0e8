\* A visitor with a page, one with a script, a restart of the server.
SPECIFICATION FairSpec
CONSTANTS
  v1 = v1
  v2 = v2
  Visitors <- MCVisitors
  Pages <- MCPages
  Ends = {"completed"}
  MaxTasks = 2
  MaxFlight = 2
  MaxRestarts = 1
INVARIANTS ShowsOwnTasks OnlyOwnerCancels FinalShownIsFinal
PROPERTIES RunningShownEnds
CHECK_DEADLOCK FALSE
