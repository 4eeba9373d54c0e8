\* Clients overlap Submit, Cancel and Wait freely; a panic may stop the process.
SPECIFICATION SafetySpec
CONSTANTS
  c1 = c1
  c2 = c2
  Clients <- MCClients
  MaxTasks = 2
  WaitAlone = FALSE
SYMMETRY ClientSymmetry
INVARIANTS TypeOK Coherent UniqueIds CancelFnPresent CancelHonoured NoSpuriousStatus GroupCount
PROPERTIES WaitSound
CHECK_DEADLOCK FALSE
