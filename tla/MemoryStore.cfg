\* Three stores on one file, three calls of Save with two identifiers.
SPECIFICATION Spec
CONSTANTS
  Stores = {s1, s2, s3}
  Ids = {i1, i2}
  MaxSaves = 3
SYMMETRY Symmetry
INVARIANTS SavedSurvives DeletedStaysDeleted MemoryIsDisk
CHECK_DEADLOCK FALSE
