\* Two packages with three tests each, of the same names.  One package and
\* one name of a test have "FAIL" in them.
SPECIFICATION Spec
CONSTANTS
  Packages = {p1, p2}
  Names = {n1, n2, n3}
  Loud = {p2, n3}
  None = None
SYMMETRY Symmetry
INVARIANTS VerdictRight FailuresNamed
CHECK_DEADLOCK FALSE
