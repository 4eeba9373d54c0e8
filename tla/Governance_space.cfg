\* Every action and rule set with at most three marks and rules.
SPECIFICATION SpaceSpec
CONSTANTS
  Restricted = TRUE
  MaxExtras = 3
INVARIANTS DecisionAsExpected
PROPERTIES NothingHides
CHECK_DEADLOCK FALSE
