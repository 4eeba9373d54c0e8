\* Five requests, two of which print their payload alike.
SPECIFICATION Spec
CONSTANTS
  Restricted = TRUE
  Requests <- MCRequests
  RuleSets <- MCRuleSets
  HITLTimeout = 1
  MaxTime = 2
  MaxLog = 3
INVARIANTS TypeOK ApprovalJustified RiskReported
