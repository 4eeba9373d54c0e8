\* Two runs of one loop, with and without a handler.
SPECIFICATION Spec
CONSTANTS
  Restricted = FALSE
  Calls <- MCCalls
  Rules = {"SHELL-001"}
  HandlerAnswers = {"allow", "deny", "escalate"}
  MaxIterations = 2
  MaxCalls = 2
  MaxRuns = 2
INVARIANTS TypeOK Gated AnsweredBeforeThinking AuditMatchesReplies Budget OutcomeShowsInState
CHECK_DEADLOCK FALSE
