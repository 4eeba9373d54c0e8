----------------------------- MODULE AgentState -----------------------------
(***************************************************************************)
(* internal/agent/state.go: the states of the agent loop and the table of  *)
(* transitions between them.                                               *)
(***************************************************************************)

AgentStates == {"idle", "thinking", "awaiting_approval", "executing",
                "observing", "error", "terminated"}

(* MUTANT: an approval can only be followed by an execution. *)
TableStrict ==
  [s \in AgentStates |->
     CASE s = "idle" -> {"thinking"}
       [] s = "thinking" ->
            {"executing", "awaiting_approval", "error", "terminated"}
       [] s = "awaiting_approval" -> {"executing"}
       [] s = "executing" -> {"observing", "error", "terminated"}
       [] s = "observing" -> {"thinking", "error", "terminated"}
       [] s = "error" -> {"terminated"}
       [] s = "terminated" -> {}]

TransitionTable ==
  [s \in AgentStates |->
     CASE s = "idle" -> {"thinking"}
       [] s = "thinking" ->
            {"executing", "awaiting_approval", "error", "terminated"}
       [] s = "awaiting_approval" -> {"executing", "error", "terminated"}
       [] s = "executing" -> {"observing", "error", "terminated"}
       [] s = "observing" -> {"thinking", "error", "terminated"}
       [] s = "error" -> {"terminated"}
       [] s = "terminated" -> {}]

CanTransitionTo(s, next) == next \in TransitionTable[s]

(* An illegal transition leaves the state as it is. *)
TransitionTo(s, next) == IF CanTransitionTo(s, next) THEN next ELSE s
=============================================================================
