---------------------------- MODULE MCAgentLoop ----------------------------
(* An instance of AgentLoop for TLC: one tool call for each decision, and  *)
(* one whose arguments cannot be parsed.                                   *)
EXTENDS AgentLoop

Plain == [hasId |-> TRUE, hasPayload |-> TRUE, type |-> "other",
          command |-> {}, hasPath |-> FALSE, path |-> {}, timeout |-> "none"]

Call(action) == [parses |-> TRUE, action |-> action]

Read == Call(Plain)
Shell == Call([Plain EXCEPT !.type = "shell"])
Install == Call([Plain EXCEPT !.type = "shell", !.command = {"intensive"}])
Null == Call([Plain EXCEPT !.hasPayload = FALSE])
Garbled == [parses |-> FALSE, action |-> Plain]

MCCalls == {Read, Shell, Install, Null, Garbled}
=============================================================================
