---------------------------- MODULE MCSharedLoop ----------------------------
(* An instance of SharedLoop for TLC: one tool call that is allowed, one   *)
(* that is denied and one that needs an approval.                          *)
EXTENDS SharedLoop

CONSTANTS t1, t2

MCTasks == {t1, t2}
MCCalls == {"read", "remove", "install"}
MCVerdict ==
  [c \in MCCalls |-> CASE c = "read" -> "allow"
                       [] c = "remove" -> "deny"
                       [] c = "install" -> "require_approval"]
=============================================================================
