--------------------------- MODULE MCTaskManager ---------------------------
(* Instances of TaskManager for TLC. *)
EXTENDS TaskManager, TLC

CONSTANTS c1, c2

MCClients == {c1, c2}

ClientSymmetry == Permutations(MCClients)
=============================================================================
