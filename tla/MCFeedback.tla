----------------------------- MODULE MCFeedback -----------------------------
(* An instance of Feedback for TLC. *)
EXTENDS Feedback, TLC

Symmetry == Permutations(Packages \ Loud) \cup Permutations(Names \ Loud)
=============================================================================
