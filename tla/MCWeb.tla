------------------------------- MODULE MCWeb -------------------------------
(* An instance of Web for TLC. *)
EXTENDS Web

CONSTANTS v1, v2

MCVisitors == {v1, v2}
MCPages == {v1}
=============================================================================
