---------------------------- MODULE MCStateFile ----------------------------
(* StateFile for TLC. *)
EXTENDS StateFile

CONSTANTS c1, c2

MCCommands == {c1, c2}
============================================================================
