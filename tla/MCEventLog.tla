---------------------------- MODULE MCEventLog ----------------------------
(* EventLog for TLC. *)
EXTENDS EventLog

CONSTANTS c1, c2, r1

MCCommands == {c1, c2}
MCRecorders == {r1}
===========================================================================
