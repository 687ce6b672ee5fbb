---------------------------- MODULE MCEvidence ----------------------------
(* Evidence for TLC. *)
EXTENDS Evidence, TLC

CONSTANTS p1, p2, s1, s2, c1, c2

MCRecorders == {p1, p2}
MCSpecs == {s1, s2}
MCCommands == {c1, c2}

Alike == Permutations(MCRecorders) \cup Permutations(MCSpecs) \cup Permutations(MCCommands)
===========================================================================
