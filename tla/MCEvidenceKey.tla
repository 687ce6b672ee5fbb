--------------------------- MODULE MCEvidenceKey ---------------------------
(* EvidenceKey for TLC: two recorders of wb-runtime and two of the hook. *)
EXTENDS EvidenceKey

CONSTANTS p1, p2, h1, h2

MCRuntimeRecorders == {p1, p2}
MCHookRecorders == {h1, h2}
============================================================================
