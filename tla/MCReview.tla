----------------------------- MODULE MCReview -----------------------------
(* Review and HookMirror for TLC: one reviewer beside the integration tester. *)
EXTENDS HookMirror

CONSTANTS r1

MCReviewers == {r1}
===========================================================================
