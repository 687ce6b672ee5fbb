---------------------------- MODULE MCWorkflow ----------------------------
(* Workflow and the advice computed from it, for TLC. *)
EXTENDS Guidance

(* What trust-model.md says of assert-plan-ready: design.md and tasks.md   *)
(* exist before any implementation edit.                                   *)
PlanFilesBeforeImplement ==
    [][state'.stage = "implement" /\ state.stage # "implement" => "planFiles" \in facts]_vars

(* What the denials of transition and of the summary gate say: resume, or  *)
(* resolve the blocker.  With every artifact in place and no blocker       *)
(* recorded by hand, a resume or a retry in place lifts the blocker.       *)
ResumeOrRetryUnblocks ==
    Blocked(state) /\ facts = InPlace /\ ~state.blockedReason
        => ~Blocked(Resumed(state)) \/ RetryUnblocks(state, facts)
===========================================================================
