------------------------------ MODULE Guidance ------------------------------
(***************************************************************************)
(* What wb-runtime context and the host adapters tell the agent to do next *)
(* (context.rs, adapters.rs), computed from the state and the facts of     *)
(* Workflow.  The agent acts on this advice with the commands of Workflow, *)
(* which decide by their own rules whether to accept them.                 *)
(***************************************************************************)
EXTENDS Workflow

Early == {"discover", "research"}

-----------------------------------------------------------------------------
(* Faulty variants: the gates asked for at ship and summary forgotten; a   *)
(* boundary as soon as the phase is marked complete.                       *)

RequiredGatesUpToQa(s, f) ==
    {g \in P!Gates : \/ g = "discovery" /\ s.stage \in Early /\ ~DiscoveryReady(f)
                     \/ g = "plan" /\ s.stage \notin Early /\ ~PlanReady(s, f)
                     \/ g = "review" /\ s.stage \in {"review", "qa"} /\ ~ReviewReady(f)
                     \/ g = "qa" /\ s.stage = "qa" /\ ~QaReady(s, f)}

AtPhaseCompletion(s, f) == s.phaseStatus = "complete" /\ s.stage \notin {"ship", "summary"}

-----------------------------------------------------------------------------

(* The gates the context lists as still required. *)
RequiredGates(s, f) ==
    {g \in P!Gates : \/ g = "discovery" /\ s.stage \in Early /\ ~DiscoveryReady(f)
                     \/ g = "plan" /\ s.stage \notin Early /\ ~PlanReady(s, f)
                     \/ g = "review" /\ s.stage \in {"review", "qa", "ship", "summary"}
                                     /\ ~ReviewReady(f)
                     \/ g = "qa" /\ s.stage \in {"qa", "ship", "summary"} /\ ~QaReady(s, f)}

(* The stage whose skill the context hands the work to. *)
NextHandoff(s, f) ==
    CASE s.stage \in Early       -> IF DiscoveryReady(f) THEN "plan" ELSE "discover"
      [] s.stage = "plan"        -> IF PlanReady(s, f) THEN "implement" ELSE "plan"
      [] s.stage = "implement"   -> IF PlanReady(s, f) THEN "review" ELSE "plan"
      [] s.stage = "review"      -> "qa"
      [] s.stage \in {"qa", "ship"} -> "ship"
      [] s.stage = "summary"     -> "complete"

(* The requests for a stage that comes later, which is what the context    *)
(* means by advancing; work on the stage itself is not advancing.          *)
Advances(stage) ==
    {to \in Requests :
        \/ stage = "review" /\ Target[to].stage \in {"qa", "ship", "summary", "complete"}
        \/ stage = "qa" /\ Target[to].stage \in {"ship", "summary", "complete"}
        \/ stage = "ship" /\ Target[to].stage \in {"summary", "complete"}
        \/ stage = "summary" /\ Target[to].stage = "complete"}

(* Faulty variant: QA is demanded as soon as there is a review. *)
ForbiddenFromReview(s, f) ==
    {to \in Requests :
        \/ Target[to].stage = "plan" /\ s.stage \in Early /\ ~DiscoveryReady(f)
        \/ Target[to].stage = "implement" /\ s.stage \notin Early /\ ~PlanReady(s, f)
        \/ to \in Advances(s.stage) /\ ~(ReviewReady(f) /\ QaReady(s, f))}

(* The requests that forbidden_actions rules out: those for plan before    *)
(* discovery is ready, for implement before the plan is, and for a later   *)
(* stage without review or QA.                                             *)
Forbidden(s, f) ==
    {to \in Requests :
        \/ Target[to].stage = "plan" /\ s.stage \in Early /\ ~DiscoveryReady(f)
        \/ Target[to].stage = "implement" /\ s.stage \notin Early /\ ~PlanReady(s, f)
        \/ to \in Advances(s.stage) /\ s.stage \in {"review", "qa", "ship", "summary"}
              /\ ~ReviewReady(f)
        \/ to \in Advances(s.stage) /\ s.stage \in {"qa", "ship", "summary"}
              /\ ~QaReady(s, f)}

(* Faulty variant: a plan that is under way is taken to be ready. *)
NextActionOfStage(s, f) ==
    IF s.stage \in Early THEN IF DiscoveryReady(f) THEN "plan" ELSE "discover"
    ELSE IF s.stage = "plan" THEN "implement"
    ELSE s.stage

(* allowed_next_action, as the stage that the action is work on. *)
AllowedNextAction(s, f) ==
    CASE s.stage \in Early                  -> IF DiscoveryReady(f) THEN "plan" ELSE "discover"
      [] s.stage \in {"plan", "implement"}  -> IF PlanReady(s, f) THEN "implement" ELSE "plan"
      [] OTHER                              -> s.stage

(* The phase has produced a result a user can approve. *)
AtPhaseBoundary(s, f) ==
    /\ s.phaseStatus = "complete"
    /\ \/ s.stage \in Early /\ DiscoveryReady(f)
       \/ s.stage \in {"plan", "implement"} /\ PlanReady(s, f)
       \/ s.stage = "review" /\ ReviewReady(f)
       \/ s.stage = "qa" /\ QaReady(s, f)

RuntimeActive(s) == s.workflowStatus # "complete"

ExplicitPause(s) == s.pauseReason \/ s.workflowStatus = "paused"

(* In guided mode, the default; in the other mode there is no such pause. *)
GuidedBoundaryPause(s, f) == RuntimeActive(s) /\ AtPhaseBoundary(s, f) /\ ~ExplicitPause(s)

(* The adapter: an approval releases a guided boundary pause and no other. *)
PauseRequired(s, f, approval) ==
    \/ ExplicitPause(s)
    \/ GuidedBoundaryPause(s, f) /\ ~approval

-----------------------------------------------------------------------------
(* Properties *)

(* Once the context lists no required gate, the command it hands the work  *)
(* to is accepted: advice and enforcement read the same artifacts through  *)
(* different code and must not contradict each other.  (The context does   *)
(* not read the concrete-task gate, so a goal is assumed.)                 *)
HandoffAccepted ==
    RequiredGates(state, facts) = {} /\ ~Blocked(state) /\ "goal" \in facts
        => Accepts(state, facts, NextHandoff(state, facts), "in_progress")

(* What the context forbids the commands refuse, whatever status is asked  *)
(* for and also by the complete command: an agent that does not heed the   *)
(* advice gets no further.  One case is left to the advice alone: from qa, *)
(* transition to ship asks for the QA gate and not for the review.         *)
ForbiddenIsRefused ==
    \A to \in Forbidden(state, facts) :
        /\ \A status \in AllStatuses :
              Accepts(state, facts, to, status) => to = "ship" /\ QaReady(state, facts)
        /\ to = "complete" => ~SummaryReady(state, facts)

(* The three answers of one context do not contradict each other or the    *)
(* commands: the next action it allows is not one it forbids and, when it  *)
(* lists no required gate, a command that wb-runtime accepts; and what it  *)
(* forbids is refused.                                                     *)
ActionPermitted ==
    LET action == AllowedNextAction(state, facts) IN
    /\ action \notin Forbidden(state, facts)
    /\ RequiredGates(state, facts) = {} /\ ~Blocked(state) /\ "goal" \in facts
          => Accepts(state, facts, action, "in_progress")
    /\ ForbiddenIsRefused

(* A user who approves at a guided boundary is not turned away: when the   *)
(* approval releases the pause, moving on is accepted.                     *)
ApprovalAdvances ==
    (/\ PauseRequired(state, facts, FALSE)
     /\ ~PauseRequired(state, facts, TRUE)
     /\ "goal" \in facts /\ ~state.blockedReason)
        => Accepts(state, facts, NextHandoff(state, facts), "in_progress")
=============================================================================
