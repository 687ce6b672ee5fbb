------------------------------ MODULE Workflow ------------------------------
(***************************************************************************)
(* The stage machine of wb-runtime: .wannabuild/state.json as the commands *)
(* transition, pause, resume and complete change it, and the gates that    *)
(* decide whether they may.  Each command holds the project lock from its  *)
(* first read to its last write, and replaces state.json by rename, so it  *)
(* is one step here.  The agent writes artifacts without that lock; they   *)
(* are abstracted to the set of facts the gates find in them.              *)
(***************************************************************************)
EXTENDS Naturals, FiniteSets

CONSTANTS Statuses,    \* the statuses commands ask for
          Editable     \* the facts that may change during a behaviour

VARIABLES state,       \* .wannabuild/state.json, as far as the commands read it
          facts,       \* what the gates find in the artifacts and in events.jsonl
          ledger       \* history: the gates seen to hold, see Pipeline

vars == <<state, facts, ledger>>

AllStatuses == {"pending", "in_progress", "complete", "blocked", "paused"}
WorkflowStatuses == {"in_progress", "blocked", "paused", "complete"}

(* goal: requirements.md is not empty, or state.json names a goal.         *)
(* discovery: state.discovery is complete, its artifacts exist and         *)
(* requirements.md has acceptance criteria.  planFiles: design.md and      *)
(* tasks.md.  review: assert_review_ready passes.  qaEvidence: the QA      *)
(* summary and the integration evidence pass.  qaFailed: the latest QA     *)
(* event in events.jsonl is qa_failed.                                     *)
Facts == {"goal", "discovery", "planFiles", "review", "qaEvidence", "qaFailed"}

ASSUME StatusesAssumption == Statuses \subseteq AllStatuses
ASSUME EditableAssumption ==
    /\ Editable \subseteq Facts
    /\ "goal" \in Editable => "discovery" \in Editable

P == INSTANCE Pipeline WITH stage <- state.stage,
                            ledger <- ledger,
                            done <- state.workflowStatus = "complete"

-----------------------------------------------------------------------------
(* Requests and the stage and phase each stands for *)

Target ==
    [requirements |-> [stage |-> "discover",  phase |-> "requirements", internal |-> TRUE],
     design       |-> [stage |-> "plan",      phase |-> "design",       internal |-> TRUE],
     tasks        |-> [stage |-> "plan",      phase |-> "tasks",        internal |-> TRUE],
     document     |-> [stage |-> "summary",   phase |-> "document",     internal |-> TRUE],
     discover     |-> [stage |-> "discover",  phase |-> "requirements", internal |-> FALSE],
     research     |-> [stage |-> "research",  phase |-> "research",     internal |-> FALSE],
     plan         |-> [stage |-> "plan",      phase |-> "tasks",        internal |-> FALSE],
     implement    |-> [stage |-> "implement", phase |-> "implement",    internal |-> FALSE],
     review       |-> [stage |-> "review",    phase |-> "review",       internal |-> FALSE],
     qa           |-> [stage |-> "qa",        phase |-> "qa",           internal |-> FALSE],
     ship         |-> [stage |-> "ship",      phase |-> "ship",         internal |-> FALSE],
     summary      |-> [stage |-> "summary",   phase |-> "document",     internal |-> FALSE],
     complete     |-> [stage |-> "complete",  phase |-> "complete",     internal |-> FALSE]]

Requests == DOMAIN Target
Phases == {Target[to].phase : to \in Requests \ {"complete"}}

(* planned and discoverDone are what has_complete finds in the histories,  *)
(* which are never cut; qaBlocked says that the latest qa entry is         *)
(* "blocked".                                                              *)
States ==
    [stage : P!PublicStages, phase : Phases, phaseStatus : AllStatuses,
     workflowStatus : WorkflowStatuses, blockedReason : BOOLEAN, pauseReason : BOOLEAN,
     planned : SUBSET {"design", "tasks"}, discoverDone : BOOLEAN, qaBlocked : BOOLEAN]

DefaultState ==
    [stage |-> "discover", phase |-> "requirements", phaseStatus |-> "pending",
     workflowStatus |-> "in_progress", blockedReason |-> FALSE, pauseReason |-> FALSE,
     planned |-> {}, discoverDone |-> FALSE, qaBlocked |-> FALSE]

-----------------------------------------------------------------------------
(* Gates, over a state record s and a set of facts f *)

Blocked(s) == s.blockedReason \/ s.phaseStatus = "blocked"

ConcreteTask(s, f) == "goal" \in f \/ s.discoverDone

DiscoveryReady(f) == "discovery" \in f

PlanReady(s, f) == "planFiles" \in f \/ s.planned = {"design", "tasks"}

ReviewReady(f) == "review" \in f

QaStateFailed(s) ==
    /\ "qa" \in {s.stage, s.phase}
    /\ "blocked" \in {s.phaseStatus, s.workflowStatus}

QaReady(s, f) ==
    /\ "qaEvidence" \in f
    /\ "qaFailed" \notin f
    /\ ~QaStateFailed(s)
    /\ ~s.qaBlocked

(* Faulty variant: the summary gate trusts the review. *)
SummaryOnReviewAlone(s, f) == ReviewReady(f) /\ ~Blocked(s)

SummaryReady(s, f) ==
    /\ ReviewReady(f)
    /\ QaReady(s, f)
    /\ ~Blocked(s)
    /\ s.workflowStatus # "blocked"

(* The gates of Pipeline that hold in s and f. *)
Holding(s, f) ==
    {g \in P!Gates : \/ g = "discovery" /\ DiscoveryReady(f)
                     \/ g = "plan" /\ PlanReady(s, f)
                     \/ g = "review" /\ ReviewReady(f)
                     \/ g = "qa" /\ QaReady(s, f)}

-----------------------------------------------------------------------------
(* The commands *)

(* Faulty variant: one arm of the match too wide. *)
LeadsToShipEarly(stage) ==
    IF stage = "ship" THEN {"review", "qa", "ship"} ELSE P!PublicStages

(* The stages from which validate_transition lets a workflow reach another. *)
LeadsTo(stage) ==
    CASE stage = "discover"              -> P!PublicStages
      [] stage = "research"              -> {"discover", "research"}
      [] stage = "plan"                  -> {"discover", "research", "plan"}
      [] stage = "implement"             -> {"plan", "implement", "review", "qa"}
      [] stage = "review"                -> {"implement", "review"}
      [] stage = "qa"                    -> {"review", "qa"}
      [] stage = "ship"                  -> {"qa", "ship"}
      [] stage = "summary"               -> {"ship", "summary"}
      [] stage = "complete"              -> {"summary"}

(* Faulty variant: discovery is not asserted on the way to plan. *)
EntryGateButDiscovery(s, f, stage) ==
    /\ stage = "implement" => PlanReady(s, f)
    /\ stage = "qa" => ReviewReady(f)
    /\ stage = "ship" => QaReady(s, f)
    /\ stage \in {"summary", "complete"} => SummaryReady(s, f)

(* The gate it asserts on the way in; research and review have none. *)
EntryGate(s, f, stage) ==
    /\ stage = "plan" /\ s.stage \in {"discover", "research"} => DiscoveryReady(f)
    /\ stage = "implement" => PlanReady(s, f)
    /\ stage = "qa" => ReviewReady(f)
    /\ stage = "ship" => QaReady(s, f)
    /\ stage \in {"summary", "complete"} => SummaryReady(s, f)

(* Faulty variant: a blocked phase may not even be retried. *)
AcceptsUnblocked(s, f, to, status) ==
    /\ ~Blocked(s)
    /\ s.stage \in LeadsTo(Target[to].stage)
    /\ EntryGate(s, f, Target[to].stage)

Accepts(s, f, to, status) ==
    LET stage == Target[to].stage IN
    /\ stage # s.stage => ~Blocked(s)
    /\ stage \in {"plan", "implement"} => ConcreteTask(s, f)
    /\ to = "plan" /\ status = "complete" => PlanReady(s, f)
    /\ s.stage \in LeadsTo(stage)
    /\ EntryGate(s, f, stage)

(* Faulty variant: the phase's status is copied. *)
WorkflowStatusAsAsked(status) == status

WorkflowStatusFor(status) ==
    IF status \in {"paused", "blocked"} THEN status ELSE "in_progress"

(* state.json after an accepted transition to a stage or phase.  Only the  *)
(* public name of a stage marks it complete in public_stage_history.       *)
Moved(s, to, status) ==
    LET t == Target[to] IN
    [s EXCEPT !.stage = t.stage,
              !.phase = t.phase,
              !.phaseStatus = status,
              !.workflowStatus = WorkflowStatusFor(status),
              !.blockedReason = IF status = "blocked" THEN @ ELSE FALSE,
              !.planned = IF status = "complete" THEN @ \cup ({t.phase} \cap {"design", "tasks"})
                                                 ELSE @,
              !.discoverDone = IF t.stage = "discover" /\ ~t.internal /\ status = "complete"
                                  THEN TRUE ELSE @,
              !.qaBlocked = IF t.stage = "qa" THEN status = "blocked" ELSE @]

Completed(s) == [s EXCEPT !.workflowStatus = "complete", !.phaseStatus = "complete"]

Paused(s) ==
    [s EXCEPT !.workflowStatus = "paused", !.phaseStatus = "paused", !.pauseReason = TRUE]

(* Faulty variant: the phase stays paused. *)
ResumedWorkflowOnly(s) == [s EXCEPT !.workflowStatus = "in_progress", !.pauseReason = FALSE]

Resumed(s) ==
    [s EXCEPT !.workflowStatus = "in_progress",
              !.phaseStatus = IF @ = "paused" THEN "in_progress" ELSE @,
              !.pauseReason = FALSE]

(* A denied transition leaves state.json as it was, and is no step here. *)
Transition(to, status) ==
    /\ to # "complete"
    /\ Accepts(state, facts, to, status)
    /\ state' = Moved(state, to, status)
    /\ ledger' = (ledger \cup Holding(state, facts)) \cap P!Upstream[Target[to].stage]
    /\ UNCHANGED facts

TransitionComplete ==
    /\ \E status \in Statuses : Accepts(state, facts, "complete", status)
    /\ state' = Completed(state)
    /\ ledger' = ledger \cup Holding(state, facts)
    /\ UNCHANGED facts

(* wb-runtime complete: the summary gate alone, from any stage. *)
Complete ==
    /\ SummaryReady(state, facts)
    /\ state' = Completed(state)
    /\ ledger' = ledger \cup Holding(state, facts)
    /\ UNCHANGED facts

Pause == state' = Paused(state) /\ UNCHANGED <<facts, ledger>>

Resume == state' = Resumed(state) /\ UNCHANGED <<facts, ledger>>

(* wb-runtime event append qa_failed / qa_passed *)
AppendQaEvent ==
    /\ "qaFailed" \in Editable
    /\ facts' \in {facts \cup {"qaFailed"}, facts \ {"qaFailed"}}
    /\ UNCHANGED <<state, ledger>>

-----------------------------------------------------------------------------
(* The agent: artifacts come and go.  A complete discovery includes a      *)
(* requirements.md, so it comes with a goal.                               *)

Coherent(f) == "discovery" \in f => "goal" \in f

EditArtifact(fact) ==
    /\ facts' \in {facts \cup {fact}, facts \ {fact}}
    /\ Coherent(facts')
    /\ UNCHANGED <<state, ledger>>

(* state.blocked_reason is written by hand: no command sets it. *)
RecordBlocker ==
    /\ state' = [state EXCEPT !.blockedReason = TRUE]
    /\ UNCHANGED <<facts, ledger>>

Init ==
    /\ state = DefaultState
    /\ facts = Facts \ (Editable \cup {"qaFailed"})
    /\ ledger = {}

Next ==
    \/ \E to \in Requests, status \in Statuses : Transition(to, status)
    \/ TransitionComplete
    \/ Complete
    \/ Pause
    \/ Resume
    \/ AppendQaEvent
    \/ \E fact \in Editable \ {"qaFailed"} : EditArtifact(fact)
    \/ RecordBlocker

Spec == Init /\ [][Next]_vars

-----------------------------------------------------------------------------
(* Properties *)

(* state.json, the facts and the history stay in their types. *)
TypeOK ==
    /\ state \in States
    /\ facts \subseteq Facts
    /\ Coherent(facts)
    /\ ledger \subseteq P!Gates

(* A workflow stands at a stage only if every gate before that stage has   *)
(* held since the workflow last stood before it: going back to implement   *)
(* voids the review, going back to discover voids everything.  Over any    *)
(* sequence of commands, denials and artifact edits.                       *)
GatesBeforeStage == P!Upstream[state.stage] \subseteq ledger

(* However a workflow came to be reported complete, by transition or by    *)
(* the complete command, the review and QA gates held.                     *)
CompletionEarned == state.workflowStatus = "complete" => {"review", "qa"} \subseteq ledger

(* workflow_status and phase_status are set by six commands, each its own  *)
(* way, and readers look at one or the other: they must agree on what is   *)
(* paused, blocked and complete.  A resumed phase may still be blocked.    *)
StatusAgreement ==
    /\ state.workflowStatus = "paused" <=> state.phaseStatus = "paused"
    /\ state.workflowStatus = "blocked" => state.phaseStatus = "blocked"
    /\ state.workflowStatus = "complete" => state.phaseStatus = "complete"
    /\ state.phase \in {Target[to].phase : to \in {r \in Requests : Target[r].stage = state.stage}}

(* With its artifacts in place a blocked phase, wherever it is blocked     *)
(* before summary, can be retried in place, which lifts the blocker.       *)
RetryUnblocks(s, f) ==
    \E to \in Requests : /\ Target[to].stage = s.stage
                         /\ Accepts(s, f, to, "in_progress")
                         /\ ~Blocked(Moved(s, to, "in_progress"))

InPlace == {"goal", "discovery", "planFiles", "review", "qaEvidence"}

BlockedRecovers ==
    Blocked(state) /\ facts = InPlace /\ state.stage # "summary" => RetryUnblocks(state, facts)

(* The stage machine implements the abstract pipeline. *)
PipelineRefined == P!PipelineSpec
=============================================================================
