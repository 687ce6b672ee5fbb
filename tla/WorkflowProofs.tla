-------------------------- MODULE WorkflowProofs --------------------------
(***************************************************************************)
(* What holds of Workflow for every set of requested statuses and every    *)
(* set of facts that may change; and advice and enforcement (Guidance) do  *)
(* not contradict each other, at any stage and with any artifacts: what    *)
(* context and adapter tell the agent to do the commands accept.           *)
(***************************************************************************)
EXTENDS Guidance, TLAPS

-----------------------------------------------------------------------------
(* The table of requests *)

(* Every request names a stage and a phase of the right kind; only         *)
(* complete names no public stage.                                         *)
LEMMA RequestsKnown ==
    Requests = {"requirements", "design", "tasks", "document", "discover", "research", "plan",
                "implement", "review", "qa", "ship", "summary", "complete"}
BY DEF Requests, Target

LEMMA TargetType ==
    ASSUME NEW to \in Requests, to # "complete"
    PROVE  Target[to].stage \in P!PublicStages /\ Target[to].phase \in Phases
<1>1. Target[to].stage \in P!PublicStages
  BY RequestsKnown, SMTT(30) DEF Target, P!PublicStages
<1>2. Target[to].phase \in Phases
  BY DEF Phases
<1> QED BY <1>1, <1>2

LEMMA HoldingType == \A s, f : Holding(s, f) \subseteq P!Gates
BY DEF Holding

-----------------------------------------------------------------------------
(* Type correctness *)

LEMMA MovedType ==
    ASSUME NEW s \in States, NEW to \in Requests, to # "complete", NEW status \in Statuses
    PROVE  Moved(s, to, status) \in States
<1>1. status \in AllStatuses
  BY StatusesAssumption
<1>2. WorkflowStatusFor(status) \in WorkflowStatuses
  BY <1>1 DEF WorkflowStatusFor, WorkflowStatuses
<1> QED BY <1>1, <1>2, TargetType DEF Moved, States

LEMMA OtherStatesType ==
    ASSUME NEW s \in States
    PROVE  Completed(s) \in States /\ Paused(s) \in States /\ Resumed(s) \in States
BY DEF Completed, Paused, Resumed, States, AllStatuses, WorkflowStatuses

(* The initial state is well typed. *)
LEMMA TypeInit == Init => TypeOK
<1> SUFFICES ASSUME Init PROVE TypeOK
  OBVIOUS
<1>1. "requirements" \in Phases
  BY RequestsKnown DEF Phases, Target
<1>2. state \in States
  BY <1>1 DEF Init, DefaultState, States, P!PublicStages, AllStatuses, WorkflowStatuses
<1>3. facts \subseteq Facts /\ Coherent(facts)
  BY EditableAssumption DEF Init, Facts, Coherent
<1> QED BY <1>2, <1>3 DEF Init, TypeOK

(* Every step keeps the types. *)
LEMMA TypeStep == TypeOK /\ [Next]_vars => TypeOK'
<1> SUFFICES ASSUME TypeOK, [Next]_vars PROVE TypeOK'
  OBVIOUS
<1> USE DEF TypeOK
<1>1. ASSUME NEW to \in Requests, NEW status \in Statuses, Transition(to, status) PROVE TypeOK'
  <2>1. state' \in States
    BY <1>1, MovedType DEF Transition
  <2>2. ledger' \subseteq P!Gates
    BY <1>1, HoldingType DEF Transition
  <2> QED BY <1>1, <2>1, <2>2 DEF Transition
<1>2. ASSUME TransitionComplete \/ Complete PROVE TypeOK'
  BY <1>2, OtherStatesType, HoldingType DEF TransitionComplete, Complete
<1>3. ASSUME Pause \/ Resume PROVE TypeOK'
  BY <1>3, OtherStatesType DEF Pause, Resume
<1>4. CASE AppendQaEvent
  BY <1>4 DEF AppendQaEvent, Coherent, Facts
<1>5. ASSUME NEW fact \in Editable \ {"qaFailed"}, EditArtifact(fact) PROVE TypeOK'
  BY <1>5, EditableAssumption DEF EditArtifact
<1>6. CASE RecordBlocker
  BY <1>6 DEF RecordBlocker, States
<1>7. CASE UNCHANGED vars
  BY <1>7 DEF vars
<1> QED BY <1>1, <1>2, <1>3, <1>4, <1>5, <1>6, <1>7 DEF Next

(* state.json, the facts and the history keep their types under any        *)
(* sequence of commands and edits.                                         *)
THEOREM WorkflowTypes == Spec => []TypeOK
BY TypeInit, TypeStep, PTL DEF Spec

-----------------------------------------------------------------------------
(* Gates *)

(* An accepted transition finds the gates of its own stage holding, or     *)
(* starts from a stage that had them behind it.                            *)
LEMMA AcceptedGates ==
    ASSUME NEW s \in States, NEW f, NEW to \in Requests, to # "complete",
           NEW status \in Statuses, Accepts(s, f, to, status)
    PROVE  P!Upstream[Target[to].stage] \subseteq P!Upstream[s.stage] \cup Holding(s, f)
<1> DEFINE stage == Target[to].stage
<1>1. stage \in P!PublicStages /\ s.stage \in P!PublicStages
  BY TargetType DEF States
<1>2. s.stage \in LeadsTo(stage) /\ EntryGate(s, f, stage)
  BY DEF Accepts
<1>3. \A g \in P!Gates : g \in Holding(s, f) <=> \/ g = "discovery" /\ DiscoveryReady(f)
                                                 \/ g = "plan" /\ PlanReady(s, f)
                                                 \/ g = "review" /\ ReviewReady(f)
                                                 \/ g = "qa" /\ QaReady(s, f)
  BY DEF Holding
<1> USE <1>1, <1>2, <1>3 DEF P!Upstream, P!Gates
<1>4. CASE stage \in {"discover", "research"}
  BY <1>4
<1>5. CASE stage = "plan"
  BY <1>5 DEF LeadsTo, EntryGate
<1>6. CASE stage = "implement"
  BY <1>6 DEF LeadsTo, EntryGate
<1>7. CASE stage = "review"
  BY <1>7 DEF LeadsTo
<1>8. CASE stage = "qa"
  BY <1>8 DEF LeadsTo, EntryGate
<1>9. CASE stage = "ship"
  BY <1>9 DEF LeadsTo, EntryGate
<1>10. CASE stage = "summary"
  BY <1>10 DEF LeadsTo
<1> QED BY <1>4, <1>5, <1>6, <1>7, <1>8, <1>9, <1>10 DEF P!PublicStages

(* An accepted transition moves the way the pipeline does. *)
LEMMA AcceptedMoves ==
    ASSUME NEW s \in States, NEW f, NEW to \in Requests, to # "complete",
           NEW status \in Statuses, Accepts(s, f, to, status)
    PROVE  Target[to].stage \in P!Successors[s.stage]
<1> DEFINE stage == Target[to].stage
<1>1. stage \in P!PublicStages /\ s.stage \in P!PublicStages
  BY TargetType DEF States
<1>2. s.stage \in LeadsTo(stage)
  BY DEF Accepts
<1> QED BY <1>1, <1>2 DEF LeadsTo, P!PublicStages, P!Successors

(* The summary gate includes the review and the QA gate. *)
LEMMA SummaryGates ==
    ASSUME NEW s, NEW f, SummaryReady(s, f)
    PROVE  {"review", "qa"} \subseteq Holding(s, f)
BY DEF SummaryReady, Holding, P!Gates

LEMMA CompleteGates ==
    ASSUME NEW s, NEW f, NEW status, Accepts(s, f, "complete", status)
    PROVE  SummaryReady(s, f)
<1>1. Target["complete"].stage = "complete"
  BY SMTT(30) DEF Target
<1> QED BY <1>1 DEF Accepts, EntryGate

-----------------------------------------------------------------------------
(* Safety *)

(* Inductive: a stage's gates are in the ledger, and completion is earned. *)
IInv == TypeOK /\ GatesBeforeStage /\ CompletionEarned

LEMMA InvInit == Init => IInv
<1> SUFFICES ASSUME Init PROVE IInv
  OBVIOUS
<1>1. state.stage = "discover" /\ state.workflowStatus = "in_progress"
  BY DEF Init, DefaultState
<1> QED BY <1>1, TypeInit DEF IInv, GatesBeforeStage, CompletionEarned, P!Upstream

(* What each command does to the fields the invariant and the pipeline see. *)
LEMMA MovedFields ==
    ASSUME NEW s \in States, NEW to \in Requests, NEW status \in Statuses
    PROVE  /\ Moved(s, to, status).stage = Target[to].stage
           /\ Moved(s, to, status).workflowStatus # "complete"
BY DEF Moved, States, WorkflowStatusFor

LEMMA OtherFields ==
    ASSUME NEW s \in States
    PROVE  /\ Completed(s).stage = s.stage /\ Completed(s).workflowStatus = "complete"
           /\ Paused(s).stage = s.stage /\ Paused(s).workflowStatus # "complete"
           /\ Resumed(s).stage = s.stage /\ Resumed(s).workflowStatus # "complete"
BY DEF Completed, Paused, Resumed, States

LEMMA InvStep == IInv /\ [Next]_vars => IInv'
<1> SUFFICES ASSUME IInv, [Next]_vars PROVE IInv'
  OBVIOUS
<1>1. TypeOK /\ TypeOK'
  BY TypeStep DEF IInv
<1>2. state \in States /\ state.stage \in P!PublicStages
  BY <1>1 DEF TypeOK, States
<1> SUFFICES GatesBeforeStage' /\ CompletionEarned'
  BY <1>1 DEF IInv
<1> USE DEF GatesBeforeStage, CompletionEarned
<1>3. ASSUME NEW to \in Requests, NEW status \in Statuses, Transition(to, status)
      PROVE  GatesBeforeStage' /\ CompletionEarned'
  <2>1. state'.stage = Target[to].stage /\ state'.workflowStatus # "complete"
    BY <1>2, <1>3, MovedFields DEF Transition
  <2>2. P!Upstream[Target[to].stage] \subseteq P!Upstream[state.stage] \cup Holding(state, facts)
    BY <1>2, <1>3, AcceptedGates DEF Transition
  <2>3. P!Upstream[state'.stage] \subseteq ledger'
    BY <1>3, <2>1, <2>2 DEF Transition, IInv
  <2> QED BY <2>1, <2>3
<1>4. ASSUME TransitionComplete \/ Complete
      PROVE  GatesBeforeStage' /\ CompletionEarned'
  <2>1. {"review", "qa"} \subseteq Holding(state, facts)
    BY <1>4, CompleteGates, SummaryGates DEF TransitionComplete, Complete
  <2>2. state'.stage = state.stage /\ ledger' = ledger \cup Holding(state, facts)
    BY <1>2, <1>4, OtherFields DEF TransitionComplete, Complete
  <2> QED BY <2>1, <2>2 DEF IInv
<1>5. ASSUME Pause \/ Resume
      PROVE  GatesBeforeStage' /\ CompletionEarned'
  BY <1>2, <1>5, OtherFields DEF Pause, Resume, IInv
<1>6. ASSUME AppendQaEvent \/ (\E fact \in Editable \ {"qaFailed"} : EditArtifact(fact))
      PROVE  GatesBeforeStage' /\ CompletionEarned'
  BY <1>6 DEF AppendQaEvent, EditArtifact, IInv
<1>7. ASSUME RecordBlocker
      PROVE  GatesBeforeStage' /\ CompletionEarned'
  BY <1>2, <1>7 DEF RecordBlocker, IInv, States
<1>8. ASSUME UNCHANGED vars
      PROVE  GatesBeforeStage' /\ CompletionEarned'
  BY <1>8 DEF vars, IInv
<1> QED BY <1>3, <1>4, <1>5, <1>6, <1>7, <1>8 DEF Next

LEMMA WorkflowInv == Spec => []IInv
BY InvInit, InvStep, PTL DEF Spec

(* No sequence of commands and edits brings a workflow to a stage whose    *)
(* gates have not all held since it last stood before them.                *)
THEOREM StagesEarned == Spec => []GatesBeforeStage
BY WorkflowInv, PTL DEF IInv

(* A workflow is never reported complete unless review and QA held.        *)
THEOREM CompletionsEarned == Spec => []CompletionEarned
BY WorkflowInv, PTL DEF IInv

-----------------------------------------------------------------------------
(* The two statuses of state.json *)

SInv == TypeOK /\ StatusAgreement

LEMMA AgreementInit == Init => StatusAgreement
<1> SUFFICES ASSUME Init PROVE StatusAgreement
  OBVIOUS
<1>1. "requirements" \in Requests /\ Target["requirements"].stage = "discover"
      /\ Target["requirements"].phase = "requirements"
  BY RequestsKnown, SMTT(30) DEF Target
<1> QED BY <1>1 DEF Init, DefaultState, StatusAgreement

LEMMA AgreementStep == SInv /\ [Next]_vars => SInv'
<1> SUFFICES ASSUME SInv, [Next]_vars PROVE StatusAgreement'
  BY TypeStep DEF SInv
<1>1. state \in States /\ StatusAgreement
  BY DEF SInv, TypeOK
<1>2. ASSUME NEW to \in Requests, NEW status \in Statuses, Transition(to, status)
      PROVE  StatusAgreement'
  <2>1. /\ state'.stage = Target[to].stage /\ state'.phase = Target[to].phase
        /\ state'.phaseStatus = status /\ state'.workflowStatus = WorkflowStatusFor(status)
    BY <1>1, <1>2 DEF Transition, Moved, States
  <2>2. /\ state'.workflowStatus = "paused" <=> state'.phaseStatus = "paused"
        /\ state'.workflowStatus = "blocked" => state'.phaseStatus = "blocked"
        /\ state'.workflowStatus # "complete"
    BY <2>1 DEF WorkflowStatusFor
  <2> QED BY <2>1, <2>2 DEF StatusAgreement
<1>3. ASSUME TransitionComplete \/ Complete PROVE StatusAgreement'
  <2>1. /\ state'.workflowStatus = "complete" /\ state'.phaseStatus = "complete"
        /\ state'.stage = state.stage /\ state'.phase = state.phase
    BY <1>1, <1>3 DEF TransitionComplete, Complete, Completed, States
  <2> QED BY <1>1, <2>1 DEF StatusAgreement
<1>4. ASSUME Pause \/ Resume PROVE StatusAgreement'
  <2>1. state'.stage = state.stage /\ state'.phase = state.phase
    BY <1>1, <1>4 DEF Pause, Resume, Paused, Resumed, States
  <2>2. CASE Pause
    <3>1. state'.workflowStatus = "paused" /\ state'.phaseStatus = "paused"
      BY <1>1, <2>2 DEF Pause, Paused, States
    <3> QED BY <1>1, <2>1, <3>1 DEF StatusAgreement
  <2>3. CASE Resume
    <3>1. state'.workflowStatus = "in_progress" /\ state'.phaseStatus # "paused"
      BY <1>1, <2>3 DEF Resume, Resumed, States
    <3> QED BY <1>1, <2>1, <3>1 DEF StatusAgreement
  <2> QED BY <1>4, <2>2, <2>3
<1>5. ASSUME AppendQaEvent \/ (\E fact \in Editable \ {"qaFailed"} : EditArtifact(fact))
      PROVE  StatusAgreement'
  BY <1>1, <1>5 DEF AppendQaEvent, EditArtifact, StatusAgreement
<1>6. ASSUME RecordBlocker PROVE StatusAgreement'
  BY <1>1, <1>6 DEF RecordBlocker, States, StatusAgreement
<1>7. ASSUME UNCHANGED vars PROVE StatusAgreement'
  BY <1>1, <1>7 DEF vars, StatusAgreement
<1> QED BY <1>2, <1>3, <1>4, <1>5, <1>6, <1>7 DEF Next

(* The statuses of the workflow and of its phase agree after any sequence  *)
(* of the commands that set them.                                          *)
THEOREM StatusesAgree == Spec => []StatusAgreement
<1>1. Init => SInv
  BY TypeInit, AgreementInit DEF SInv
<1> QED BY <1>1, AgreementStep, PTL DEF SInv, Spec

-----------------------------------------------------------------------------
(* Refinement *)

LEMMA RefinesInit == Init => P!PipelineInit
BY DEF Init, DefaultState, P!PipelineInit

LEMMA RefinesStep == IInv /\ IInv' /\ [Next]_vars => [P!PipelineNext]_(P!pipelineVars)
<1> SUFFICES ASSUME IInv, IInv', [Next]_vars PROVE [P!PipelineNext]_(P!pipelineVars)
  OBVIOUS
<1>1. state \in States /\ ledger \subseteq P!Gates /\ ledger' \subseteq P!Gates
  BY DEF IInv, TypeOK
<1>2. ASSUME NEW to \in Requests, NEW status \in Statuses, Transition(to, status)
      PROVE  P!Move(Target[to].stage) /\ Target[to].stage \in P!PublicStages
  <2>1. state'.stage = Target[to].stage /\ state'.workflowStatus # "complete"
    BY <1>1, <1>2, MovedFields DEF Transition
  <2>2. Target[to].stage \in P!Successors[state.stage] /\ Target[to].stage \in P!PublicStages
    BY <1>1, <1>2, AcceptedMoves, TargetType DEF Transition
  <2>3. ledger \cap P!Upstream[Target[to].stage] \subseteq ledger'
    BY <1>2 DEF Transition
  <2>4. P!Upstream[Target[to].stage] \subseteq ledger'
    BY <2>1 DEF IInv, GatesBeforeStage
  <2> QED BY <1>1, <2>1, <2>2, <2>3, <2>4 DEF P!Move
<1>3. ASSUME TransitionComplete \/ Complete PROVE P!Finish
  <2>1. {"review", "qa"} \subseteq Holding(state, facts)
    BY <1>3, CompleteGates, SummaryGates DEF TransitionComplete, Complete
  <2>2. /\ state'.stage = state.stage /\ state'.workflowStatus = "complete"
        /\ ledger' = ledger \cup Holding(state, facts)
    BY <1>1, <1>3, OtherFields DEF TransitionComplete, Complete
  <2> QED BY <1>1, <2>1, <2>2 DEF P!Finish
<1>4. ASSUME Pause \/ Resume PROVE P!Reopen
  BY <1>1, <1>4, OtherFields DEF Pause, Resume, P!Reopen
<1>5. ASSUME AppendQaEvent \/ (\E fact \in Editable \ {"qaFailed"} : EditArtifact(fact))
      PROVE  UNCHANGED P!pipelineVars
  BY <1>5 DEF AppendQaEvent, EditArtifact, P!pipelineVars
<1>6. ASSUME RecordBlocker PROVE UNCHANGED P!pipelineVars
  BY <1>1, <1>6 DEF RecordBlocker, States, P!pipelineVars
<1>7. ASSUME UNCHANGED vars PROVE UNCHANGED P!pipelineVars
  BY <1>7 DEF vars, P!pipelineVars
<1> QED BY <1>2, <1>3, <1>4, <1>5, <1>6, <1>7 DEF Next, P!PipelineNext

(* The stage machine implements the pipeline: every command moves along it *)
(* or leaves it where it is.                                               *)
THEOREM WorkflowImplementsPipeline == Spec => PipelineRefined
BY RefinesInit, RefinesStep, WorkflowInv, PTL DEF Spec, PipelineRefined, P!PipelineSpec

-----------------------------------------------------------------------------
(* A way out of every block before summary *)

(* What an accepted request in another name than "plan" takes. *)
LEMMA AcceptsIf ==
    ASSUME NEW s \in States, NEW f, NEW stage \in P!PublicStages \cup {"complete"},
           stage # s.stage => ~Blocked(s),
           stage \in {"plan", "implement"} => ConcreteTask(s, f),
           s.stage \in LeadsTo(stage),
           EntryGate(s, f, stage)
    PROVE  Accepts(s, f, stage, "in_progress")
<1>1. Target[stage].stage = stage
  BY SMTT(30) DEF Target, P!PublicStages
<1> QED BY <1>1 DEF Accepts

(* QA is not left towards ship while it is blocked.                        *)
QaUnblockedAtShip == state.stage = "ship" => ~state.qaBlocked

LEMMA QaUnblockedInv == Spec => []QaUnblockedAtShip
<1>1. Init => QaUnblockedAtShip
  BY DEF Init, DefaultState, QaUnblockedAtShip
<1>2. TypeOK /\ QaUnblockedAtShip /\ [Next]_vars => QaUnblockedAtShip'
  <2> SUFFICES ASSUME TypeOK, QaUnblockedAtShip, [Next]_vars PROVE QaUnblockedAtShip'
    OBVIOUS
  <2> USE DEF QaUnblockedAtShip
  <2>1. state \in States
    BY DEF TypeOK
  <2>2. ASSUME NEW to \in Requests, NEW status \in Statuses, Transition(to, status)
        PROVE  QaUnblockedAtShip'
    <3> DEFINE stage == Target[to].stage
    <3>1. /\ Moved(state, to, status).stage = stage
          /\ Moved(state, to, status).qaBlocked
                = IF stage = "qa" THEN status = "blocked" ELSE state.qaBlocked
      BY <2>1 DEF Moved, States
    <3>2. stage = "ship" => ~state.qaBlocked
      BY <2>2 DEF Transition, Accepts, EntryGate, QaReady
    <3> QED BY <2>2, <3>1, <3>2 DEF Transition
  <2>3. ASSUME TransitionComplete \/ Complete \/ Pause \/ Resume PROVE QaUnblockedAtShip'
    BY <2>1, <2>3 DEF TransitionComplete, Complete, Pause, Resume, Completed, Paused, Resumed, States
  <2>4. CASE AppendQaEvent
    BY <2>4 DEF AppendQaEvent
  <2>5. ASSUME NEW fact \in Editable \ {"qaFailed"}, EditArtifact(fact) PROVE QaUnblockedAtShip'
    BY <2>5 DEF EditArtifact
  <2>6. CASE RecordBlocker
    BY <2>1, <2>6 DEF RecordBlocker, States
  <2>7. CASE UNCHANGED vars
    BY <2>7 DEF vars
  <2> QED BY <2>2, <2>3, <2>4, <2>5, <2>6, <2>7 DEF Next
<1> QED BY <1>1, <1>2, WorkflowTypes, PTL DEF Spec

(* With its artifacts in place a blocked phase, wherever it is blocked     *)
(* before summary, can be retried in place, which lifts the blocker.       *)
THEOREM BlocksAreLifted == Spec => []BlockedRecovers
<1>1. TypeOK /\ StatusAgreement /\ QaUnblockedAtShip => BlockedRecovers
  <2> SUFFICES ASSUME TypeOK, StatusAgreement, QaUnblockedAtShip,
                      facts = InPlace, state.stage # "summary"
               PROVE  RetryUnblocks(state, facts)
    BY DEF BlockedRecovers
  <2> DEFINE stage == state.stage
  <2>1. state \in States /\ stage \in P!PublicStages
    BY DEF TypeOK, States
  <2>2. stage \in Requests /\ stage # "complete"
    BY <2>1, RequestsKnown DEF P!PublicStages
  <2>3. Target[stage].stage = stage
    BY <2>1, SMTT(30) DEF Target, P!PublicStages
  <2>4. stage \in LeadsTo(stage)
    BY <2>1 DEF LeadsTo, P!PublicStages
  <2>5. stage = "ship" => state.phase # "qa"
    BY RequestsKnown, SMTT(30) DEF StatusAgreement, Target
  <2>6. EntryGate(state, facts, stage)
    BY <2>1, <2>5 DEF EntryGate, InPlace, DiscoveryReady, PlanReady, ReviewReady, QaReady,
                      QaStateFailed, QaUnblockedAtShip, P!PublicStages
  <2>7. Accepts(state, facts, stage, "in_progress")
    BY <2>1, <2>3, <2>4, <2>6, AcceptsIf DEF ConcreteTask, InPlace
  <2>8. ~Blocked(Moved(state, stage, "in_progress"))
    BY <2>1 DEF Moved, Blocked, States
  <2> QED BY <2>2, <2>3, <2>7, <2>8 DEF RetryUnblocks
<1> QED BY <1>1, WorkflowTypes, StatusesAgree, QaUnblockedInv, PTL

-----------------------------------------------------------------------------
(* Advice and enforcement *)

(* The gates that are required are those that do not hold. *)
LEMMA NoGateRequired ==
    ASSUME NEW s \in States, NEW f, RequiredGates(s, f) = {}
    PROVE  /\ s.stage \in Early => DiscoveryReady(f)
           /\ s.stage \notin Early => PlanReady(s, f)
           /\ s.stage \in {"review", "qa", "ship", "summary"} => ReviewReady(f)
           /\ s.stage \in {"qa", "ship", "summary"} => QaReady(s, f)
<1>1. \A g \in {"discovery", "plan", "review", "qa"} : g \notin RequiredGates(s, f)
  OBVIOUS
<1> QED BY <1>1 DEF RequiredGates, P!Gates

LEMMA NotBlocked ==
    ASSUME StatusAgreement, ~Blocked(state)
    PROVE  state.workflowStatus # "blocked"
BY DEF StatusAgreement, Blocked

(* When no gate is required the next stage may be entered. *)
LEMMA HandoffEnters ==
    ASSUME state \in States, StatusAgreement, RequiredGates(state, facts) = {}, ~Blocked(state)
    PROVE  LET stage == NextHandoff(state, facts) IN
           /\ stage \in P!PublicStages \cup {"complete"}
           /\ state.stage \in LeadsTo(stage)
           /\ EntryGate(state, facts, stage)
<1>1. state.stage \in P!PublicStages
  BY DEF States
<1> USE NoGateRequired, NotBlocked
    DEF P!PublicStages, Early, NextHandoff, LeadsTo, EntryGate, SummaryReady
<1>2. CASE state.stage \in Early
  BY <1>2
<1>3. CASE state.stage = "plan"
  BY <1>3
<1>4. CASE state.stage = "implement"
  BY <1>4
<1>5. CASE state.stage = "review"
  BY <1>5
<1>6. CASE state.stage \in {"qa", "ship"}
  BY <1>6
<1>7. CASE state.stage = "summary"
  BY <1>7
<1> QED BY <1>1, <1>2, <1>3, <1>4, <1>5, <1>6, <1>7

(* So may the stage of the next action. *)
LEMMA ActionEnters ==
    ASSUME state \in States, StatusAgreement, RequiredGates(state, facts) = {}, ~Blocked(state)
    PROVE  LET stage == AllowedNextAction(state, facts) IN
           /\ stage \in P!PublicStages
           /\ state.stage \in LeadsTo(stage)
           /\ EntryGate(state, facts, stage)
<1>1. state.stage \in P!PublicStages
  BY DEF States
<1> USE NoGateRequired, NotBlocked
    DEF P!PublicStages, Early, AllowedNextAction, LeadsTo, EntryGate, SummaryReady
<1>2. CASE state.stage \in Early
  BY <1>2
<1>3. CASE state.stage \in {"plan", "implement"}
  BY <1>3
<1>4. CASE state.stage = "review"
  BY <1>4
<1>5. CASE state.stage \in {"qa", "ship"}
  BY <1>5
<1>6. CASE state.stage = "summary"
  BY <1>6
<1> QED BY <1>1, <1>2, <1>3, <1>4, <1>5, <1>6

LEMMA ActionNotForbidden ==
    ASSUME state \in States
    PROVE  AllowedNextAction(state, facts) \notin Forbidden(state, facts)
<1> DEFINE action == AllowedNextAction(state, facts)
<1>1. state.stage \in P!PublicStages
  BY DEF States
<1>2. action \in P!PublicStages
  BY <1>1 DEF AllowedNextAction, Early, P!PublicStages
<1>3. Target[action].stage = action
  BY <1>2, SMTT(30) DEF Target, P!PublicStages
<1>4. state.stage \in {"review", "qa", "ship", "summary"} => action \notin Advances(state.stage)
  <2>1. state.stage \in {"review", "qa", "ship", "summary"} => action = state.stage
    BY DEF AllowedNextAction, Early
  <2> QED BY <1>3, <2>1 DEF Advances
<1> QED BY <1>1, <1>3, <1>4 DEF AllowedNextAction, Forbidden, Early, P!PublicStages

(* A forbidden request is for a stage whose gate does not hold, or which   *)
(* cannot be entered from here; but for ship, whose gate is that of QA.    *)
LEMMA ForbiddenNotAccepted ==
    ASSUME NEW s \in States, NEW f, NEW to \in Forbidden(s, f), NEW status,
           Accepts(s, f, to, status)
    PROVE  to = "ship" /\ QaReady(s, f)
<1> DEFINE stage == Target[to].stage
<1>1. s.stage \in LeadsTo(stage) /\ EntryGate(s, f, stage)
  BY DEF Accepts
<1>2. ~(stage = "plan" /\ s.stage \in Early /\ ~DiscoveryReady(f))
  BY <1>1 DEF EntryGate, Early
<1>3. ~(stage = "implement" /\ s.stage \notin Early /\ ~PlanReady(s, f))
  BY <1>1 DEF EntryGate
<1>4. to \in Advances(s.stage) /\ s.stage \in {"review", "qa", "ship", "summary"}
  BY <1>2, <1>3 DEF Forbidden
<1>5. stage \in {"qa", "ship", "summary", "complete"}
  BY <1>4 DEF Advances
<1>6. stage \notin {"summary", "complete"}
  <2> SUFFICES ASSUME stage \in {"summary", "complete"} PROVE FALSE
    OBVIOUS
  <2>1. ReviewReady(f) /\ QaReady(s, f)
    BY <1>1 DEF EntryGate, SummaryReady
  <2> QED BY <1>2, <1>3, <2>1 DEF Forbidden
<1>7. stage # "qa"
  <2> SUFFICES ASSUME stage = "qa" PROVE FALSE
    OBVIOUS
  <2>1. s.stage = "review" /\ ReviewReady(f)
    BY <1>1, <1>4 DEF Advances, EntryGate
  <2> QED BY <1>2, <1>3, <2>1 DEF Forbidden
<1>8. stage = "ship" /\ QaReady(s, f)
  BY <1>1, <1>5, <1>6, <1>7 DEF EntryGate
<1>9. to = "ship"
  <2>1. to \in Requests
    BY <1>4 DEF Advances
  <2> QED BY <1>8, <2>1, RequestsKnown, SMTT(30) DEF Target
<1> QED BY <1>8, <1>9

(* An approval releases a pause only where the gate of the boundary holds. *)
LEMMA BoundaryEnters ==
    ASSUME state \in States, AtPhaseBoundary(state, facts)
    PROVE  LET stage == NextHandoff(state, facts) IN
           /\ stage \in P!PublicStages
           /\ state.stage \in LeadsTo(stage)
           /\ EntryGate(state, facts, stage)
<1>1. state.stage \in {"discover", "research", "plan", "implement", "review", "qa"}
  BY DEF AtPhaseBoundary, Early
<1> USE DEF AtPhaseBoundary, P!PublicStages, Early, NextHandoff, LeadsTo, EntryGate
<1>2. CASE state.stage \in Early
  BY <1>2
<1>3. CASE state.stage = "plan"
  BY <1>3
<1>4. CASE state.stage = "implement"
  BY <1>4
<1>5. CASE state.stage = "review"
  BY <1>5
<1>6. CASE state.stage = "qa"
  BY <1>6
<1> QED BY <1>1, <1>2, <1>3, <1>4, <1>5, <1>6

-----------------------------------------------------------------------------
(* The theorems *)

(* When the context lists no required gate, the command it hands the work  *)
(* to is accepted, after any sequence of commands and edits.               *)
THEOREM HandoffsAccepted == Spec => []HandoffAccepted
<1>1. TypeOK /\ StatusAgreement => HandoffAccepted
  BY HandoffEnters, AcceptsIf DEF HandoffAccepted, TypeOK, ConcreteTask
<1> QED BY <1>1, WorkflowTypes, StatusesAgree, PTL

(* Whatever the context forbids is refused, but for ship from qa, for      *)
(* which the commands do not ask the review.                               *)
LEMMA ForbiddenRefused == TypeOK => ForbiddenIsRefused
<1> SUFFICES ASSUME TypeOK, NEW to \in Forbidden(state, facts)
             PROVE  /\ \A status \in AllStatuses :
                          Accepts(state, facts, to, status)
                             => to = "ship" /\ QaReady(state, facts)
                    /\ to = "complete" => ~SummaryReady(state, facts)
  BY DEF ForbiddenIsRefused
<1>1. \A status \in AllStatuses :
         Accepts(state, facts, to, status) => to = "ship" /\ QaReady(state, facts)
  BY ForbiddenNotAccepted DEF TypeOK
<1>2. to = "complete" => Target[to].stage = "complete"
  BY SMTT(30) DEF Target
<1>3. to = "complete" => ~SummaryReady(state, facts)
  BY <1>2 DEF Forbidden, SummaryReady
<1> QED BY <1>1, <1>3

(* After any sequence of commands and edits the next action that the       *)
(* context allows is one it does not forbid and, without a required gate,  *)
(* one that is accepted; and the commands refuse what it forbids.          *)
THEOREM ActionsPermitted == Spec => []ActionPermitted
<1>1. TypeOK /\ StatusAgreement => ActionPermitted
  BY ActionEnters, ActionNotForbidden, ForbiddenRefused, AcceptsIf
     DEF ActionPermitted, TypeOK, ConcreteTask
<1> QED BY <1>1, WorkflowTypes, StatusesAgree, PTL

(* A user who approves at a guided boundary is never turned away.          *)
THEOREM ApprovalsAdvance == Spec => []ApprovalAdvances
<1>1. TypeOK => ApprovalAdvances
  <2> SUFFICES ASSUME TypeOK, PauseRequired(state, facts, FALSE),
                      ~PauseRequired(state, facts, TRUE),
                      "goal" \in facts, ~state.blockedReason
               PROVE  Accepts(state, facts, NextHandoff(state, facts), "in_progress")
    BY DEF ApprovalAdvances
  <2>1. AtPhaseBoundary(state, facts)
    BY DEF PauseRequired, GuidedBoundaryPause
  <2>2. ~Blocked(state)
    BY <2>1 DEF AtPhaseBoundary, Blocked
  <2> QED BY <2>1, <2>2, BoundaryEnters, AcceptsIf DEF TypeOK, ConcreteTask
<1> QED BY <1>1, WorkflowTypes, PTL
=============================================================================
