SPECIFICATION Spec
CONSTANTS
  Statuses = {"pending", "in_progress", "complete", "blocked", "paused"}
  Editable = {"goal", "discovery", "planFiles", "review", "qaEvidence", "qaFailed"}
INVARIANTS
  TypeOK
  GatesBeforeStage
  CompletionEarned
  StatusAgreement
  BlockedRecovers
  HandoffAccepted
  ActionPermitted
  ApprovalAdvances
PROPERTY PipelineRefined
