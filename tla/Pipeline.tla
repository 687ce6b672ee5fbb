------------------------------ MODULE Pipeline ------------------------------
(***************************************************************************)
(* What the WannaBuild runtime promises of a workflow, without the files,  *)
(* statuses and histories it keeps to deliver it.  A workflow is at one    *)
(* public stage.  It moves forward along Successors only, and only when    *)
(* every gate that guards the new stage has been seen to hold since the    *)
(* workflow last stood before that gate.  `ledger` is that memory.         *)
(* Workflow is shown to implement this specification.                      *)
(***************************************************************************)

VARIABLES stage,   \* the public stage the workflow is at
          ledger,  \* gates seen to hold since the workflow last stood before them
          done     \* the workflow is reported complete

pipelineVars == <<stage, ledger, done>>

PublicStages ==
    {"discover", "research", "plan", "implement", "review", "qa", "ship", "summary"}

Gates == {"discovery", "plan", "review", "qa"}

(* The gates that guard a stage or one before it. *)
Upstream ==
    [discover  |-> {},                    research |-> {},
     plan      |-> {"discovery"},         implement |-> {"discovery", "plan"},
     review    |-> {"discovery", "plan"}, qa       |-> {"discovery", "plan", "review"},
     ship      |-> Gates,                 summary  |-> Gates]

(* The stages a workflow may be moved to from each stage: the next one,    *)
(* itself, back to discovery, and back to implementation for rework.       *)
Successors ==
    [discover  |-> {"discover", "research", "plan"},
     research  |-> {"discover", "research", "plan"},
     plan      |-> {"discover", "plan", "implement"},
     implement |-> {"discover", "implement", "review"},
     review    |-> {"discover", "implement", "review", "qa"},
     qa        |-> {"discover", "implement", "qa", "ship"},
     ship      |-> {"discover", "ship", "summary"},
     summary   |-> {"discover", "summary"}]

PipelineInit ==
    /\ stage = "discover"
    /\ ledger = {}
    /\ done = FALSE

(* Going to a stage forgets the gates that lie behind it and may record    *)
(* gates seen to hold on the way.                                          *)
Move(to) ==
    /\ to \in Successors[stage]
    /\ ledger' \subseteq Gates
    /\ ledger \cap Upstream[to] \subseteq ledger'
    /\ Upstream[to] \subseteq ledger'
    /\ stage' = to
    /\ done' = FALSE

(* The work is reported complete: review and QA hold at that moment. *)
Finish ==
    /\ ledger' \subseteq Gates
    /\ ledger \cup {"review", "qa"} \subseteq ledger'
    /\ done' = TRUE
    /\ UNCHANGED stage

(* A pause or a resume puts a completed workflow back in progress. *)
Reopen ==
    /\ done' = FALSE
    /\ UNCHANGED <<stage, ledger>>

PipelineNext ==
    \/ \E to \in PublicStages : Move(to)
    \/ Finish
    \/ Reopen

PipelineSpec == PipelineInit /\ [][PipelineNext]_pipelineVars
=============================================================================
