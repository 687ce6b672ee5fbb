----------------------------- MODULE HookMirror -----------------------------
(***************************************************************************)
(* The review and QA gates as the hook computes them in Python             *)
(* (hooks/wannabuild-route.py) where wb-runtime is not installed, over the *)
(* same loop state, verdict files and evidence as Review.  The iteration   *)
(* of the loop state may list active reviewers, which wb-runtime ignores,  *)
(* and evidence records that do not verify lie beside those that do: both  *)
(* are parameters here, `active` and `recorded`.                           *)
(***************************************************************************)
EXTENDS Review

(* Faulty variant: only the loop state tells the current iteration. *)
CurrentIterationOfLoop(recorded) == Max({1, loop.iteration})

(* _current_iteration: the latest of the loop state and of the name of any *)
(* file in the review directory, verdict or evidence record.  Payloads are *)
(* not read.                                                               *)
CurrentIteration(recorded) ==
    Max({1, loop.iteration} \cup recorded
        \cup {n \in Iterations : \E a \in Required : files[a][n] # Nothing})

(* _integration_evidence_ok *)
EvidenceOk(recorded) == CurrentIteration(recorded) \in attested

RequiredByHook(active) == (IF active = {} THEN Required ELSE active) \cup {IntegrationTester}

(* Faulty variant: a verdict in a file replaces the one of the loop state. *)
HookVerdictFilesFirst(f, a) == IF f[a] # Nothing THEN f[a] ELSE LoopVerdict(a)

(* Files only fill the gaps of the loop state; of a file it is the         *)
(* payload's iteration that counts, here too.                              *)
HookVerdict(f, a) == IF InLoop(a) THEN LoopVerdict(a) ELSE f[a]

(* review_ready: the iterations of the verdicts are not compared. *)
HookReviewReady(f, active, recorded) ==
    /\ (\E a \in RequiredByHook(active) : ~InLoop(a)) => FilesParse
    /\ \A a \in RequiredByHook(active) : Says(HookVerdict(f, a).status) = "PASS"
    /\ EvidenceOk(recorded)

-----------------------------------------------------------------------------
(* Properties.  What the agent lists and which records lie about is free. *)

RecordedSets == {recorded \in SUBSET Iterations : attested \subseteq recorded}

(* The convention of artifact-contracts.md: a verdict file is named for    *)
(* the iteration in it, or for a later one.                                *)
NamesTell == \A a \in Required, n \in Iterations : files[a][n].iteration <= n

(* A review that wb-runtime passes the hook passes, too, unless a file     *)
(* named for a later iteration than wb-runtime has looked at lies in the   *)
(* directory, or one that is named for an earlier one than its own.        *)
HookFollows ==
    \A f \in Readings, active \in SUBSET Required, recorded \in RecordedSets :
        ReviewReady(f) /\ CurrentIteration(recorded) = TargetIteration(f)
            => HookReviewReady(f, active, recorded)

(* As long as no file is named for an earlier iteration than its own, what *)
(* the hook passes, as review or as QA, has verified evidence of an        *)
(* iteration not older than any verdict that it or wb-runtime looks at.    *)
HookEvidenceIsCurrent ==
    \A f \in Readings, recorded \in RecordedSets :
        NamesTell /\ EvidenceOk(recorded) => \E i \in attested : TargetIteration(f) <= i

(* What trust-model.md says of hosts without the binary: the hook computes *)
(* the same verdicts from the artifacts, so nobody can claim a gate passed *)
(* that did not.  Here for a loop state that lists no reviewers, with      *)
(* evidence for the iteration that wb-runtime asks about, and with files   *)
(* named as they should be.                                                *)
HookNeverLooser ==
    \A f \in Readings, recorded \in RecordedSets :
        NamesTell /\ HookReviewReady(f, {}, recorded) /\ TargetIteration(f) \in attested
            => ReviewReady(f)
=============================================================================
