------------------------------- MODULE Review -------------------------------
(***************************************************************************)
(* How the review gate and the QA gate read the verdicts of the reviewers  *)
(* (gates.rs).  Verdicts come from two places that the agent writes        *)
(* independently, in any order: the latest iteration of loop-state.json    *)
(* and the files in the review directory.  A file has an iteration in its  *)
(* name, and its payload may have another one, which counts.  Both gates   *)
(* also want integration evidence, which Evidence models; here `attested`  *)
(* is the set of iterations whose evidence verifies.                       *)
(***************************************************************************)
EXTENDS Naturals, FiniteSetsExt

CONSTANTS Reviewers,     \* the required reviewers besides the integration tester
          MaxIteration   \* bound: iterations are 1..MaxIteration

VARIABLES loop,          \* the latest iteration in loop-state.json (0: none) and its verdicts
          files,         \* the review directory: per reviewer and iteration in the file name
          attested       \* iterations whose integration evidence verifies

vars == <<loop, files, attested>>

IntegrationTester == "wb-integration-tester"
Required == Reviewers \cup {IntegrationTester}
Iterations == 1..MaxIteration

(* HOLLOW says PASS, but its payload has no complete run and coverage map. *)
None == "none"
Verdicts == {"PASS", "HOLLOW", "FAIL"}
Says(verdict) == IF verdict = "HOLLOW" THEN "PASS" ELSE verdict

(* What a file may be: absent, no JSON, or a verdict for an iteration,     *)
(* which is the payload's, or the name's if the payload has none.          *)
Nothing == [status |-> None, iteration |-> 0]
Broken == [status |-> "broken", iteration |-> 0]
Contents == {Nothing, Broken} \cup [status : Verdicts, iteration : Iterations]

ASSUME ReviewAssumptions ==
    /\ MaxIteration \in Nat \ {0}
    /\ IntegrationTester \notin Reviewers

-----------------------------------------------------------------------------
(* The verdicts, as records of a status and an iteration *)

InLoop(a) == loop.verdicts[a] # None
LoopVerdict(a) == [status |-> loop.verdicts[a], iteration |-> loop.iteration]

(* One file that is no JSON fails the whole reading of the directory. *)
FilesParse == \A a \in Required, n \in Iterations : files[a][n] # Broken

(* The verdict in the latest of a reviewer's files, by the iterations that *)
(* count; among several of one iteration timestamps and names decide, so   *)
(* it may be any of them.                                                  *)
Latest(a) ==
    LET found == ({Nothing} \cup {files[a][n] : n \in Iterations}) \ {Broken}
    IN {v \in found : \A w \in found : w.iteration <= v.iteration}

(* latest_file_verdicts: what a reading of the directory may give. *)
Readings == {f \in [Required -> UNION {Latest(a) : a \in Required}] :
                \A a \in Required : f[a] \in Latest(a)}

(* The loop state first; the files only for the reviewers it lacks. *)
VerdictOf(f, a) == IF InLoop(a) THEN LoopVerdict(a) ELSE f[a]

(* Faulty variant: an iteration without verdicts does not count yet. *)
TargetOfVerdicts(f) == Max({VerdictOf(f, a).iteration : a \in Required})

(* An iteration that was declared counts, even before it has verdicts. *)
TargetIteration(f) == Max({loop.iteration} \cup {VerdictOf(f, a).iteration : a \in Required})

(* assert_review_ready *)
ReviewReady(f) ==
    /\ (\E a \in Required : ~InLoop(a)) => FilesParse
    /\ \A a \in Required : /\ VerdictOf(f, a).iteration = TargetIteration(f)
                           /\ Says(VerdictOf(f, a).status) = "PASS"
    /\ TargetIteration(f) \in attested

(* Faulty variant: a file wins whatever its iteration. *)
FileVerdictsFirst(f) ==
    IF FilesParse /\ f[IntegrationTester] # Nothing THEN {f[IntegrationTester]}
    ELSE IF InLoop(IntegrationTester) THEN {LoopVerdict(IntegrationTester)}
    ELSE {}

(* latest_integration_verdict: the later of loop state and file, and here  *)
(* files that cannot be read count as absent.  Within an iteration         *)
(* timestamps decide, so it may be either.                                 *)
IntegrationVerdicts(f) ==
    LET candidates ==
          {v \in {LoopVerdict(IntegrationTester)} : InLoop(IntegrationTester)}
          \cup {v \in {f[IntegrationTester]} : FilesParse /\ v # Nothing}
    IN {v \in candidates : \A w \in candidates : w.iteration <= v.iteration}

(* The integration part of assert_qa_ready, given the verdict it looks at. *)
QaAccepts(verdict) == verdict.status = "PASS" /\ verdict.iteration \in attested

-----------------------------------------------------------------------------
(* The agent *)

(* A rerun of the loop: the next iteration is declared, without verdicts. *)
StartIteration ==
    /\ loop.iteration < MaxIteration
    /\ loop' = [iteration |-> loop.iteration + 1, verdicts |-> [a \in Required |-> None]]
    /\ UNCHANGED <<files, attested>>

(* Faulty variant: verdicts without an iteration. *)
RecordVerdictAnyTime(a, verdict) ==
    /\ loop' = [iteration |-> loop.iteration,
                verdicts |-> [loop.verdicts EXCEPT ![a] = verdict]]
    /\ UNCHANGED <<files, attested>>

(* The orchestrator copies a verdict into the loop state. *)
RecordVerdict(a, verdict) ==
    /\ loop.iteration > 0
    /\ loop' = [iteration |-> loop.iteration,
                verdicts |-> [loop.verdicts EXCEPT ![a] = verdict]]
    /\ UNCHANGED <<files, attested>>

(* A reviewer answers, for an older iteration perhaps, or a newer one, in  *)
(* a file named for iteration n whose payload is for iteration i.          *)
WriteVerdict(a, n, verdict, i) ==
    /\ files' = [files EXCEPT ![a][n] = [status |-> verdict, iteration |-> i]]
    /\ UNCHANGED <<loop, attested>>

(* Its answer is no JSON, or not yet a complete one. *)
BreakFile(a, n) ==
    /\ files' = [files EXCEPT ![a][n] = Broken]
    /\ UNCHANGED <<loop, attested>>

(* Evidence is recorded or restored for an iteration. *)
Attest(i) ==
    /\ attested' = attested \cup {i}
    /\ UNCHANGED <<loop, files>>

(* The spec or the test command changes. *)
Invalidate ==
    /\ attested' = {}
    /\ UNCHANGED <<loop, files>>

Init ==
    /\ loop = [iteration |-> 0, verdicts |-> [a \in Required |-> None]]
    /\ files = [a \in Required |-> [n \in Iterations |-> Nothing]]
    /\ attested = {}

(* Only the integration tester's payload is looked into. *)
VerdictsOf(a) == IF a = IntegrationTester THEN Verdicts ELSE Verdicts \ {"HOLLOW"}

Next ==
    \/ StartIteration
    \/ \E a \in Required : \E verdict \in VerdictsOf(a) : RecordVerdict(a, verdict)
    \/ \E a \in Required, n, i \in Iterations :
         \E verdict \in VerdictsOf(a) : WriteVerdict(a, n, verdict, i)
    \/ \E a \in Required, n \in Iterations : BreakFile(a, n)
    \/ \E i \in Iterations : Attest(i)
    \/ Invalidate

Spec == Init /\ [][Next]_vars

-----------------------------------------------------------------------------
(* Properties *)

(* The loop state, the files and the evidence. *)
TypeOK ==
    /\ loop \in [iteration : 0..MaxIteration, verdicts : [Required -> Verdicts \cup {None}]]
    /\ loop.iteration = 0 => \A a \in Required : ~InLoop(a)
    /\ files \in [Required -> [Iterations -> Contents]]
    /\ attested \subseteq Iterations

PassedAt(a, i) ==
    \/ loop.iteration = i /\ Says(loop.verdicts[a]) = "PASS"
    \/ \E n \in Iterations : files[a][n].iteration = i /\ Says(files[a][n].status) = "PASS"

(* The review gate never passes on stale verdicts: there is one iteration, *)
(* not older than the latest the loop declares, that every required        *)
(* reviewer passed and whose evidence verifies, whichever way the verdicts *)
(* are spread over loop state and files, and whatever these are named.     *)
PassesAreCurrent ==
    (\E f \in Readings : ReviewReady(f)) =>
        \E i \in Iterations : /\ loop.iteration <= i
                              /\ i \in attested
                              /\ \A a \in Required : PassedAt(a, i)

(* The QA gate chooses its verdict by other rules than the review gate.    *)
(* When both pass, as summary wants, QA has looked at the iteration of the *)
(* review or a later one, never at an older one.                           *)
QaNeverLooser ==
    \A f \in Readings : \A verdict \in IntegrationVerdicts(f) :
        ReviewReady(f) /\ QaAccepts(verdict) => TargetIteration(f) <= verdict.iteration

(* What trust-model.md says of assert-review-ready: a PASS for the latest  *)
(* iteration, stale verdicts rejected.  So no reviewer has failed a later  *)
(* one.                                                                    *)
NoNewerFailure ==
    \A f \in Readings : ReviewReady(f) =>
        \A a \in Required, n \in Iterations :
            files[a][n].status = "FAIL" => files[a][n].iteration <= TargetIteration(f)
=============================================================================
