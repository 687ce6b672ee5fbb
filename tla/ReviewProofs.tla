---------------------------- MODULE ReviewProofs ----------------------------
(***************************************************************************)
(* The review gate passes on current verdicts only, the QA gate looks at   *)
(* none older, and the hook follows wb-runtime, for any set of reviewers   *)
(* and any number of iterations.                                           *)
(***************************************************************************)
EXTENDS HookMirror, ExtremaProofs, TLAPS

-----------------------------------------------------------------------------
(* Type correctness *)

(* The loop state, the verdict files and the evidence keep their types,    *)
(* and there are no verdicts before the first iteration.                   *)
THEOREM ReviewTypes == Spec => []TypeOK
<1>1. Init => TypeOK
  BY ReviewAssumptions DEF Init, TypeOK, InLoop, None, Contents
<1>2. TypeOK /\ [Next]_vars => TypeOK'
  <2> SUFFICES ASSUME TypeOK, [Next]_vars PROVE TypeOK'
    OBVIOUS
  <2> USE ReviewAssumptions DEF TypeOK
  <2>1. CASE StartIteration
    BY <2>1 DEF StartIteration, InLoop
  <2>2. ASSUME NEW a \in Required, NEW verdict \in VerdictsOf(a), RecordVerdict(a, verdict)
        PROVE  TypeOK'
    BY <2>2 DEF RecordVerdict, VerdictsOf, InLoop
  <2>3. ASSUME NEW a \in Required, NEW n \in Iterations, NEW i \in Iterations,
               NEW verdict \in VerdictsOf(a), WriteVerdict(a, n, verdict, i)
        PROVE  TypeOK'
    <3>1. [status |-> verdict, iteration |-> i] \in Contents
      BY DEF VerdictsOf, Contents
    <3> QED BY <2>3, <3>1 DEF WriteVerdict, InLoop
  <2>4. ASSUME NEW i \in Iterations, Attest(i) PROVE TypeOK'
    BY <2>4 DEF Attest, InLoop
  <2>5. CASE Invalidate
    BY <2>5 DEF Invalidate, InLoop
  <2>6. ASSUME NEW a \in Required, NEW n \in Iterations, BreakFile(a, n) PROVE TypeOK'
    BY <2>6 DEF BreakFile, Contents, InLoop
  <2>7. CASE UNCHANGED vars
    BY <2>7 DEF vars, InLoop
  <2> QED BY <2>1, <2>2, <2>3, <2>4, <2>5, <2>6, <2>7 DEF Next
<1> QED BY <1>1, <1>2, PTL DEF Spec

-----------------------------------------------------------------------------
(* The verdicts *)

(* The verdict of a reviewer's files is in one of them, or there is none.  *)
LEMMA ReadingIsFiled ==
    ASSUME TypeOK, NEW f \in Readings, NEW a \in Required
    PROVE  /\ f[a] = Nothing \/ \E n \in Iterations : f[a] = files[a][n] /\ f[a] # Broken
           /\ f[a] \in Contents
<1>1. f[a] \in Latest(a)
  BY DEF Readings
<1>2. f[a] = Nothing \/ \E n \in Iterations : f[a] = files[a][n] /\ f[a] # Broken
  BY <1>1 DEF Latest, Nothing, Broken
<1> QED BY <1>2 DEF TypeOK, Contents

LEMMA VerdictIterations ==
    ASSUME TypeOK, NEW f \in Readings, NEW a \in Required
    PROVE  VerdictOf(f, a).iteration \in 0..MaxIteration
<1>1. \A content \in Contents : content.iteration \in 0..MaxIteration
  BY ReviewAssumptions DEF Contents, Nothing, Broken, Iterations
<1>2. f[a].iteration \in 0..MaxIteration
  BY <1>1, ReadingIsFiled
<1> QED BY <1>2 DEF VerdictOf, LoopVerdict, TypeOK

(* The review gate looks at no iteration before one that was declared. *)
LEMMA TargetIsLatest ==
    ASSUME TypeOK, NEW f \in Readings
    PROVE  TargetIteration(f) \in Nat /\ loop.iteration <= TargetIteration(f)
<1> DEFINE S == {loop.iteration} \cup {VerdictOf(f, a).iteration : a \in Required}
<1>1. S \in SUBSET (0..MaxIteration) /\ S # {} /\ loop.iteration \in S
  BY VerdictIterations DEF TypeOK
<1> HIDE DEF S
<1>2. Max(S) \in S /\ Max(S) >= loop.iteration
  BY <1>1, MaxIsLatest, ReviewAssumptions
<1>3. TargetIteration(f) = Max(S)
  BY DEF TargetIteration, S
<1>4. loop.iteration \in Nat /\ Max(S) \in Nat
  <2>1. \A i \in S : i \in 0..MaxIteration
    BY <1>1
  <2>2. \A i \in 0..MaxIteration : i \in Nat
    BY ReviewAssumptions
  <2> QED BY <1>1, <1>2, <2>1, <2>2
<1> QED BY <1>2, <1>3, <1>4

(* A verdict that the gate uses is in the loop state or in a file. *)
LEMMA VerdictPassed ==
    ASSUME TypeOK, NEW f \in Readings, NEW a \in Required,
           Says(VerdictOf(f, a).status) = "PASS"
    PROVE  PassedAt(a, VerdictOf(f, a).iteration)
<1>1. CASE InLoop(a)
  BY <1>1 DEF VerdictOf, LoopVerdict, PassedAt
<1>2. CASE ~InLoop(a)
  <2>1. Says(f[a].status) = "PASS" /\ VerdictOf(f, a) = f[a]
    BY <1>2 DEF VerdictOf
  <2>2. f[a] # Nothing
    BY <2>1 DEF Nothing, None, Says
  <2> QED BY <2>1, <2>2, ReadingIsFiled DEF PassedAt
<1> QED BY <1>1, <1>2

-----------------------------------------------------------------------------
(* The gates *)

(* The review gate passes only if one iteration, not older than the latest *)
(* declared, was passed by every reviewer and its evidence verifies.       *)
THEOREM ReviewPassesAreCurrent == Spec => []PassesAreCurrent
<1>1. TypeOK => PassesAreCurrent
  <2> SUFFICES ASSUME TypeOK, NEW f \in Readings, ReviewReady(f)
               PROVE  \E i \in Iterations : /\ loop.iteration <= i
                                            /\ i \in attested
                                            /\ \A a \in Required : PassedAt(a, i)
    BY DEF PassesAreCurrent
  <2>1. TargetIteration(f) \in attested /\ TargetIteration(f) \in Iterations
    BY DEF ReviewReady, TypeOK
  <2>2. \A a \in Required : PassedAt(a, TargetIteration(f))
    BY VerdictPassed DEF ReviewReady
  <2>3. loop.iteration <= TargetIteration(f)
    BY TargetIsLatest
  <2> QED BY <2>1, <2>2, <2>3
<1> QED BY <1>1, ReviewTypes, PTL

(* When the review gate and the QA gate both pass, QA has looked at the    *)
(* iteration of the review or a later one, though it chooses its verdict   *)
(* by other rules.                                                         *)
THEOREM QaIsNeverLooser == Spec => []QaNeverLooser
<1>1. TypeOK => QaNeverLooser
  <2> SUFFICES ASSUME TypeOK, NEW f \in Readings, NEW verdict \in IntegrationVerdicts(f),
                      ReviewReady(f)
               PROVE  TargetIteration(f) <= verdict.iteration
    BY DEF QaNeverLooser
  <2> DEFINE t == IntegrationTester
  <2>1. /\ t \in Required /\ VerdictOf(f, t).iteration = TargetIteration(f)
        /\ Says(VerdictOf(f, t).status) = "PASS"
    BY DEF ReviewReady, Required
  <2>2. CASE InLoop(t)
    BY <2>1, <2>2 DEF VerdictOf, IntegrationVerdicts
  <2>3. CASE ~InLoop(t)
    <3>1. FilesParse
      BY <2>1, <2>3 DEF ReviewReady
    <3>2. f[t] # Nothing /\ f[t].iteration = TargetIteration(f)
      BY <2>1, <2>3 DEF VerdictOf, Nothing, None, Says
    <3> QED BY <3>1, <3>2 DEF IntegrationVerdicts
  <2> QED BY <2>2, <2>3
<1> QED BY <1>1, ReviewTypes, PTL

-----------------------------------------------------------------------------
(* The hook *)

(* Where names tell, the hook's current iteration, which it takes from     *)
(* them, is not older than any verdict.                                    *)
LEMMA CurrentIsLatest ==
    ASSUME TypeOK, NamesTell, NEW f \in Readings, NEW recorded \in RecordedSets
    PROVE  TargetIteration(f) <= CurrentIteration(recorded)
<1> DEFINE S == {loop.iteration} \cup {VerdictOf(f, a).iteration : a \in Required}
           N == {n \in Iterations : \E a \in Required : files[a][n] # Nothing}
           C == {1, loop.iteration} \cup recorded \cup N
<1>1. S \in SUBSET (0..MaxIteration) /\ S # {}
  BY VerdictIterations DEF TypeOK
<1>2. C \in SUBSET (0..MaxIteration) /\ C # {}
  <2>1. Iterations \subseteq 0..MaxIteration /\ 1 \in 0..MaxIteration
    BY ReviewAssumptions DEF Iterations
  <2>2. recorded \subseteq Iterations
    BY DEF RecordedSets
  <2>3. loop.iteration \in 0..MaxIteration
    BY DEF TypeOK
  <2> QED BY <2>1, <2>2, <2>3
<1>3. ASSUME NEW s \in S PROVE \E c \in C : s <= c
  <2>1. CASE s = loop.iteration
    BY <1>2, <2>1
  <2>2. ASSUME NEW a \in Required, s = VerdictOf(f, a).iteration, ~InLoop(a), f[a] # Nothing
        PROVE  \E c \in C : s <= c
    <3>1. PICK n \in Iterations : f[a] = files[a][n]
      BY <2>2, ReadingIsFiled
    <3>2. n \in C /\ s <= n
      BY <2>2, <3>1 DEF NamesTell, VerdictOf
    <3> QED BY <3>2
  <2>3. ASSUME NEW a \in Required, s = VerdictOf(f, a).iteration, ~InLoop(a), f[a] = Nothing
        PROVE  \E c \in C : s <= c
    <3>1. s = 0 /\ 1 \in C
      BY <2>3 DEF VerdictOf, Nothing
    <3> QED BY <3>1
  <2>4. ASSUME NEW a \in Required, s = VerdictOf(f, a).iteration, InLoop(a)
        PROVE  s = loop.iteration
    BY <2>4 DEF VerdictOf, LoopVerdict
  <2> QED BY <2>1, <2>2, <2>3, <2>4
<1>4. TargetIteration(f) = Max(S) /\ CurrentIteration(recorded) = Max(C)
  BY DEF TargetIteration, CurrentIteration
<1> HIDE DEF S, C
<1>5. Max(S) \in S
  BY <1>1, MaxIsLatest, ReviewAssumptions
<1>6. Max(C) \in C /\ \A i \in C : Max(C) >= i
  BY <1>2, MaxIsLatest, ReviewAssumptions
<1>7. PICK c \in C : Max(S) <= c
  BY <1>3, <1>5
<1>8. Max(S) \in 0..MaxIteration /\ Max(C) \in 0..MaxIteration /\ c \in 0..MaxIteration
  BY <1>1, <1>2, <1>5, <1>6
<1>9. Max(C) >= c
  BY <1>6
<1> HIDE <1>6
<1> QED BY <1>4, <1>7, <1>8, <1>9, ReviewAssumptions

(* As long as no verdict file is named for an earlier iteration than its   *)
(* own, what the hook passes has verified evidence of an iteration not     *)
(* older than any verdict that it or wb-runtime looks at, whatever records *)
(* and files lie in the directory.                                         *)
THEOREM HookEvidenceCurrent == Spec => []HookEvidenceIsCurrent
<1>1. TypeOK => HookEvidenceIsCurrent
  BY CurrentIsLatest DEF HookEvidenceIsCurrent, EvidenceOk
<1> QED BY <1>1, ReviewTypes, PTL

(* A review that wb-runtime passes the hook passes, too, whichever         *)
(* reviewers the loop state lists as active, provided that the hook, which *)
(* goes by the names of the files, asks about the same iteration.          *)
THEOREM HookFollowsRuntime == Spec => []HookFollows
<1>1. HookFollows
  <2> SUFFICES ASSUME NEW f \in Readings, NEW active \in SUBSET Required,
                      NEW recorded \in RecordedSets,
                      ReviewReady(f), CurrentIteration(recorded) = TargetIteration(f)
               PROVE  HookReviewReady(f, active, recorded)
    BY DEF HookFollows
  <2>1. RequiredByHook(active) \subseteq Required
    BY DEF RequiredByHook, Required
  <2>2. \A a \in Required : HookVerdict(f, a) = VerdictOf(f, a)
    BY DEF HookVerdict, VerdictOf
  <2> QED BY <2>1, <2>2 DEF ReviewReady, HookReviewReady, EvidenceOk
<1> QED BY <1>1, PTL
=============================================================================
