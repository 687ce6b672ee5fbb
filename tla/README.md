# A TLA+ model of the WannaBuild runtime

WannaBuild drives a coding agent through the stages of a piece of work
(discover, research, plan, implement, review, qa, ship, summary). The program
`wb-runtime` (`src/crates/wb-runtime`) keeps the state of that workflow in files
under `<project>/.wannabuild/`, and decides by *gates* whether the agent may move
on. The agent, its reviewers and the user write most of those files themselves.
What makes the runtime correct is therefore less what one command does than what
any sequence of commands and edits, from several processes, can bring about.
This directory specifies that, model-checks it with TLC, and proves the most
important part with TLAPS.

## The system

| Component | State | Operations | Hard behaviour | What makes it correct |
|---|---|---|---|---|
| Stage machine (`transitions.rs`, `cli.rs`, `state.rs`) | `state.json`: stage, phase, two statuses, block and pause reasons, two histories | `init`, `transition`, `pause`, `resume`, `complete` | any order of commands, retries, rework, returns to discovery; completion by two routes; blocking closes gates | stages and completion are earned; statuses agree; a block can be left |
| Gates (`gates.rs`) | none; they read every artifact | `assert-*` commands, and calls from `transition`, `complete`, `tasks claim` | artifacts change between gate and use; two gates read the same thing by different code | they hold only on current, complete evidence |
| Context and adapters (`context.rs`, `adapters.rs`) | none | `context`, `adapter context` | computed by other code than the transitions it recommends | advice is accepted; approval is not a dead end |
| Tasks (`tasks.rs`, `scheduler.rs`, `checkpoints.rs`) | `tasks.json`, `active_task_ids` in `state.json`, `decisions.md` | `tasks import, next, claim, complete, block` | two files per command, crash in between; re-import of an edited plan; repeated ids, cycles | claims survive, the files agree, work never starves |
| Evidence (`evidence.rs`) | records and logs in `review/`, the key in the user's home | `record-test-evidence`, `verify-test-evidence` | takes no lock: recorders interleave with one another and with edits; crashes; records copied and restored | what verifies happened |
| Review verdicts (`gates.rs`, `loop-state.json`, `review/*.json`) | verdicts in two places | written by the agents; read by the review and QA gates | iterations out of order, missing and late verdicts | one current iteration passes as a whole |
| Event log (`events.rs`) | `events.jsonl` | `event append, list, replay`; an append in nearly every command | unlocked multi-write appends, malformed lines | no event is lost, gates that read it fail closed |
| Lock and state file (`locks.rs`, `state.rs`) | `runtime.lock`, `state.json` | every locked command; unlocked writers (`session.sh`, the agent) | lost updates, torn snapshots, crash between state and event | locked commands are serial |
| Hook mirror (`hooks/wannabuild-route.py`) | the same files | gates, evidence and context in Python, for hosts without the binary | two implementations of one rule | never more permissive than `wb-runtime` |
| Scripts (`wannabuild-session.sh`, `-gate-check.sh`, `-workspace.sh`) | `state.json`, worktrees | set stage and mode, find and run the binary | unlocked writes; two ways to find a binary | no write is lost |
| Installer (`installer/`) | checkout, binary, host directories | `install`, `uninstall` | failure between two of its steps | versions are not mixed |
| Prompt routing (`adapters.rs`) | none | `route` | text | - |
| Skills, agents, validation and release scripts | - | - | - | - |

The components interact through files. `wb-runtime` commands serialise on a file
lock (`locks.rs`), except `record-test-evidence`, `context` and the commands that
only list. `tasks claim` calls the plan gate; `transition` and `complete` call
the stage gates; the review and QA gates call the evidence verifier; the QA and
acquisition gates read the event log. The agent, its reviewers, the user,
`session.sh` and the Python hook write without any lock.

## The modules

| Module | What it is |
|---|---|
| `Pipeline` | abstract specification: what a workflow promises, without files and statuses |
| `AppendOnlyLog` | abstract specification: what the event log promises its readers, without lines and locks |
| `TaskBoard` | abstract specification: what the scheduler promises owners, without lists, files and kills |
| `SharedKey` | abstract specification: what the key promises those who verify, without the race to create it |
| `Workflow` | the stage machine and its gates, and the edits of the agent |
| `Guidance` | context and adapter advice, over the state of `Workflow` |
| `Tasks` | task list, scheduler, active ids, crashes |
| `Evidence` | recorders, records and logs, verification, the agent's edits |
| `EvidenceKey` | the creation of the signing key by concurrent recorders |
| `Review` | loop state and verdict files as the review and QA gates read them |
| `HookMirror` | the gates of the Python hook, over the state of `Review` |
| `EventLog` | appends with and without the lock, and the gates that read the log |
| `StateFile` | locked commands on `state.json` against an editor without the lock |
| `WorkflowProofs`, `TasksProofs`, `EvidenceProofs`, `EvidenceKeyProofs`, `ReviewProofs`, `EventLogProofs`, `StateFileProofs` | theorems about the module of that name; `WorkflowProofs` also about `Guidance`, `ReviewProofs` about `HookMirror` |
| `ExtremaProofs` | lemmas: a set of numbers has a least element, a bounded one a greatest, which is its `Max`; induction up to a number |
| `MC` and the name of a module | its instance for TLC; `MCWorkflow` also of `Guidance`, `MCReview` also of `HookMirror` |

Every module that models code contains a few *faulty variants* of its operators,
marked as such. They are not part of the specification: replacing an operator by
its variant must make TLC find the property it belongs to violated, which shows
that the property depends on the code.

### Workflow, Pipeline and Guidance

`state` is the part of `state.json` that commands read: stage, phase, phase and
workflow status, whether a block or pause reason is set, and of the histories what
`has_complete` and `latest_history_status` find in them (`planned`,
`discoverDone`, `qaBlocked`; histories are only appended to). `facts` is what the
gates find in the artifacts and in the event log: a goal, a complete discovery,
the plan's files, passing reviews, QA evidence, and a latest QA event that is a
failure. `ledger` is a history variable: the gates seen to hold since the
workflow last stood before them. Going back to a stage removes from it the gates
that come after that stage.

Each command is one step, because it holds the project lock from its first read to
its last write, and `state.json` is replaced by a rename. `Accepts` is
`validate_transition`, with `LeadsTo` for the stages its `match` lets one come
from and `EntryGate` for the gates it asserts; `Moved`, `Paused`, `Resumed` and
`Completed` are the assignments of the four commands. A denied command changes
nothing and is no step. `init` only adds defaults and empty directories, and is
no step either. The last arm of the `match` (`_ if from == target`) can only be
reached for stages that an earlier arm has taken. The agent's edits
(`EditArtifact`, `RecordBlocker`) come between any two commands; a requirements
file with acceptance criteria is not empty, so a complete discovery comes with a
goal (`Coherent`). `control_mode` is taken to be the default, guided.

`Pipeline` has the stage, the ledger and a completion flag, and three actions.
`Workflow` implements it under the mapping of its `INSTANCE`.

`Guidance` adds no state. It defines what `build_context` and `adapter_context`
answer (required gates, next handoff, allowed next action, forbidden actions,
phase boundary, pause), in order to compare it with what `Accepts` decides and
one answer with the other. A forbidden action is understood as the requests it
rules out (`Forbidden`): `plan_before_discovery_ready` and `implement_before_plan`
those for the stage they name, `advance_without_review_ready` and
`advance_without_qa_ready` those for a stage that comes later (`Advances`); to go on
with the stage itself is not to advance.

### Tasks

`tasks` is `tasks.json`: ids, dependencies, statuses and owners. A command works on
the *first* task with an id, while dependencies are looked up in a map by id,
that is, at the *last*; both are modelled, and plans with repeated ids, missing
dependencies and cycles may be imported. Claim, complete and block replace
`tasks.json` and then, after an event, `state.json`: `cmd` is the command between
the two, `UpdateActive` its end and `Crash` its death. `stale` is a history
variable, the ids whose mark in `active_task_ids` may be wrong for a known reason.
The checkpoint that a completion requires is taken to be given.

`tasks next` finds its task by place and prints an id, and the claim of that id goes
to the first task with it. In a plan with a repeated id the two may differ: `tasks
next` then names the later task again and again, while the claim of its id is
refused because the earlier one is complete, blocked or in somebody else's hands.

`TaskBoard` has what others see of it: a status and an owner by id, what each id
needs, and which ids are repeated. `TasksProofs` gives the mapping, in which the
first task with an id stands for it.

### Evidence

A recorder reads the configured command, runs it, writes the output log, hashes
the spec, signs, and renames the record into place: `Start`, `Finish`, `WriteLog`,
`Sign`, `WriteRecord`, or `Crash` in between. The HMAC is modelled by the set
`signed` of the payloads that were signed; the agent has no key, so the only
records it can put in place are ones that were signed at some time (`PutRecord`),
under any name. `runs` is a history variable. `Verifies` is
`verify_integration_evidence`. `logs` has the output log of each iteration, as the
number of the run that wrote it. `disturbed` collects the iterations in which
recorders overlapped or were killed, or whose record somebody has put in place or
removed. The iteration is chosen freely, which covers both the argument and what
the command infers when none is given.

### EvidenceKey

One key file in the user's home signs the evidence of all projects. `file` is
absent, empty (created, not yet written) or has the key of the recorder that wrote
it. `load_or_create_key` of `wb-runtime` looks (`Look`), creates with `create_new`
(`CreateKey`), writes (`WriteKey`), or waits for the winner of the race
(`ReadKey`, `Poll`, `GiveUp`); the hook's copy looks otherwise (`HookLook`) and
does not wait (`HookGiveUp`). A creator that is killed leaves the file empty for
good. `MaxPolls` stands for the number of polls that the code has as a constant.

In `SharedKey` the first signer chooses the key and the others sign with it. Under
the mapping in `EvidenceKeyProofs` the chosen key is what `load_key` answers, and
the signatures are those of the recorders that have signed.

### Review

`loop` is the latest iteration of `loop-state.json` with its verdicts; older ones are
never read. `files` is the review directory: per reviewer and iteration *in the
file's name* it has nothing, a file that is no JSON (`Broken`), or a verdict with the
iteration that *counts*, which is the payload's, or the name's if the payload has
none (`gates.rs:518`). The two iterations may differ in every way: the agents write
these files, and nothing checks their names.

`Latest` are the verdicts of a reviewer's latest iteration. Within an iteration
timestamps and names decide, which are left out, so there may be two, and a
*reading* (`Readings`) picks one for each reviewer; gates and properties are about
any reading. One broken file fails the whole reading: the review gate fails then, if
it needs the files at all, while the QA gate goes on without them (`if let Ok`,
`gates.rs:998`). The status `HOLLOW` is a PASS whose payload has no complete run or
coverage: the review gate takes it, the QA gate does not. Between loop state and file
timestamps decide, too, so `IntegrationVerdicts` may hold both. `attested` is the set
of iterations whose evidence verifies, which `Evidence` describes. An iteration 0,
which a file without any number would have, is left out.

### HookMirror

Where the binary is missing, the hook computes the review and QA gates itself
(`review_ready`, `_integration_evidence_ok`). It adds no state to `Review` and has two
parameters, over which its properties quantify: the active reviewers that a loop
state may list (`active`), which `wb-runtime` ignores, and the iterations that have
any evidence record at all (`recorded`), verifying or not. The hook orders verdicts by
the iteration that counts, as `wb-runtime` does, but takes its current iteration, the
one it wants evidence of, from the loop state and the names of the files alone
(`CurrentIteration`), broken files and evidence records included. `NamesTell` says that
no file is named for an earlier iteration than its own; the convention
(`<agent>-iter-<N>.json`, `skills/internal/build/references/artifact-contracts.md:159`)
has them equal.

### EventLog

`log` is the file as lines of pieces, the last line not terminated: `append_event`
writes an event with `serde_json::to_writer` and then the newline, straight to the
file, so it arrives in pieces (`AppendHead`, `AppendTail`, `AppendNewline`) and
not at once. A line that consists of the two pieces of one event is `Sound`;
pieces of two events on one line are taken to be no JSON. `Readable` and `Listed`
are `list_events`, for which one malformed line fails the whole read; `ListedUpTo`
is its loop, with what has been listed after each line. Commands take the lock first; recorders append without it. The test command of a recorder
may call `wb-runtime` (`TestCalls`), and the recorder waits for it. Any process
may be killed at any step, upon which the operating system releases the lock.
`appended` is a history variable: the events written to their end.

A command appends one event of any type, because `event append` takes the type as any
string, or it is a QA gate: it looks, and appends `gate_checked` and its outcome. Thus
an event `gate_passed` may be appended by hand after `qa_failed`. `passes` is the
history of those that a QA gate appended for a pass of its own; the properties about
passed gates are about these, and no gate reads either kind.

The two gates that read the log differ on one that cannot be read. The QA gate fails.
The acquisition gate takes it to be empty (`unwrap_or_default`, `gates.rs:1118`) and so
does not see a failed QA in it; this may also be for the moment only, while a recorder
is in the middle of an append. `AcquisitionSeesFailure` therefore speaks of logs that
can be read. Ids, timestamps, `--since` and redaction are left out.

`AppendOnlyLog` is the log without lines, locks and processes. Its events are those
in `appended`; `answers` is what a reader may get, the list of all events or
nothing, that is, an error; anybody may add an event of any type (`Add`), and the QA
gate reports a pass (`Pass`) only while the last outcome of QA is not a failure
(`failed`); and the log is `damaged` when a line to which nothing will be added any more
is not sound. Damage is for good: nothing in the code repairs a line.

### StateFile

`file` is `state.json`: whole or torn, and the set of updates it includes. A
command is a sequence of steps that `Steps` gives for its kind: it reads the
state, writes a temporary file, renames it, and appends events, in the order the
code has them. A transition to `complete`, and the task commands, log the outcome
before they save the state; all others save first. `editor` is one writer without
the lock, the agent or `wannabuild-session.sh`: it reads the file, opens it (which
empties it) and writes it. A rename in between leaves it writing to a file that no
longer has a name (`linked`). Commands and the editor may be killed at every step.
The file is taken to exist with every default, so a command that finds it torn
ends with an error. One edit runs at a time: what two editors do to each other is
no promise of this program.

## The runs

| Run | Shows |
|---|---|
| `workflow` | the properties of `Workflow` and `Guidance`, and the refinement of `Pipeline`: 180,096 states |
| `tasks` | the properties of `Tasks`: 79,490 states |
| `evidence` | `Attested` and `LastRunRecorded`, with two recorders and two runs: 247,832 states |
| `evidence_key` | one key, and every recorder ends: 12,071 states |
| `review` | the properties of `Review` and `HookMirror`: 230,400 states |
| `event_log` | no event is lost without notice, the gates see failures, every process ends, and the refinement of `AppendOnlyLog`: 814,426 states |
| `state_file` | no update is lost, log and state agree, every command ends: 220,560 states |
| `plan_files_before_implement` | a violation: the plan gate passes without plan files |
| `resume_or_retry_unblocks` | a violation: blocked at summary, resume and retry do not help |
| `spec_unchanged_since_run` | a violation: a spec edited after the run is stamped as tested |
| `no_newer_failure` | a violation: a failure of a later iteration is not looked at |
| `hook_never_looser` | a violation: the hook passes a review with stale verdicts |

**workflow.** `GatesBeforeStage`: every gate before the current stage has held
since the workflow last stood before it. `CompletionEarned`: a workflow reported
complete had review and QA holding. `StatusAgreement`: the two statuses, and stage
and phase, do not contradict one another. `BlockedRecovers`: with its artifacts in
place a block anywhere before summary is lifted by a retry. `HandoffAccepted` and
`ApprovalAdvances`: when the context asks for no gate, or an approval releases a
boundary, the command it recommends is accepted. `ActionPermitted`: the next
action the context allows is never one it forbids and, when it asks for no gate,
is accepted too. They assume a goal, because the context does not read the
concrete-task gate. `ActionPermitted` has the other direction as well
(`ForbiddenIsRefused`): what the context forbids is denied by `transition`, with any
status, and by `complete`. There is one exception, which the property names: when a
review has ceased to hold since qa was entered, the context forbids
`advance_without_review_ready`, but a transition from qa to ship asks for the QA gate
only (`transitions.rs:166`); the summary gate is the first to ask for the review again.
`PipelineRefined` is the refinement. All five statuses can be
asked for and all facts change at any time; the state is finite, so nothing is
bounded.

**tasks.** `ActiveAgrees`: the active ids are the tasks in progress, but for the known
exceptions. `ClaimsSurvive`: a task in progress keeps its owner until it is
completed, blocked or dropped. `NextIsClaimable`: what `tasks next` names can be
claimed by anyone, if it is the first task with its id; if not, the claim is refused or
repeats one that the same owner has made, and never takes another task. The plan with a
repeated id reaches both cases. `NoStarvation`: in a well-formed plan there is a ready task, or one in
progress or blocked, until all are complete. Three ids, two owners (alike, so
under symmetry) and five plans: a chain with a join, the same with a task
dropped, the reverse order, a repeated id, and a cycle. Two tasks suffice for
each of the conflicts and a third for the join; nothing else is bounded.

**evidence.** `Attested` needs an older iteration to copy from, so two iterations,
another spec and command to change to, so two of each, and two recorders to
overlap. `LastRunRecorded`: where recorders have not overlapped or been killed, and
nobody has touched the record, log and record are those of the last run, so that a
failure is not masked by an older pass. `MaxRuns = 2` bounds the runs started; the
theorems have no such bound.

**evidence_key.** `OneKey`: whoever signs, signs with the key that is in the file
and stays there. `LateNeverFails`: once the key is there nobody fails for want of
it. `EveryRecorderEnds` is liveness: no recorder waits for ever for a creator that
was killed. Two recorders of `wb-runtime` and two of the hook allow each kind to
race with its own and with the other; with `MaxPolls = 2` a recorder may poll in
vain and then succeed, or give up.

**review.** One reviewer beside the integration tester stands for all, since the gate
treats them alike. Two iterations (`MaxIteration = 2`), each in the loop state, in names
and in payloads, allow verdicts older and newer than the loop's, files named too early
and too late, and two files of one iteration; the properties compare two iterations at a
time, and the theorems hold for any number. `PassesAreCurrent`: the review gate passes
only if one iteration, not older than the one the loop declares, has a PASS from
everyone and evidence that verifies. `QaNeverLooser` is the claim of the comment at
`gates.rs:977`: when both gates pass, QA has not looked at an older iteration than the
review. `HookFollows`: a review that `wb-runtime` passes the hook passes too, provided
that the names of the files lead it to the same iteration. `HookEvidenceIsCurrent`: where
no file is named for an earlier iteration than its own (`NamesTell`), the evidence the
hook accepts is not older than the iteration `wb-runtime` asks about. Without that
premise it is not true: with the integration tester's PASS for iteration 2 in a file
named for iteration 1, the hook looks at a verdict of iteration 2 and is content with
evidence of iteration 1 (`wannabuild-route.py:513`), where `wb-runtime` asks for that of
2.

**event_log.** `ReadableIsComplete`: a log that can be read lists exactly the
events that were written to their end. `DamageHasCause`: between appends it can be
read, unless an append was killed or met a recorder's. `QaPassesAreBacked`: no
pass that the QA gate reported in the log follows a failed QA, whoever wrote and
whoever was killed. `EveryProcessEnds`: no deadlock, also when the test command of a recorder
waits for a lock. `LogRefined` is the refinement of `AppendOnlyLog`. Two commands and a recorder allow each kind of overlap;
`MaxStarts = 3` bounds the processes started, enough for a recorder, a command
that it calls and another, or for three commands one after the other.

**state_file.** `UpdatesSurvive`: no command undoes another. `TornHasCause`: only
an editor tears the file. `AcceptedIsSaved` and `LogAheadHasCause` relate log and
state: what is logged was saved, or its command runs, was killed or failed.
`LogFollowsSaves`: both have the outcomes in one order. `EveryCommandEnds`: no
error path and no kill keeps the lock. Two commands of any of five kinds and two
edits (`MaxEdits = 2`): an edit has to overlap one command or two, and another may
come after it was killed.

The violations are disagreements between the code and what it or its documents
say; `PROJECT.json` quotes the lines under "findings". In
`plan_files_before_implement` the phase history alone satisfies the gate. In
`resume_or_retry_unblocks` the summary gate, which a retry must pass, fails
because the phase is blocked; pausing and then resuming does lift the block, at
any stage, with nothing resolved. In `spec_unchanged_since_run` the spec is hashed
when the record is built, not when the command starts or ends. In
`no_newer_failure` files are only read for reviewers the loop state lacks. In
`hook_never_looser` a reviewer has a PASS of iteration 1, in a file named for it (in
other behaviours in the loop state), the integration tester one of iteration 2 in a file
named for that, and the evidence that verifies is of iteration 2: the hook does not
compare the iterations of verdicts. `NamesTell` is assumed there, to show that names are
not the cause.

## Fairness and deadlock

In `Workflow`, `Tasks`, `Evidence` and `Review` a step is a command that somebody
issues, or an edit. Nothing in the code schedules those, so fairness would be an
assumption about the agent, and none is made. `NoStarvation` and `BlockedRecovers`
state as invariants that there is always a step to take. Deadlock is checked in
their runs.

In `EventLog`, `StateFile` and `EvidenceKey` a step is what a started process does
next, and the operating system runs it: weak fairness of each process's own steps
(`Work(p)`). Nothing is assumed of starting a process, killing one, or the editor.
`flock` promises no order among the waiting, so strong fairness of taking the lock
is not assumed either; that every process ends although others may get the lock
first follows because only finitely many are started. These processes are
one-shot: when all have ended nothing more happens, so their three runs say
`CHECK_DEADLOCK FALSE`, and the liveness properties exclude that anybody is stuck
before.

## The proofs

`WorkflowProofs` proves, for every set of statuses and every set of facts that may
change (`StatusesAssumption`, `EditableAssumption`):

- `WorkflowTypes`, type correctness;
- `StagesEarned` and `CompletionsEarned`, from the inductive invariant `TypeOK /\
  GatesBeforeStage /\ CompletionEarned`. The heart is `AcceptedGates`: the gates
  before the target of an accepted transition are among those before its origin or
  hold now. It goes by cases on the target stage;
- `StatusesAgree`, inductive with `TypeOK`;
- `WorkflowImplementsPipeline`: initial states map to initial states, and under
  the invariant every step is a `Move`, a `Finish`, a `Reopen` or a stutter. The
  invariant is needed because a `Move` asks that the ledger hold all gates before
  the new stage, which follows only if it held those before the old one;
- `BlocksAreLifted`: `BlockedRecovers`. The retry names the stage the workflow is
  at; ship needs a further invariant, that QA is not left towards ship while it is
  blocked (`QaUnblockedAtShip`);
- `HandoffsAccepted`, `ActionsPermitted` and `ApprovalsAdvance`, about `Guidance`,
  from type correctness and `StatusAgreement`: the gates that the context lists as
  required are those that do not hold, so when it lists none, the gate on the way
  in holds, stage by stage; and a forbidden request is for a stage that cannot be
  entered from here, or whose gate is the one the context found closed
  (`ForbiddenRefused`).

`EvidenceProofs` proves for any number of recorders, iterations, runs, specs and
commands `EvidenceTypes`, `EvidenceAttested` and `LastRunIsRecorded`. `Attested`
is not inductive: it says nothing of payloads not yet put in place, nor of runs
not yet signed. The invariant `IInv` adds that every signed payload, and every run
a recorder is about to sign, took place. `LastRunRecorded` says nothing of an
iteration that recorders work on; `LastInv` adds that numbers are given out once
and in order, that in an undisturbed iteration one recorder works alone, and that
what it is about to log, sign or record is the newest run.

`EvidenceKeyProofs` proves `EvidenceKeyTypes`, `OneKeySigns` and
`LateRecordersSign` for any number of recorders and polls. `OneKey` is kept
because the key is never replaced; the invariant adds that at most one recorder
writes, into the empty file it created (`OneWriter`), that late recorders are not
on the way to creating or giving up (`LateOnTheWay`), and that whoever has not
given up has polls left (`PollsLeft`). Under this invariant `KeyImplemented` proves
the refinement of `SharedKey`: the write of the key is the choice, since nobody can
have signed before, and a later signature is made with the key that is loaded.

`ReviewProofs` proves `ReviewTypes`, `ReviewPassesAreCurrent`, `QaIsNeverLooser`,
`HookEvidenceCurrent` and `HookFollowsRuntime` for any set of reviewers and any
number of iterations. The gates are functions of the files, so type correctness is
the invariant; it includes that a loop state before its first iteration has no
verdicts. What a reading gives is in one of the files or there is none
(`ReadingIsFiled`). The argument is then that of a maximum: the target iteration is
among the iterations of the verdicts and of the loop state, and none of them is later;
and where names tell, none is later than the latest name (`CurrentIsLatest`).

`TasksProofs` proves `TasksTypes`, `ActiveTasksAgree`, `NextTaskIsClaimable`,
`WellFormedNeverStarves` and `ClaimsAreKept`, for any owners and plans.
`ActiveAgrees` speaks of moments when no command is under way; the invariant adds
what holds in between: the task has the status that the command gives it
(`Agreement`), and the ids of the command and of the active list exist
(`KnownIds`). A well-formed plan does not starve because the *first* task that is
not complete has only complete dependencies.

`TasksImplementBoard` proves that `Tasks` implements `TaskBoard`: claim, complete and
block are steps of one id on the board, because they leave every other first place
alone; what the code looks up at the last place of an id the board has at the
first, which is the same place unless the id is repeated; and a kill changes
nothing on the board, because `tasks.json` is replaced at once.
No run checks this refinement or that of `SharedKey`: their mappings are in the
proof modules, and the theorems cover every instance.

`StateFileProofs` proves the six invariants of the `state_file` run for any number
of commands and edits. The invariant adds that a command that has read and not yet
saved has in hand everything saved so far, because it has the lock
(`ReadBeforeSave`), that an editor has what it has not overwritten
(`EditorKeeps`), and that what a command has yet to do fits what it has done: a
report of an accepted update comes after its save (`ReportsAfterSave`,
`OutcomesSaved`). `LogIsInOrder` needs one more: the last that was logged or saved
belongs to the command that runs, if that one has logged or saved anything
(`LastIsRunning`).

`EventLogProofs` proves the five invariants of the `event_log` run, and that
`EventLog` implements `AppendOnlyLog` (`LogImplemented`), for any number of commands,
recorders and starts. The argument has three layers.

- `DamageHasCause` says nothing of a log in the middle of an append; the invariant
  adds that in an undisturbed log only one process is in an append, that all lines
  before the last are whole, and that the last one is what this process has written
  (`Clean`). Two commands cannot be in an append at once because both would have the
  lock (`Typed`).
- `ReadableIsComplete` is not inductive, because an append that is under way makes a
  log that cannot be read readable again. `Told` says what holds in between: when
  nothing is wrong up to the last line and that one may still become sound, the log
  lists what was appended; and a head without its tail is that of the event its
  process is about to end. A tail that completes a line can then only be the
  event's own. What `ListedUpTo` answers is known from `ListedStep` (one more line)
  and `ListedOfPrefix` (lines it has not reached do not matter).
- `QaPassesAreBacked` relates a gate to outcomes that others append. `Backed` adds
  that whoever is to append the pass of a QA gate has had the lock since it looked, is
  to append no outcome itself, and that the last outcome *appended* is no failure,
  which follows from what it *read* by `ReadableIsComplete`. Events of that type from
  elsewhere are not in `passes`. Recorders append without the lock, but no outcomes.

`FailureIsSeen` (`AcquisitionSeesFailure`) follows from `ReadableIsComplete`. For the
refinement, an event is added when its tail is written; every other step leaves the
events alone, and what a reader gets is all or nothing because the log is readable
only if it is complete, and never again once it is damaged (`DamageStays`).

### What liveness rests on

`EveryProcessEnds`, `EveryCommandEnds` and `EveryRecorderEnds` need fairness, which is
stated with ENABLED and out of the reach of TLAPS; TLC checks them. Their two halves
that are safety are proved for any number of processes:

- whoever is started can go on, or waits for one who can. In `EvidenceKey` nobody
  waits (`RecordersGoOn`); in `StateFile` a command waits only for the lock of one
  that can go on (`CommandsGoOn`); in `EventLog` a recorder may wait for the command
  that its test called, and that one for the lock, but the chain ends there
  (`NoDeadlock`, by `HolderWorks`: who has the lock is a command at work). `CanGo`
  is the guard of `Work` written out, which TLC, given the equivalence with
  `ENABLED Work` as an invariant, confirms in every state of the three runs;
- no step sets anybody back: `StepsLeft` counts the steps that a process has before
  it, each of its own steps lowers the count and nobody else's raises it
  (`RecordersComeNearer`, `CommandsComeNearer`, `ProcessesComeNearer`). In `EventLog`
  a test command may start another process, which counts against `MaxStarts`.

What remains is that a fair process takes steps while it can. There TLC's run is
the only check.

Model-checked only are therefore the three liveness properties. Induction over lists
and lines is not done with the induction theorems of the library, whose parameter
the provers cannot instantiate, but by a least counterexample
(`ExtremaProofs!InductionUpTo`).

## The plan

1. `Pipeline`, `Workflow`, `Guidance`, with proofs: done.
2. `Tasks`, `Evidence`, `Review`, with proofs: done.
3. `EventLog`, `EvidenceKey`, `StateFile`, `HookMirror`, with proofs: done.
4. The abstract specifications `AppendOnlyLog`, `TaskBoard` and `SharedKey`, with the
   proofs that they are implemented: done.
5. Left to specify abstractly: what `StateFile` promises of snapshots and `Evidence` of
   attestation, so far stated as invariants.
6. Left to model: the installer and the resolution of the binary, if they carry enough; the
   QA summary parser that the hook has a copy of; the ids and the cursor of events.

Composition: `Review` takes `attested` from `Evidence`, and `Workflow` its facts
`review` and `qaEvidence` from `Review`; each is model-checked apart because their
product is out of reach, and the facts may change in any way in between, which
covers whatever the other module does.

## Not modelled

Parsing of Markdown and JSON, redaction, the wording of messages, the signals that
the acquisition gate finds in `state.json`, the ids of events and the `--since`
cursor, a `loop-state.json` that is no JSON or has two entries of one iteration, fixture
mode, `verifying` (a task status no command sets), prompt routing,
and the components marked so in `PROJECT.json`. Hand edits of `state.json` other
than a block reason and the discovery record are not modelled: the commands make
no promise about them.
