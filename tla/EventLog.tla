------------------------------ MODULE EventLog ------------------------------
(***************************************************************************)
(* The event log of wb-runtime (events.rs) and the commands that append to *)
(* it and read it.  A command holds the project lock (locks.rs) from before*)
(* its first read to its end; record-test-evidence appends without it,     *)
(* because the test command it runs may itself be a locked command.  An    *)
(* event reaches the file in several writes, so appends that overlap spoil *)
(* each other's lines and a killed append leaves part of one.  Pieces of   *)
(* two events on a line are taken to be no JSON.  Ids, timestamps and      *)
(* redaction are left out.                                                 *)
(***************************************************************************)
EXTENDS Naturals, Sequences, FiniteSetsExt

CONSTANTS Commands,     \* wb-runtime commands that take the lock
          Recorders,    \* record-test-evidence processes
          MaxStarts     \* bound: processes started in a behaviour

VARIABLES log,          \* events.jsonl: its lines, the last one not yet terminated
          holder,       \* who holds runtime.lock, or Free
          procs,        \* where each process is and what it has yet to append
          appended,     \* history: the events written to their end, in order
          passes,       \* history: which of them a QA gate appended for its pass
          disturbed,    \* history: an append was killed, or overlapped a recorder's
          started       \* the number of processes started

vars == <<log, holder, procs, appended, passes, disturbed, started>>

Processes == Commands \cup Recorders
Free == "free"
NoChild == "none"

(* "other" stands for every event type no gate looks at. *)
QaTypes == {"qa_failed", "qa_passed"}
Types == QaTypes \cup {"gate_passed", "other"}

(* What processes append.  "passed" is the pass that a QA gate reports for *)
(* itself; its type is one that others may append as well.                 *)
Events == Types \cup {"passed"}
TypeOf(event) == IF event = "passed" THEN "gate_passed" ELSE event

Idle == [at |-> "idle", todo |-> <<>>, child |-> NoChild]

ASSUME EventLogAssumptions ==
    /\ MaxStarts \in Nat
    /\ Commands \cap Recorders = {}
    /\ Free \notin Processes
    /\ NoChild \notin Commands

-----------------------------------------------------------------------------
(* list_events *)

Sound(line) ==
    /\ Len(line) = 2
    /\ line[1].part = "head" /\ line[2].part = "tail"
    /\ line[1].by = line[2].by

(* Faulty variant: a last line that is not terminated is let pass. *)
ReadableButLast == \A n \in 1..(Len(log) - 1) : log[n] = <<>> \/ Sound(log[n])

(* Blank lines are skipped; one malformed line fails the whole read. *)
Readable == \A n \in DOMAIN log : log[n] = <<>> \/ Sound(log[n])

(* What is listed of each prefix of the lines. *)
ListedUpTo(lines) ==
    LET upTo[n \in 0..Len(lines)] ==
          IF n = 0 THEN <<>>
          ELSE IF Sound(lines[n]) THEN Append(upTo[n - 1], lines[n][1].type)
          ELSE upTo[n - 1]
    IN upTo

Listed == ListedUpTo(log)[Len(log)]

IsQa(type) == type \in QaTypes

LatestQa(events) ==
    LET qa == {n \in DOMAIN events : IsQa(events[n])}
    IN IF qa = {} THEN "none" ELSE events[Max(qa)]

(* Faulty variant: a log that cannot be read is taken to be empty. *)
QaLogClearIfUnread == Readable => LatestQa(Listed) # "qa_failed"

(* The part of assert_qa_ready that reads the log. *)
QaLogClear == Readable /\ LatestQa(Listed) # "qa_failed"

(* read_acquisition_attempts: an entry that lacks one of the three is none. *)
Entries == [need : BOOLEAN, tools : BOOLEAN, result : BOOLEAN]
Attempts(entries) == {entry \in entries : entry.need /\ entry.tools /\ entry.result}

(* Faulty variant: a QA that passed once counts, also when it failed later. *)
AcquisitionForgetsOrder(entries) ==
    \/ ~Readable
    \/ \E n \in DOMAIN Listed : Listed[n] = "qa_passed"
    \/ LatestQa(Listed) # "qa_failed"
    \/ Attempts(entries) # {}

(* assert_acquisition_attempted, given the entries on record, when         *)
(* state.json reports nothing: here a log that cannot be read counts as    *)
(* one without events.                                                     *)
AcquisitionPasses(entries) ==
    \/ ~Readable
    \/ LatestQa(Listed) # "qa_failed"
    \/ Attempts(entries) # {}

-----------------------------------------------------------------------------
(* append_event *)

MidAppend(p) == procs[p].at \in {"headed", "tailed"}

(* p comes to another place, with this left to append. *)
Goes(p, where, todo) ==
    procs' = [procs EXCEPT ![p] = [at |-> where, todo |-> todo, child |-> @.child]]

(* Faulty variant: the head of an event clears what a killed append left. *)
PutOnCleared(piece) ==
    log' = [log EXCEPT ![Len(log)] = IF piece.part = "head" THEN <<piece>> ELSE Append(@, piece)]

Put(piece) == log' = [log EXCEPT ![Len(log)] = Append(@, piece)]

(* An unlocked append that meets another one disturbs the log. *)
NoteOverlap(p) ==
    disturbed' = (\/ disturbed
                  \/ \E q \in Processes \ {p} : MidAppend(q) /\ {p, q} \cap Recorders # {})

AppendHead(p) ==
    /\ procs[p].at = "ready"
    /\ procs[p].todo # <<>>
    /\ Put([by |-> p, part |-> "head", type |-> TypeOf(Head(procs[p].todo))])
    /\ Goes(p, "headed", procs[p].todo)
    /\ NoteOverlap(p)
    /\ UNCHANGED <<holder, appended, passes, started>>

AppendTail(p) ==
    /\ procs[p].at = "headed"
    /\ Put([by |-> p, part |-> "tail", type |-> TypeOf(Head(procs[p].todo))])
    /\ appended' = Append(appended, TypeOf(Head(procs[p].todo)))
    /\ passes' = IF Head(procs[p].todo) = "passed" THEN passes \cup {Len(appended')} ELSE passes
    /\ Goes(p, "tailed", procs[p].todo)
    /\ NoteOverlap(p)
    /\ UNCHANGED <<holder, started>>

AppendNewline(p) ==
    /\ procs[p].at = "tailed"
    /\ log' = Append(log, <<>>)
    /\ Goes(p, "ready", Tail(procs[p].todo))
    /\ NoteOverlap(p)
    /\ UNCHANGED <<holder, appended, passes, started>>

-----------------------------------------------------------------------------
(* The commands *)

(* What a command does with the lock: append an event, of any type that    *)
(* event append is given or the command has, or check the QA gate and      *)
(* append what it found.                                                   *)
Errands == {<<type>> : type \in Types} \cup {<<"qa">>}

StartCommand(c, errand) ==
    /\ procs[c] = Idle
    /\ started < MaxStarts
    /\ procs' = [procs EXCEPT ![c] = [at |-> "waiting", todo |-> errand, child |-> NoChild]]
    /\ started' = started + 1
    /\ UNCHANGED <<log, holder, appended, passes, disturbed>>

(* Faulty variant: the lock is shared. *)
AcquireShared(c) ==
    /\ procs[c].at = "waiting"
    /\ holder' = c
    /\ Goes(c, IF procs[c].todo = <<"qa">> THEN "checking" ELSE "ready", procs[c].todo)
    /\ UNCHANGED <<log, appended, passes, disturbed, started>>

(* ProjectLock::acquire waits for as long as it takes. *)
Acquire(c) ==
    /\ procs[c].at = "waiting"
    /\ holder = Free
    /\ holder' = c
    /\ Goes(c, IF procs[c].todo = <<"qa">> THEN "checking" ELSE "ready", procs[c].todo)
    /\ UNCHANGED <<log, appended, passes, disturbed, started>>

(* run_gate: the outcome is two events, gate_checked and what it was. *)
CheckQa(c) ==
    /\ procs[c].at = "checking"
    /\ \E outcome \in {"passed", "other"} :
         /\ outcome = "passed" => QaLogClear
         /\ Goes(c, "ready", <<"other", outcome>>)
    /\ UNCHANGED <<log, holder, appended, passes, disturbed, started>>

(* The command returns and drops the lock, if it has it. *)
End(p) ==
    /\ procs[p].at = "ready"
    /\ procs[p].todo = <<>>
    /\ holder' = IF holder = p THEN Free ELSE holder
    /\ procs' = [procs EXCEPT ![p] = Idle]
    /\ UNCHANGED <<log, appended, passes, disturbed, started>>

(* Killed; the operating system releases the lock. *)
Crash(p) ==
    /\ procs[p] # Idle
    /\ disturbed' = (disturbed \/ MidAppend(p))
    /\ holder' = IF holder = p THEN Free ELSE holder
    /\ procs' = [procs EXCEPT ![p] = Idle]
    /\ UNCHANGED <<log, appended, passes, started>>

-----------------------------------------------------------------------------
(* record-test-evidence *)

(* Faulty variant: like the other commands, it takes the lock first. *)
StartRecorderLocked(r) ==
    /\ procs[r] = Idle
    /\ started < MaxStarts
    /\ holder = Free
    /\ holder' = r
    /\ procs' = [procs EXCEPT ![r] = [at |-> "testing", todo |-> <<"other">>, child |-> NoChild]]
    /\ started' = started + 1
    /\ UNCHANGED <<log, appended, passes, disturbed>>

StartRecorder(r) ==
    /\ procs[r] = Idle
    /\ started < MaxStarts
    /\ procs' = [procs EXCEPT ![r] = [at |-> "testing", todo |-> <<"other">>, child |-> NoChild]]
    /\ started' = started + 1
    /\ UNCHANGED <<log, holder, appended, passes, disturbed>>

(* The test command calls wb-runtime and waits for it. *)
TestCalls(r, c, errand) ==
    /\ procs[r].at = "testing"
    /\ procs[r].child = NoChild
    /\ procs[c] = Idle
    /\ started < MaxStarts
    /\ procs' = [procs EXCEPT ![r] = [at |-> "testing", todo |-> @.todo, child |-> c],
                              ![c] = [at |-> "waiting", todo |-> errand, child |-> NoChild]]
    /\ started' = started + 1
    /\ UNCHANGED <<log, holder, appended, passes, disturbed>>

(* The test command ends; evidence is written and the event follows. *)
TestEnds(r) ==
    /\ procs[r].at = "testing"
    /\ procs[r].child # NoChild => procs[procs[r].child] = Idle
    /\ procs' = [procs EXCEPT ![r] = [at |-> "ready", todo |-> @.todo, child |-> NoChild]]
    /\ UNCHANGED <<log, holder, appended, passes, disturbed, started>>

-----------------------------------------------------------------------------

Init ==
    /\ log = <<<<>>>>
    /\ holder = Free
    /\ procs = [p \in Processes |-> Idle]
    /\ appended = <<>>
    /\ passes = {}
    /\ disturbed = FALSE
    /\ started = 0

(* What a process does once it is started. *)
Work(p) ==
    \/ AppendHead(p) \/ AppendTail(p) \/ AppendNewline(p) \/ End(p)
    \/ p \in Commands /\ (Acquire(p) \/ CheckQa(p))
    \/ p \in Recorders /\ TestEnds(p)

Next ==
    \/ \E c \in Commands, errand \in Errands : StartCommand(c, errand)
    \/ \E r \in Recorders : StartRecorder(r)
    \/ \E r \in Recorders, c \in Commands, errand \in Errands : TestCalls(r, c, errand)
    \/ \E p \in Processes : Work(p)
    \/ \E p \in Processes : Crash(p)

(* A process that can take a step takes one; a test command ends once what *)
(* it called has.  Nobody has to start a process or to kill one.  Since    *)
(* flock promises no order among the waiting, nothing stronger is assumed. *)
Fairness == \A p \in Processes : WF_vars(Work(p))

Spec == Init /\ [][Next]_vars /\ Fairness

-----------------------------------------------------------------------------
(* Properties *)

(* The log, the lock, the processes and the history. *)
TypeOK ==
    /\ \A n \in DOMAIN log : \A k \in DOMAIN log[n] :
         log[n][k] \in [by : Processes, part : {"head", "tail"}, type : Types]
    /\ holder \in Processes \cup {Free}
    /\ \A p \in Processes :
         /\ procs[p].at \in {"idle", "waiting", "checking", "ready", "headed", "tailed", "testing"}
         /\ procs[p].child \in Commands \cup {NoChild}
         /\ procs[p].at \in {"checking", "ready", "headed", "tailed"} /\ p \in Commands => holder = p
    /\ \A n \in DOMAIN appended : appended[n] \in Types
    /\ passes \subseteq {n \in DOMAIN appended : appended[n] = "gate_passed"}
    /\ disturbed \in BOOLEAN
    /\ started \in 0..MaxStarts

(* No event is lost without notice: a log that can be read lists exactly   *)
(* the events that were written to their end, in that order, whoever wrote *)
(* them, with the lock or without, and whoever was killed.                 *)
ReadableIsComplete == Readable => Listed = appended

(* The lock keeps the log readable between appends, as long as no append   *)
(* was killed or met a recorder's.                                         *)
DamageHasCause ==
    ~disturbed /\ (\A p \in Processes : ~MidAppend(p)) => Readable

(* The QA gate fails closed.  Where it has reported its pass in the log,   *)
(* the last QA outcome appended before was not a failure: whatever was     *)
(* killed or interleaved, and though gates and outcomes come from          *)
(* different commands.  An event of that type which somebody appends by    *)
(* hand, or another gate, says nothing of QA, and no gate reads it.        *)
QaPassesAreBacked ==
    \A n \in passes : LatestQa(SubSeq(appended, 1, n)) # "qa_failed"

(* A log that can be read does not hide a failed QA: the acquisition gate  *)
(* wants an attempt, of which need, tools and result are on record.  A log *)
(* that cannot be read does hide it (see the README).                      *)
AcquisitionSeesFailure ==
    Readable /\ LatestQa(appended) = "qa_failed" =>
        \A entry \in Entries :
            AcquisitionPasses({entry}) => entry = [need |-> TRUE, tools |-> TRUE, result |-> TRUE]

(* Every process that was started ends, also a command called by the test  *)
(* command of a recorder and the recorder that waits for it.               *)
EveryProcessEnds == \A p \in Processes : procs[p] # Idle ~> procs[p] = Idle

(* A line to which nothing will be added is not sound. *)
Damaged == \E n \in 1..(Len(log) - 1) : ~(log[n] = <<>> \/ Sound(log[n]))

Log == INSTANCE AppendOnlyLog WITH
           events <- appended,
           passes <- passes,
           answers <- IF Readable THEN {Listed} ELSE {},
           failed <- LatestQa(appended) = "qa_failed",
           damaged <- Damaged

(* The lines, locks and processes keep the promise of the log: a reader    *)
(* gets what was appended or an error, for good once a line is damaged,    *)
(* and the QA gate reports no pass after a failure.                        *)
LogRefined == Log!LogSpec
=============================================================================
