------------------------------ MODULE StateFile ------------------------------
(***************************************************************************)
(* state.json and the commands that read, change and replace it (state.rs) *)
(* under the project lock (locks.rs), next to an editor that takes no lock *)
(* and rewrites the file in place: the agent, or wannabuild-session.sh.    *)
(* Commands and editor may be killed at any step.  The state is the set of *)
(* updates it includes; an event is one step here (EventLog takes appends  *)
(* apart); the file exists and has every default.                          *)
(***************************************************************************)
EXTENDS Naturals, Sequences, Functions

CONSTANTS Commands,     \* one-shot commands; each is its own update
          MaxEdits      \* bound: edits begun in a behaviour

VARIABLES file,         \* state.json: whole or torn, and the updates it includes
          holder,       \* who holds runtime.lock, or Free
          procs,        \* where each command is, its steps to come, the state it has read
          editor,       \* the editor
          edits,        \* the number of edits begun
          log,          \* the events, in order
          saves,        \* history: the commands whose state replaced the file, in order
          lost,         \* history: updates that an edit has overwritten
          tornByKill    \* history: an editor was killed while it wrote

vars == <<file, holder, procs, editor, edits, log, saves, lost, tornByKill>>

Free == "free"
Edits == 1..MaxEdits
Updates == Commands \cup Edits

ASSUME StateFileAssumptions ==
    /\ MaxEdits \in Nat
    /\ Commands \cap Edits = {}
    /\ Free \notin Commands

(* What the commands do with the lock, apart from their gates. *)
Kinds == {"pause", "transition", "deny", "finish", "claim"}

(* Faulty variant: the transition is reported before it is saved. *)
StepsLogFirst ==
    [pause      |-> <<"read", "write", "rename", "paused">>,
     transition |-> <<"read", "requested", "accepted", "write", "rename">>,
     deny       |-> <<"read", "requested", "denied">>,
     finish     |-> <<"read", "requested", "completed", "write", "rename">>,
     claim      |-> <<"claimed", "read", "write", "rename">>]

(* Faulty variant: the completion returns before it is saved. *)
StepsNoSave ==
    [pause      |-> <<"read", "write", "rename", "paused">>,
     transition |-> <<"read", "requested", "write", "rename", "accepted">>,
     deny       |-> <<"read", "requested", "denied">>,
     finish     |-> <<"read", "requested", "completed">>,
     claim      |-> <<"claimed", "read", "write", "rename">>]

(* pause, resume, init and complete save, then log.  A transition logs the *)
(* request first and the acceptance last, but to "complete" it logs the    *)
(* completion and then saves.  claim, and in the same way complete and     *)
(* block of a task, save tasks.json and log before they read the state.    *)
Steps ==
    [pause      |-> <<"read", "write", "rename", "paused">>,
     transition |-> <<"read", "requested", "write", "rename", "accepted">>,
     deny       |-> <<"read", "requested", "denied">>,
     finish     |-> <<"read", "requested", "completed", "write", "rename">>,
     claim      |-> <<"claimed", "read", "write", "rename">>]

Outcomes == {"paused", "accepted", "completed", "claimed"}
Events == Outcomes \cup {"requested", "denied"}
FileSteps == {"read", "write", "rename"}

At(c, step) == procs[c].at = "running" /\ procs[c].todo # <<>> /\ Head(procs[c].todo) = step

(* A command has done a step; it comes to another place. *)
Advances(c) == procs' = [procs EXCEPT ![c] = [at |-> @.at, todo |-> Tail(@.todo), has |-> @.has]]
Goes(c, where) == procs' = [procs EXCEPT ![c] = [at |-> where, todo |-> @.todo, has |-> @.has]]

(* The file that the editor has open is no longer state.json. *)
Unlinked == [at |-> editor.at, has |-> editor.has, linked |-> FALSE]

-----------------------------------------------------------------------------
(* The commands *)

Start(c, kind) ==
    /\ procs[c].at = "new"
    /\ procs' = [procs EXCEPT ![c] = [at |-> "waiting", todo |-> Steps[kind], has |-> {}]]
    /\ UNCHANGED <<file, holder, editor, edits, log, saves, lost, tornByKill>>

(* ProjectLock::acquire *)
Acquire(c) ==
    /\ procs[c].at = "waiting"
    /\ holder = Free
    /\ holder' = c
    /\ Goes(c, "running")
    /\ UNCHANGED <<file, editor, edits, log, saves, lost, tornByKill>>

(* Faulty variant: a state that does not parse is replaced by defaults. *)
ReadOrDefault(c) ==
    /\ At(c, "read")
    /\ procs' = [procs EXCEPT ![c] = [at |-> @.at, todo |-> Tail(@.todo), has |-> file.has \cup {c}]]
    /\ UNCHANGED <<file, holder, editor, edits, log, saves, lost, tornByKill>>

(* ensure_state, and the change the command makes to what it has read. *)
Read(c) ==
    /\ At(c, "read")
    /\ file.whole
    /\ procs' = [procs EXCEPT ![c] = [at |-> @.at, todo |-> Tail(@.todo), has |-> file.has \cup {c}]]
    /\ UNCHANGED <<file, holder, editor, edits, log, saves, lost, tornByKill>>

(* Faulty variant: an error path that does not drop the lock. *)
ReadFailsLocked(c) ==
    /\ At(c, "read")
    /\ ~file.whole
    /\ Goes(c, "failed")
    /\ UNCHANGED <<file, holder, editor, edits, log, saves, lost, tornByKill>>

(* load_state cannot parse the file: the command ends with an error. *)
ReadFails(c) ==
    /\ At(c, "read")
    /\ ~file.whole
    /\ holder' = Free
    /\ Goes(c, "failed")
    /\ UNCHANGED <<file, editor, edits, log, saves, lost, tornByKill>>

(* Faulty variant: the state is written in place. *)
WriteInPlace(c) ==
    /\ At(c, "write")
    /\ file' = [whole |-> FALSE, has |-> {}]
    /\ Advances(c)
    /\ UNCHANGED <<holder, editor, edits, log, saves, lost, tornByKill>>

(* atomic_write_json: the state goes to a file of this process first. *)
WriteTemp(c) ==
    /\ At(c, "write")
    /\ Advances(c)
    /\ UNCHANGED <<file, holder, editor, edits, log, saves, lost, tornByKill>>

(* Faulty variant: the lock is only held for the state, not for the log. *)
RenameAndUnlock(c) ==
    /\ At(c, "rename")
    /\ file' = [whole |-> TRUE, has |-> procs[c].has]
    /\ saves' = Append(saves, c)
    /\ editor' = Unlinked
    /\ holder' = Free
    /\ Advances(c)
    /\ UNCHANGED <<edits, log, lost, tornByKill>>

(* It takes the place of state.json.  An editor that has opened the old    *)
(* file goes on writing to a file that nobody will read.                   *)
Rename(c) ==
    /\ At(c, "rename")
    /\ file' = [whole |-> TRUE, has |-> procs[c].has]
    /\ saves' = Append(saves, c)
    /\ editor' = Unlinked
    /\ Advances(c)
    /\ UNCHANGED <<holder, edits, log, lost, tornByKill>>

AppendEvent(c) ==
    /\ \E event \in Events : /\ At(c, event)
                             /\ log' = Append(log, [by |-> c, event |-> event])
    /\ Advances(c)
    /\ UNCHANGED <<file, holder, editor, edits, saves, lost, tornByKill>>

End(c) ==
    /\ procs[c].at = "running"
    /\ procs[c].todo = <<>>
    /\ holder' = IF holder = c THEN Free ELSE holder
    /\ Goes(c, "done")
    /\ UNCHANGED <<file, editor, edits, log, saves, lost, tornByKill>>

(* Killed; the operating system releases the lock. *)
Crash(c) ==
    /\ procs[c].at \in {"waiting", "running"}
    /\ holder' = IF holder = c THEN Free ELSE holder
    /\ Goes(c, "killed")
    /\ UNCHANGED <<file, editor, edits, log, saves, lost, tornByKill>>

-----------------------------------------------------------------------------
(* The editor *)

(* It reads the file; one it cannot parse ends the edit. *)
EditReads ==
    /\ editor.at = "idle"
    /\ edits < MaxEdits
    /\ file.whole
    /\ edits' = edits + 1
    /\ editor' = [at |-> "read", has |-> file.has \cup {edits + 1}, linked |-> FALSE]
    /\ UNCHANGED <<file, holder, procs, log, saves, lost, tornByKill>>

(* Opening the file for writing empties it. *)
EditTruncates ==
    /\ editor.at = "read"
    /\ file' = [whole |-> FALSE, has |-> {}]
    /\ editor' = [at |-> "truncated", has |-> editor.has, linked |-> TRUE]
    /\ lost' = lost \cup (Range(saves) \ editor.has)
    /\ UNCHANGED <<holder, procs, edits, log, saves, tornByKill>>

EditWrites ==
    /\ editor.at = "truncated"
    /\ file' = IF editor.linked THEN [whole |-> TRUE, has |-> editor.has] ELSE file
    /\ editor' = [at |-> "idle", has |-> editor.has, linked |-> FALSE]
    /\ UNCHANGED <<holder, procs, edits, log, saves, lost, tornByKill>>

EditCrashes ==
    /\ editor.at # "idle"
    /\ tornByKill' = (tornByKill \/ editor.linked)
    /\ editor' = [at |-> "idle", has |-> editor.has, linked |-> FALSE]
    /\ UNCHANGED <<file, holder, procs, edits, log, saves, lost>>

-----------------------------------------------------------------------------

Init ==
    /\ file = [whole |-> TRUE, has |-> {}]
    /\ holder = Free
    /\ procs = [c \in Commands |-> [at |-> "new", todo |-> <<>>, has |-> {}]]
    /\ editor = [at |-> "idle", has |-> {}, linked |-> FALSE]
    /\ edits = 0
    /\ log = <<>>
    /\ saves = <<>>
    /\ lost = {}
    /\ tornByKill = FALSE

(* What a command does once it is started. *)
Work(c) ==
    \/ Acquire(c) \/ End(c)
    \/ Read(c) \/ ReadFails(c) \/ WriteTemp(c) \/ Rename(c)
    \/ AppendEvent(c)

Next ==
    \/ \E c \in Commands, kind \in Kinds : Start(c, kind)
    \/ \E c \in Commands : Work(c)
    \/ \E c \in Commands : Crash(c)
    \/ EditReads
    \/ EditTruncates
    \/ EditWrites
    \/ EditCrashes

(* A command that can take a step takes one.  Nothing is assumed of the    *)
(* editor, nor of the order in which flock serves those who wait.          *)
Fairness == \A c \in Commands : WF_vars(Work(c))

Spec == Init /\ [][Next]_vars /\ Fairness

-----------------------------------------------------------------------------
(* Properties *)

(* The file, the lock, which exactly the running command has, the          *)
(* commands, the editor and the history.                                   *)
TypeOK ==
    /\ file \in [whole : BOOLEAN, has : SUBSET Updates]
    /\ holder \in Commands \cup {Free}
    /\ procs \in [Commands -> [at : {"new", "waiting", "running", "done", "failed", "killed"},
                               todo : Seq(FileSteps \cup Events),
                               has : SUBSET Updates]]
    /\ \A c \in Commands : procs[c].at = "running" <=> holder = c
    /\ editor \in [at : {"idle", "read", "truncated"}, has : SUBSET Updates, linked : BOOLEAN]
    /\ edits \in 0..MaxEdits
    /\ log \in Seq([by : Commands, event : Events])
    /\ saves \in Seq(Commands)
    /\ lost \in SUBSET Commands
    /\ tornByKill \in BOOLEAN

(* No command undoes another: what a command saved is in every later       *)
(* state.json, unless an edit that takes no lock overwrote it.             *)
UpdatesSurvive == file.whole => Range(saves) \subseteq file.has \cup lost

(* A killed command never leaves half a state.json behind; only an editor  *)
(* that is writing it, or was killed at that, does.                        *)
TornHasCause == ~file.whole => editor.linked \/ tornByKill

(* What the log says is done was saved before, except a completion and the *)
(* claim of a task, whose events come first.                               *)
AcceptedIsSaved ==
    \A n \in DOMAIN log :
        log[n].event \in {"paused", "accepted"} => log[n].by \in Range(saves)

(* Log and state disagree on an outcome only while its command runs, or if *)
(* it was killed or could not read the state.                              *)
LogAheadHasCause ==
    \A n \in DOMAIN log :
        LET c == log[n].by
        IN log[n].event \in Outcomes /\ procs[c].at = "done" => c \in Range(saves)

(* The log tells the outcomes in the order in which the state took them:   *)
(* a reader of the log can reconstruct which update came last.             *)
LogFollowsSaves ==
    \A m, n \in DOMAIN log, i, j \in DOMAIN saves :
        /\ m < n
        /\ {log[m].event, log[n].event} \subseteq Outcomes
        /\ saves[i] = log[m].by
        /\ saves[j] = log[n].by
        => i <= j

(* Every command ends, also when the state cannot be read: no error and no *)
(* kill leaves the lock taken.                                             *)
EveryCommandEnds ==
    \A c \in Commands : procs[c].at = "waiting" ~> procs[c].at \in {"done", "failed", "killed"}
=============================================================================
