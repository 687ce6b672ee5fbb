------------------------------ MODULE Evidence ------------------------------
(***************************************************************************)
(* The integration evidence of wb-runtime (evidence.rs).  Recorders run    *)
(* the configured test command, sign what happened and put the record in   *)
(* the review directory; the gates verify it.  record-test-evidence takes  *)
(* no lock, so recorders interleave with one another, with the agent's     *)
(* edits and with verification, and may be killed at any step.  Fixture    *)
(* mode, in which nothing is verified, is not modelled.                    *)
(***************************************************************************)
EXTENDS Naturals, FiniteSets

CONSTANTS Recorders,    \* record-test-evidence processes
          Specs,        \* contents of the spec files
          Commands,     \* values of config.integration_test_command
          MaxIteration, \* bound: review iterations are 1..MaxIteration
          MaxRuns       \* bound: runs started in a behaviour

VARIABLES spec,         \* the spec files
          command,      \* the configured command, or Unset
          records,      \* the evidence record of each iteration, or NoRecord
          logs,         \* the output log of each iteration: the number of a run, or NoLog
          recorders,    \* what each recorder has done so far
          signed,       \* the payloads signed with the key: exactly their hmac verifies
          runs,         \* history: the runs that took place
          disturbed,    \* history: iterations with overlapping or killed recorders, or edits
          started       \* the number of runs started

vars == <<spec, command, records, logs, recorders, signed, runs, disturbed, started>>

Unset == "unset"
NoRecord == [iteration |-> 0]
NoLog == 0
Iterations == 1..MaxIteration
ExitCodes == {0, 1}

ASSUME EvidenceAssumptions ==
    /\ MaxIteration \in Nat \ {0}
    /\ MaxRuns \in Nat
    /\ Unset \notin Commands

(* Runs are numbered as they start; the number stands for the output. *)
Numbers == 1..MaxRuns

(* What is signed: the fields verification looks at, and the output's digest. *)
Payloads == [iteration : Iterations, command : Commands, exit : ExitCodes, spec : Specs,
             output : Numbers]

(* A run, with the spec files as they were when its command ended. *)
Runs == [iteration : Iterations, command : Commands, exit : ExitCodes, specAtEnd : Specs,
         number : Numbers]

Idle == [at |-> "idle"]
RecorderStates ==
    {Idle}
    \cup [at : {"running"}, iteration : Iterations, command : Commands, number : Numbers]
    \cup [at : {"ran", "logged"}, run : Runs]
    \cup [at : {"signed"}, payload : Payloads]

(* The recorder is at work on iteration i. *)
WorksOn(p, i) ==
    LET r == recorders[p] IN
    \/ r.at = "running" /\ r.iteration = i
    \/ r.at \in {"ran", "logged"} /\ r.run.iteration = i
    \/ r.at = "signed" /\ r.payload.iteration = i

-----------------------------------------------------------------------------
(* record_test_evidence *)

(* The command is read once; the iteration is an argument or inferred. *)
Start(p, i) ==
    /\ recorders[p] = Idle
    /\ command # Unset
    /\ started < MaxRuns
    /\ started' = started + 1
    /\ recorders' = [recorders EXCEPT ![p] =
                       [at |-> "running", iteration |-> i, command |-> command, number |-> started']]
    /\ disturbed' = IF \E q \in Recorders : WorksOn(q, i) THEN disturbed \cup {i} ELSE disturbed
    /\ UNCHANGED <<spec, command, records, logs, signed, runs>>

(* The command ends. *)
Finish(p, exit) ==
    LET r == recorders[p]
        run == [iteration |-> r.iteration, command |-> r.command, exit |-> exit, specAtEnd |-> spec,
                number |-> r.number]
    IN /\ r.at = "running"
       /\ recorders' = [recorders EXCEPT ![p] = [at |-> "ran", run |-> run]]
       /\ runs' = runs \cup {run}
       /\ UNCHANGED <<spec, command, records, logs, signed, disturbed, started>>

(* Faulty variant: the output of a failed run is not logged. *)
WriteLogOfPass(p) ==
    /\ recorders[p].at = "ran"
    /\ recorders' = [recorders EXCEPT ![p] = [at |-> "logged", run |-> @.run]]
    /\ LET run == recorders[p].run IN
       logs' = IF run.exit = 0 THEN [logs EXCEPT ![run.iteration] = run.number] ELSE logs
    /\ UNCHANGED <<spec, command, records, signed, runs, disturbed, started>>

(* The output goes to the log of the iteration, which nothing verifies. *)
WriteLog(p) ==
    /\ recorders[p].at = "ran"
    /\ recorders' = [recorders EXCEPT ![p] = [at |-> "logged", run |-> @.run]]
    /\ LET run == recorders[p].run IN logs' = [logs EXCEPT ![run.iteration] = run.number]
    /\ UNCHANGED <<spec, command, records, signed, runs, disturbed, started>>

(* Faulty variant: the command is read again for the record. *)
PayloadOfConfig(run) ==
    [iteration |-> run.iteration, command |-> command, exit |-> run.exit, spec |-> spec,
     output |-> run.number]

(* The spec files are hashed only now. *)
PayloadOf(run) ==
    [iteration |-> run.iteration, command |-> run.command, exit |-> run.exit, spec |-> spec,
     output |-> run.number]

Sign(p) ==
    /\ recorders[p].at = "logged"
    /\ LET payload == PayloadOf(recorders[p].run) IN
       /\ recorders' = [recorders EXCEPT ![p] = [at |-> "signed", payload |-> payload]]
       /\ signed' = signed \cup {payload}
    /\ UNCHANGED <<spec, command, records, logs, runs, disturbed, started>>

(* The record replaces the one of its iteration by rename. *)
WriteRecord(p) ==
    /\ recorders[p].at = "signed"
    /\ LET payload == recorders[p].payload IN
       records' = [records EXCEPT ![payload.iteration] = payload]
    /\ recorders' = [recorders EXCEPT ![p] = Idle]
    /\ UNCHANGED <<spec, command, logs, signed, runs, disturbed, started>>

(* The recorder is killed. *)
Crash(p) ==
    /\ recorders[p] # Idle
    /\ recorders' = [recorders EXCEPT ![p] = Idle]
    /\ disturbed' = disturbed \cup {i \in Iterations : WorksOn(p, i)}
    /\ UNCHANGED <<spec, command, records, logs, signed, runs, started>>

-----------------------------------------------------------------------------
(* The agent, who has no key.  It may put any record that was ever signed  *)
(* under the name of any iteration (records are committed with the project *)
(* and come back with a checkout); a record it deletes or alters is no     *)
(* record.                                                                 *)

EditSpec ==
    /\ spec' \in Specs \ {spec}
    /\ UNCHANGED <<command, records, logs, recorders, signed, runs, disturbed, started>>

EditCommand ==
    /\ command' \in (Commands \cup {Unset}) \ {command}
    /\ UNCHANGED <<spec, records, logs, recorders, signed, runs, disturbed, started>>

PutRecord(i) ==
    /\ \E r \in signed \cup {NoRecord} : records' = [records EXCEPT ![i] = r]
    /\ disturbed' = disturbed \cup {i}
    /\ UNCHANGED <<spec, command, logs, recorders, signed, runs, started>>

-----------------------------------------------------------------------------
(* verify_integration_evidence *)

(* Faulty variant: the signature is checked, not whose iteration it is. *)
VerifiesUnbound(i) ==
    /\ records[i] \in signed
    /\ records[i].exit = 0
    /\ records[i].spec = spec
    /\ records[i].command = command

Verifies(i) ==
    /\ records[i] \in signed
    /\ records[i].iteration = i
    /\ records[i].exit = 0
    /\ records[i].spec = spec
    /\ records[i].command = command

Init ==
    /\ spec \in Specs
    /\ command \in Commands \cup {Unset}
    /\ records = [i \in Iterations |-> NoRecord]
    /\ logs = [i \in Iterations |-> NoLog]
    /\ recorders = [p \in Recorders |-> Idle]
    /\ signed = {}
    /\ runs = {}
    /\ disturbed = {}
    /\ started = 0

Next ==
    \/ \E p \in Recorders, i \in Iterations : Start(p, i)
    \/ \E p \in Recorders, exit \in ExitCodes : Finish(p, exit)
    \/ \E p \in Recorders : WriteLog(p)
    \/ \E p \in Recorders : Sign(p)
    \/ \E p \in Recorders : WriteRecord(p)
    \/ \E p \in Recorders : Crash(p)
    \/ EditSpec
    \/ EditCommand
    \/ \E i \in Iterations : PutRecord(i)

Spec == Init /\ [][Next]_vars

-----------------------------------------------------------------------------
(* Properties *)

(* The files, the recorders and the history. *)
TypeOK ==
    /\ spec \in Specs
    /\ command \in Commands \cup {Unset}
    /\ records \in [Iterations -> Payloads \cup {NoRecord}]
    /\ logs \in [Iterations -> Numbers \cup {NoLog}]
    /\ recorders \in [Recorders -> RecorderStates]
    /\ signed \subseteq Payloads
    /\ runs \subseteq Runs
    /\ disturbed \subseteq Iterations
    /\ started \in 0..MaxRuns

(* Evidence that verifies for an iteration is backed by a run that took    *)
(* place: of the command configured now, for that iteration, with exit     *)
(* code 0; however records were copied and restored, the configuration and *)
(* the spec edited, and recorders interleaved or killed.                   *)
Attested ==
    \A i \in Iterations :
        Verifies(i) => \E run \in runs : /\ run.iteration = i
                                         /\ run.command = command
                                         /\ run.exit = 0

(* When recorders of an iteration have not overlapped or been killed, and  *)
(* nobody has touched its record, then record and log are those of its     *)
(* last run once the recorder is done: a failure is not masked by an older *)
(* pass.  Recorders that overlap may leave the log of one run and the      *)
(* record of another, or replace a newer failure with an older pass.       *)
LastRunRecorded ==
    \A i \in Iterations \ disturbed :
        (\A p \in Recorders : ~WorksOn(p, i)) =>
            \A run \in {r \in runs : r.iteration = i} :
                \/ \E later \in runs : later.iteration = i /\ later.number > run.number
                \/ /\ logs[i] = run.number
                   /\ records[i].iteration = i
                   /\ records[i].output = run.number
                   /\ records[i].exit = run.exit

(* What verification says of evidence it accepts: the spec is unchanged    *)
(* since the run.                                                          *)
SpecUnchangedSinceRun ==
    \A i \in Iterations :
        Verifies(i) => \E run \in runs : /\ run.iteration = i
                                         /\ run.exit = 0
                                         /\ run.specAtEnd = spec
=============================================================================
