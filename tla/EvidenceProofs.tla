-------------------------- MODULE EvidenceProofs --------------------------
(***************************************************************************)
(* No evidence verifies that no run backs, and no failure is masked by an  *)
(* older pass unless recorders overlap, are killed or somebody touches the *)
(* record: for any number of recorders, iterations, runs, specs, commands. *)
(***************************************************************************)
EXTENDS Evidence, TLAPS

(* A payload tells what a run that took place did. *)
Genuine(payload) ==
    \E run \in runs : /\ run.iteration = payload.iteration
                      /\ run.command = payload.command
                      /\ run.exit = payload.exit
                      /\ run.number = payload.output

(* Inductive: whatever was signed is genuine, and so is what a recorder is *)
(* about to sign.                                                          *)
IInv ==
    /\ TypeOK
    /\ \A payload \in signed : Genuine(payload)
    /\ \A p \in Recorders : recorders[p].at \in {"ran", "logged"} => recorders[p].run \in runs

(* The steps of a recorder that begins or leaves a run. *)
LEMMA RecorderShapes ==
    ASSUME NEW r \in RecorderStates
    PROVE  /\ r.at = "idle" => r = Idle
           /\ r.at = "running" => r.iteration \in Iterations /\ r.command \in Commands /\ r.number \in Numbers
           /\ r.at \in {"ran", "logged"} => r.run \in Runs
           /\ r.at = "signed" => r.payload \in Payloads
BY DEF RecorderStates, Idle

LEMMA InvInit == Init => IInv
<1> SUFFICES ASSUME Init PROVE IInv
  OBVIOUS
<1>1. TypeOK
  BY EvidenceAssumptions DEF Init, TypeOK, RecorderStates
<1>2. \A p \in Recorders : recorders[p].at \notin {"ran", "logged"}
  BY DEF Init, Idle
<1> QED BY <1>1, <1>2 DEF Init, IInv

LEMMA InvStep == IInv /\ [Next]_vars => IInv'
<1> SUFFICES ASSUME IInv, [Next]_vars PROVE IInv'
  OBVIOUS
<1> USE DEF IInv
<1>1. TypeOK /\ \A p \in Recorders : recorders[p] \in RecorderStates
  BY DEF TypeOK
<1>2. ASSUME NEW p \in Recorders, NEW i \in Iterations, Start(p, i) PROVE IInv'
  <2> DEFINE r == [at |-> "running", iteration |-> i, command |-> command, number |-> started']
  <2>1. started' \in Numbers /\ started' \in 0..MaxRuns
    BY <1>1, <1>2, EvidenceAssumptions DEF Start, TypeOK, Numbers
  <2>2. r \in RecorderStates /\ r.at \notin {"ran", "logged"}
    BY <1>1, <1>2, <2>1 DEF Start, TypeOK, RecorderStates
  <2>3. TypeOK'
    BY <1>1, <1>2, <2>1, <2>2 DEF Start, TypeOK
  <2>4. \A q \in Recorders : recorders'[q].at \in {"ran", "logged"} => recorders'[q].run \in runs'
    BY <1>1, <1>2, <2>2 DEF Start, TypeOK
  <2>5. \A payload \in signed' : Genuine(payload)'
    BY <1>2 DEF Start, Genuine
  <2> QED BY <2>3, <2>4, <2>5
<1>3. ASSUME NEW p \in Recorders, NEW exit \in ExitCodes, Finish(p, exit) PROVE IInv'
  <2> DEFINE r == recorders[p]
             run == [iteration |-> r.iteration, command |-> r.command,
                     exit |-> exit, specAtEnd |-> spec, number |-> r.number]
             ran == [at |-> "ran", run |-> run]
  <2>1. run \in Runs
    BY <1>1, <1>3, RecorderShapes DEF Finish, Runs, TypeOK
  <2>2. ran \in RecorderStates
    BY <2>1 DEF RecorderStates
  <2>3. recorders' = [recorders EXCEPT ![p] = ran] /\ runs' = runs \cup {run}
    BY <1>3 DEF Finish
  <2>4. TypeOK'
    BY <1>1, <1>3, <2>1, <2>2, <2>3 DEF Finish, TypeOK
  <2>5. \A q \in Recorders : recorders'[q].at \in {"ran", "logged"} => recorders'[q].run \in runs'
    BY <1>1, <2>3 DEF TypeOK
  <2>6. \A payload \in signed' : Genuine(payload)'
    BY <1>3, <2>3 DEF Finish, Genuine
  <2> QED BY <2>4, <2>5, <2>6
<1>4. ASSUME NEW p \in Recorders, WriteLog(p) PROVE IInv'
  <2> DEFINE run == recorders[p].run
             logged == [at |-> "logged", run |-> run]
  <2>1. run \in runs /\ run \in Runs /\ logged \in RecorderStates
    BY <1>1, <1>4, RecorderShapes DEF WriteLog, RecorderStates
  <2>2. recorders' = [recorders EXCEPT ![p] = logged] /\ UNCHANGED <<signed, runs>>
    BY <1>1, <1>4, RecorderShapes DEF WriteLog, TypeOK
  <2>3. run.number \in Numbers
    BY <2>1 DEF Runs
  <2>4. TypeOK'
    BY <1>1, <1>4, <2>1, <2>2, <2>3 DEF WriteLog, TypeOK
  <2>5. \A q \in Recorders : recorders'[q].at \in {"ran", "logged"} => recorders'[q].run \in runs'
    BY <1>1, <2>1, <2>2 DEF TypeOK
  <2> QED BY <2>2, <2>4, <2>5 DEF Genuine
<1>5. ASSUME NEW p \in Recorders, Sign(p) PROVE IInv'
  <2> DEFINE payload == PayloadOf(recorders[p].run)
             r == [at |-> "signed", payload |-> payload]
  <2>1. recorders[p].run \in runs /\ recorders[p].run \in Runs
    BY <1>1, <1>5, RecorderShapes DEF Sign
  <2>2. payload \in Payloads
    BY <1>1, <2>1 DEF PayloadOf, Payloads, Runs, TypeOK
  <2>3. r \in RecorderStates /\ r.at \notin {"ran", "logged"}
    BY <2>2 DEF RecorderStates
  <2>4. TypeOK'
    BY <1>1, <1>5, <2>2, <2>3 DEF Sign, TypeOK
  <2>5. \A q \in Recorders : recorders'[q].at \in {"ran", "logged"} => recorders'[q].run \in runs'
    BY <1>1, <1>5, <2>3 DEF Sign, TypeOK
  <2>6. Genuine(payload)
    BY <2>1 DEF Genuine, PayloadOf
  <2>7. \A signedPayload \in signed' : Genuine(signedPayload)'
    BY <1>5, <2>6 DEF Sign, Genuine
  <2> QED BY <2>4, <2>5, <2>7
<1>6. ASSUME NEW p \in Recorders, WriteRecord(p) \/ Crash(p) PROVE IInv'
  <2>1. Idle \in RecorderStates /\ Idle.at \notin {"ran", "logged"}
    BY DEF RecorderStates, Idle
  <2>2. recorders' = [recorders EXCEPT ![p] = Idle] /\ UNCHANGED <<signed, runs>>
    BY <1>6 DEF WriteRecord, Crash
  <2>3. records' \in [Iterations -> Payloads \cup {NoRecord}]
    BY <1>1, <1>6, RecorderShapes DEF WriteRecord, Crash, TypeOK
  <2>4. TypeOK'
    BY <1>1, <1>6, <2>1, <2>2, <2>3 DEF WriteRecord, Crash, TypeOK
  <2>5. \A q \in Recorders : recorders'[q].at \in {"ran", "logged"} => recorders'[q].run \in runs'
    BY <1>1, <2>1, <2>2 DEF TypeOK
  <2> QED BY <2>2, <2>4, <2>5 DEF Genuine
<1>7. ASSUME EditSpec \/ EditCommand \/ \E i \in Iterations : PutRecord(i) PROVE IInv'
  <2>1. TypeOK'
    BY <1>1, <1>7 DEF EditSpec, EditCommand, PutRecord, TypeOK
  <2> QED BY <1>7, <2>1 DEF EditSpec, EditCommand, PutRecord, Genuine
<1>8. CASE UNCHANGED vars
  BY <1>8 DEF vars, TypeOK, Genuine
<1> QED BY <1>2, <1>3, <1>5, <1>6, <1>7, <1>8, <1>4 DEF Next

LEMMA EvidenceInv == Spec => []IInv
BY InvInit, InvStep, PTL DEF Spec

(* The files, recorders and history keep their types. *)
THEOREM EvidenceTypes == Spec => []TypeOK
BY EvidenceInv, PTL DEF IInv

(* No copying, restoring, editing, interleaving or killing makes evidence  *)
(* verify that no run of the configured command for that iteration with    *)
(* exit code 0 backs.                                                      *)
THEOREM EvidenceAttested == Spec => []Attested
<1>1. IInv => Attested
  BY DEF IInv, Genuine, Verifies, Attested
<1> QED BY <1>1, EvidenceInv, PTL

-----------------------------------------------------------------------------
(* The last run is the one on record. *)

(* The numbers of runs are given out in order, none of them twice. *)
Numbered ==
    /\ \A run \in runs : run.number <= started
    /\ \A p \in Recorders : recorders[p].at = "running" =>
         /\ recorders[p].number <= started
         /\ \A run \in runs : run.number # recorders[p].number
         /\ \A q \in Recorders \ {p} :
              recorders[q].at = "running" => recorders[q].number # recorders[p].number
    /\ \A run, other \in runs : run.number = other.number => run = other

Newest(run) ==
    /\ run \in runs
    /\ \A other \in runs : other.iteration = run.iteration => other.number <= run.number

(* Whoever works on an iteration that nobody has disturbed does so alone. *)
Alone ==
    \A i \in Iterations \ disturbed : \A p, q \in Recorders :
        WorksOn(p, i) /\ WorksOn(q, i) => p = q

(* What it is about to log, to sign or to record is the newest run. *)
InHand(p) ==
    LET r == recorders[p] IN
    /\ r.at = "running" /\ r.iteration \notin disturbed =>
         \A run \in runs : run.iteration = r.iteration => run.number < r.number
    /\ r.at \in {"ran", "logged"} /\ r.run.iteration \notin disturbed => Newest(r.run)
    /\ r.at = "logged" /\ r.run.iteration \notin disturbed => logs[r.run.iteration] = r.run.number
    /\ r.at = "signed" /\ r.payload.iteration \notin disturbed =>
         \E run \in runs : /\ Newest(run)
                           /\ run.iteration = r.payload.iteration
                           /\ run.exit = r.payload.exit
                           /\ run.number = r.payload.output
                           /\ logs[run.iteration] = run.number

(* Inductive: LastRunRecorded says nothing of iterations that recorders    *)
(* work on.                                                                *)
LastInv ==
    /\ Numbered
    /\ Alone
    /\ \A p \in Recorders : InHand(p)
    /\ LastRunRecorded

LEMMA LastInit == Init => LastInv
<1> SUFFICES ASSUME Init PROVE LastInv
  OBVIOUS
<1>1. runs = {} /\ \A p \in Recorders : recorders[p] = Idle /\ recorders[p].at = "idle"
  BY DEF Init, Idle
<1>2. \A p \in Recorders, i \in Iterations : ~WorksOn(p, i)
  BY <1>1 DEF WorksOn
<1>3. Numbered /\ Alone
  BY <1>1, <1>2 DEF Numbered, Alone
<1>4. \A p \in Recorders : InHand(p)
  BY <1>1 DEF InHand
<1>5. LastRunRecorded
  BY <1>1 DEF LastRunRecorded
<1> QED BY <1>3, <1>4, <1>5 DEF LastInv

(* A step of one recorder leaves the others where they were. *)
LEMMA OthersStay ==
    ASSUME NEW p \in Recorders, NEW r, recorders \in [Recorders -> RecorderStates],
           recorders' = [recorders EXCEPT ![p] = r]
    PROVE  /\ recorders'[p] = r
           /\ \A q \in Recorders \ {p} :
                recorders'[q] = recorders[q]
OBVIOUS

LEMMA LastStep == IInv /\ LastInv /\ [Next]_vars => LastInv'
<1> SUFFICES ASSUME IInv, LastInv, [Next]_vars PROVE LastInv'
  OBVIOUS
<1>0. /\ TypeOK /\ recorders \in [Recorders -> RecorderStates]
      /\ runs \subseteq Runs /\ started \in Nat
      /\ \A run \in runs : run.number \in Nat /\ run.iteration \in Iterations
  BY EvidenceAssumptions DEF IInv, TypeOK, Runs, Numbers
<1> USE DEF LastInv
<1>1. ASSUME NEW p \in Recorders, NEW i \in Iterations, Start(p, i) PROVE LastInv'
  <2> DEFINE r == [at |-> "running", iteration |-> i, command |-> command, number |-> started']
  <2>1. recorders' = [recorders EXCEPT ![p] = r] /\ UNCHANGED <<runs, logs, records>>
    BY <1>1 DEF Start
  <2>2. started' = started + 1 /\ recorders[p].at = "idle"
    BY <1>1 DEF Start, Idle
  <2>3. \A j \in Iterations : ~WorksOn(p, j)
    BY <2>2 DEF WorksOn
  <2>4. disturbed \subseteq disturbed'
    BY <1>1 DEF Start
  <2>5. i \notin disturbed' => \A q \in Recorders : ~WorksOn(q, i)
    BY <1>1 DEF Start
  <2>6. \A j \in Iterations : WorksOn(p, j)' <=> j = i
    BY <1>0, <2>1, OthersStay DEF WorksOn
  <2>a. \A q \in Recorders \ {p}, j \in Iterations : WorksOn(q, j)' <=> WorksOn(q, j)
    BY <1>0, <2>1, OthersStay DEF WorksOn
  <2>7. Numbered'
    <3>1. \A q \in Recorders : recorders[q].at = "running" => recorders[q].number \in Nat
      BY <1>0, RecorderShapes DEF Numbers
    <3> QED BY <1>0, <2>1, <2>2, <3>1, OthersStay DEF Numbered
  <2>8. Alone'
    BY <1>0, <2>1, <2>4, <2>5, <2>6, <2>a DEF Alone
  <2>9. ASSUME NEW q \in Recorders PROVE InHand(q)'
    <3>1. CASE q = p
      <4>1. \A run \in runs : run.number < started'
        BY <1>0, <2>2 DEF Numbered
      <4> QED BY <1>0, <2>1, <3>1, <4>1, OthersStay DEF InHand
    <3>2. CASE q # p
      BY <1>0, <2>1, <2>4, <3>2, OthersStay DEF InHand, Newest
    <3> QED BY <3>1, <3>2
  <2>10. LastRunRecorded'
    BY <1>0, <2>1, <2>3, <2>4, <2>6, <2>a DEF LastRunRecorded
  <2> QED BY <2>7, <2>8, <2>9, <2>10
<1>2. ASSUME NEW p \in Recorders, NEW exit \in ExitCodes, Finish(p, exit) PROVE LastInv'
  <2> DEFINE old == recorders[p]
             run == [iteration |-> old.iteration, command |-> old.command,
                     exit |-> exit, specAtEnd |-> spec, number |-> old.number]
             r == [at |-> "ran", run |-> run]
             i == old.iteration
  <2>1. /\ recorders' = [recorders EXCEPT ![p] = r]
        /\ runs' = runs \cup {run}
        /\ UNCHANGED <<logs, records, disturbed, started>>
        /\ old.at = "running"
    BY <1>2 DEF Finish
  <2>2. i \in Iterations /\ old.number \in Nat
    BY <1>0, <2>1, RecorderShapes DEF Numbers
  <2>3. /\ \A j \in Iterations : WorksOn(p, j) <=> j = i
        /\ \A j \in Iterations : WorksOn(p, j)' <=> j = i
    BY <1>0, <2>1, OthersStay DEF WorksOn
  <2>4. run.iteration = i /\ run.number = old.number
    OBVIOUS
  <2> HIDE DEF run
  <2>a. \A q \in Recorders \ {p}, j \in Iterations : WorksOn(q, j)' <=> WorksOn(q, j)
    BY <1>0, <2>1, OthersStay DEF WorksOn
  <2>5. Numbered'
    BY <1>0, <2>1, <2>2, <2>4, OthersStay DEF Numbered
  <2>6. Alone'
    BY <1>0, <2>1, <2>3, <2>a DEF Alone
  <2>7. ASSUME NEW q \in Recorders PROVE InHand(q)'
    <3>1. CASE q = p
      BY <1>0, <2>1, <2>2, <2>4, <3>1, OthersStay DEF InHand, Newest
    <3>2. CASE q # p
      <4>1. i \notin disturbed => ~WorksOn(q, i)
        BY <2>2, <2>3, <3>2 DEF Alone
      <4>2. recorders'[q] = recorders[q] /\ UNCHANGED <<logs, disturbed>>
        BY <1>0, <2>1, <3>2, OthersStay
      <4>3. ASSUME NEW j \in Iterations \ disturbed, WorksOn(q, j)
            PROVE  \A other \in runs' : other.iteration = j => other \in runs
        BY <2>1, <2>4, <4>1, <4>3
      <4> QED BY <1>0, <2>1, <2>4, <4>1, <4>2, <4>3, RecorderShapes DEF InHand, Newest, WorksOn
    <3> QED BY <3>1, <3>2
  <2>8. LastRunRecorded'
    BY <1>0, <2>1, <2>2, <2>3, <2>4, <2>a DEF LastRunRecorded
  <2> QED BY <2>5, <2>6, <2>7, <2>8
<1>3. ASSUME NEW p \in Recorders, WriteLog(p) PROVE LastInv'
  <2> DEFINE run == recorders[p].run
             r == [at |-> "logged", run |-> run]
             i == run.iteration
  <2>1. /\ recorders' = [recorders EXCEPT ![p] = r]
        /\ logs' = [logs EXCEPT ![i] = run.number]
        /\ UNCHANGED <<runs, records, disturbed, started>>
        /\ recorders[p].at = "ran"
    BY <1>0, <1>3 DEF WriteLog
  <2>2. run \in Runs /\ i \in Iterations /\ logs \in [Iterations -> Numbers \cup {NoLog}]
    BY <1>0, <2>1, RecorderShapes DEF Runs, TypeOK
  <2>3. /\ \A j \in Iterations : WorksOn(p, j) <=> j = i
        /\ \A j \in Iterations : WorksOn(p, j)' <=> j = i
    BY <1>0, <2>1, OthersStay DEF WorksOn
  <2>a. \A q \in Recorders \ {p}, j \in Iterations : WorksOn(q, j)' <=> WorksOn(q, j)
    BY <1>0, <2>1, OthersStay DEF WorksOn
  <2>4. Numbered'
    BY <1>0, <2>1, OthersStay DEF Numbered
  <2>5. Alone'
    BY <1>0, <2>1, <2>3, <2>a DEF Alone
  <2>6. ASSUME NEW q \in Recorders PROVE InHand(q)'
    <3>1. CASE q = p
      BY <1>0, <2>1, <2>2, <3>1, OthersStay DEF InHand, Newest
    <3>2. CASE q # p
      <4>1. i \notin disturbed => ~WorksOn(q, i)
        BY <2>2, <2>3, <3>2 DEF Alone
      <4>2. recorders'[q] = recorders[q] /\ UNCHANGED <<runs, disturbed>>
        BY <1>0, <2>1, <3>2, OthersStay
      <4>3. ASSUME NEW j \in Iterations \ disturbed, WorksOn(q, j) PROVE logs'[j] = logs[j]
        BY <2>1, <2>2, <4>1, <4>3
      <4> QED BY <1>0, <4>2, <4>3, RecorderShapes DEF InHand, Newest, WorksOn, Runs, Payloads
    <3> QED BY <3>1, <3>2
  <2>7. LastRunRecorded'
    BY <1>0, <2>1, <2>2, <2>3, <2>a DEF LastRunRecorded
  <2> QED BY <2>4, <2>5, <2>6, <2>7
<1>4. ASSUME NEW p \in Recorders, Sign(p) PROVE LastInv'
  <2> DEFINE run == recorders[p].run
             payload == PayloadOf(run)
             r == [at |-> "signed", payload |-> payload]
             i == run.iteration
  <2>1. /\ recorders' = [recorders EXCEPT ![p] = r]
        /\ UNCHANGED <<runs, records, logs, disturbed, started>>
        /\ recorders[p].at = "logged"
    BY <1>0, <1>4 DEF Sign
  <2>2. run \in runs /\ i \in Iterations
    BY <1>0, <2>1 DEF IInv
  <2>3. payload.iteration = i /\ payload.exit = run.exit /\ payload.output = run.number
    BY DEF PayloadOf
  <2> HIDE DEF payload
  <2>4. /\ \A j \in Iterations : WorksOn(p, j) <=> j = i
        /\ \A j \in Iterations : WorksOn(p, j)' <=> j = i
    BY <1>0, <2>1, <2>3, OthersStay DEF WorksOn
  <2>a. \A q \in Recorders \ {p}, j \in Iterations : WorksOn(q, j)' <=> WorksOn(q, j)
    BY <1>0, <2>1, OthersStay DEF WorksOn
  <2>5. Numbered'
    BY <1>0, <2>1, OthersStay DEF Numbered
  <2>6. Alone'
    BY <1>0, <2>1, <2>4, <2>a DEF Alone
  <2>7. ASSUME NEW q \in Recorders PROVE InHand(q)'
    <3>1. CASE q = p
      BY <1>0, <2>1, <2>2, <2>3, <3>1, OthersStay DEF InHand, Newest
    <3>2. CASE q # p
      BY <1>0, <2>1, <3>2, OthersStay DEF InHand, Newest
    <3> QED BY <3>1, <3>2
  <2>8. LastRunRecorded'
    BY <1>0, <2>1, <2>2, <2>4, <2>a DEF LastRunRecorded
  <2> QED BY <2>5, <2>6, <2>7, <2>8
<1>5. ASSUME NEW p \in Recorders, WriteRecord(p) PROVE LastInv'
  <2> DEFINE payload == recorders[p].payload
             i == payload.iteration
  <2>1. /\ recorders' = [recorders EXCEPT ![p] = Idle]
        /\ records' = [records EXCEPT ![i] = payload]
        /\ UNCHANGED <<runs, logs, disturbed, started>>
        /\ recorders[p].at = "signed"
        /\ Idle.at = "idle"
    BY <1>5 DEF WriteRecord, Idle
  <2>2. i \in Iterations /\ records \in [Iterations -> Payloads \cup {NoRecord}]
    BY <1>0, <2>1, RecorderShapes DEF Payloads, TypeOK
  <2>3. /\ \A j \in Iterations : WorksOn(p, j) <=> j = i
        /\ \A j \in Iterations : ~WorksOn(p, j)'
    BY <1>0, <2>1, OthersStay DEF WorksOn
  <2>a. \A q \in Recorders \ {p}, j \in Iterations : WorksOn(q, j)' <=> WorksOn(q, j)
    BY <1>0, <2>1, OthersStay DEF WorksOn
  <2>4. Numbered'
    BY <1>0, <2>1, OthersStay DEF Numbered
  <2>5. Alone'
    BY <1>0, <2>1, <2>3, <2>a DEF Alone
  <2>6. ASSUME NEW q \in Recorders PROVE InHand(q)'
    <3>1. CASE q = p
      BY <1>0, <2>1, <3>1, OthersStay DEF InHand
    <3>2. CASE q # p
      BY <1>0, <2>1, <3>2, OthersStay DEF InHand, Newest
    <3> QED BY <3>1, <3>2
  <2>7. LastRunRecorded'
    <3> SUFFICES ASSUME NEW j \in Iterations \ disturbed,
                        \A q \in Recorders : ~WorksOn(q, j)',
                        NEW run \in runs, run.iteration = j
                 PROVE  \/ \E later \in runs : later.iteration = j /\ later.number > run.number
                        \/ /\ logs[j] = run.number
                           /\ records'[j].iteration = j
                           /\ records'[j].output = run.number
                           /\ records'[j].exit = run.exit
      BY <2>1 DEF LastRunRecorded
    <3>1. CASE j = i
      <4>1. PICK newest \in runs : /\ Newest(newest)
                                   /\ newest.iteration = i
                                   /\ newest.exit = payload.exit
                                   /\ newest.number = payload.output
                                   /\ logs[i] = newest.number
        BY <2>1, <3>1 DEF InHand
      <4>2. run.number = newest.number => run = newest
        BY DEF Numbered
      <4>3. run.number < newest.number \/ run.number = newest.number
        BY <1>0, <3>1, <4>1 DEF Newest
      <4> QED BY <1>0, <2>1, <2>2, <3>1, <4>1, <4>2, <4>3
    <3>2. CASE j # i
      <4>1. \A q \in Recorders : ~WorksOn(q, j)
        BY <1>0, <2>1, <2>3, <3>2, <2>a
      <4> QED BY <2>1, <2>2, <3>2, <4>1 DEF LastRunRecorded
    <3> QED BY <3>1, <3>2
  <2> QED BY <2>4, <2>5, <2>6, <2>7
<1>6. ASSUME NEW p \in Recorders, Crash(p) PROVE LastInv'
  <2>1. /\ recorders' = [recorders EXCEPT ![p] = Idle]
        /\ UNCHANGED <<runs, logs, records, started>>
        /\ disturbed \subseteq disturbed'
        /\ \A j \in Iterations \ disturbed' : ~WorksOn(p, j)
        /\ Idle.at = "idle"
    BY <1>6 DEF Crash, Idle
  <2>2. \A j \in Iterations : ~WorksOn(p, j)'
    BY <1>0, <2>1, OthersStay DEF WorksOn
  <2>a. \A q \in Recorders \ {p}, j \in Iterations : WorksOn(q, j)' <=> WorksOn(q, j)
    BY <1>0, <2>1, OthersStay DEF WorksOn
  <2>3. Numbered'
    BY <1>0, <2>1, OthersStay DEF Numbered
  <2>4. Alone'
    BY <1>0, <2>1, <2>2, <2>a DEF Alone
  <2>5. ASSUME NEW q \in Recorders PROVE InHand(q)'
    <3>1. CASE q = p
      BY <1>0, <2>1, <3>1, OthersStay DEF InHand
    <3>2. CASE q # p
      BY <1>0, <2>1, <3>2, OthersStay DEF InHand, Newest
    <3> QED BY <3>1, <3>2
  <2>6. LastRunRecorded'
    BY <1>0, <2>1, <2>2, <2>a DEF LastRunRecorded
  <2> QED BY <2>3, <2>4, <2>5, <2>6
<1>7. CASE EditSpec \/ EditCommand \/ UNCHANGED vars
  <2>1. UNCHANGED <<records, logs, recorders, runs, disturbed, started>>
    BY <1>7 DEF EditSpec, EditCommand, vars
  <2>2. Numbered' /\ Alone'
    BY <2>1 DEF Numbered, Alone, WorksOn
  <2>3. \A q \in Recorders : InHand(q)'
    BY <2>1 DEF InHand, Newest
  <2>4. LastRunRecorded'
    BY <2>1 DEF LastRunRecorded, WorksOn
  <2> QED BY <2>2, <2>3, <2>4
<1>8. ASSUME NEW i \in Iterations, PutRecord(i) PROVE LastInv'
  <2>1. /\ UNCHANGED <<logs, recorders, runs, started>>
        /\ disturbed' = disturbed \cup {i}
        /\ \A j \in Iterations \ {i} : records'[j] = records[j]
    BY <1>0, <1>8 DEF PutRecord, TypeOK
  <2>2. Numbered' /\ Alone'
    BY <2>1 DEF Numbered, Alone, WorksOn
  <2>3. \A q \in Recorders : InHand(q)'
    BY <2>1 DEF InHand, Newest
  <2>4. LastRunRecorded'
    BY <2>1 DEF LastRunRecorded, WorksOn
  <2> QED BY <2>2, <2>3, <2>4
<1> QED BY <1>1, <1>2, <1>3, <1>4, <1>5, <1>6, <1>7, <1>8 DEF Next

(* In an iteration whose recorders have not overlapped or been killed, and *)
(* whose record nobody has touched, log and record are those of its last   *)
(* run, for any number of recorders and runs.                              *)
THEOREM LastRunIsRecorded == Spec => []LastRunRecorded
<1>1. LastInv => LastRunRecorded
  BY DEF LastInv
<1> QED BY <1>1, LastInit, LastStep, EvidenceInv, PTL DEF Spec
=============================================================================
