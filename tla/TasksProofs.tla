---------------------------- MODULE TasksProofs ----------------------------
(***************************************************************************)
(* The scheduler for any number of tasks, owners and plans: what tasks.json*)
(* and state.json say agrees, claims survive, the scheduler and the claim  *)
(* agree, and a well-formed plan never starves.                            *)
(***************************************************************************)
EXTENDS Tasks, ExtremaProofs

-----------------------------------------------------------------------------
(* The list *)

LEMMA IndexType ==
    ASSUME NEW S, NEW ts \in Seq(S)
    PROVE  /\ Len(ts) \in Nat
           /\ DOMAIN ts = 1..Len(ts)
           /\ \A i \in DOMAIN ts : ts[i] \in S
OBVIOUS

LEMMA FieldTypes ==
    ASSUME NEW ts \in Seq(Task), NEW i \in DOMAIN ts
    PROVE  /\ ts[i].id \in Ids
           /\ ts[i].status \in StatusesOfTasks
           /\ ts[i].owner \in Owners \cup {NoOne}
<1>1. ts[i] \in Task
  BY IndexType
<1> QED BY <1>1 DEF Task

LEMMA FirstAndLast ==
    ASSUME NEW S, NEW ts \in Seq(S), NEW id \in IdsIn(ts)
    PROVE  /\ FirstAt(ts, id) \in DOMAIN ts /\ ts[FirstAt(ts, id)].id = id
           /\ \A j \in At(ts, id) : FirstAt(ts, id) <= j
           /\ LastAt(ts, id) \in DOMAIN ts /\ ts[LastAt(ts, id)].id = id
           /\ \A j \in At(ts, id) : j <= LastAt(ts, id)
<1>1. At(ts, id) \in SUBSET Nat /\ At(ts, id) \in SUBSET (0..Len(ts))
  BY IndexType DEF At
<1>2. At(ts, id) # {}
  BY DEF At, IdsIn
<1>3. \E i \in At(ts, id) : \A j \in At(ts, id) : i <= j
  BY <1>1, <1>2, LeastExists
<1>4. \E i \in At(ts, id) : \A j \in At(ts, id) : i >= j
  BY <1>1, <1>2, GreatestExists, IndexType
<1>5. \E i \in At(ts, id) : \A j \in At(ts, id) : j <= i
  <2>1. PICK i \in At(ts, id) : \A j \in At(ts, id) : i >= j
    BY <1>4
  <2>2. \A j \in At(ts, id) : j <= i
    BY <1>1, <2>1
  <2> QED BY <2>2
<1>6. FirstAt(ts, id) \in At(ts, id) /\ \A j \in At(ts, id) : FirstAt(ts, id) <= j
  BY <1>3 DEF FirstAt
<1>7. LastAt(ts, id) \in At(ts, id) /\ \A j \in At(ts, id) : j <= LastAt(ts, id)
  BY <1>5 DEF LastAt
<1> QED BY <1>6, <1>7 DEF At

(* An id that is not repeated is at one place. *)
LEMMA OnePlace ==
    ASSUME NEW S, NEW ts \in Seq(S), NEW i \in DOMAIN ts, ts[i].id \notin Repeated(ts)
    PROVE  FirstAt(ts, ts[i].id) = i /\ LastAt(ts, ts[i].id) = i
<1> DEFINE id == ts[i].id
<1>1. id \in IdsIn(ts) /\ i \in At(ts, id)
  BY DEF IdsIn, At
<1>2. FirstAt(ts, id) = LastAt(ts, id)
  BY <1>1 DEF Repeated
<1>3. FirstAt(ts, id) <= i /\ i <= LastAt(ts, id) /\ FirstAt(ts, id) \in DOMAIN ts
  BY <1>1, FirstAndLast
<1> QED BY <1>2, <1>3, IndexType

LEMMA NextIsReady ==
    ASSUME NEW S, NEW ts \in Seq(S), ReadyAt(ts) # {}
    PROVE  /\ NextAt(ts) \in DOMAIN ts /\ IsReady(ts, ts[NextAt(ts)])
           /\ \A j \in ReadyAt(ts) : NextAt(ts) <= j
<1>1. ReadyAt(ts) \in SUBSET Nat
  BY IndexType DEF ReadyAt
<1>2. NextAt(ts) \in ReadyAt(ts) /\ \A j \in ReadyAt(ts) : NextAt(ts) <= j
  BY <1>1, LeastExists DEF NextAt
<1> QED BY <1>2 DEF ReadyAt

(* An earlier task with the id of the next one is not ready; it can only   *)
(* be claimed by the owner it has.                                         *)
LEMMA ReadyIsClaimable ==
    ASSUME tasks \in Seq(Task)
    PROVE  NextIsClaimable
<1> SUFFICES ASSUME ReadyAt(tasks) # {}, NEW owner \in Owners
             PROVE  LET id == NextTask(tasks).id
                        taken == tasks[FirstAt(tasks, id)]
                    IN IF FirstAt(tasks, id) = NextAt(tasks)
                       THEN Claimable(tasks, id, owner)
                       ELSE Claimable(tasks, id, owner) =>
                               taken.status = "in_progress" /\ taken.owner = owner
  BY DEF NextIsClaimable
<1> DEFINE n == NextAt(tasks)
           id == NextTask(tasks).id
           first == FirstAt(tasks, id)
<1>1. n \in DOMAIN tasks /\ IsReady(tasks, tasks[n]) /\ \A j \in ReadyAt(tasks) : n <= j
  BY NextIsReady
<1>2. id = tasks[n].id /\ id \in IdsIn(tasks) /\ n \in At(tasks, id)
  BY <1>1 DEF NextTask, IdsIn, At
<1>3. first \in DOMAIN tasks /\ first <= n
  BY <1>2, FirstAndLast
<1>4. first = n => Claimable(tasks, id, owner)
  BY <1>1, <1>2 DEF Claimable, IsReady
<1>5. ASSUME first # n, Claimable(tasks, id, owner)
      PROVE  tasks[first].status = "in_progress" /\ tasks[first].owner = owner
  <2>1. first \notin ReadyAt(tasks)
    BY <1>1, <1>3, <1>5, IndexType
  <2>2. ~IsReady(tasks, tasks[first])
    BY <1>3, <2>1 DEF ReadyAt
  <2> QED BY <1>5, <2>2 DEF Claimable, IsReady
<1> QED BY <1>4, <1>5

(* Of the tasks that are left the first has its dependencies complete. *)
LEMMA SomethingToDo ==
    ASSUME tasks \in Seq(Task)
    PROVE  NoStarvation
<1> SUFFICES ASSUME WellFormed(tasks),
                    NEW k \in DOMAIN tasks, tasks[k].status # "complete",
                    \A i \in DOMAIN tasks : tasks[i].status \notin {"in_progress", "blocked"}
             PROVE  ReadyAt(tasks) # {}
  BY DEF NoStarvation
<1> DEFINE Left == {i \in DOMAIN tasks : tasks[i].status # "complete"}
<1>1. Left \in SUBSET Nat /\ Left # {}
  BY IndexType
<1>2. PICK i \in Left : \A j \in Left : i <= j
  BY <1>1, LeastExists
<1>3. i \in DOMAIN tasks /\ i \in Nat /\ tasks[i] \in Task /\ tasks[i].status \in {"pending", "ready"}
  <2>1. i \in DOMAIN tasks /\ tasks[i].status # "complete"
    BY <1>2
  <2>2. i \in Nat /\ tasks[i] \in Task
    BY <2>1, IndexType
  <2>3. tasks[i].status \in StatusesOfTasks
    BY <2>1, FieldTypes
  <2> QED BY <2>1, <2>2, <2>3 DEF StatusesOfTasks
<1>4. ASSUME NEW id \in tasks[i].deps
      PROVE  id \in IdsIn(tasks) /\ tasks[LastAt(tasks, id)].status = "complete"
  <2>1. PICK j \in 1..(i - 1) : tasks[j].id = id
    BY <1>3, <1>4 DEF WellFormed
  <2>2. j \in DOMAIN tasks /\ j < i
    BY <1>3, <2>1, IndexType
  <2>3. j \in Nat /\ j \notin Left
    BY <1>2, <1>3, <2>1, <2>2
  <2>4. LastAt(tasks, id) = j
    BY <2>1, <2>2, OnePlace DEF WellFormed, Unique
  <2> QED BY <2>1, <2>2, <2>3, <2>4 DEF IdsIn
<1>5. IsReady(tasks, tasks[i])
  BY <1>3, <1>4 DEF IsReady, DependenciesComplete
<1> QED BY <1>3, <1>5 DEF ReadyAt

-----------------------------------------------------------------------------
(* What the commands make of the list *)

Commands == {"claim", "complete", "block"}
StatusAfter == [claim |-> "in_progress", complete |-> "complete", block |-> "blocked"]

LEMMA UpdatedIs ==
    ASSUME tasks \in Seq(Task), NEW id \in IdsIn(tasks), NEW status \in StatusesOfTasks,
           NEW owner \in Owners \cup {NoOne}
    PROVE  LET ts == Updated(id, status, owner) IN
           /\ ts \in Seq(Task)
           /\ DOMAIN ts = DOMAIN tasks
           /\ \A i \in DOMAIN tasks :
                /\ ts[i].id = tasks[i].id /\ ts[i].deps = tasks[i].deps
                /\ i # FirstAt(tasks, id) => ts[i] = tasks[i]
                /\ i = FirstAt(tasks, id) => ts[i].status = status /\ ts[i].owner = owner
<1> DEFINE k == FirstAt(tasks, id)
           r == [id |-> tasks[k].id, deps |-> tasks[k].deps, status |-> status, owner |-> owner]
           ts == Updated(id, status, owner)
<1>1. k \in DOMAIN tasks /\ tasks[k] \in Task
  BY FirstAndLast, IndexType
<1>2. r \in Task
  BY <1>1 DEF Task
<1>3. ts = [tasks EXCEPT ![k] = r]
  BY DEF Updated
<1>4. r.id = tasks[k].id /\ r.deps = tasks[k].deps /\ r.status = status /\ r.owner = owner
  OBVIOUS
<1> HIDE DEF r, k
<1>5. ts \in Seq(Task)
  BY <1>1, <1>2, <1>3
<1>6. /\ DOMAIN ts = DOMAIN tasks
      /\ ts[k] = r
      /\ \A i \in DOMAIN tasks : i # k => ts[i] = tasks[i]
  BY <1>1, <1>3
<1> HIDE DEF ts
<1>7. \A i \in DOMAIN tasks :
        /\ ts[i].id = tasks[i].id /\ ts[i].deps = tasks[i].deps
        /\ i # k => ts[i] = tasks[i]
        /\ i = k => ts[i].status = status /\ ts[i].owner = owner
  BY <1>4, <1>6
<1> QED BY <1>5, <1>6, <1>7 DEF k, ts

LEMMA ImportedIs ==
    ASSUME tasks \in Seq(Task), NEW plan \in Plans
    PROVE  LET ts == Imported(plan) IN
           /\ ts \in Seq(Task)
           /\ \A i \in DOMAIN ts :
                \/ /\ ts[i].id \in IdsIn(tasks)
                   /\ ts[i].status = tasks[LastAt(tasks, ts[i].id)].status
                   /\ ts[i].owner = tasks[LastAt(tasks, ts[i].id)].owner
                \/ /\ ts[i].id \notin IdsIn(tasks)
                   /\ ts[i].status \in {"ready", "pending"} /\ ts[i].owner = NoOne
<1> DEFINE Old(id) == tasks[LastAt(tasks, id)]
           T(i) == [id |-> plan[i].id, deps |-> plan[i].deps,
                    status |-> IF plan[i].id \in IdsIn(tasks) THEN Old(plan[i].id).status
                               ELSE IF plan[i].deps = {} THEN "ready" ELSE "pending",
                    owner |-> IF plan[i].id \in IdsIn(tasks) THEN Old(plan[i].id).owner ELSE NoOne]
           ts == Imported(plan)
<1>1. plan \in Seq([id : Ids, deps : SUBSET Ids])
  BY TaskAssumptions
<1>2. /\ Len(plan) \in Nat /\ DOMAIN plan = 1..Len(plan)
      /\ \A i \in DOMAIN plan : plan[i] \in [id : Ids, deps : SUBSET Ids]
  BY <1>1, IndexType
<1>3. ts = [i \in 1..Len(plan) |-> T(i)]
  BY <1>2 DEF Imported
<1>4. ASSUME NEW i \in 1..Len(plan) PROVE T(i) \in Task
  <2>1. plan[i].id \in Ids /\ plan[i].deps \in SUBSET Ids
    BY <1>2
  <2>2. CASE plan[i].id \in IdsIn(tasks)
    <3>1. Old(plan[i].id) \in Task
      BY <2>2, FirstAndLast, IndexType
    <3>2. /\ Old(plan[i].id).status \in StatusesOfTasks
          /\ Old(plan[i].id).owner \in Owners \cup {NoOne}
      BY <3>1 DEF Task
    <3> HIDE DEF Old
    <3> QED BY <2>1, <2>2, <3>2 DEF Task
  <2>3. CASE plan[i].id \notin IdsIn(tasks)
    BY <2>1, <2>3 DEF Task, StatusesOfTasks
  <2> QED BY <2>2, <2>3
<1>5. \A i \in 1..Len(plan) :
        \/ /\ T(i).id \in IdsIn(tasks)
           /\ T(i).status = Old(T(i).id).status /\ T(i).owner = Old(T(i).id).owner
        \/ /\ T(i).id \notin IdsIn(tasks)
           /\ T(i).status \in {"ready", "pending"} /\ T(i).owner = NoOne
  <2> HIDE DEF Old
  <2> QED OBVIOUS
<1> HIDE DEF T
<1>6. ts \in Seq(Task) /\ DOMAIN ts = 1..Len(plan) /\ \A i \in 1..Len(plan) : ts[i] = T(i)
  BY <1>2, <1>3, <1>4
<1> HIDE DEF ts
<1>7. \A i \in DOMAIN ts :
        \/ /\ ts[i].id \in IdsIn(tasks)
           /\ ts[i].status = Old(ts[i].id).status /\ ts[i].owner = Old(ts[i].id).owner
        \/ /\ ts[i].id \notin IdsIn(tasks)
           /\ ts[i].status \in {"ready", "pending"} /\ ts[i].owner = NoOne
  BY <1>5, <1>6
<1> QED BY <1>6, <1>7 DEF ts, Old

LEMMA SameIds ==
    ASSUME NEW ts, NEW us, DOMAIN us = DOMAIN ts, \A i \in DOMAIN ts : us[i].id = ts[i].id
    PROVE  /\ IdsIn(us) = IdsIn(ts)
           /\ \A id : FirstAt(us, id) = FirstAt(ts, id) /\ LastAt(us, id) = LastAt(ts, id)
           /\ Repeated(us) = Repeated(ts)
<1>1. \A id : At(us, id) = At(ts, id)
  BY DEF At
<1>2. IdsIn(us) = IdsIn(ts)
  BY DEF IdsIn
<1>3. ASSUME NEW id PROVE FirstAt(us, id) = FirstAt(ts, id) /\ LastAt(us, id) = LastAt(ts, id)
  BY <1>1 DEF FirstAt, LastAt
<1>4. Repeated(us) = Repeated(ts)
  BY <1>2, <1>3 DEF Repeated
<1> QED BY <1>2, <1>3, <1>4

(* What claim, complete and block have in common. *)
Runs(op, id, owner) ==
    /\ cmd = Idle
    /\ tasks' = Updated(id, StatusAfter[op], owner)
    /\ cmd' = [op |-> op, id |-> id]
    /\ UNCHANGED <<active, planReady, stale>>

LEMMA CommandRuns ==
    ASSUME tasks \in Seq(Task), NEW id \in Ids,
           (\E owner \in Owners : Claim(id, owner)) \/ Complete(id) \/ Block(id)
    PROVE  /\ id \in IdsIn(tasks)
           /\ \E op \in Commands, owner \in Owners \cup {NoOne} : Runs(op, id, owner)
<1>1. id \in IdsIn(tasks)
  BY DEF Claim, Complete, Block, Claimable, Completable
<1>2. OwnerOf(id) \in Owners \cup {NoOne}
  BY <1>1, FirstAndLast, FieldTypes DEF OwnerOf
<1>3. ASSUME NEW owner \in Owners, Claim(id, owner) PROVE Runs("claim", id, owner)
  BY <1>3 DEF Claim, Runs, StatusAfter
<1>4. ASSUME Complete(id) PROVE Runs("complete", id, OwnerOf(id))
  BY <1>4 DEF Complete, Runs, StatusAfter
<1>5. ASSUME Block(id) PROVE Runs("block", id, OwnerOf(id))
  BY <1>5 DEF Block, Runs, StatusAfter
<1> QED BY <1>1, <1>2, <1>3, <1>4, <1>5 DEF Commands

-----------------------------------------------------------------------------
(* The inductive invariant *)

(* A task has the status of the command that runs on it; without one it is *)
(* in progress just when it is listed as active.                           *)
Agreement ==
    \A i \in DOMAIN tasks :
        tasks[i].id \notin Repeated(tasks) =>
            IF cmd # Idle /\ cmd.id = tasks[i].id
            THEN tasks[i].status = StatusAfter[cmd.op]
            ELSE tasks[i].id \notin stale =>
                   (tasks[i].id \in active <=> tasks[i].status = "in_progress")

(* The command works on a task that exists; so does the list of active     *)
(* ones, unless a plan dropped it.                                         *)
KnownIds ==
    /\ cmd # Idle => cmd.id \in IdsIn(tasks)
    /\ active \subseteq IdsIn(tasks) \cup stale

IInv == TypeOK /\ KnownIds /\ Agreement

LEMMA CmdType ==
    /\ Idle \in [op : {"idle"}] \cup [op : Commands, id : Ids]
    /\ \A c \in [op : {"idle"}] \cup [op : Commands, id : Ids] :
         c # Idle => c.op \in Commands /\ c.id \in Ids
    /\ \A op \in Commands, id \in Ids :
         /\ [op |-> op, id |-> id] \in [op : {"idle"}] \cup [op : Commands, id : Ids]
         /\ [op |-> op, id |-> id] # Idle
<1>1. "idle" \notin Commands
  BY DEF Commands
<1>2. Idle.op = "idle"
  BY DEF Idle
<1>3. \A op \in Commands, id \in Ids : [op |-> op, id |-> id] # Idle
  <2>1. \A op, id : [op |-> op, id |-> id].op = op
    OBVIOUS
  <2> QED BY <1>1, <1>2, <2>1
<1>4. \A c \in [op : {"idle"}] : c = Idle
  BY DEF Idle
<1> QED BY <1>3, <1>4 DEF Idle

LEMMA InvInit == Init => IInv
<1> SUFFICES ASSUME Init PROVE IInv
  OBVIOUS
<1>1. DOMAIN tasks = {} /\ tasks \in Seq(Task)
  BY DEF Init
<1>2. TypeOK
  <2>1. planReady \in BOOLEAN
    BY Zenon DEF Init
  <2> QED BY <1>1, <2>1, CmdType DEF Init, TypeOK, Commands
<1>3. KnownIds /\ Agreement
  BY <1>1 DEF Init, KnownIds, Agreement
<1> QED BY <1>2, <1>3 DEF IInv

LEMMA ImportStep ==
    ASSUME IInv, NEW plan \in Plans, Import(plan)
    PROVE  IInv'
<1>1. tasks \in Seq(Task) /\ tasks' = Imported(plan) /\ cmd = Idle /\ cmd' = Idle
  BY DEF IInv, TypeOK, Import
<1>2. /\ stale' = stale \cup {id \in active : id \notin IdsIn(tasks')} \cup Repeated(tasks)
      /\ active' = active /\ planReady' = planReady
  BY DEF Import
<1>3. /\ tasks' \in Seq(Task)
      /\ \A i \in DOMAIN tasks' :
           \/ /\ tasks'[i].id \in IdsIn(tasks)
              /\ tasks'[i].status = tasks[LastAt(tasks, tasks'[i].id)].status
           \/ tasks'[i].id \notin IdsIn(tasks) /\ tasks'[i].status \in {"ready", "pending"}
  BY <1>1, ImportedIs
<1>4. Repeated(tasks) \subseteq Ids
  <2>1. \A i \in DOMAIN tasks : tasks[i].id \in Ids
    BY <1>1, FieldTypes
  <2> QED BY <2>1 DEF Repeated, IdsIn
<1>5. TypeOK'
  BY <1>1, <1>2, <1>3, <1>4 DEF IInv, TypeOK
<1>6. KnownIds'
  BY <1>1, <1>2 DEF IInv, KnownIds
<1>7. ASSUME NEW i \in DOMAIN tasks', tasks'[i].id \notin stale'
      PROVE  tasks'[i].id \in active <=> tasks'[i].status = "in_progress"
  <2> DEFINE id == tasks'[i].id
             k == LastAt(tasks, id)
  <2>1. CASE id \in IdsIn(tasks)
    <3>1. k \in DOMAIN tasks /\ tasks[k].id = id
      BY <1>1, <2>1, FirstAndLast
    <3>2. id \notin Repeated(tasks) /\ id \notin stale
      BY <1>2, <1>7
    <3>3. id \in active <=> tasks[k].status = "in_progress"
      BY <1>1, <3>1, <3>2 DEF IInv, Agreement
    <3> QED BY <1>3, <2>1, <3>3
  <2>2. CASE id \notin IdsIn(tasks)
    <3>1. id \notin active
      BY <1>2, <1>7, <2>2 DEF IInv, KnownIds
    <3> QED BY <1>3, <2>2, <3>1
  <2> QED BY <2>1, <2>2
<1>8. Agreement'
  BY <1>1, <1>2, <1>7 DEF Agreement
<1> QED BY <1>5, <1>6, <1>8 DEF IInv

(* claim, complete and block, up to the point where tasks.json is written. *)
LEMMA RunsStep ==
    ASSUME IInv, NEW op \in Commands, NEW id \in Ids, id \in IdsIn(tasks),
           NEW owner \in Owners \cup {NoOne}, Runs(op, id, owner)
    PROVE  IInv'
<1>1. tasks \in Seq(Task) /\ StatusAfter[op] \in StatusesOfTasks
  BY DEF IInv, TypeOK, Commands, StatusAfter, StatusesOfTasks
<1>2. /\ tasks' \in Seq(Task)
      /\ DOMAIN tasks' = DOMAIN tasks
      /\ \A i \in DOMAIN tasks :
           /\ tasks'[i].id = tasks[i].id
           /\ i # FirstAt(tasks, id) => tasks'[i] = tasks[i]
           /\ i = FirstAt(tasks, id) => tasks'[i].status = StatusAfter[op]
  BY <1>1, UpdatedIs DEF Runs
<1>3. IdsIn(tasks') = IdsIn(tasks) /\ Repeated(tasks') = Repeated(tasks)
  BY <1>2, SameIds
<1>4. /\ cmd = Idle /\ cmd' # Idle /\ cmd'.id = id /\ cmd'.op = op
      /\ cmd' \in [op : {"idle"}] \cup [op : Commands, id : Ids]
      /\ UNCHANGED <<active, planReady, stale>>
  BY CmdType DEF Runs
<1>5. TypeOK'
  BY <1>2, <1>4 DEF IInv, TypeOK, Commands
<1>6. KnownIds'
  BY <1>3, <1>4 DEF IInv, KnownIds
<1>7. ASSUME NEW i \in DOMAIN tasks, tasks[i].id \notin Repeated(tasks)
      PROVE  IF tasks[i].id = id THEN tasks'[i].status = StatusAfter[op]
             ELSE tasks[i].id \notin stale =>
                    (tasks[i].id \in active <=> tasks'[i].status = "in_progress")
  <2>1. CASE tasks[i].id = id
    BY <1>1, <1>2, <1>7, <2>1, OnePlace
  <2>2. CASE tasks[i].id # id
    <3>1. tasks'[i] = tasks[i]
      BY <1>1, <1>2, <2>2, FirstAndLast
    <3> QED BY <1>4, <1>7, <2>2, <3>1 DEF IInv, Agreement
  <2> QED BY <2>1, <2>2
<1>8. Agreement'
  BY <1>2, <1>3, <1>4, <1>7 DEF Agreement
<1> QED BY <1>5, <1>6, <1>8 DEF IInv

(* state.json follows, or the command is killed. *)
LEMMA EndStep ==
    ASSUME IInv, UpdateActive \/ Crash
    PROVE  IInv'
<1>1. /\ cmd # Idle /\ cmd' = Idle /\ UNCHANGED <<tasks, planReady>>
      /\ cmd.op \in Commands /\ cmd.id \in Ids /\ cmd.id \in IdsIn(tasks)
  BY CmdType DEF UpdateActive, Crash, IInv, TypeOK, KnownIds, Commands
<1>2. CASE UpdateActive
  <2>1. active' = (IF cmd.op = "claim" THEN active \cup {cmd.id} ELSE active \ {cmd.id})
        /\ stale' = stale \ {cmd.id}
    BY <1>2 DEF UpdateActive, ActiveAfter
  <2>2. TypeOK'
    BY <1>1, <2>1, CmdType DEF IInv, TypeOK, Commands
  <2>3. KnownIds'
    BY <1>1, <2>1 DEF IInv, KnownIds
  <2>4. cmd.op = "claim" <=> StatusAfter[cmd.op] = "in_progress"
    BY <1>1 DEF Commands, StatusAfter
  <2>5. Agreement'
    BY <1>1, <2>1, <2>4 DEF IInv, Agreement
  <2> QED BY <2>2, <2>3, <2>5 DEF IInv
<1>3. CASE Crash
  <2>1. active' = active /\ stale' = stale \cup {cmd.id}
    BY <1>3 DEF Crash
  <2>2. TypeOK'
    BY <1>1, <2>1, CmdType DEF IInv, TypeOK, Commands
  <2>3. KnownIds' /\ Agreement'
    BY <1>1, <2>1 DEF IInv, KnownIds, Agreement
  <2> QED BY <2>2, <2>3 DEF IInv
<1> QED BY <1>2, <1>3

LEMMA InvStep == IInv /\ [Next]_vars => IInv'
<1> SUFFICES ASSUME IInv, [Next]_vars PROVE IInv'
  OBVIOUS
<1>1. ASSUME NEW plan \in Plans, Import(plan) PROVE IInv'
  BY <1>1, ImportStep
<1>2. ASSUME NEW id \in Ids,
             (\E owner \in Owners : Claim(id, owner)) \/ Complete(id) \/ Block(id)
      PROVE  IInv'
  BY <1>2, CommandRuns, RunsStep DEF IInv, TypeOK
<1>3. CASE UpdateActive \/ Crash
  BY <1>3, EndStep
<1>4. CASE EditPlan
  <2>1. planReady' \in BOOLEAN /\ UNCHANGED <<tasks, active, cmd, stale>>
    BY <1>4, Zenon DEF EditPlan
  <2> QED BY <2>1 DEF IInv, TypeOK, KnownIds, Agreement
<1>5. CASE UNCHANGED vars
  BY <1>5 DEF vars, IInv, TypeOK, KnownIds, Agreement
<1> QED BY <1>1, <1>2, <1>3, <1>4, <1>5 DEF Next

LEMMA TasksInv == Spec => []IInv
BY InvInit, InvStep, PTL DEF Spec

-----------------------------------------------------------------------------
(* The theorems *)

(* tasks.json, the active tasks and the running command keep their types   *)
(* under any commands, plans and kills.                                    *)
THEOREM TasksTypes == Spec => []TypeOK
BY TasksInv, PTL DEF IInv

(* tasks.json and state.json agree on what is in progress, except where a  *)
(* command was killed half way, a plan dropped the task or had it twice.   *)
THEOREM ActiveTasksAgree == Spec => []ActiveAgrees
<1>1. IInv => ActiveAgrees
  BY DEF IInv, Agreement, ActiveAgrees, Unique
<1> QED BY TasksInv, <1>1, PTL

(* The task that tasks next names can be claimed, by anyone; where an      *)
(* earlier one has its id, the claim takes nothing new, for any plans.     *)
THEOREM NextTaskIsClaimable == Spec => []NextIsClaimable
<1>1. TypeOK => NextIsClaimable
  BY ReadyIsClaimable DEF TypeOK, NextIsClaimable
<1> QED BY TasksTypes, <1>1, PTL

(* A well-formed plan always has something to do while tasks are left.     *)
THEOREM WellFormedNeverStarves == Spec => []NoStarvation
<1>1. TypeOK => NoStarvation
  BY SomethingToDo DEF TypeOK
<1> QED BY TasksTypes, <1>1, PTL

(* Nobody takes a task over: who has claimed it keeps it until it is       *)
(* completed, blocked or dropped from the plan.                            *)
THEOREM ClaimsAreKept == Spec => ClaimsSurvive
<1> DEFINE Kept(id) ==
             LET old == tasks[FirstAt(tasks, id)]
                 new == tasks'[FirstAt(tasks', id)]
             IN old.status = "in_progress" =>
                  \/ new.status \in {"complete", "blocked"}
                  \/ new.status = "in_progress" /\ new.owner = old.owner
           AllKept == \A id \in IdsIn(tasks) \cap IdsIn(tasks') :
                        Unique(tasks) /\ Unique(tasks') => Kept(id)
<1>1. TypeOK /\ [Next]_vars => [AllKept]_vars
  <2> SUFFICES ASSUME TypeOK, Next,
                      NEW id \in IdsIn(tasks) \cap IdsIn(tasks'), Unique(tasks), Unique(tasks')
               PROVE  Kept(id)
    OBVIOUS
  <2>1. tasks \in Seq(Task)
    BY DEF TypeOK
  <2>2. ASSUME NEW plan \in Plans, Import(plan) PROVE Kept(id)
    <3>1. tasks' \in Seq(Task) /\ FirstAt(tasks', id) \in DOMAIN tasks'
          /\ tasks'[FirstAt(tasks', id)].id = id
      BY <2>1, <2>2, ImportedIs, FirstAndLast DEF Import
    <3>2. /\ tasks'[FirstAt(tasks', id)].status = tasks[LastAt(tasks, id)].status
          /\ tasks'[FirstAt(tasks', id)].owner = tasks[LastAt(tasks, id)].owner
      BY <2>1, <2>2, <3>1, ImportedIs DEF Import
    <3>3. LastAt(tasks, id) = FirstAt(tasks, id)
      BY DEF Unique, Repeated
    <3> QED BY <3>2, <3>3
  <2>3. ASSUME NEW other \in Ids,
               (\E owner \in Owners : Claim(other, owner)) \/ Complete(other) \/ Block(other)
        PROVE  Kept(id)
    <3>1. other \in IdsIn(tasks)
      BY <2>1, <2>3, CommandRuns
    <3>2. PICK op \in Commands, owner \in Owners \cup {NoOne} :
             /\ tasks' = Updated(other, StatusAfter[op], owner)
             /\ op = "claim" => owner \in Owners /\ Claimable(tasks, other, owner)
      <4>1. OwnerOf(other) \in Owners \cup {NoOne}
        BY <2>1, <3>1, FirstAndLast, FieldTypes DEF OwnerOf
      <4> QED BY <2>3, <4>1 DEF Claim, Complete, Block, Commands, StatusAfter
    <3>3. StatusAfter[op] \in StatusesOfTasks
      BY DEF Commands, StatusAfter, StatusesOfTasks
    <3>4. /\ DOMAIN tasks' = DOMAIN tasks
          /\ \A i \in DOMAIN tasks :
               /\ tasks'[i].id = tasks[i].id
               /\ i # FirstAt(tasks, other) => tasks'[i] = tasks[i]
               /\ i = FirstAt(tasks, other) =>
                    tasks'[i].status = StatusAfter[op] /\ tasks'[i].owner = owner
      BY <2>1, <3>1, <3>2, <3>3, UpdatedIs
    <3>5. FirstAt(tasks', id) = FirstAt(tasks, id)
      BY <3>4, SameIds
    <3>6. /\ FirstAt(tasks, id) \in DOMAIN tasks /\ tasks[FirstAt(tasks, id)].id = id
          /\ FirstAt(tasks, other) \in DOMAIN tasks /\ tasks[FirstAt(tasks, other)].id = other
      BY <2>1, <3>1, FirstAndLast
    <3>7. CASE id # other
      BY <3>4, <3>5, <3>6, <3>7
    <3>8. CASE id = other /\ op = "claim"
      <4>1. tasks[FirstAt(tasks, id)].status = "in_progress" =>
              tasks[FirstAt(tasks, id)].owner = owner
        BY <3>2, <3>8 DEF Claimable
      <4> QED BY <3>4, <3>5, <3>6, <3>8, <4>1 DEF StatusAfter
    <3>9. CASE id = other /\ op # "claim"
      BY <3>4, <3>5, <3>6, <3>9 DEF StatusAfter, Commands
    <3> QED BY <3>7, <3>8, <3>9
  <2>4. CASE UpdateActive \/ Crash \/ EditPlan
    <3>1. tasks' = tasks
      BY <2>4 DEF UpdateActive, Crash, EditPlan
    <3> QED BY <3>1
  <2> QED BY <2>2, <2>3, <2>4 DEF Next
<1>2. Spec => [][AllKept]_vars
  BY TasksTypes, <1>1, PTL DEF Spec
<1>3. [][AllKept]_vars => ClaimsSurvive
  BY DEF ClaimsSurvive
<1> QED BY <1>2, <1>3

-----------------------------------------------------------------------------
(* The refinement *)

(* The task that a command would work on. *)
First(id) == tasks[FirstAt(tasks, id)]

Board ==
    INSTANCE TaskBoard WITH
        board <- [id \in IdsIn(tasks) |-> [status |-> First(id).status, owner |-> First(id).owner]],
        needs <- [id \in IdsIn(tasks) |-> First(id).deps],
        repeated <- Repeated(tasks)

(* The list of tasks, its commands and the plans keep the promise of the   *)
(* board, whatever is killed.                                              *)
BoardRefined == Board!BoardSpec

BoardNow == [id \in IdsIn(tasks) |-> [status |-> First(id).status, owner |-> First(id).owner]]
NeedsNow == [id \in IdsIn(tasks) |-> First(id).deps]

LEMMA BoardRefinesInit == Init => Board!BoardInit
<1> SUFFICES ASSUME Init PROVE Board!BoardInit
  OBVIOUS
<1>1. IdsIn(tasks) = {}
  BY DEF Init, IdsIn
<1>2. Repeated(tasks) = {}
  BY <1>1 DEF Repeated
<1> QED BY <1>1, <1>2 DEF Board!BoardInit

(* What the code looks up at the last place of an id, the board has at the *)
(* first; it is the same place unless the id is repeated.                  *)
LEMMA NeedsAreMet ==
    ASSUME NEW id \in IdsIn(tasks), DependenciesComplete(tasks, First(id))
    PROVE  Board!NeedsMet(id)
<1>1. ASSUME NEW need \in First(id).deps
      PROVE  /\ need \in IdsIn(tasks)
             /\ need \notin Repeated(tasks) => First(need).status = "complete"
  BY <1>1 DEF DependenciesComplete, Repeated, First
<1> QED BY <1>1 DEF Board!NeedsMet

(* A command on the first task with an id is a step of that id alone. *)
LEMMA BoardBecomes ==
    ASSUME tasks \in Seq(Task), NEW id \in IdsIn(tasks), NEW status \in StatusesOfTasks,
           NEW owner \in Owners \cup {NoOne}, tasks' = Updated(id, status, owner)
    PROVE  Board!Becomes(id, status, owner)
<1>1. /\ DOMAIN tasks' = DOMAIN tasks
      /\ \A i \in DOMAIN tasks :
           /\ tasks'[i].id = tasks[i].id /\ tasks'[i].deps = tasks[i].deps
           /\ i # FirstAt(tasks, id) => tasks'[i] = tasks[i]
           /\ i = FirstAt(tasks, id) => tasks'[i].status = status /\ tasks'[i].owner = owner
  BY UpdatedIs
<1>2. /\ IdsIn(tasks') = IdsIn(tasks) /\ Repeated(tasks') = Repeated(tasks)
      /\ \A other : FirstAt(tasks', other) = FirstAt(tasks, other)
  BY <1>1, SameIds
<1>3. \A other \in IdsIn(tasks) :
        FirstAt(tasks, other) \in DOMAIN tasks /\ tasks[FirstAt(tasks, other)].id = other
  BY FirstAndLast
<1>4. ASSUME NEW other \in IdsIn(tasks)
      PROVE  /\ First(other)'.deps = First(other).deps
             /\ other # id => First(other)' = First(other)
             /\ other = id => First(other)'.status = status /\ First(other)'.owner = owner
  BY <1>1, <1>2, <1>3 DEF First
<1>5. NeedsNow' = NeedsNow
  BY <1>2, <1>4 DEF NeedsNow
<1>6. BoardNow' = [BoardNow EXCEPT ![id] = [status |-> status, owner |-> owner]]
  BY <1>2, <1>4 DEF BoardNow
<1> QED BY <1>2, <1>5, <1>6 DEF Board!Becomes, BoardNow, NeedsNow

LEMMA BoardReplanned ==
    ASSUME tasks \in Seq(Task), NEW plan \in Plans, tasks' = Imported(plan)
    PROVE  Board!Replan
<1>1. /\ tasks' \in Seq(Task)
      /\ \A i \in DOMAIN tasks' :
           \/ /\ tasks'[i].id \in IdsIn(tasks)
              /\ tasks'[i].status = tasks[LastAt(tasks, tasks'[i].id)].status
              /\ tasks'[i].owner = tasks[LastAt(tasks, tasks'[i].id)].owner
           \/ /\ tasks'[i].id \notin IdsIn(tasks)
              /\ tasks'[i].status \in {"ready", "pending"} /\ tasks'[i].owner = NoOne
  BY ImportedIs
<1>2. ASSUME NEW id \in IdsIn(tasks')
      PROVE  IF id \in IdsIn(tasks)
             THEN id \notin Repeated(tasks) =>
                    First(id)'.status = First(id).status /\ First(id)'.owner = First(id).owner
             ELSE First(id)'.status \in {"ready", "pending"} /\ First(id)'.owner = NoOne
  <2>1. FirstAt(tasks', id) \in DOMAIN tasks' /\ tasks'[FirstAt(tasks', id)].id = id
    BY <1>1, FirstAndLast
  <2>2. id \in IdsIn(tasks) /\ id \notin Repeated(tasks) => LastAt(tasks, id) = FirstAt(tasks, id)
    BY DEF Repeated
  <2> QED BY <1>1, <2>1, <2>2 DEF First
<1> QED BY <1>2 DEF Board!Replan, Board!Open

LEMMA BoardRefinesStep ==
    TypeOK /\ [Next]_vars => [Board!BoardNext]_<<BoardNow, NeedsNow, Repeated(tasks)>>
<1> SUFFICES ASSUME TypeOK, [Next]_vars
             PROVE  Board!BoardNext \/ UNCHANGED <<BoardNow, NeedsNow, Repeated(tasks)>>
  OBVIOUS
<1>0. tasks \in Seq(Task) /\ DOMAIN BoardNow = IdsIn(tasks)
  BY DEF TypeOK, BoardNow
<1>1. ASSUME NEW plan \in Plans, Import(plan) PROVE Board!BoardNext
  BY <1>0, <1>1, BoardReplanned DEF Import, Board!BoardNext
<1>2. ASSUME NEW id \in Ids, NEW owner \in Owners, Claim(id, owner) PROVE Board!BoardNext
  <2>1. id \in IdsIn(tasks) /\ DependenciesComplete(tasks, First(id))
        /\ (\/ First(id).status \in {"ready", "pending"}
            \/ First(id).status = "in_progress" /\ First(id).owner = owner)
    BY <1>2 DEF Claim, Claimable, First
  <2>2. Board!NeedsMet(id)
    BY <2>1, NeedsAreMet
  <2>3. Board!Becomes(id, "in_progress", owner)
    BY <1>0, <1>2, <2>1, BoardBecomes DEF Claim, StatusesOfTasks
  <2>4. Board!Take(id, owner)
    BY <2>1, <2>2, <2>3 DEF Board!Take, Board!Open
  <2> QED BY <2>1, <2>4 DEF Board!BoardNext
<1>3. ASSUME NEW id \in Ids, Complete(id) \/ Block(id) PROVE Board!BoardNext
  <2>1. id \in IdsIn(tasks)
    BY <1>3 DEF Complete, Block, Completable
  <2>2. OwnerOf(id) = First(id).owner /\ OwnerOf(id) \in Owners \cup {NoOne}
    BY <1>0, <2>1, FirstAndLast, FieldTypes DEF OwnerOf, First
  <2>3. CASE Complete(id)
    <3>1. First(id).status = "in_progress" /\ DependenciesComplete(tasks, First(id))
      BY <2>3 DEF Complete, Completable, First
    <3>2. Board!NeedsMet(id)
      BY <2>1, <3>1, NeedsAreMet
    <3>3. Board!Becomes(id, "complete", First(id).owner)
      BY <1>0, <2>1, <2>2, <2>3, BoardBecomes DEF Complete, StatusesOfTasks
    <3>4. Board!Finish(id)
      BY <2>1, <3>1, <3>2, <3>3 DEF Board!Finish
    <3> QED BY <2>1, <3>4 DEF Board!BoardNext
  <2>4. CASE Block(id)
    <3>1. Board!Becomes(id, "blocked", First(id).owner)
      BY <1>0, <2>1, <2>2, <2>4, BoardBecomes DEF Block, StatusesOfTasks
    <3>2. Board!Hold(id)
      BY <2>1, <3>1 DEF Board!Hold
    <3> QED BY <2>1, <3>2 DEF Board!BoardNext
  <2> QED BY <1>3, <2>3, <2>4
<1>4. CASE UpdateActive \/ Crash \/ EditPlan \/ UNCHANGED vars
  <2>1. tasks' = tasks
    BY <1>4 DEF UpdateActive, Crash, EditPlan, vars
  <2> QED BY <2>1 DEF BoardNow, NeedsNow, First
<1> QED BY <1>1, <1>2, <1>3, <1>4 DEF Next

(* The commands on tasks.json implement the board, for any plans that may  *)
(* be imported meanwhile: nothing is taken or finished before what it      *)
(* needs, nobody loses a task, and a new plan keeps what was reached.      *)
THEOREM TasksImplementBoard == Spec => BoardRefined
<1>1. Spec => Init /\ [][Next]_vars
  BY DEF Spec
<1> QED
  BY <1>1, BoardRefinesInit, BoardRefinesStep, TasksTypes, PTL
  DEF BoardRefined, Board!BoardSpec, Board!boardVars, BoardNow, NeedsNow

=============================================================================
