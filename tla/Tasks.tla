------------------------------- MODULE Tasks -------------------------------
(***************************************************************************)
(* The task scheduler of wb-runtime (tasks.rs): .wannabuild/tasks.json and *)
(* the active_task_ids of state.json.  Every command holds the project     *)
(* lock, so commands do not interleave; but claim, complete and block      *)
(* replace tasks.json first and state.json last, and may be killed between *)
(* the two.                                                                *)
(***************************************************************************)
EXTENDS Naturals, Sequences, FiniteSets

CONSTANTS Ids,       \* task ids
          Owners,    \* who claims tasks
          Plans      \* what tasks.md may say: sequences of [id, deps]

VARIABLES tasks,     \* .wannabuild/tasks.json: a sequence of tasks
          active,    \* state.active_task_ids
          cmd,       \* the command between its write of tasks.json and of state.json
          planReady, \* the plan gate, see Workflow
          stale      \* history: ids that a crash, a new plan or a repeated id may have
           \* left marked wrongly in active

vars == <<tasks, active, cmd, planReady, stale>>

NoOne == "none"
Idle == [op |-> "idle"]
StatusesOfTasks == {"ready", "pending", "in_progress", "complete", "blocked"}

ASSUME TaskAssumptions ==
    /\ NoOne \notin Owners
    /\ \A plan \in Plans : plan \in Seq([id : Ids, deps : SUBSET Ids])

-----------------------------------------------------------------------------
(* The list.  A command works on the first task with its id; a dependency  *)
(* is looked up in a map by id, which holds the last.                      *)

IdsIn(ts) == {ts[i].id : i \in DOMAIN ts}
At(ts, id) == {i \in DOMAIN ts : ts[i].id = id}
FirstAt(ts, id) == CHOOSE i \in At(ts, id) : \A j \in At(ts, id) : i <= j
LastAt(ts, id) == CHOOSE i \in At(ts, id) : \A j \in At(ts, id) : j <= i
Repeated(ts) == {id \in IdsIn(ts) : FirstAt(ts, id) # LastAt(ts, id)}
Unique(ts) == Repeated(ts) = {}

DependenciesComplete(ts, task) ==
    \A id \in task.deps : id \in IdsIn(ts) /\ ts[LastAt(ts, id)].status = "complete"

(* Faulty variants: only a task imported without dependencies is ready; the *)
(* dependencies are not looked at.                                          *)
IsReadyAtOnce(ts, task) == task.status = "ready" /\ DependenciesComplete(ts, task)
IsReadyByStatus(ts, task) == task.status \in {"pending", "ready"}

IsReady(ts, task) == task.status \in {"pending", "ready"} /\ DependenciesComplete(ts, task)

(* What tasks next answers: the first ready task of the file, if any. *)
ReadyAt(ts) == {i \in DOMAIN ts : IsReady(ts, ts[i])}
NextAt(ts) == CHOOSE i \in ReadyAt(ts) : \A j \in ReadyAt(ts) : i <= j
NextTask(ts) == ts[NextAt(ts)]

(* Faulty variant: whoever asks takes the task over. *)
ClaimableByAnyone(ts, id, owner) ==
    /\ id \in IdsIn(ts)
    /\ DependenciesComplete(ts, ts[FirstAt(ts, id)])
    /\ ts[FirstAt(ts, id)].status \in {"pending", "ready", "in_progress"}

Claimable(ts, id, owner) ==
    /\ id \in IdsIn(ts)
    /\ LET task == ts[FirstAt(ts, id)] IN
       /\ DependenciesComplete(ts, task)
       /\ \/ task.status \in {"pending", "ready"}
          \/ task.status = "in_progress" /\ task.owner = owner

(* "verifying", the other status it accepts, is set by no command; the     *)
(* checkpoint that a completion requires is taken to be given.             *)
Completable(ts, id) ==
    /\ id \in IdsIn(ts)
    /\ ts[FirstAt(ts, id)].status = "in_progress"
    /\ DependenciesComplete(ts, ts[FirstAt(ts, id)])

-----------------------------------------------------------------------------
(* The commands *)

(* A task of a new plan keeps the status and owner its id had. *)
Imported(plan) ==
    [i \in DOMAIN plan |->
       LET id == plan[i].id
           kept == id \in IdsIn(tasks)
           old == tasks[LastAt(tasks, id)]
       IN [id |-> id, deps |-> plan[i].deps,
           status |-> IF kept THEN old.status
                      ELSE IF plan[i].deps = {} THEN "ready" ELSE "pending",
           owner |-> IF kept THEN old.owner ELSE NoOne]]

(* import replaces tasks.json and leaves state.json alone; a plan without  *)
(* tasks is an error.                                                      *)
Import(plan) ==
    /\ cmd = Idle
    /\ plan # <<>>
    /\ tasks' = Imported(plan)
    /\ stale' = stale \cup {id \in active : id \notin IdsIn(tasks')} \cup Repeated(tasks)
    /\ UNCHANGED <<active, cmd, planReady>>

(* Faulty variant: the other name of a status. *)
UpdatedAsClaimed(id, status, owner) ==
    [tasks EXCEPT ![FirstAt(tasks, id)] =
        [id |-> @.id, deps |-> @.deps, owner |-> owner,
         status |-> IF status = "in_progress" THEN "claimed" ELSE status]]

Updated(id, status, owner) ==
    [tasks EXCEPT ![FirstAt(tasks, id)] =
        [id |-> @.id, deps |-> @.deps, status |-> status, owner |-> owner]]

OwnerOf(id) == tasks[FirstAt(tasks, id)].owner

Claim(id, owner) ==
    /\ cmd = Idle
    /\ planReady
    /\ Claimable(tasks, id, owner)
    /\ tasks' = Updated(id, "in_progress", owner)
    /\ cmd' = [op |-> "claim", id |-> id]
    /\ UNCHANGED <<active, planReady, stale>>

Complete(id) ==
    /\ cmd = Idle
    /\ Completable(tasks, id)
    /\ tasks' = Updated(id, "complete", OwnerOf(id))
    /\ cmd' = [op |-> "complete", id |-> id]
    /\ UNCHANGED <<active, planReady, stale>>

(* block asks nothing of the task: a complete one may be blocked. *)
Block(id) ==
    /\ cmd = Idle
    /\ id \in IdsIn(tasks)
    /\ tasks' = Updated(id, "blocked", OwnerOf(id))
    /\ cmd' = [op |-> "block", id |-> id]
    /\ UNCHANGED <<active, planReady, stale>>

(* Faulty variant: only a claim touches the list of active tasks. *)
ActiveAfterClaim == active \cup {cmd.id}

ActiveAfter == IF cmd.op = "claim" THEN active \cup {cmd.id} ELSE active \ {cmd.id}

(* The event is appended and state.json replaced; the lock is released. *)
UpdateActive ==
    /\ cmd # Idle
    /\ active' = ActiveAfter
    /\ stale' = stale \ {cmd.id}
    /\ cmd' = Idle
    /\ UNCHANGED <<tasks, planReady>>

(* The process is killed before it replaces state.json. *)
Crash ==
    /\ cmd # Idle
    /\ cmd' = Idle
    /\ stale' = stale \cup {cmd.id}
    /\ UNCHANGED <<tasks, active, planReady>>

(* The plan's files come and go. *)
EditPlan == planReady' = ~planReady /\ UNCHANGED <<tasks, active, cmd, stale>>

Init ==
    /\ tasks = <<>>
    /\ active = {}
    /\ cmd = Idle
    /\ planReady = FALSE
    /\ stale = {}

Next ==
    \/ \E plan \in Plans : Import(plan)
    \/ \E id \in Ids, owner \in Owners : Claim(id, owner)
    \/ \E id \in Ids : Complete(id)
    \/ \E id \in Ids : Block(id)
    \/ UpdateActive
    \/ Crash
    \/ EditPlan

Spec == Init /\ [][Next]_vars

-----------------------------------------------------------------------------
(* Properties *)

Task == [id : Ids, deps : SUBSET Ids, status : StatusesOfTasks, owner : Owners \cup {NoOne}]

(* tasks.json, the list of active tasks and the running command. *)
TypeOK ==
    /\ tasks \in Seq(Task)
    /\ active \subseteq Ids
    /\ cmd \in [op : {"idle"}] \cup [op : {"claim", "complete", "block"}, id : Ids]
    /\ planReady \in BOOLEAN
    /\ stale \subseteq Ids

(* state.json lists as active exactly the tasks in progress, except those  *)
(* whose command was killed half way, that a new plan dropped meanwhile or *)
(* that a plan had twice.  The two files are written one after the other,  *)
(* by commands and re-imports in any order.                                *)
ActiveAgrees ==
    cmd = Idle /\ Unique(tasks) =>
        \A i \in DOMAIN tasks :
            tasks[i].id \notin stale =>
                (tasks[i].id \in active <=> tasks[i].status = "in_progress")

(* A task someone works on has that owner until it is completed, blocked   *)
(* or dropped from the plan: no second claim and no re-import of an edited *)
(* plan takes it away.                                                     *)
ClaimsSurvive ==
    [][\A id \in IdsIn(tasks) \cap IdsIn(tasks') :
         Unique(tasks) /\ Unique(tasks') =>
           LET old == tasks[FirstAt(tasks, id)]
               new == tasks'[FirstAt(tasks', id)]
           IN old.status = "in_progress" =>
                \/ new.status \in {"complete", "blocked"}
                \/ new.status = "in_progress" /\ new.owner = old.owner]_vars

(* The scheduler and the claim decide by different code, and from the id   *)
(* that tasks next prints the claim goes to the first task with it.  When  *)
(* that is the task named, anyone can claim it, once the plan gate holds.  *)
(* When the plan has the id before, the claim is refused or is one that    *)
(* its owner made already: it never takes what next did not name.          *)
NextIsClaimable ==
    ReadyAt(tasks) # {} =>
        LET id == NextTask(tasks).id
            taken == tasks[FirstAt(tasks, id)]
        IN \A owner \in Owners :
             IF FirstAt(tasks, id) = NextAt(tasks)
             THEN Claimable(tasks, id, owner)
             ELSE Claimable(tasks, id, owner) =>
                     taken.status = "in_progress" /\ taken.owner = owner

(* Every id is known and the dependencies follow the order of the file. *)
WellFormed(ts) ==
    /\ Unique(ts)
    /\ \A i \in DOMAIN ts : \A id \in ts[i].deps : \E j \in 1..(i - 1) : ts[j].id = id

(* In a well-formed plan there is always something to do: while tasks are  *)
(* left, one is ready, in progress or blocked.                             *)
NoStarvation ==
    WellFormed(tasks) =>
        \/ \A i \in DOMAIN tasks : tasks[i].status = "complete"
        \/ \E i \in DOMAIN tasks : tasks[i].status \in {"in_progress", "blocked"}
        \/ ReadyAt(tasks) # {}
=============================================================================
