----------------------------- MODULE TaskBoard -----------------------------
(***************************************************************************)
(* What the scheduler promises to those who work on tasks, without lists,  *)
(* files and kills.  A task is taken only when what it needs is complete,  *)
(* and by one owner, who keeps it until it is complete or blocked; what is *)
(* complete stays so unless it is blocked; and a new plan may drop and add *)
(* tasks but changes nothing about those it keeps.  An exception are ids   *)
(* that a plan had more than once.  Tasks is shown to implement this       *)
(* specification.                                                          *)
(***************************************************************************)
CONSTANTS Owners,
          NoOne      \* the owner of a task that nobody has taken

VARIABLES board,     \* of each task of the plan, by id, its status and its owner
          needs,     \* of each, the ids it depends on
          repeated   \* the ids that the plan has more than once

boardVars == <<board, needs, repeated>>

Open == {"ready", "pending"}

NeedsMet(id) ==
    \A need \in needs[id] :
        need \in DOMAIN board /\ (need \notin repeated => board[need].status = "complete")

Becomes(id, status, owner) ==
    /\ board' = [board EXCEPT ![id] = [status |-> status, owner |-> owner]]
    /\ UNCHANGED <<needs, repeated>>

Take(id, owner) ==
    /\ NeedsMet(id)
    /\ board[id].status \in Open \/ board[id] = [status |-> "in_progress", owner |-> owner]
    /\ Becomes(id, "in_progress", owner)

Finish(id) ==
    /\ NeedsMet(id)
    /\ board[id].status = "in_progress"
    /\ Becomes(id, "complete", board[id].owner)

Hold(id) == Becomes(id, "blocked", board[id].owner)

Replan ==
    \A id \in DOMAIN board' :
        IF id \in DOMAIN board
        THEN id \notin repeated => board'[id] = board[id]
        ELSE board'[id].status \in Open /\ board'[id].owner = NoOne

BoardInit == DOMAIN board = {} /\ DOMAIN needs = {} /\ repeated = {}

BoardNext ==
    \/ \E id \in DOMAIN board, owner \in Owners : Take(id, owner)
    \/ \E id \in DOMAIN board : Finish(id)
    \/ \E id \in DOMAIN board : Hold(id)
    \/ Replan

BoardSpec == BoardInit /\ [][BoardNext]_boardVars
=============================================================================
