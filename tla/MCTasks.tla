------------------------------ MODULE MCTasks ------------------------------
(* Tasks for TLC: plans that depend in order, drop a task, repeat an id,   *)
(* name a task that does not exist, and wait for each other.               *)
EXTENDS Tasks, TLC

CONSTANTS t1, t2, t3, alice, bob

MCIds == {t1, t2, t3}
MCOwners == {alice, bob}
MCPlans ==
    {<<[id |-> t1, deps |-> {}], [id |-> t2, deps |-> {t1}], [id |-> t3, deps |-> {t1, t2}]>>,
     <<[id |-> t1, deps |-> {}], [id |-> t3, deps |-> {t1}]>>,
     <<[id |-> t2, deps |-> {}], [id |-> t1, deps |-> {t2}]>>,
     <<[id |-> t1, deps |-> {}], [id |-> t2, deps |-> {t1}], [id |-> t1, deps |-> {}]>>,
     <<[id |-> t2, deps |-> {t3}], [id |-> t3, deps |-> {t2}]>>}

OwnersAlike == Permutations(MCOwners)
============================================================================
