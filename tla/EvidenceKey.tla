----------------------------- MODULE EvidenceKey -----------------------------
(***************************************************************************)
(* The key that signs evidence (evidence.rs).  All projects and sessions   *)
(* of a user share one key file; the first recorder that needs it creates  *)
(* it, in two steps, and others may look in between.  Recorders of         *)
(* wb-runtime wait for a creator that has not written yet, up to a limit;  *)
(* those of the hook do not wait.  Any recorder may be killed.  Evidence   *)
(* builds on this: what it calls signed is signed with the one key.        *)
(***************************************************************************)
EXTENDS Naturals

CONSTANTS RuntimeRecorders, \* recorders of wb-runtime
          HookRecorders,    \* recorders of the hook
          MaxPolls          \* how often a recorder of wb-runtime looks at an empty key

VARIABLES file,             \* the key file
          recorders,        \* where each recorder is, its looks, the key it signs with
          late              \* history: recorders that began when the key was there

vars == <<file, recorders, late>>

Recorders == RuntimeRecorders \cup HookRecorders
Absent == "absent"
Empty == "empty"
NoKey == "no key"

ASSUME EvidenceKeyAssumptions ==
    /\ MaxPolls \in Nat \ {0}
    /\ RuntimeRecorders \cap HookRecorders = {}
    /\ {Absent, Empty, NoKey} \cap Recorders = {}

(* Every recorder would create a key of its own, which goes by its name. *)
Keys == Recorders
Ended == {"signed", "failed", "killed"}

Goes(p, where) == recorders' = [recorders EXCEPT ![p].at = where]
Signs(p, key) ==
    recorders' = [recorders EXCEPT ![p] = [at |-> "signed", polls |-> @.polls, key |-> key]]

-----------------------------------------------------------------------------
(* load_or_create_key of wb-runtime, and its mirror in the hook *)

(* load_key, which verification uses, too. *)
LoadKey == IF file \in Keys THEN file ELSE NoKey

(* The test command has ended; the recorder needs the key. *)
Begin(p) ==
    /\ recorders[p].at = "new"
    /\ Goes(p, "looking")
    /\ late' = IF file \in Keys THEN late \cup {p} ELSE late
    /\ UNCHANGED file

(* wb-runtime asks whether the file is there. *)
Look(p) ==
    /\ recorders[p].at = "looking"
    /\ p \in RuntimeRecorders
    /\ Goes(p, IF file = Absent THEN "creating" ELSE "waiting")
    /\ UNCHANGED <<file, late>>

(* The hook asks whether it can load a key. *)
HookLook(p) ==
    /\ recorders[p].at = "looking"
    /\ p \in HookRecorders
    /\ IF LoadKey = NoKey THEN Goes(p, "creating") ELSE Signs(p, LoadKey)
    /\ UNCHANGED <<file, late>>

(* Faulty variant: an existing file is opened, and emptied. *)
OpenKey(p) ==
    /\ recorders[p].at = "creating"
    /\ file' = Empty
    /\ Goes(p, "writing")
    /\ UNCHANGED late

(* Faulty variant: the loser of the race signs with the key it made. *)
CreateKeyOrKeepOwn(p) ==
    /\ recorders[p].at = "creating"
    /\ IF file = Absent
       THEN file' = Empty /\ Goes(p, "writing")
       ELSE UNCHANGED file /\ Signs(p, p)
    /\ UNCHANGED late

(* create_new lets exactly one recorder create the file. *)
CreateKey(p) ==
    /\ recorders[p].at = "creating"
    /\ IF file = Absent
       THEN file' = Empty /\ Goes(p, "writing")
       ELSE UNCHANGED file /\ Goes(p, "waiting")
    /\ UNCHANGED late

WriteKey(p) ==
    /\ recorders[p].at = "writing"
    /\ file' = p
    /\ Signs(p, p)
    /\ UNCHANGED late

(* load_key_waiting reads the file, again and again while it is empty. *)
ReadKey(p) ==
    /\ recorders[p].at = "waiting"
    /\ LoadKey # NoKey
    /\ Signs(p, LoadKey)
    /\ UNCHANGED <<file, late>>

(* Faulty variant: it waits for as long as it takes. *)
PollForEver(p) ==
    /\ recorders[p].at = "waiting"
    /\ p \in RuntimeRecorders
    /\ file = Empty
    /\ UNCHANGED vars

(* Faulty variant: it looks once more than it should. *)
PollOnceMore(p) ==
    LET polls == recorders[p].polls + 1 IN
    /\ recorders[p].at = "waiting"
    /\ p \in RuntimeRecorders
    /\ file = Empty
    /\ recorders' = [recorders EXCEPT
         ![p] = [at |-> IF polls > MaxPolls THEN "giving up" ELSE "waiting",
                 polls |-> polls, key |-> @.key]]
    /\ UNCHANGED <<file, late>>

Poll(p) ==
    LET polls == recorders[p].polls + 1 IN
    /\ recorders[p].at = "waiting"
    /\ p \in RuntimeRecorders
    /\ file = Empty
    /\ recorders' = [recorders EXCEPT
         ![p] = [at |-> IF polls = MaxPolls THEN "giving up" ELSE "waiting",
                 polls |-> polls, key |-> @.key]]
    /\ UNCHANGED <<file, late>>

(* It sleeps once more before it gives up. *)
GiveUp(p) ==
    /\ recorders[p].at = "giving up"
    /\ Goes(p, "failed")
    /\ UNCHANGED <<file, late>>

(* The hook gives up at once. *)
HookGiveUp(p) ==
    /\ recorders[p].at = "waiting"
    /\ p \in HookRecorders
    /\ file = Empty
    /\ Goes(p, "failed")
    /\ UNCHANGED <<file, late>>

Crash(p) ==
    /\ recorders[p].at \notin Ended \cup {"new"}
    /\ Goes(p, "killed")
    /\ UNCHANGED <<file, late>>

-----------------------------------------------------------------------------

Init ==
    /\ file = Absent
    /\ recorders = [p \in Recorders |-> [at |-> "new", polls |-> 0, key |-> NoKey]]
    /\ late = {}

(* What a recorder does once it needs the key. *)
Work(p) ==
    \/ Look(p) \/ HookLook(p) \/ CreateKey(p) \/ WriteKey(p)
    \/ ReadKey(p) \/ Poll(p) \/ GiveUp(p) \/ HookGiveUp(p)

Next ==
    \/ \E p \in Recorders : Begin(p)
    \/ \E p \in Recorders : Work(p)
    \/ \E p \in Recorders : Crash(p)

(* A recorder that has begun goes on, unless it is killed. *)
Fairness == \A p \in Recorders : WF_vars(Work(p))

Spec == Init /\ [][Next]_vars /\ Fairness

-----------------------------------------------------------------------------
(* Properties *)

(* The file, the recorders and the history. *)
TypeOK ==
    /\ file \in {Absent, Empty} \cup Keys
    /\ recorders \in [Recorders -> [at : {"new", "looking", "creating", "writing", "waiting",
                                          "giving up"} \cup Ended,
                                    polls : 0..MaxPolls,
                                    key : Keys \cup {NoKey}]]
    /\ late \in SUBSET Recorders

(* Whoever signs, of wb-runtime or of the hook, signs with the key that is *)
(* in the file and stays there: no evidence is signed with a key that a    *)
(* concurrent creator replaced, and verification can load the key of every *)
(* signature.                                                              *)
OneKey ==
    \A p \in Recorders :
        recorders[p].at = "signed" => LoadKey # NoKey /\ recorders[p].key = LoadKey

(* Once the key is there no later recorder fails for want of it. *)
LateNeverFails == \A p \in late : recorders[p].at # "failed"

(* Every recorder ends, also after a creator was killed between creating   *)
(* the file and writing it, when the key stays empty for good.             *)
EveryRecorderEnds ==
    \A p \in Recorders : recorders[p].at = "looking" ~> recorders[p].at \in Ended
=============================================================================
