--------------------------- MODULE StateFileProofs ---------------------------
(***************************************************************************)
(* No command undoes another, and the log claims no update that was not    *)
(* saved, for any number of commands and edits and whatever is killed.     *)
(***************************************************************************)
EXTENDS StateFile, TLAPS

Things == FileSteps \cup Events
ProcStates == [at : {"new", "waiting", "running", "done", "failed", "killed"},
               todo : Seq(Things), has : SUBSET Updates]

Saved(c) == c \in Range(saves)

(* Steps that report an update only after the rename. *)
SavesFirst(todo) ==
    \A k \in DOMAIN todo :
        todo[k] \in {"paused", "accepted"} => \E j \in DOMAIN todo : j < k /\ todo[j] = "rename"

(* Steps that read the state before they replace it. *)
ReadsFirst(todo) ==
    \A j, k \in DOMAIN todo : j < k /\ todo[k] = "read" => todo[j] # "rename"

(* Steps that save once. *)
SavesOnce(todo) ==
    \A j, k \in DOMAIN todo : todo[j] = "rename" /\ todo[k] = "rename" => j = k

-----------------------------------------------------------------------------
(* Sequences *)

LEMMA ElementOf ==
    ASSUME NEW S, NEW s \in Seq(S), NEW n \in DOMAIN s
    PROVE  s[n] \in S
OBVIOUS

LEMMA RangeOfAppend ==
    ASSUME NEW S, NEW s \in Seq(S), NEW x \in S
    PROVE  Range(Append(s, x)) = Range(s) \cup {x}
<1>1. DOMAIN Append(s, x) = DOMAIN s \cup {Len(s) + 1}
  OBVIOUS
<1>2. \A n \in DOMAIN s : Append(s, x)[n] = s[n]
  OBVIOUS
<1>3. Append(s, x)[Len(s) + 1] = x
  OBVIOUS
<1> QED BY <1>1, <1>2, <1>3 DEF Range

LEMMA AppendOf ==
    ASSUME NEW S, NEW s \in Seq(S), NEW x \in S
    PROVE  /\ Append(s, x) \in Seq(S)
           /\ DOMAIN Append(s, x) = DOMAIN s \cup {Len(s) + 1}
           /\ DOMAIN s = 1..Len(s) /\ Len(s) \in Nat
           /\ \A n \in DOMAIN s : Append(s, x)[n] = s[n]
           /\ Append(s, x)[Len(s) + 1] = x
OBVIOUS

LEMMA TailOf ==
    ASSUME NEW S, NEW s \in Seq(S), s # <<>>
    PROVE  /\ Tail(s) \in Seq(S)
           /\ Len(s) \in Nat \ {0} /\ DOMAIN s = 1..Len(s)
           /\ DOMAIN Tail(s) = 1..(Len(s) - 1)
           /\ Head(s) = s[1]
           /\ \A k \in DOMAIN Tail(s) : Tail(s)[k] = s[k + 1]
<1>1. Len(s) \in Nat \ {0} /\ DOMAIN s = 1..Len(s) /\ Head(s) = s[1]
  OBVIOUS
<1>2. Tail(s) \in Seq(S) /\ Len(Tail(s)) = Len(s) - 1
  OBVIOUS
<1>3. DOMAIN Tail(s) = 1..Len(Tail(s))
  BY <1>2
<1>4. \A k \in 1..(Len(s) - 1) : Tail(s)[k] = s[k + 1]
  OBVIOUS
<1> QED BY <1>1, <1>2, <1>3, <1>4

LEMMA RangeOfTail ==
    ASSUME NEW S, NEW s \in Seq(S), s # <<>>
    PROVE  Range(s) = {Head(s)} \cup Range(Tail(s))
<1>1. Range(Tail(s)) \subseteq Range(s)
  <2>1. \A k \in DOMAIN Tail(s) : k + 1 \in DOMAIN s /\ Tail(s)[k] = s[k + 1]
    BY TailOf
  <2> QED BY <2>1 DEF Range
<1>2. Head(s) \in Range(s)
  BY TailOf DEF Range
<1>3. Range(s) \subseteq {Head(s)} \cup Range(Tail(s))
  <2> SUFFICES ASSUME NEW k \in DOMAIN s, k # 1 PROVE s[k] \in Range(Tail(s))
    BY TailOf DEF Range
  <2>1. k - 1 \in DOMAIN Tail(s) /\ Tail(s)[k - 1] = s[k]
    BY TailOf
  <2> QED BY <2>1 DEF Range
<1> QED BY <1>1, <1>2, <1>3

LEMMA SavesFirstTail ==
    ASSUME NEW s \in Seq(Things), s # <<>>, SavesFirst(s), Head(s) # "rename"
    PROVE  SavesFirst(Tail(s))
<1>1. SUFFICES ASSUME NEW k \in DOMAIN Tail(s), Tail(s)[k] \in {"paused", "accepted"}
               PROVE  \E j \in DOMAIN Tail(s) : j < k /\ Tail(s)[j] = "rename"
  BY DEF SavesFirst
<1>2. k + 1 \in DOMAIN s /\ s[k + 1] \in {"paused", "accepted"} /\ k \in Nat
  BY <1>1, TailOf
<1>3. PICK j \in DOMAIN s : j < k + 1 /\ s[j] = "rename"
  BY <1>2 DEF SavesFirst
<1>4. j # 1
  BY <1>3, TailOf
<1>5. j - 1 \in DOMAIN Tail(s) /\ Tail(s)[j - 1] = "rename" /\ j - 1 < k
  BY <1>2, <1>3, <1>4, TailOf
<1> QED BY <1>5

LEMMA ReadsFirstTail ==
    ASSUME NEW s \in Seq(Things), s # <<>>, ReadsFirst(s)
    PROVE  /\ ReadsFirst(Tail(s))
           /\ Head(s) = "rename" => "read" \notin Range(s)
<1>1. ReadsFirst(Tail(s))
  <2>1. \A k \in DOMAIN Tail(s) : k \in Nat /\ k + 1 \in DOMAIN s /\ Tail(s)[k] = s[k + 1]
    BY TailOf
  <2>2. ASSUME NEW j \in DOMAIN Tail(s), NEW k \in DOMAIN Tail(s), j < k, Tail(s)[k] = "read"
        PROVE  Tail(s)[j] # "rename"
    <3>1. j + 1 \in DOMAIN s /\ k + 1 \in DOMAIN s /\ j + 1 < k + 1 /\ s[k + 1] = "read"
      BY <2>1, <2>2
    <3> QED BY <2>1, <3>1 DEF ReadsFirst
  <2> QED BY <2>2 DEF ReadsFirst
<1>2. ASSUME Head(s) = "rename", NEW k \in DOMAIN s PROVE s[k] # "read"
  <2>1. 1 \in DOMAIN s /\ s[1] = "rename" /\ (k = 1 \/ 1 < k)
    BY <1>2, TailOf
  <2> QED BY <2>1 DEF ReadsFirst
<1> QED BY <1>1, <1>2 DEF Range

LEMMA SavesOnceTail ==
    ASSUME NEW s \in Seq(Things), s # <<>>, SavesOnce(s)
    PROVE  /\ SavesOnce(Tail(s))
           /\ Head(s) = "rename" => "rename" \notin Range(Tail(s))
<1>1. \A k \in DOMAIN Tail(s) : k \in Nat \ {0} /\ k + 1 \in DOMAIN s /\ Tail(s)[k] = s[k + 1]
  BY TailOf
<1>2. SavesOnce(Tail(s))
  <2>1. ASSUME NEW j \in DOMAIN Tail(s), NEW k \in DOMAIN Tail(s),
               Tail(s)[j] = "rename", Tail(s)[k] = "rename"
        PROVE  j = k
    <3>1. j + 1 = k + 1
      BY <1>1, <2>1 DEF SavesOnce
    <3> QED BY <1>1, <3>1
  <2> QED BY <2>1 DEF SavesOnce
<1>3. ASSUME Head(s) = "rename", NEW k \in DOMAIN Tail(s) PROVE Tail(s)[k] # "rename"
  <2>1. 1 \in DOMAIN s /\ s[1] = "rename" /\ k + 1 # 1
    BY <1>1, <1>3, TailOf
  <2> QED BY <1>1, <2>1 DEF SavesOnce
<1> QED BY <1>2, <1>3 DEF Range

LEMMA SavesFirstHead ==
    ASSUME NEW s \in Seq(Things), s # <<>>, SavesFirst(s)
    PROVE  Head(s) \notin {"paused", "accepted"}
<1>1. 1 \in DOMAIN s /\ Head(s) = s[1] /\ \A j \in DOMAIN s : ~(j < 1)
  OBVIOUS
<1> QED BY <1>1 DEF SavesFirst

-----------------------------------------------------------------------------
(* The inductive invariant *)

AtWork == {"waiting", "running"}

(* A command that has read the state will save every update saved so far   *)
(* that no edit has overwritten, and its own.                              *)
ReadBeforeSave ==
    \A c \in Commands :
        /\ procs[c].at \in AtWork => ReadsFirst(procs[c].todo)
        /\ procs[c].at = "waiting" => "read" \in Range(procs[c].todo)
        /\ procs[c].at = "running" /\ "read" \notin Range(procs[c].todo) =>
             c \in procs[c].has /\ Range(saves) \subseteq procs[c].has \cup lost

(* So will the editor, while what it writes still is state.json. *)
EditorKeeps == editor.linked => Range(saves) \subseteq editor.has \cup lost

(* A command reports what it has saved or will save before. *)
ReportsAfterSave ==
    \A c \in Commands : procs[c].at \in AtWork => Saved(c) \/ SavesFirst(procs[c].todo)

Reported(c) == \E n \in DOMAIN log : log[n].by = c /\ log[n].event \in Outcomes

(* Who has an outcome to report, or has reported one, saves it. *)
OutcomesSaved ==
    \A c \in Commands :
        /\ procs[c].at = "new" => ~Reported(c)
        /\ procs[c].at \in AtWork /\ (Reported(c) \/ Range(procs[c].todo) \cap Outcomes # {}) =>
             Saved(c) \/ "rename" \in Range(procs[c].todo)

IInv == /\ TypeOK /\ UpdatesSurvive /\ TornHasCause /\ AcceptedIsSaved /\ LogAheadHasCause
        /\ ReadBeforeSave /\ EditorKeeps /\ ReportsAfterSave /\ OutcomesSaved

LEMMA InvInit == Init => IInv
<1> SUFFICES ASSUME Init PROVE IInv
  OBVIOUS
<1>1. TypeOK
  <2>1. /\ holder \in Commands \cup {Free}
        /\ \A c \in Commands : procs[c].at = "running" <=> holder = c
    BY StateFileAssumptions DEF Init
  <2>2. procs \in [Commands -> [at : {"new", "waiting", "running", "done", "failed", "killed"},
                                todo : Seq(FileSteps \cup Events), has : SUBSET Updates]]
    BY DEF Init
  <2>3. /\ file \in [whole : BOOLEAN, has : SUBSET Updates]
        /\ editor \in [at : {"idle", "read", "truncated"}, has : SUBSET Updates, linked : BOOLEAN]
    BY DEF Init
  <2>4. /\ log \in Seq([by : Commands, event : Events])
        /\ saves \in Seq(Commands)
    BY DEF Init
  <2>5. edits \in 0..MaxEdits
    BY StateFileAssumptions DEF Init
  <2>6. lost \in SUBSET Commands /\ tornByKill \in BOOLEAN
    BY Zenon DEF Init
  <2> QED BY <2>1, <2>2, <2>3, <2>4, <2>5, <2>6 DEF TypeOK
<1>2. Range(saves) = {} /\ DOMAIN log = {}
  BY DEF Init, Range
<1>3. UpdatesSurvive /\ TornHasCause /\ AcceptedIsSaved /\ LogAheadHasCause
  BY <1>2 DEF Init, UpdatesSurvive, TornHasCause, AcceptedIsSaved, LogAheadHasCause
<1>4. ReadBeforeSave /\ EditorKeeps /\ ReportsAfterSave /\ OutcomesSaved
  BY <1>2 DEF Init, ReadBeforeSave, EditorKeeps, ReportsAfterSave, OutcomesSaved, AtWork, Reported
<1> QED BY <1>1, <1>3, <1>4 DEF IInv

-----------------------------------------------------------------------------
(* What a step makes of the commands *)

LEMMA ProcsType ==
    ASSUME TypeOK
    PROVE  procs \in [Commands -> ProcStates]
BY DEF TypeOK, ProcStates, Things

LEMMA LogType ==
    ASSUME TypeOK, NEW n \in DOMAIN log
    PROVE  log[n].by \in Commands /\ log[n].event \in Events
<1>1. log \in Seq([by : Commands, event : Events])
  BY DEF TypeOK
<1>2. log[n] \in [by : Commands, event : Events]
  BY <1>1, ElementOf
<1> QED BY <1>2

LEMMA GoesMoves ==
    ASSUME TypeOK, NEW c \in Commands, NEW where, Goes(c, where),
           where \in {"running", "done", "failed", "killed"}
    PROVE  /\ procs' \in [Commands -> ProcStates]
           /\ procs'[c].at = where
           /\ procs'[c].todo = procs[c].todo
           /\ \A d \in Commands \ {c} : procs'[d] = procs[d]
BY ProcsType DEF Goes, ProcStates

LEMMA AdvancesMoves ==
    ASSUME TypeOK, NEW c \in Commands, NEW step, At(c, step), Advances(c)
    PROVE  /\ procs' \in [Commands -> ProcStates]
           /\ procs'[c].at = "running"
           /\ procs'[c].has = procs[c].has
           /\ procs'[c].todo = Tail(procs[c].todo)
           /\ \A d \in Commands \ {c} : procs'[d] = procs[d]
<1>1. procs[c].todo \in Seq(Things) /\ procs[c].todo # <<>>
  BY ProcsType DEF ProcStates, At
<1>2. Tail(procs[c].todo) \in Seq(Things)
  BY <1>1, TailOf
<1> QED BY <1>2, ProcsType DEF Advances, At, ProcStates

(* What is left to do after a step. *)
LEMMA TodoAfter ==
    ASSUME TypeOK, NEW c \in Commands, NEW step, At(c, step)
    PROVE  /\ Range(procs[c].todo) = {step} \cup Range(Tail(procs[c].todo))
           /\ step # "rename" /\ SavesFirst(procs[c].todo) => SavesFirst(Tail(procs[c].todo))
           /\ SavesFirst(procs[c].todo) => step \notin {"paused", "accepted"}
           /\ ReadsFirst(procs[c].todo) => ReadsFirst(Tail(procs[c].todo))
           /\ step = "rename" /\ ReadsFirst(procs[c].todo) => "read" \notin Range(procs[c].todo)
<1>1. /\ procs[c].todo \in Seq(Things)
      /\ procs[c].todo # <<>>
      /\ Head(procs[c].todo) = step
  BY ProcsType DEF ProcStates, At
<1> QED BY <1>1, RangeOfTail, SavesFirstTail, SavesFirstHead, ReadsFirstTail

(* What a started command has to do. *)
LEMMA StepsOfKinds ==
    ASSUME NEW kind \in Kinds
    PROVE  /\ Steps[kind] \in Seq(Things)
           /\ "read" \in Range(Steps[kind])
           /\ SavesFirst(Steps[kind]) /\ ReadsFirst(Steps[kind])
           /\ Range(Steps[kind]) \cap Outcomes # {} => "rename" \in Range(Steps[kind])
<1>1. CASE kind = "pause"
  <2>1. Steps[kind] = <<"read", "write", "rename", "paused">>
    BY <1>1 DEF Steps
  <2> QED BY <2>1 DEF Things, FileSteps, Events, Outcomes, SavesFirst, ReadsFirst, Range
<1>2. CASE kind = "transition"
  <2>1. Steps[kind] = <<"read", "requested", "write", "rename", "accepted">>
    BY <1>2 DEF Steps
  <2> QED BY <2>1 DEF Things, FileSteps, Events, Outcomes, SavesFirst, ReadsFirst, Range
<1>3. CASE kind = "deny"
  <2>1. Steps[kind] = <<"read", "requested", "denied">>
    BY <1>3 DEF Steps
  <2> QED BY <2>1 DEF Things, FileSteps, Events, Outcomes, SavesFirst, ReadsFirst, Range
<1>4. CASE kind = "finish"
  <2>1. Steps[kind] = <<"read", "requested", "completed", "write", "rename">>
    BY <1>4 DEF Steps
  <2> QED BY <2>1 DEF Things, FileSteps, Events, Outcomes, SavesFirst, ReadsFirst, Range
<1>5. CASE kind = "claim"
  <2>1. Steps[kind] = <<"claimed", "read", "write", "rename">>
    BY <1>5 DEF Steps
  <2> QED BY <2>1 DEF Things, FileSteps, Events, Outcomes, SavesFirst, ReadsFirst, Range
<1> QED BY <1>1, <1>2, <1>3, <1>4, <1>5 DEF Kinds

-----------------------------------------------------------------------------
(* The steps *)

Histories == <<log, saves, lost, tornByKill>>

(* A step of one command that touches neither the files nor the history.   *)
LEMMA QuietStep ==
    ASSUME IInv, NEW c \in Commands, UNCHANGED <<file, editor, edits, Histories>>,
           holder' \in Commands \cup {Free},
           procs' \in [Commands -> ProcStates],
           \A d \in Commands : procs'[d].at = "running" <=> holder' = d,
           \A d \in Commands \ {c} : procs'[d] = procs[d],
           procs'[c].at # "new",
           procs'[c].at \in AtWork => ReadsFirst(procs'[c].todo),
           procs'[c].at = "waiting" => "read" \in Range(procs'[c].todo),
           procs'[c].at = "running" /\ "read" \notin Range(procs'[c].todo) =>
               c \in procs'[c].has /\ Range(saves) \subseteq procs'[c].has \cup lost,
           procs'[c].at \in AtWork => Saved(c) \/ SavesFirst(procs'[c].todo),
           procs'[c].at \in AtWork /\ (Reported(c) \/ Range(procs'[c].todo) \cap Outcomes # {}) =>
               Saved(c) \/ "rename" \in Range(procs'[c].todo),
           procs'[c].at = "done" /\ Reported(c) => Saved(c)
    PROVE  IInv'
<1> USE DEF IInv, Histories
<1>1. TypeOK'
  BY DEF TypeOK, ProcStates, Things
<1>2. UpdatesSurvive' /\ TornHasCause' /\ AcceptedIsSaved' /\ EditorKeeps'
  BY DEF UpdatesSurvive, TornHasCause, AcceptedIsSaved, EditorKeeps
<1>3. LogAheadHasCause'
  <2> SUFFICES ASSUME NEW n \in DOMAIN log, log[n].event \in Outcomes,
                      procs'[log[n].by].at = "done"
               PROVE  Saved(log[n].by)
    BY DEF LogAheadHasCause, Saved
  <2>1. CASE log[n].by = c
    BY <2>1 DEF Reported
  <2>2. CASE log[n].by # c
    <3>1. log[n].by \in Commands
      BY LogType
    <3> QED BY <2>2, <3>1 DEF LogAheadHasCause, Saved
  <2> QED BY <2>1, <2>2
<1>4. ReadBeforeSave'
  BY DEF ReadBeforeSave
<1>5. ReportsAfterSave'
  BY DEF ReportsAfterSave, Saved
<1>6. OutcomesSaved'
  BY DEF OutcomesSaved, Saved, Reported
<1> QED BY <1>1, <1>2, <1>3, <1>4, <1>5, <1>6

LEMMA StartStep ==
    ASSUME IInv, NEW c \in Commands, NEW kind \in Kinds, Start(c, kind)
    PROVE  IInv'
<1> DEFINE r == [at |-> "waiting", todo |-> Steps[kind], has |-> {}]
<1>1. /\ procs' = [procs EXCEPT ![c] = r]
      /\ UNCHANGED <<holder, file, editor, edits, Histories>>
      /\ procs[c].at = "new"
  BY DEF Start, Histories
<1>2. r \in ProcStates
  BY StepsOfKinds DEF ProcStates
<1>3. /\ procs' \in [Commands -> ProcStates]
      /\ procs'[c] = r
      /\ \A d \in Commands \ {c} : procs'[d] = procs[d]
  BY <1>1, <1>2, ProcsType DEF IInv
<1>4. ~Reported(c)
  BY <1>1 DEF IInv, OutcomesSaved
<1>5. /\ r.at = "waiting"
      /\ "read" \in Range(r.todo)
      /\ SavesFirst(r.todo) /\ ReadsFirst(r.todo)
      /\ Range(r.todo) \cap Outcomes # {} => "rename" \in Range(r.todo)
  BY StepsOfKinds
<1> HIDE DEF r
<1>6. /\ holder' \in Commands \cup {Free}
      /\ \A d \in Commands : procs'[d].at = "running" <=> holder' = d
  BY <1>1, <1>3, <1>5 DEF IInv, TypeOK
<1> QED BY <1>1, <1>3, <1>4, <1>5, <1>6, QuietStep

LEMMA AcquireStep ==
    ASSUME IInv, NEW c \in Commands, Acquire(c)
    PROVE  IInv'
<1>1. /\ procs' \in [Commands -> ProcStates]
      /\ procs'[c].at = "running" /\ procs'[c].todo = procs[c].todo
      /\ \A d \in Commands \ {c} : procs'[d] = procs[d]
  BY GoesMoves DEF Acquire, IInv
<1>2. /\ procs[c].at = "waiting" /\ holder = Free /\ holder' = c
      /\ UNCHANGED <<file, editor, edits, Histories>>
  BY DEF Acquire, Histories
<1>3. \A d \in Commands : procs'[d].at = "running" <=> holder' = d
  BY <1>1, <1>2, StateFileAssumptions DEF IInv, TypeOK
<1>4. /\ "read" \in Range(procs[c].todo)
      /\ ReadsFirst(procs[c].todo)
      /\ Saved(c) \/ SavesFirst(procs[c].todo)
      /\ Reported(c) \/ Range(procs[c].todo) \cap Outcomes # {} =>
           Saved(c) \/ "rename" \in Range(procs[c].todo)
  BY <1>2 DEF IInv, ReadBeforeSave, ReportsAfterSave, OutcomesSaved, AtWork
<1> QED BY <1>1, <1>2, <1>3, <1>4, QuietStep

(* A command ends: without an error, with one, or killed. *)
LEMMA StopStep ==
    ASSUME IInv, NEW c \in Commands, End(c) \/ ReadFails(c) \/ Crash(c)
    PROVE  IInv'
<1>1. PICK where \in {"done", "failed", "killed"} :
        /\ Goes(c, where)
        /\ where = "done" => procs[c].at = "running" /\ procs[c].todo = <<>>
  BY DEF End, ReadFails, Crash
<1>2. /\ procs' \in [Commands -> ProcStates]
      /\ procs'[c].at = where
      /\ \A d \in Commands \ {c} : procs'[d] = procs[d]
  BY <1>1, GoesMoves DEF IInv
<1>3. /\ holder' = IF holder = c THEN Free ELSE holder
      /\ UNCHANGED <<file, editor, edits, Histories>>
  BY DEF End, ReadFails, Crash, At, IInv, TypeOK, Histories
<1>4. /\ holder' \in Commands \cup {Free}
      /\ \A d \in Commands : procs'[d].at = "running" <=> holder' = d
  BY <1>2, <1>3, StateFileAssumptions DEF IInv, TypeOK
<1>5. where = "done" /\ Reported(c) => Saved(c)
  BY <1>1 DEF IInv, OutcomesSaved, AtWork, Range
<1> QED BY <1>2, <1>3, <1>4, <1>5, QuietStep DEF AtWork

(* The command will save what it has read, and its update. *)
LEMMA ReadStep ==
    ASSUME IInv, NEW c \in Commands, Read(c)
    PROVE  IInv'
<1> DEFINE todo == Tail(procs[c].todo)
           r == [at |-> procs[c].at, todo |-> todo, has |-> file.has \cup {c}]
<1>1. /\ At(c, "read") /\ file.whole
      /\ procs' = [procs EXCEPT ![c] = r]
      /\ UNCHANGED <<holder, file, editor, edits, Histories>>
  BY DEF Read, Histories
<1>2. /\ Range(procs[c].todo) = {"read"} \cup Range(todo)
      /\ SavesFirst(procs[c].todo) => SavesFirst(todo)
      /\ ReadsFirst(procs[c].todo) => ReadsFirst(todo)
  BY <1>1, TodoAfter DEF IInv
<1>3. r \in ProcStates
  <2>1. procs[c] \in ProcStates /\ procs[c].todo # <<>>
    BY <1>1, ProcsType DEF IInv, At
  <2>2. todo \in Seq(Things)
    BY <2>1, TailOf DEF ProcStates
  <2>3. file.has \cup {c} \in SUBSET Updates
    BY DEF IInv, TypeOK, Updates
  <2> HIDE DEF todo
  <2> QED BY <2>1, <2>2, <2>3 DEF ProcStates
<1>4. /\ procs' \in [Commands -> ProcStates]
      /\ procs'[c] = r
      /\ \A d \in Commands \ {c} : procs'[d] = procs[d]
  BY <1>1, <1>3, ProcsType DEF IInv
<1>5. r.at = "running" /\ procs[c].at = "running" /\ r.todo = todo /\ r.has = file.has \cup {c}
  BY <1>1 DEF At
<1> HIDE DEF r, todo
<1>6. /\ holder' \in Commands \cup {Free}
      /\ \A d \in Commands : procs'[d].at = "running" <=> holder' = d
  BY <1>1, <1>4, <1>5 DEF IInv, TypeOK
<1>7. c \in r.has /\ Range(saves) \subseteq r.has \cup lost
  BY <1>1, <1>5 DEF IInv, UpdatesSurvive
<1>8. ReadsFirst(todo) /\ (Saved(c) \/ SavesFirst(todo))
  BY <1>2, <1>5 DEF IInv, ReadBeforeSave, ReportsAfterSave, AtWork
<1>9. Reported(c) \/ Range(todo) \cap Outcomes # {} => Saved(c) \/ "rename" \in Range(todo)
  BY <1>2, <1>5 DEF IInv, OutcomesSaved, AtWork
<1> QED BY <1>1, <1>4, <1>5, <1>6, <1>7, <1>8, <1>9, QuietStep

LEMMA WriteTempStep ==
    ASSUME IInv, NEW c \in Commands, WriteTemp(c)
    PROVE  IInv'
<1>1. At(c, "write") /\ Advances(c) /\ UNCHANGED <<holder, file, editor, edits, Histories>>
  BY DEF WriteTemp, Histories
<1>2. /\ procs' \in [Commands -> ProcStates]
      /\ procs'[c].at = "running" /\ procs[c].at = "running"
      /\ procs'[c].has = procs[c].has
      /\ procs'[c].todo = Tail(procs[c].todo)
      /\ \A d \in Commands \ {c} : procs'[d] = procs[d]
  BY <1>1, AdvancesMoves DEF IInv, At
<1>3. /\ Range(procs[c].todo) = {"write"} \cup Range(procs'[c].todo)
      /\ SavesFirst(procs[c].todo) => SavesFirst(procs'[c].todo)
      /\ ReadsFirst(procs[c].todo) => ReadsFirst(procs'[c].todo)
  BY <1>1, <1>2, TodoAfter DEF IInv
<1>4. /\ holder' \in Commands \cup {Free}
      /\ \A d \in Commands : procs'[d].at = "running" <=> holder' = d
  BY <1>1, <1>2 DEF IInv, TypeOK
<1>5. /\ "read" \notin Range(procs'[c].todo) =>
           c \in procs'[c].has /\ Range(saves) \subseteq procs'[c].has \cup lost
      /\ ReadsFirst(procs'[c].todo)
      /\ Saved(c) \/ SavesFirst(procs'[c].todo)
      /\ Reported(c) \/ Range(procs'[c].todo) \cap Outcomes # {} =>
           Saved(c) \/ "rename" \in Range(procs'[c].todo)
  BY <1>2, <1>3 DEF IInv, ReadBeforeSave, ReportsAfterSave, OutcomesSaved, AtWork
<1> QED BY <1>1, <1>2, <1>4, <1>5, QuietStep

(* What is saved takes in what was saved before; the editor's file is gone. *)
LEMMA RenameStep ==
    ASSUME IInv, NEW c \in Commands, Rename(c)
    PROVE  IInv'
<1> USE DEF IInv
<1>1. /\ At(c, "rename") /\ Advances(c)
      /\ UNCHANGED <<holder, edits, log, lost, tornByKill>>
      /\ file' = [whole |-> TRUE, has |-> procs[c].has]
      /\ editor' = Unlinked
      /\ saves' = Append(saves, c)
  BY DEF Rename
<1>2. /\ procs' \in [Commands -> ProcStates]
      /\ procs'[c].at = "running" /\ procs[c].at = "running"
      /\ procs'[c].has = procs[c].has
      /\ procs'[c].todo = Tail(procs[c].todo)
      /\ \A d \in Commands \ {c} : procs'[d] = procs[d]
  BY <1>1, AdvancesMoves DEF At
<1>3. /\ saves' \in Seq(Commands)
      /\ Range(saves') = Range(saves) \cup {c}
  BY <1>1, RangeOfAppend DEF TypeOK
<1>4. Range(saves') \subseteq procs[c].has \cup lost
  <2>1. ReadsFirst(procs[c].todo)
    BY <1>2 DEF ReadBeforeSave, AtWork
  <2>2. "read" \notin Range(procs[c].todo)
    BY <1>1, <2>1, TodoAfter
  <2> QED BY <1>2, <1>3, <2>2 DEF ReadBeforeSave
<1>5. TypeOK'
  <2>1. file' \in [whole : BOOLEAN, has : SUBSET Updates]
    BY <1>1, ProcsType DEF ProcStates
  <2>2. editor' \in [at : {"idle", "read", "truncated"}, has : SUBSET Updates, linked : BOOLEAN]
    BY <1>1 DEF Unlinked, TypeOK
  <2> QED BY <1>1, <1>2, <1>3, <2>1, <2>2 DEF TypeOK, ProcStates, Things
<1>6. UpdatesSurvive' /\ TornHasCause' /\ EditorKeeps'
  BY <1>1, <1>4 DEF UpdatesSurvive, TornHasCause, EditorKeeps, Unlinked
<1>7. AcceptedIsSaved'
  BY <1>1, <1>3 DEF AcceptedIsSaved
<1>8. LogAheadHasCause'
  <2> SUFFICES ASSUME NEW n \in DOMAIN log, log[n].event \in Outcomes,
                      procs'[log[n].by].at = "done"
               PROVE  log[n].by \in Range(saves')
    BY <1>1 DEF LogAheadHasCause
  <2> QED BY <1>2, <1>3, LogType DEF LogAheadHasCause
<1>9. ReadBeforeSave'
  <2>1. \A d \in Commands \ {c} : procs[d].at # "running"
    BY <1>2 DEF TypeOK
  <2>2. c \in procs[c].has /\ ReadsFirst(procs'[c].todo)
    BY <1>1, <1>2, <1>3, <1>4, TodoAfter DEF ReadBeforeSave, AtWork
  <2> QED BY <1>1, <1>2, <1>3, <1>4, <2>1, <2>2 DEF ReadBeforeSave
<1>10. ReportsAfterSave'
  BY <1>2, <1>3 DEF ReportsAfterSave, Saved
<1>11. OutcomesSaved'
  BY <1>1, <1>2, <1>3 DEF OutcomesSaved, Saved, Reported
<1> QED BY <1>5, <1>6, <1>7, <1>8, <1>9, <1>10, <1>11

(* What is reported has been saved, or will be. *)
LEMMA AppendStep ==
    ASSUME IInv, NEW c \in Commands, AppendEvent(c)
    PROVE  IInv'
<1> USE DEF IInv
<1>1. PICK event \in Events : /\ At(c, event)
                              /\ log' = Append(log, [by |-> c, event |-> event])
  BY DEF AppendEvent
<1>2. Advances(c) /\ UNCHANGED <<file, holder, editor, edits, saves, lost, tornByKill>>
  BY DEF AppendEvent
<1>3. /\ procs' \in [Commands -> ProcStates]
      /\ procs'[c].at = "running" /\ procs[c].at = "running"
      /\ procs'[c].has = procs[c].has
      /\ procs'[c].todo = Tail(procs[c].todo)
      /\ \A d \in Commands \ {c} : procs'[d] = procs[d]
  BY <1>1, <1>2, AdvancesMoves DEF At
<1>4. /\ Range(procs[c].todo) = {event} \cup Range(procs'[c].todo)
      /\ event \notin {"read", "rename"}
      /\ SavesFirst(procs[c].todo) =>
           SavesFirst(procs'[c].todo) /\ event \notin {"paused", "accepted"}
      /\ ReadsFirst(procs[c].todo) => ReadsFirst(procs'[c].todo)
  <2>1. event \notin {"read", "rename"}
    BY DEF Events, Outcomes
  <2> QED BY <1>1, <1>3, <2>1, TodoAfter
<1>5. /\ log' \in Seq([by : Commands, event : Events])
      /\ \A n \in DOMAIN log' : \/ n \in DOMAIN log /\ log'[n] = log[n]
                               \/ log'[n] = [by |-> c, event |-> event]
  <2>1. log \in Seq([by : Commands, event : Events])
    BY DEF TypeOK
  <2> QED BY <1>1, <2>1, AppendOf
<1>6. TypeOK'
  BY <1>2, <1>3, <1>5 DEF TypeOK, ProcStates, Things
<1>7. UpdatesSurvive' /\ TornHasCause' /\ EditorKeeps'
  BY <1>2 DEF UpdatesSurvive, TornHasCause, EditorKeeps
<1>8. event \in {"paused", "accepted"} => Saved(c)
  BY <1>3, <1>4 DEF ReportsAfterSave, AtWork
<1>9. AcceptedIsSaved'
  BY <1>2, <1>5, <1>8 DEF AcceptedIsSaved, Saved
<1>10. LogAheadHasCause'
  <2> SUFFICES ASSUME NEW n \in DOMAIN log', log'[n].event \in Outcomes,
                      procs'[log'[n].by].at = "done"
               PROVE  log'[n].by \in Range(saves)
    BY <1>2 DEF LogAheadHasCause
  <2>1. n \in DOMAIN log /\ log'[n] = log[n] /\ log[n].by # c
    BY <1>3, <1>5
  <2>2. procs[log[n].by].at = "done"
    BY <1>3, <2>1, LogType
  <2> QED BY <2>1, <2>2 DEF LogAheadHasCause
<1>11. ReadBeforeSave'
  BY <1>2, <1>3, <1>4 DEF ReadBeforeSave, AtWork
<1>12. ReportsAfterSave'
  BY <1>2, <1>3, <1>4 DEF ReportsAfterSave, Saved, AtWork
<1>13. OutcomesSaved'
  <2>1. \A d \in Commands \ {c} : Reported(d)' => Reported(d)
    BY <1>5 DEF Reported
  <2>2. Reported(c)' => Reported(c) \/ event \in Outcomes
    BY <1>5 DEF Reported
  <2>3. Reported(c)' \/ Range(procs'[c].todo) \cap Outcomes # {} =>
          Saved(c) \/ "rename" \in Range(procs'[c].todo)
    BY <1>3, <1>4, <2>2 DEF OutcomesSaved, AtWork
  <2> QED BY <1>2, <1>3, <2>1, <2>3 DEF OutcomesSaved, Saved
<1> QED BY <1>6, <1>7, <1>9, <1>10, <1>11, <1>12, <1>13

(* A step of the editor: what it overwrites is lost, and remembered. *)
LEMMA EditorStep ==
    ASSUME IInv, EditReads \/ EditTruncates \/ EditWrites \/ EditCrashes
    PROVE  IInv'
<1> USE DEF IInv
<1>1. UNCHANGED <<holder, procs, log, saves>>
  BY DEF EditReads, EditTruncates, EditWrites, EditCrashes
<1>2. lost \subseteq lost' /\ lost' \subseteq Commands
  <2>1. Range(saves) \subseteq Commands
    <3>1. saves \in Seq(Commands)
      BY DEF TypeOK
    <3> QED BY <3>1, ElementOf DEF Range
  <2> QED BY <2>1 DEF EditReads, EditTruncates, EditWrites, EditCrashes, TypeOK
<1>3. TypeOK' /\ UpdatesSurvive' /\ TornHasCause' /\ EditorKeeps'
  <2>1. CASE EditReads
    <3>1. edits + 1 \in Edits /\ edits' \in 0..MaxEdits
      BY <2>1, StateFileAssumptions DEF EditReads, Edits, TypeOK
    <3>2. editor' \in [at : {"idle", "read", "truncated"}, has : SUBSET Updates, linked : BOOLEAN]
      BY <2>1, <3>1 DEF EditReads, TypeOK, Updates
    <3>3. TypeOK'
      BY <1>1, <2>1, <3>1, <3>2 DEF EditReads, TypeOK
    <3> QED BY <2>1, <3>3 DEF EditReads, UpdatesSurvive, TornHasCause, EditorKeeps
  <2>2. CASE EditTruncates
    <3>1. TypeOK'
      BY <1>1, <1>2, <2>2 DEF EditTruncates, TypeOK
    <3> QED BY <2>2, <3>1 DEF EditTruncates, UpdatesSurvive, TornHasCause, EditorKeeps
  <2>3. CASE EditWrites
    <3>1. TypeOK'
      BY <1>1, <2>3 DEF EditWrites, TypeOK
    <3> QED BY <2>3, <3>1 DEF EditWrites, UpdatesSurvive, TornHasCause, EditorKeeps
  <2>4. CASE EditCrashes
    <3>1. TypeOK'
      BY <1>1, <2>4 DEF EditCrashes, TypeOK
    <3> QED BY <2>4, <3>1 DEF EditCrashes, UpdatesSurvive, TornHasCause, EditorKeeps
  <2> QED BY <2>1, <2>2, <2>3, <2>4
<1>4. AcceptedIsSaved' /\ LogAheadHasCause'
  BY <1>1 DEF AcceptedIsSaved, LogAheadHasCause
<1>5. ReadBeforeSave'
  BY <1>1, <1>2 DEF ReadBeforeSave
<1>6. ReportsAfterSave' /\ OutcomesSaved'
  BY <1>1 DEF ReportsAfterSave, OutcomesSaved, Saved, Reported
<1> QED BY <1>3, <1>4, <1>5, <1>6

LEMMA InvStep == IInv /\ [Next]_vars => IInv'
<1> SUFFICES ASSUME IInv, [Next]_vars PROVE IInv'
  OBVIOUS
<1>1. ASSUME NEW c \in Commands, NEW kind \in Kinds, Start(c, kind) PROVE IInv'
  BY <1>1, StartStep
<1>2. ASSUME NEW c \in Commands, Work(c) PROVE IInv'
  BY <1>2, AcquireStep, StopStep, ReadStep, WriteTempStep, RenameStep, AppendStep DEF Work
<1>3. ASSUME NEW c \in Commands, Crash(c) PROVE IInv'
  BY <1>3, StopStep
<1>4. CASE EditReads \/ EditTruncates \/ EditWrites \/ EditCrashes
  BY <1>4, EditorStep
<1>5. CASE UNCHANGED vars
  BY <1>5 DEF vars, IInv, TypeOK, UpdatesSurvive, TornHasCause, AcceptedIsSaved, LogAheadHasCause,
              ReadBeforeSave, EditorKeeps, ReportsAfterSave, OutcomesSaved, Saved, Reported
<1> QED BY <1>1, <1>2, <1>3, <1>4, <1>5 DEF Next

LEMMA StateFileInv == Spec => []IInv
BY InvInit, InvStep, PTL DEF Spec

-----------------------------------------------------------------------------
(* The order of the log *)

Logged(c) == \E n \in DOMAIN log : log[n].by = c

(* A command that has not run has neither saved nor reported; one that     *)
(* runs saves once, and was the last to save and to report if it did.      *)
LastIsRunning ==
    \A c \in Commands :
        /\ procs[c].at \in {"new", "waiting"} => ~Saved(c) /\ ~Logged(c)
        /\ procs[c].at \in AtWork =>
             SavesOnce(procs[c].todo) /\ ("rename" \in Range(procs[c].todo) => ~Saved(c))
        /\ procs[c].at = "running" =>
             /\ \A i \in DOMAIN saves : saves[i] = c => i = Len(saves)
             /\ \A m, n \in DOMAIN log : m < n /\ log[m].by = c => log[n].by = c

OrderInv == LogFollowsSaves /\ LastIsRunning

LEMMA OrderInit == Init => OrderInv
<1> SUFFICES ASSUME Init PROVE OrderInv
  OBVIOUS
<1>1. DOMAIN saves = {} /\ DOMAIN log = {}
  BY DEF Init
<1> QED BY <1>1 DEF Init, OrderInv, LogFollowsSaves, LastIsRunning, AtWork, Saved, Logged, Range

(* A step that neither saves nor reports. *)
LEMMA QuietOrder ==
    ASSUME OrderInv, NEW c \in Commands, UNCHANGED <<log, saves>>,
           \A d \in Commands \ {c} : procs'[d] = procs[d],
           procs'[c].at # "new",
           procs'[c].at = "waiting" => procs[c].at = "new",
           procs'[c].at = "running" => procs[c].at \in AtWork,
           procs'[c].at \in AtWork =>
               /\ SavesOnce(procs'[c].todo)
               /\ "rename" \in Range(procs'[c].todo) => ~Saved(c)
    PROVE  OrderInv'
<1>1. LogFollowsSaves'
  BY DEF OrderInv, LogFollowsSaves
<1>2. ASSUME NEW d \in Commands \ {c}
      PROVE  /\ procs'[d].at \in {"new", "waiting"} => ~Saved(d)' /\ ~Logged(d)'
             /\ procs'[d].at \in AtWork =>
                  SavesOnce(procs'[d].todo) /\ ("rename" \in Range(procs'[d].todo) => ~Saved(d)')
             /\ procs'[d].at = "running" =>
                  /\ \A i \in DOMAIN saves' : saves'[i] = d => i = Len(saves')
                  /\ \A m, n \in DOMAIN log' : m < n /\ log'[m].by = d => log'[n].by = d
  BY <1>2 DEF OrderInv, LastIsRunning, Saved, Logged
<1>3. /\ procs'[c].at \in {"new", "waiting"} => ~Saved(c)' /\ ~Logged(c)'
      /\ procs'[c].at \in AtWork =>
           SavesOnce(procs'[c].todo) /\ ("rename" \in Range(procs'[c].todo) => ~Saved(c)')
  BY DEF OrderInv, LastIsRunning, Saved, Logged
<1>4. procs'[c].at = "running" =>
        /\ \A i \in DOMAIN saves' : saves'[i] = c => i = Len(saves')
        /\ \A m, n \in DOMAIN log' : m < n /\ log'[m].by = c => log'[n].by = c
  <2>1. CASE procs[c].at = "waiting"
    BY <2>1 DEF OrderInv, LastIsRunning, Saved, Logged, Range
  <2>2. CASE procs[c].at = "running"
    BY <2>2 DEF OrderInv, LastIsRunning
  <2> QED BY <2>1, <2>2 DEF AtWork
<1> QED BY <1>1, <1>2, <1>3, <1>4 DEF OrderInv, LastIsRunning

(* What a running command still has to do, after a step. *)
LEMMA OnceAfter ==
    ASSUME TypeOK, OrderInv, NEW c \in Commands, NEW step, At(c, step)
    PROVE  LET todo == Tail(procs[c].todo) IN
           /\ SavesOnce(todo)
           /\ "rename" \in Range(todo) => ~Saved(c) /\ step # "rename"
           /\ step = "rename" => ~Saved(c)
<1>1. /\ procs[c].todo \in Seq(Things)
      /\ procs[c].todo # <<>>
      /\ Head(procs[c].todo) = step
      /\ procs[c].at = "running"
  BY ProcsType DEF ProcStates, At
<1>2. SavesOnce(procs[c].todo) /\ ("rename" \in Range(procs[c].todo) => ~Saved(c))
  BY <1>1 DEF OrderInv, LastIsRunning, AtWork
<1> QED BY <1>1, <1>2, RangeOfTail, SavesOnceTail

LEMMA StepsSaveOnce ==
    ASSUME NEW kind \in Kinds
    PROVE  SavesOnce(Steps[kind])
BY DEF Kinds, Steps, SavesOnce

(* Only the last command saves, and its entries are the end of the log. *)
LEMMA RenameOrder ==
    ASSUME TypeOK, OrderInv, NEW c \in Commands, Rename(c)
    PROVE  OrderInv'
<1>1. At(c, "rename") /\ Advances(c) /\ log' = log /\ saves' = Append(saves, c)
  BY DEF Rename
<1>2. /\ procs'[c].at = "running" /\ procs[c].at = "running"
      /\ procs'[c].todo = Tail(procs[c].todo)
      /\ \A d \in Commands \ {c} : procs'[d] = procs[d]
  BY <1>1, AdvancesMoves DEF At
<1>3. /\ SavesOnce(procs'[c].todo) /\ "rename" \notin Range(procs'[c].todo)
      /\ \A i \in DOMAIN saves : saves[i] # c
  BY <1>1, <1>2, OnceAfter DEF Saved, Range
<1>4. /\ DOMAIN saves' = DOMAIN saves \cup {Len(saves) + 1}
      /\ DOMAIN saves = 1..Len(saves) /\ Len(saves) \in Nat
      /\ \A i \in DOMAIN saves : saves'[i] = saves[i]
      /\ saves'[Len(saves) + 1] = c
      /\ Len(saves') = Len(saves) + 1
      /\ Range(saves') = Range(saves) \cup {c}
  <2>1. saves \in Seq(Commands)
    BY DEF TypeOK
  <2> QED BY <1>1, <2>1, AppendOf, RangeOfAppend
<1>5. \A m, n \in DOMAIN log : m < n /\ log[m].by = c => log[n].by = c
  BY <1>2 DEF OrderInv, LastIsRunning
<1>6. LogFollowsSaves'
  <2> SUFFICES ASSUME NEW m \in DOMAIN log, NEW n \in DOMAIN log,
                      NEW i \in DOMAIN saves', NEW j \in DOMAIN saves',
                      m < n, {log[m].event, log[n].event} \subseteq Outcomes,
                      saves'[i] = log[m].by, saves'[j] = log[n].by
               PROVE  i <= j
    BY <1>1 DEF LogFollowsSaves
  <2>1. CASE i \in DOMAIN saves /\ j \in DOMAIN saves
    BY <1>4, <2>1 DEF OrderInv, LogFollowsSaves
  <2>2. CASE j = Len(saves) + 1
    BY <1>4, <2>2
  <2>3. CASE i = Len(saves) + 1
    BY <1>3, <1>4, <1>5, <2>3
  <2> QED BY <1>4, <2>1, <2>2, <2>3
<1>7. LastIsRunning'
  <2>1. ASSUME NEW d \in Commands \ {c} PROVE procs'[d].at # "running" /\ (Saved(d)' <=> Saved(d))
    BY <1>2, <1>4 DEF TypeOK, Saved
  <2>2. \A i \in DOMAIN saves' : saves'[i] = c => i = Len(saves')
    BY <1>3, <1>4
  <2>3. \A d \in Commands : Logged(d)' <=> Logged(d)
    BY <1>1 DEF Logged
  <2> QED BY <1>1, <1>2, <1>3, <1>5, <2>1, <2>2, <2>3 DEF OrderInv, LastIsRunning
<1> QED BY <1>6, <1>7 DEF OrderInv

(* Only the last command reports, and its save is the last. *)
LEMMA AppendOrder ==
    ASSUME TypeOK, OrderInv, NEW c \in Commands, AppendEvent(c)
    PROVE  OrderInv'
<1>1. PICK event \in Events : /\ At(c, event)
                              /\ log' = Append(log, [by |-> c, event |-> event])
  BY DEF AppendEvent
<1>2. Advances(c) /\ saves' = saves
  BY DEF AppendEvent
<1>3. /\ procs'[c].at = "running" /\ procs[c].at = "running"
      /\ procs'[c].todo = Tail(procs[c].todo)
      /\ \A d \in Commands \ {c} : procs'[d] = procs[d]
  BY <1>1, <1>2, AdvancesMoves DEF At
<1>4. SavesOnce(procs'[c].todo) /\ ("rename" \in Range(procs'[c].todo) => ~Saved(c))
  BY <1>1, <1>3, OnceAfter
<1>5. /\ DOMAIN log' = DOMAIN log \cup {Len(log) + 1}
      /\ DOMAIN log = 1..Len(log) /\ Len(log) \in Nat
      /\ \A n \in DOMAIN log : log'[n] = log[n]
      /\ log'[Len(log) + 1].by = c
  <2>1. log \in Seq([by : Commands, event : Events])
    BY DEF TypeOK
  <2>2. [by |-> c, event |-> event] \in [by : Commands, event : Events]
    OBVIOUS
  <2> QED BY <1>1, <2>1, <2>2, AppendOf
<1>6. DOMAIN saves = 1..Len(saves) /\ \A i \in DOMAIN saves : saves[i] = c => i = Len(saves)
  BY <1>3 DEF OrderInv, LastIsRunning, TypeOK
<1>7. LogFollowsSaves'
  <2> SUFFICES ASSUME NEW m \in DOMAIN log', NEW n \in DOMAIN log',
                      NEW i \in DOMAIN saves, NEW j \in DOMAIN saves,
                      m < n, {log'[m].event, log'[n].event} \subseteq Outcomes,
                      saves[i] = log'[m].by, saves[j] = log'[n].by
               PROVE  i <= j
    BY <1>2 DEF LogFollowsSaves
  <2>1. CASE n \in DOMAIN log
    BY <1>5, <2>1 DEF OrderInv, LogFollowsSaves
  <2>2. CASE n = Len(log) + 1
    <3>1. j = Len(saves)
      BY <1>5, <1>6, <2>2
    <3> QED BY <1>6, <3>1
  <2> QED BY <1>5, <2>1, <2>2
<1>8. LastIsRunning'
  <2>1. ASSUME NEW d \in Commands \ {c} PROVE procs'[d].at # "running" /\ (Logged(d)' <=> Logged(d))
    BY <1>3, <1>5 DEF TypeOK, Logged
  <2>2. ASSUME NEW m \in DOMAIN log', NEW n \in DOMAIN log', m < n, log'[m].by = c
        PROVE  log'[n].by = c
    BY <1>3, <1>5, <2>2 DEF OrderInv, LastIsRunning
  <2>3. \A d \in Commands : Saved(d)' <=> Saved(d)
    BY <1>2 DEF Saved
  <2> QED BY <1>2, <1>3, <1>4, <1>6, <2>1, <2>2, <2>3 DEF OrderInv, LastIsRunning
<1> QED BY <1>7, <1>8 DEF OrderInv

LEMMA OrderStep == TypeOK /\ OrderInv /\ [Next]_vars => OrderInv'
<1> SUFFICES ASSUME TypeOK, OrderInv, [Next]_vars PROVE OrderInv'
  OBVIOUS
<1>1. ASSUME NEW c \in Commands, NEW kind \in Kinds, Start(c, kind) PROVE OrderInv'
  <2>1. /\ procs[c].at = "new" /\ UNCHANGED <<log, saves>>
        /\ procs' = [procs EXCEPT ![c] = [at |-> "waiting", todo |-> Steps[kind], has |-> {}]]
    BY <1>1 DEF Start
  <2>2. /\ procs'[c].at = "waiting" /\ procs'[c].todo = Steps[kind]
        /\ \A d \in Commands \ {c} : procs'[d] = procs[d]
    BY <2>1, ProcsType
  <2>3. ~Saved(c)
    BY <2>1 DEF OrderInv, LastIsRunning
  <2> QED BY <2>1, <2>2, <2>3, StepsSaveOnce, QuietOrder
<1>2. ASSUME NEW c \in Commands, Acquire(c) PROVE OrderInv'
  <2>1. /\ procs'[c].at = "running" /\ procs'[c].todo = procs[c].todo
        /\ \A d \in Commands \ {c} : procs'[d] = procs[d]
    BY <1>2, GoesMoves DEF Acquire
  <2>2. procs[c].at = "waiting" /\ UNCHANGED <<log, saves>>
    BY <1>2 DEF Acquire
  <2> QED BY <2>1, <2>2, QuietOrder DEF OrderInv, LastIsRunning, AtWork
<1>3. ASSUME NEW c \in Commands, End(c) \/ ReadFails(c) \/ Crash(c) PROVE OrderInv'
  <2>1. PICK where \in {"done", "failed", "killed"} : Goes(c, where) /\ UNCHANGED <<log, saves>>
    BY <1>3 DEF End, ReadFails, Crash
  <2>2. /\ procs'[c].at = where
        /\ \A d \in Commands \ {c} : procs'[d] = procs[d]
    BY <2>1, GoesMoves
  <2> QED BY <2>1, <2>2, QuietOrder DEF AtWork
<1>4. ASSUME NEW c \in Commands, Read(c) \/ WriteTemp(c) PROVE OrderInv'
  <2>1. PICK step \in {"read", "write"} : At(c, step) /\ UNCHANGED <<log, saves>>
    BY <1>4 DEF Read, WriteTemp
  <2>2. /\ procs'[c].at = "running" /\ procs[c].at = "running"
        /\ procs'[c].todo = Tail(procs[c].todo)
        /\ \A d \in Commands \ {c} : procs'[d] = procs[d]
    <3>1. CASE Read(c)
      <4> DEFINE r == [at |-> procs[c].at, todo |-> Tail(procs[c].todo), has |-> file.has \cup {c}]
      <4>1. procs' = [procs EXCEPT ![c] = r]
        BY <3>1 DEF Read
      <4>2. r.at = procs[c].at /\ r.todo = Tail(procs[c].todo)
        OBVIOUS
      <4> HIDE DEF r
      <4> QED BY <2>1, <4>1, <4>2, ProcsType DEF At
    <3>2. CASE WriteTemp(c)
      BY <2>1, <3>2, AdvancesMoves DEF WriteTemp, At
    <3> QED BY <1>4, <3>1, <3>2
  <2> QED BY <2>1, <2>2, OnceAfter, QuietOrder DEF AtWork
<1>5. ASSUME NEW c \in Commands, Rename(c) PROVE OrderInv'
  BY <1>5, RenameOrder
<1>6. ASSUME NEW c \in Commands, AppendEvent(c) PROVE OrderInv'
  BY <1>6, AppendOrder
<1>7. CASE EditReads \/ EditTruncates \/ EditWrites \/ EditCrashes \/ UNCHANGED vars
  <2>1. UNCHANGED <<procs, log, saves>>
    BY <1>7 DEF EditReads, EditTruncates, EditWrites, EditCrashes, vars
  <2> QED BY <2>1 DEF OrderInv, LogFollowsSaves, LastIsRunning, Saved, Logged
<1> QED BY <1>1, <1>2, <1>3, <1>4, <1>5, <1>6, <1>7 DEF Next, Work

-----------------------------------------------------------------------------
(* The theorems *)

(* The file, the commands and the history keep their types, and the lock   *)
(* is held by exactly the command that is running.                         *)
THEOREM StateFileTypes == Spec => []TypeOK
BY StateFileInv, PTL DEF IInv

(* No command undoes another: what one saved is in every later state.json, *)
(* unless an edit that takes no lock overwrote it.                         *)
THEOREM CommandsKeepUpdates == Spec => []UpdatesSurvive
BY StateFileInv, PTL DEF IInv

(* Only an editor leaves half a state.json, never a killed command.        *)
THEOREM CommandsLeaveNoTornFile == Spec => []TornHasCause
BY StateFileInv, PTL DEF IInv

(* What the log calls paused or accepted was saved before.                 *)
THEOREM LogReportsSaved == Spec => []AcceptedIsSaved
BY StateFileInv, PTL DEF IInv

(* A command that ended without an error saved what it logged as done.     *)
THEOREM OutcomesOfDoneAreSaved == Spec => []LogAheadHasCause
BY StateFileInv, PTL DEF IInv

(* The log tells the outcomes in the order in which the state took them.   *)
THEOREM LogIsInOrder == Spec => []LogFollowsSaves
<1>1. Spec => []OrderInv
  BY StateFileTypes, OrderInit, OrderStep, PTL DEF Spec
<1> QED BY <1>1, PTL DEF OrderInv

-----------------------------------------------------------------------------
(* What EveryCommandEnds rests on *)

(* The guard of Work(c), written out. *)
CanGo(c) ==
    \/ procs[c].at = "waiting" /\ holder = Free
    \/ /\ procs[c].at = "running"
       /\ procs[c].todo # <<>> => Head(procs[c].todo) \in FileSteps \cup Events

(* A command that is started can go on, whatever an editor or a kill left  *)
(* of the file, or waits for the lock that one has who can: the lock of a  *)
(* command that failed or was killed is not waited for.                    *)
NobodyStuck ==
    \A c \in Commands :
        procs[c].at \in AtWork =>
            \/ CanGo(c)
            \/ procs[c].at = "waiting" /\ \E d \in Commands : holder = d /\ CanGo(d)

(* How many steps a command has before it at most; no command comes to     *)
(* more than five with the lock.                                           *)
StepsLeft(proc) ==
    CASE proc.at = "new"     -> 8
      [] proc.at = "waiting" -> Len(proc.todo) + 2
      [] proc.at = "running" -> Len(proc.todo) + 1
      [] proc.at \in {"done", "failed", "killed"} -> 0

(* Whatever happens, a command stays where it is or comes nearer its end. *)
ComesNearer ==
    \A c \in Commands :
        procs'[c] = procs[c] \/ StepsLeft(procs'[c]) < StepsLeft(procs[c])

(* No started command is ever stuck, and nobody deadlocks.                 *)
THEOREM CommandsGoOn == Spec => []NobodyStuck
<1>1. TypeOK => NobodyStuck
  <2> SUFFICES ASSUME TypeOK, NEW c \in Commands, procs[c].at \in AtWork
               PROVE  \/ CanGo(c)
                      \/ procs[c].at = "waiting" /\ \E d \in Commands : holder = d /\ CanGo(d)
    BY DEF NobodyStuck
  <2>1. ASSUME NEW d \in Commands, procs[d].at = "running" PROVE CanGo(d)
    <3>1. procs[d].todo \in Seq(Things)
      BY ProcsType DEF ProcStates
    <3>2. procs[d].todo # <<>> => Head(procs[d].todo) \in Things
      BY <3>1
    <3> QED BY <2>1, <3>2 DEF CanGo, Things
  <2>2. CASE procs[c].at = "running"
    BY <2>1, <2>2
  <2>3. CASE procs[c].at = "waiting" /\ holder # Free
    <3>1. holder \in Commands /\ procs[holder].at = "running"
      BY <2>3 DEF TypeOK
    <3> QED BY <2>1, <2>3, <3>1
  <2>4. CASE procs[c].at = "waiting" /\ holder = Free
    BY <2>4 DEF CanGo
  <2> QED BY <2>2, <2>3, <2>4 DEF AtWork
<1> QED BY <1>1, StateFileTypes, PTL

LEMMA StepsLeftOf ==
    ASSUME NEW proc \in ProcStates
    PROVE  /\ proc.at = "new" => StepsLeft(proc) = 8
           /\ proc.at = "waiting" => StepsLeft(proc) = Len(proc.todo) + 2
           /\ proc.at = "running" => StepsLeft(proc) = Len(proc.todo) + 1
           /\ proc.at \in {"done", "failed", "killed"} => StepsLeft(proc) = 0
           /\ Len(proc.todo) \in Nat
           /\ proc.at \in {"new", "waiting", "running", "done", "failed", "killed"}
<1>1. proc.at = "new" => StepsLeft(proc) = 8
  BY DEF StepsLeft
<1>2. proc.at = "waiting" => StepsLeft(proc) = Len(proc.todo) + 2
  BY DEF StepsLeft
<1>3. proc.at = "running" => StepsLeft(proc) = Len(proc.todo) + 1
  BY DEF StepsLeft
<1>4. proc.at \in {"done", "failed", "killed"} => StepsLeft(proc) = 0
  BY DEF StepsLeft
<1>5. /\ Len(proc.todo) \in Nat
      /\ proc.at \in {"new", "waiting", "running", "done", "failed", "killed"}
  BY DEF ProcStates
<1> QED BY <1>1, <1>2, <1>3, <1>4, <1>5

LEMMA StepsAreFew ==
    ASSUME NEW kind \in Kinds
    PROVE  Len(Steps[kind]) + 2 < 8
<1>1. Len(Steps[kind]) \in {3, 4, 5}
  BY DEF Steps, Kinds
<1>2. \A n \in {3, 4, 5} : n + 2 < 8
  OBVIOUS
<1> QED BY <1>1, <1>2, Zenon

LEMMA NearerStep == TypeOK /\ TypeOK' /\ [Next]_vars => ComesNearer
<1> SUFFICES ASSUME TypeOK, TypeOK', [Next]_vars PROVE ComesNearer
  OBVIOUS
<1>0. ASSUME NEW c \in Commands
      PROVE  procs[c] \in ProcStates /\ procs'[c] \in ProcStates
  <2>1. procs \in [Commands -> ProcStates] /\ procs' \in [Commands -> ProcStates]
    BY DEF TypeOK, ProcStates, Things
  <2> QED BY <2>1
<1>1. ASSUME NEW c \in Commands, \A d \in Commands \ {c} : procs'[d] = procs[d],
             StepsLeft(procs'[c]) < StepsLeft(procs[c])
      PROVE  ComesNearer
  BY <1>1 DEF ComesNearer
<1>2. ASSUME NEW c \in Commands, NEW kind \in Kinds, Start(c, kind) PROVE ComesNearer
  <2> DEFINE proc == [at |-> "waiting", todo |-> Steps[kind], has |-> {}]
  <2>1. procs'[c] = proc /\ \A d \in Commands \ {c} : procs'[d] = procs[d]
    BY <1>2, ProcsType DEF Start
  <2>2. proc.at = "waiting" /\ proc.todo = Steps[kind]
    OBVIOUS
  <2> HIDE DEF proc
  <2>3. StepsLeft(procs[c]) = 8 /\ StepsLeft(procs'[c]) = Len(Steps[kind]) + 2
    BY <1>0, <1>2, <2>1, <2>2, StepsLeftOf, Zenon DEF Start
  <2>4. StepsLeft(procs'[c]) < StepsLeft(procs[c])
    BY <2>3, StepsAreFew, Zenon
  <2> QED BY <1>1, <2>1, <2>4
<1>3. ASSUME NEW c \in Commands, Acquire(c) PROVE ComesNearer
  <2>1. /\ procs[c].at = "waiting" /\ procs'[c].at = "running"
        /\ procs'[c].todo = procs[c].todo
        /\ \A d \in Commands \ {c} : procs'[d] = procs[d]
    BY <1>3, GoesMoves DEF Acquire
  <2>2. /\ StepsLeft(procs[c]) = Len(procs[c].todo) + 2
        /\ StepsLeft(procs'[c]) = Len(procs[c].todo) + 1
        /\ Len(procs[c].todo) \in Nat
    BY <1>0, <2>1, StepsLeftOf, Zenon
  <2> QED BY <1>1, <2>1, <2>2
<1>4. ASSUME NEW c \in Commands, End(c) \/ ReadFails(c) \/ Crash(c) PROVE ComesNearer
  <2>1. PICK where \in {"done", "failed", "killed"} : Goes(c, where)
    BY <1>4 DEF End, ReadFails, Crash
  <2>2. /\ procs'[c].at \in {"done", "failed", "killed"}
        /\ procs[c].at \in AtWork
        /\ \A d \in Commands \ {c} : procs'[d] = procs[d]
    BY <1>4, <2>1, GoesMoves DEF End, ReadFails, Crash, At, AtWork
  <2>3. /\ StepsLeft(procs[c]) \in {Len(procs[c].todo) + 2, Len(procs[c].todo) + 1}
        /\ StepsLeft(procs'[c]) = 0
        /\ Len(procs[c].todo) \in Nat
    BY <1>0, <2>2, StepsLeftOf, Zenon DEF AtWork
  <2> QED BY <1>1, <2>2, <2>3
<1>5. ASSUME NEW c \in Commands,
             Read(c) \/ WriteTemp(c) \/ Rename(c) \/ AppendEvent(c)
      PROVE  ComesNearer
  <2>1. PICK step : At(c, step)
    BY <1>5 DEF Read, WriteTemp, Rename, AppendEvent
  <2>2. /\ procs[c].at = "running" /\ procs'[c].at = "running"
        /\ procs'[c].todo = Tail(procs[c].todo)
        /\ \A d \in Commands \ {c} : procs'[d] = procs[d]
    <3>1. CASE Read(c)
      <4> DEFINE r == [at |-> procs[c].at, todo |-> Tail(procs[c].todo), has |-> file.has \cup {c}]
      <4>1. procs' = [procs EXCEPT ![c] = r]
        BY <3>1 DEF Read
      <4>2. r.at = procs[c].at /\ r.todo = Tail(procs[c].todo)
        OBVIOUS
      <4> HIDE DEF r
      <4> QED BY <2>1, <4>1, <4>2, ProcsType DEF At
    <3>2. CASE WriteTemp(c) \/ Rename(c) \/ AppendEvent(c)
      BY <2>1, <3>2, AdvancesMoves DEF WriteTemp, Rename, AppendEvent, At
    <3> QED BY <1>5, <3>1, <3>2
  <2>3. /\ Len(procs'[c].todo) = Len(procs[c].todo) - 1
        /\ Len(procs[c].todo) \in Nat
    <3>1. procs[c].todo \in Seq(Things) /\ procs[c].todo # <<>>
      BY <2>1, <1>0 DEF At, ProcStates
    <3>2. Len(Tail(procs[c].todo)) = Len(procs[c].todo) - 1 /\ Len(procs[c].todo) \in Nat
      BY <3>1
    <3> QED BY <2>2, <3>2
  <2>4. /\ StepsLeft(procs[c]) = Len(procs[c].todo) + 1
        /\ StepsLeft(procs'[c]) = Len(procs'[c].todo) + 1
    BY <1>0, <2>2, StepsLeftOf, Zenon
  <2>5. StepsLeft(procs'[c]) < StepsLeft(procs[c])
    BY <2>3, <2>4
  <2> QED BY <1>1, <2>2, <2>5
<1>6. CASE EditReads \/ EditTruncates \/ EditWrites \/ EditCrashes \/ UNCHANGED vars
  <2>1. UNCHANGED procs
    BY <1>6 DEF EditReads, EditTruncates, EditWrites, EditCrashes, vars
  <2> QED BY <2>1 DEF ComesNearer
<1> QED BY <1>2, <1>3, <1>4, <1>5, <1>6 DEF Next, Work

(* A command takes at most eight steps, however often others and editors   *)
(* take theirs: each step is one less, and others' do not set it back.     *)
THEOREM CommandsComeNearer ==
    Spec => /\ [](\A c \in Commands : StepsLeft(procs[c]) \in Nat)
            /\ [][ComesNearer]_vars
<1>1. TypeOK => \A c \in Commands : StepsLeft(procs[c]) \in Nat
  <2> SUFFICES ASSUME TypeOK, NEW c \in Commands PROVE StepsLeft(procs[c]) \in Nat
    OBVIOUS
  <2>1. procs[c] \in ProcStates
    BY ProcsType
  <2>2. /\ StepsLeft(procs[c]) \in {8, Len(procs[c].todo) + 2, Len(procs[c].todo) + 1, 0}
        /\ Len(procs[c].todo) \in Nat
    BY <2>1, StepsLeftOf, Zenon
  <2> QED BY <2>2
<1>2. Spec => Init /\ [][Next]_vars
  BY DEF Spec
<1> QED BY <1>1, <1>2, NearerStep, StateFileTypes, PTL

=============================================================================
