--------------------------- MODULE EventLogProofs ---------------------------
(***************************************************************************)
(* The lock keeps the log readable as long as no append was killed or met  *)
(* one of a recorder; a log that can be read lists what was appended; and  *)
(* the QA gate reports no pass after a failed QA: for any number of        *)
(* commands and recorders.                                                 *)
(***************************************************************************)
EXTENDS EventLog, ExtremaProofs

Places == {"idle", "waiting", "checking", "ready", "headed", "tailed", "testing"}
Children == Commands \cup {NoChild}
ProcStates == [at : Places, todo : Seq(Events \cup {"qa"}), child : Children]
Pieces == [by : Processes, part : {"head", "tail"}, type : Types]

(* The places of a command that has the lock. *)
Locked == {"checking", "ready", "headed", "tailed"}

Last == log[Len(log)]

(* Types, in a form that every step preserves: what is to be appended are  *)
(* event types, and whoever is in the middle of an append has one.         *)
Typed ==
    /\ log \in Seq(Seq(Pieces)) /\ log # <<>>
    /\ holder \in Processes \cup {Free}
    /\ procs \in [Processes -> ProcStates]
    /\ appended \in Seq(Types)
    /\ passes \subseteq {n \in DOMAIN appended : appended[n] = "gate_passed"}
    /\ disturbed \in BOOLEAN
    /\ started \in 0..MaxStarts
    /\ \A p \in Processes :
         /\ procs[p].at = "waiting" => procs[p].todo = <<"qa">> \/ procs[p].todo \in Seq(Events)
         /\ procs[p].at \in {"ready", "headed", "tailed", "testing"} => procs[p].todo \in Seq(Events)
         /\ MidAppend(p) => procs[p].todo # <<>>
    /\ \A c \in Commands : procs[c].at \in Locked => holder = c

(* An undisturbed log consists of whole lines, and its last line is what   *)
(* the one process that appends has written.                               *)
Clean ==
    ~disturbed =>
        /\ \A n \in 1..(Len(log) - 1) : log[n] = <<>> \/ Sound(log[n])
        /\ \A p, q \in Processes : MidAppend(p) /\ MidAppend(q) => p = q
        /\ \A p \in Processes :
             /\ procs[p].at = "headed" => Len(Last) = 1 /\ Last[1].part = "head" /\ Last[1].by = p
             /\ procs[p].at = "tailed" => Sound(Last)
        /\ (\A p \in Processes : ~MidAppend(p)) => Last = <<>>

IInv == Typed /\ Clean

Whole(line) == line = <<>> \/ Sound(line)
Half(line) == Len(line) = 1 /\ line[1].part = "head"

(* If nothing is wrong up to the last line, and that one may still become  *)
(* sound, then the log lists what was appended; and a head without its     *)
(* tail is that of the event that its process is about to end.             *)
Told ==
    /\ (\A n \in 1..(Len(log) - 1) : Whole(log[n])) /\ (Whole(Last) \/ Half(Last))
         => Listed = appended
    /\ \A p \in Processes :
         procs[p].at = "headed" /\ Half(Last) /\ Last[1].by = p
           => Last[1].type = TypeOf(Head(procs[p].todo))

(* Who is to append a pass of QA has the lock since it looked, appends no  *)
(* outcome of QA, and nobody has appended a failed one.                    *)
Entitled(q, proc) ==
    /\ (\E n \in DOMAIN proc.todo : proc.todo[n] = "passed") =>
         /\ q \in Commands /\ proc.at \in {"ready", "headed", "tailed"}
         /\ \A n \in DOMAIN proc.todo : proc.todo[n] \notin QaTypes
         /\ LatestQa(appended) # "qa_failed"
    /\ q \in Recorders => \A n \in DOMAIN proc.todo : proc.todo[n] = "other"

Backed == QaPassesAreBacked /\ \A q \in Processes : Entitled(q, procs[q])

History == Told /\ Backed

-----------------------------------------------------------------------------
(* Helpers *)

LEMMA KnownTypes ==
    /\ "other" \in Events /\ "passed" \in Events /\ Types \subseteq Events
    /\ \A event \in Events : TypeOf(event) \in Types
    /\ \A event \in Types : TypeOf(event) = event
BY DEF Types, QaTypes, Events, TypeOf

LEMMA ErrandsKnown ==
    ASSUME NEW errand \in Errands
    PROVE  (errand = <<"qa">> \/ errand \in Seq(Events)) /\ errand \in Seq(Events \cup {"qa"})
<1>1. CASE errand = <<"qa">>
  BY <1>1
<1>2. ASSUME NEW type \in Types, errand = <<type>>
      PROVE  errand \in Seq(Events) /\ errand \in Seq(Events \cup {"qa"})
  BY <1>2, KnownTypes
<1> QED BY <1>1, <1>2 DEF Errands

(* A step of one process leaves the others where they were. *)
LEMMA GoesMoves ==
    ASSUME Typed, NEW p \in Processes, NEW where \in Places, NEW todo \in Seq(Events \cup {"qa"}),
           Goes(p, where, todo)
    PROVE  /\ procs' \in [Processes -> ProcStates]
           /\ procs'[p].at = where /\ procs'[p].todo = todo
           /\ \A q \in Processes \ {p} : procs'[q] = procs[q]
<1> DEFINE r == [at |-> where, todo |-> todo, child |-> procs[p].child]
<1>1. r \in ProcStates
  BY DEF Typed, ProcStates
<1>2. procs' = [procs EXCEPT ![p] = r]
  BY DEF Goes
<1> QED BY <1>1, <1>2 DEF Typed

LEMMA AppendOf ==
    ASSUME NEW S, NEW s \in Seq(S), NEW x \in S
    PROVE  /\ Len(Append(s, x)) = Len(s) + 1
           /\ \A n \in 1..Len(s) : Append(s, x)[n] = s[n]
           /\ Append(s, x)[Len(s) + 1] = x
OBVIOUS

LEMMA SecondPiece ==
    ASSUME NEW S, NEW line \in Seq(S), Len(line) = 1, NEW piece \in S
    PROVE  /\ Len(Append(line, piece)) = 2
           /\ Append(line, piece)[1] = line[1]
           /\ Append(line, piece)[2] = piece
<1>1. /\ Len(Append(line, piece)) = Len(line) + 1
      /\ \A n \in 1..Len(line) : Append(line, piece)[n] = line[n]
      /\ Append(line, piece)[Len(line) + 1] = piece
  BY AppendOf, Zenon
<1>2. 1 \in 1..Len(line) /\ Len(line) + 1 = 2
  OBVIOUS
<1> QED BY <1>1, <1>2

(* A piece goes to the last line. *)
LEMMA PutAppends ==
    ASSUME Typed, NEW piece \in Pieces, Put(piece)
    PROVE  /\ log' \in Seq(Seq(Pieces)) /\ log' # <<>> /\ Len(log') = Len(log)
           /\ Last' = Append(Last, piece)
           /\ \A n \in 1..(Len(log) - 1) : log'[n] = log[n]
<1>1. Len(log) \in DOMAIN log /\ Last \in Seq(Pieces) /\ Len(log) \in Nat
  BY DEF Typed, Last
<1>2. Append(Last, piece) \in Seq(Pieces)
  BY <1>1
<1>3. log' = [log EXCEPT ![Len(log)] = Append(Last, piece)]
  BY DEF Put, Last
<1>4. log' \in Seq(Seq(Pieces)) /\ Len(log') = Len(log)
  BY <1>1, <1>2, <1>3 DEF Typed
<1>5. log' # <<>>
  BY <1>1, <1>4 DEF Typed
<1>6. Last' = Append(Last, piece)
  BY <1>1, <1>3, <1>4 DEF Typed, Last
<1>7. \A n \in 1..(Len(log) - 1) : log'[n] = log[n]
  BY <1>1, <1>3 DEF Typed
<1> QED BY <1>4, <1>5, <1>6, <1>7

-----------------------------------------------------------------------------
(* The inductive invariant *)

LEMMA InvInit == Init => IInv
<1> SUFFICES ASSUME Init PROVE IInv
  OBVIOUS
<1>1. Idle \in ProcStates /\ Idle.at = "idle"
  BY DEF Idle, ProcStates, Places, Children
<1>2. \A p \in Processes : procs[p] = Idle
  BY DEF Init
<1>3. log \in Seq(Seq(Pieces)) /\ log # <<>> /\ Len(log) = 1 /\ Last = <<>>
  <2>1. <<>> \in Seq(Pieces)
    OBVIOUS
  <2> QED BY <2>1 DEF Init, Last
<1>4. appended \in Seq(Types) /\ started \in 0..MaxStarts
  BY EventLogAssumptions DEF Init
<1>5. Typed
  <2>1. procs \in [Processes -> ProcStates]
    BY <1>1 DEF Init
  <2>2. \A p \in Processes : procs[p].at = "idle"
    BY <1>1, <1>2
  <2>3. \A c \in Commands : procs[c].at = "idle"
    BY <2>2 DEF Processes
  <2> QED BY <1>3, <1>4, <2>1, <2>2, <2>3 DEF Init, Typed, MidAppend, Locked
<1>6. Clean
  BY <1>1, <1>2, <1>3 DEF Clean, MidAppend
<1> QED BY <1>5, <1>6 DEF IInv

(* Whoever is in the middle of an append is alone, if nothing is disturbed *)
(* after the next step of an append.                                       *)
LEMMA AloneAtLog ==
    ASSUME Typed, NEW p \in Processes, procs[p].at \in {"ready", "headed", "tailed"},
           NoteOverlap(p), ~disturbed'
    PROVE  ~disturbed /\ \A q \in Processes \ {p} : ~MidAppend(q)
<1>1. ~disturbed
  BY DEF NoteOverlap
<1>2. ASSUME NEW q \in Processes \ {p}, MidAppend(q) PROVE FALSE
  <2>1. p \in Commands /\ q \in Commands
    BY <1>2 DEF NoteOverlap, Processes
  <2>2. holder = p /\ holder = q
    BY <1>2, <2>1 DEF Typed, Locked, MidAppend
  <2> QED BY <1>2, <2>2
<1> QED BY <1>1, <1>2

LEMMA HeadStep ==
    ASSUME IInv, NEW p \in Processes, AppendHead(p)
    PROVE  IInv'
<1> DEFINE piece == [by |-> p, part |-> "head", type |-> TypeOf(Head(procs[p].todo))]
<1> USE DEF IInv
<1>1. procs[p].at = "ready" /\ procs[p].todo \in Seq(Events) /\ procs[p].todo # <<>>
  BY DEF AppendHead, Typed
<1>2. piece \in Pieces
  <2>1. Head(procs[p].todo) \in Events
    BY <1>1
  <2> QED BY <2>1, KnownTypes DEF Pieces
<1>3. /\ log' \in Seq(Seq(Pieces)) /\ log' # <<>> /\ Len(log') = Len(log)
      /\ Last' = Append(Last, piece)
      /\ \A n \in 1..(Len(log) - 1) : log'[n] = log[n]
  BY <1>2, PutAppends DEF AppendHead
<1>4. procs[p].todo \in Seq(Events \cup {"qa"}) /\ "headed" \in Places
  BY <1>1 DEF Typed, ProcStates, Places
<1>5. /\ procs' \in [Processes -> ProcStates]
      /\ procs'[p].at = "headed" /\ procs'[p].todo = procs[p].todo
      /\ \A q \in Processes \ {p} : procs'[q] = procs[q]
  BY <1>4, GoesMoves DEF AppendHead
<1>6. disturbed' \in BOOLEAN
  BY DEF AppendHead, NoteOverlap, Typed
<1>7. Typed'
  <2>1. \A q \in Processes :
          /\ procs'[q].at = "waiting" => procs'[q].todo = <<"qa">> \/ procs'[q].todo \in Seq(Events)
          /\ procs'[q].at \in {"ready", "headed", "tailed", "testing"}
               => procs'[q].todo \in Seq(Events)
          /\ procs'[q].at \in {"headed", "tailed"} => procs'[q].todo # <<>>
    BY <1>1, <1>5 DEF Typed, MidAppend
  <2>2. \A c \in Commands : procs'[c].at \in Locked => holder' = c
    BY <1>1, <1>5, EventLogAssumptions DEF AppendHead, Typed, Locked, Processes
  <2> QED BY <1>3, <1>5, <1>6, <2>1, <2>2 DEF AppendHead, Typed, MidAppend
<1>8. Clean'
  <2> SUFFICES ASSUME ~disturbed' PROVE Clean'
    BY DEF Clean
  <2>1. ~disturbed /\ \A q \in Processes \ {p} : ~MidAppend(q)
    BY <1>1, AloneAtLog DEF AppendHead
  <2>2. Last = <<>>
    BY <1>1, <2>1 DEF Clean, MidAppend
  <2>3. Last' = <<piece>> /\ Len(Last') = 1 /\ Last'[1] = piece
    BY <1>3, <2>2
  <2>4. \A n \in 1..(Len(log') - 1) : log'[n] = <<>> \/ Sound(log'[n])
    BY <1>3, <2>1 DEF Clean
  <2>5. Len(Last') = 1 /\ Last'[1].part = "head" /\ Last'[1].by = p
    BY <2>3
  <2> QED BY <1>5, <2>1, <2>4, <2>5 DEF Clean, MidAppend
<1> QED BY <1>7, <1>8

LEMMA TailStep ==
    ASSUME IInv, NEW p \in Processes, AppendTail(p)
    PROVE  IInv'
<1> DEFINE piece == [by |-> p, part |-> "tail", type |-> TypeOf(Head(procs[p].todo))]
<1> USE DEF IInv
<1>1. /\ procs[p].at = "headed" /\ procs[p].todo \in Seq(Events) /\ procs[p].todo # <<>>
      /\ Head(procs[p].todo) \in Events /\ TypeOf(Head(procs[p].todo)) \in Types
  <2>1. procs[p].at = "headed" /\ procs[p].todo \in Seq(Events) /\ procs[p].todo # <<>>
    BY DEF AppendTail, Typed, MidAppend
  <2> QED BY <2>1, KnownTypes
<1>2. piece \in Pieces
  <2>1. Head(procs[p].todo) \in Events
    BY <1>1
  <2> QED BY <2>1, KnownTypes DEF Pieces
<1>3. /\ log' \in Seq(Seq(Pieces)) /\ log' # <<>> /\ Len(log') = Len(log)
      /\ Last' = Append(Last, piece)
      /\ \A n \in 1..(Len(log) - 1) : log'[n] = log[n]
  BY <1>2, PutAppends DEF AppendTail
<1>4. procs[p].todo \in Seq(Events \cup {"qa"}) /\ "tailed" \in Places
  BY <1>1 DEF Typed, ProcStates, Places
<1>5. /\ procs' \in [Processes -> ProcStates]
      /\ procs'[p].at = "tailed" /\ procs'[p].todo = procs[p].todo
      /\ \A q \in Processes \ {p} : procs'[q] = procs[q]
  BY <1>4, GoesMoves DEF AppendTail
<1>6. disturbed' \in BOOLEAN
  BY DEF AppendTail, NoteOverlap, Typed
<1>7. /\ appended' \in Seq(Types)
      /\ passes' \subseteq {n \in DOMAIN appended' : appended'[n] = "gate_passed"}
  <2>1. appended' = Append(appended, TypeOf(Head(procs[p].todo))) /\ appended \in Seq(Types)
    BY DEF AppendTail, Typed
  <2>2. /\ appended' \in Seq(Types) /\ Len(appended') = Len(appended) + 1
        /\ Len(appended) \in Nat /\ DOMAIN appended = 1..Len(appended)
        /\ DOMAIN appended' = 1..(Len(appended) + 1)
        /\ \A n \in DOMAIN appended : appended'[n] = appended[n]
        /\ appended'[Len(appended) + 1] = TypeOf(Head(procs[p].todo))
    BY <1>1, <2>1
  <2>3. \A n \in passes : n \in DOMAIN appended' /\ appended'[n] = "gate_passed"
    BY <2>2 DEF Typed
  <2>4. Head(procs[p].todo) = "passed" => /\ Len(appended') \in DOMAIN appended'
                                          /\ appended'[Len(appended')] = "gate_passed"
    BY <2>2 DEF TypeOf
  <2> QED BY <2>2, <2>3, <2>4 DEF AppendTail
<1>8. Typed'
  <2>1. \A q \in Processes :
          /\ procs'[q].at = "waiting" => procs'[q].todo = <<"qa">> \/ procs'[q].todo \in Seq(Events)
          /\ procs'[q].at \in {"ready", "headed", "tailed", "testing"}
               => procs'[q].todo \in Seq(Events)
          /\ procs'[q].at \in {"headed", "tailed"} => procs'[q].todo # <<>>
    BY <1>1, <1>5 DEF Typed, MidAppend
  <2>2. \A c \in Commands : procs'[c].at \in Locked => holder' = c
    BY <1>1, <1>5, EventLogAssumptions DEF AppendTail, Typed, Locked, Processes
  <2> QED BY <1>3, <1>5, <1>6, <1>7, <2>1, <2>2 DEF AppendTail, Typed, MidAppend
<1>9. Clean'
  <2> SUFFICES ASSUME ~disturbed' PROVE Clean'
    BY DEF Clean
  <2>1. ~disturbed /\ \A q \in Processes \ {p} : ~MidAppend(q)
    BY <1>1, AloneAtLog DEF AppendTail
  <2>2. /\ Len(Last) = 1 /\ Last[1].part = "head" /\ Last[1].by = p
        /\ Last \in Seq(Pieces)
    BY <1>1, <2>1 DEF Clean, Typed, Last
  <2>3. Len(Last') = 2 /\ Last'[1] = Last[1] /\ Last'[2] = piece
    BY <1>2, <1>3, <2>2, SecondPiece
  <2>4. Sound(Last')
    BY <2>2, <2>3 DEF Sound
  <2>5. \A n \in 1..(Len(log') - 1) : log'[n] = <<>> \/ Sound(log'[n])
    BY <1>3, <2>1 DEF Clean
  <2> QED BY <1>5, <2>1, <2>4, <2>5 DEF Clean, MidAppend
<1> QED BY <1>8, <1>9

LEMMA NewlineStep ==
    ASSUME IInv, NEW p \in Processes, AppendNewline(p)
    PROVE  IInv'
<1> USE DEF IInv
<1>1. procs[p].at = "tailed" /\ procs[p].todo \in Seq(Events) /\ procs[p].todo # <<>>
  BY DEF AppendNewline, Typed, MidAppend
<1>2. Tail(procs[p].todo) \in Seq(Events) /\ Tail(procs[p].todo) \in Seq(Events \cup {"qa"})
  BY <1>1
<1>3. /\ log' \in Seq(Seq(Pieces)) /\ log' # <<>> /\ Len(log) \in Nat
      /\ Len(log') = Len(log) + 1 /\ Last' = <<>>
      /\ \A n \in 1..Len(log) : log'[n] = log[n]
  <2>1. <<>> \in Seq(Pieces)
    OBVIOUS
  <2>2. log' = Append(log, <<>>)
    BY DEF AppendNewline
  <2> QED BY <2>1, <2>2 DEF Typed, Last
<1>4. /\ procs' \in [Processes -> ProcStates]
      /\ procs'[p].at = "ready" /\ procs'[p].todo = Tail(procs[p].todo)
      /\ \A q \in Processes \ {p} : procs'[q] = procs[q]
  BY <1>2, GoesMoves DEF AppendNewline, Places
<1>5. disturbed' \in BOOLEAN
  BY DEF AppendNewline, NoteOverlap, Typed
<1>6. Typed'
  <2>1. \A q \in Processes :
          /\ procs'[q].at = "waiting" => procs'[q].todo = <<"qa">> \/ procs'[q].todo \in Seq(Events)
          /\ procs'[q].at \in {"ready", "headed", "tailed", "testing"}
               => procs'[q].todo \in Seq(Events)
          /\ procs'[q].at \in {"headed", "tailed"} => procs'[q].todo # <<>>
    BY <1>1, <1>2, <1>4 DEF Typed, MidAppend
  <2>2. \A c \in Commands : procs'[c].at \in Locked => holder' = c
    BY <1>1, <1>4, EventLogAssumptions DEF AppendNewline, Typed, Locked, Processes
  <2> QED BY <1>3, <1>4, <1>5, <2>1, <2>2 DEF AppendNewline, Typed, MidAppend
<1>7. Clean'
  <2> SUFFICES ASSUME ~disturbed' PROVE Clean'
    BY DEF Clean
  <2>1. ~disturbed /\ \A q \in Processes \ {p} : ~MidAppend(q)
    BY <1>1, AloneAtLog DEF AppendNewline
  <2>2. \A n \in 1..Len(log) : log[n] = <<>> \/ Sound(log[n])
    BY <1>1, <1>3, <2>1 DEF Clean, Last
  <2>3. \A n \in 1..(Len(log') - 1) : log'[n] = <<>> \/ Sound(log'[n])
    BY <1>3, <2>2
  <2> QED BY <1>3, <1>4, <2>1, <2>3 DEF Clean, MidAppend
<1> QED BY <1>6, <1>7

(* A step that leaves the log alone and is no step of an append. *)
LEMMA QuietClean ==
    ASSUME Clean, UNCHANGED log, disturbed' = disturbed,
           \A p \in Processes : /\ MidAppend(p)' <=> MidAppend(p)
                                /\ MidAppend(p) => procs'[p].at = procs[p].at
    PROVE  Clean'
BY DEF Clean, Last, MidAppend

LEMMA QuietStep ==
    ASSUME IInv, NEW p \in Processes, NEW where \in Places \ {"headed", "tailed"},
           NEW todo \in Seq(Events \cup {"qa"}), NEW child \in Children,
           procs' = [procs EXCEPT ![p] = [at |-> where, todo |-> todo, child |-> child]],
           ~MidAppend(p),
           where = "waiting" => todo = <<"qa">> \/ todo \in Seq(Events),
           where \in {"ready", "testing"} => todo \in Seq(Events),
           p \in Commands /\ where \in Locked => holder' = p,
           holder' \in {holder, p} \/ (holder \in {p, Free} /\ holder' = Free),
           holder' = p => holder \in {Free, p},
           started' \in 0..MaxStarts,
           UNCHANGED <<log, appended, passes, disturbed>>
    PROVE  IInv'
<1> DEFINE r == [at |-> where, todo |-> todo, child |-> child]
<1> USE DEF IInv
<1>1. r \in ProcStates
  BY DEF ProcStates
<1>2. /\ procs' \in [Processes -> ProcStates]
      /\ procs'[p] = r
      /\ \A q \in Processes \ {p} : procs'[q] = procs[q]
  BY <1>1 DEF Typed
<1>3. \A q \in Processes : /\ MidAppend(q)' <=> MidAppend(q)
                           /\ MidAppend(q) => procs'[q].at = procs[q].at
  BY <1>2 DEF MidAppend
<1>4. Clean'
  BY <1>3, QuietClean
<1>5. \A q \in Processes :
         /\ procs'[q].at = "waiting" => procs'[q].todo = <<"qa">> \/ procs'[q].todo \in Seq(Events)
         /\ procs'[q].at \in {"ready", "headed", "tailed", "testing"} => procs'[q].todo \in Seq(Events)
         /\ procs'[q].at \in {"headed", "tailed"} => procs'[q].todo # <<>>
  BY <1>2 DEF Typed, MidAppend
<1>6. \A c \in Commands : procs'[c].at \in Locked => holder' = c
  BY <1>2, EventLogAssumptions DEF Typed, Processes
<1>7. Typed'
  BY <1>2, <1>5, <1>6 DEF Typed, MidAppend
<1> QED BY <1>4, <1>7

LEMMA IdleIs ==
    /\ Idle = [at |-> "idle", todo |-> <<>>, child |-> NoChild]
    /\ <<>> \in Seq(Events \cup {"qa"})
    /\ NoChild \in Children
    /\ Idle.at = "idle"
BY DEF Idle, Children

LEMMA CrashStep ==
    ASSUME IInv, NEW p \in Processes, Crash(p)
    PROVE  IInv'
<1> USE DEF IInv
<1>1. procs' = [procs EXCEPT ![p] = [at |-> "idle", todo |-> <<>>, child |-> NoChild]]
  BY IdleIs DEF Crash
<1>2. CASE ~MidAppend(p)
  <2>1. disturbed' = disturbed
    BY <1>2 DEF Crash, Typed
  <2> QED BY <1>1, <1>2, <2>1, IdleIs, QuietStep DEF Crash, Places, Locked, Typed
<1>3. CASE MidAppend(p)
  <2>1. Clean'
    BY <1>3 DEF Crash, Clean
  <2>2. /\ procs' \in [Processes -> ProcStates]
        /\ procs'[p] = Idle
        /\ \A q \in Processes \ {p} : procs'[q] = procs[q]
    BY IdleIs DEF Crash, Typed, ProcStates, Places
  <2>3. \A c \in Commands : procs'[c].at \in Locked => holder' = c
    BY <2>2, IdleIs DEF Crash, Typed, Locked, Processes
  <2>4. disturbed' \in BOOLEAN /\ holder' \in Processes \cup {Free}
    BY DEF Crash, Typed
  <2>5. Typed'
    BY <2>2, <2>3, <2>4, IdleIs DEF Crash, Typed, MidAppend
  <2> QED BY <2>1, <2>5
<1> QED BY <1>2, <1>3

LEMMA InvStep == IInv /\ [Next]_vars => IInv'
<1> SUFFICES ASSUME IInv, [Next]_vars PROVE IInv'
  OBVIOUS
<1> USE DEF IInv
<1>0. /\ Commands \subseteq Processes /\ Recorders \subseteq Processes
      /\ \A p \in Processes : procs[p] \in ProcStates
      /\ started \in 0..MaxStarts /\ holder \in Processes \cup {Free}
  BY DEF Processes, Typed
<1>1. ASSUME NEW c \in Commands, NEW errand \in Errands, StartCommand(c, errand) PROVE IInv'
  <2>1. ~MidAppend(c)
    BY <1>1, IdleIs DEF StartCommand, MidAppend
  <2>2. started' \in 0..MaxStarts
    BY <1>0, <1>1, EventLogAssumptions DEF StartCommand
  <2> QED BY <1>0, <1>1, <2>1, <2>2, ErrandsKnown, IdleIs, QuietStep DEF StartCommand, Places, Locked
<1>2. ASSUME NEW r \in Recorders, StartRecorder(r) PROVE IInv'
  <2>1. ~MidAppend(r) /\ r \notin Commands
    BY <1>2, IdleIs, EventLogAssumptions DEF StartRecorder, MidAppend
  <2>2. started' \in 0..MaxStarts
    BY <1>0, <1>2, EventLogAssumptions DEF StartRecorder
  <2>3. <<"other">> \in Seq(Events) /\ <<"other">> \in Seq(Events \cup {"qa"})
    BY KnownTypes
  <2> QED BY <1>0, <1>2, <2>1, <2>2, <2>3, IdleIs, QuietStep DEF StartRecorder, Places, Locked
<1>3. ASSUME NEW r \in Recorders, NEW c \in Commands, NEW errand \in Errands,
             TestCalls(r, c, errand)
      PROVE  IInv'
  <2> DEFINE caller == [at |-> "testing", todo |-> procs[r].todo, child |-> c]
             called == [at |-> "waiting", todo |-> errand, child |-> NoChild]
  <2>1. r # c /\ r \notin Commands
    BY EventLogAssumptions
  <2>2. caller \in ProcStates /\ called \in ProcStates
    BY <1>0, ErrandsKnown DEF ProcStates, Places, Children
  <2>3. procs' = [procs EXCEPT ![r] = caller, ![c] = called]
    BY <1>3 DEF TestCalls
  <2>4. /\ procs' \in [Processes -> ProcStates]
        /\ procs'[r] = caller /\ procs'[c] = called
        /\ \A q \in Processes \ {r, c} : procs'[q] = procs[q]
    BY <1>0, <2>1, <2>2, <2>3 DEF Typed
  <2>5. procs[r].at = "testing" /\ procs[c].at = "idle"
    BY <1>3, IdleIs DEF TestCalls
  <2>6. \A q \in Processes : /\ MidAppend(q)' <=> MidAppend(q)
                             /\ MidAppend(q) => procs'[q].at = procs[q].at
    BY <2>4, <2>5 DEF MidAppend
  <2>7. Clean'
    BY <1>3, <2>6, QuietClean DEF TestCalls
  <2>8. started' \in 0..MaxStarts
    BY <1>0, <1>3, EventLogAssumptions DEF TestCalls
  <2>9. \A q \in Processes :
          /\ procs'[q].at = "waiting" => procs'[q].todo = <<"qa">> \/ procs'[q].todo \in Seq(Events)
          /\ procs'[q].at \in {"ready", "headed", "tailed", "testing"}
               => procs'[q].todo \in Seq(Events)
          /\ procs'[q].at \in {"headed", "tailed"} => procs'[q].todo # <<>>
    <3>1. procs'[r].at = "testing" /\ procs'[r].todo \in Seq(Events)
      BY <1>0, <2>4, <2>5 DEF Typed
    <3>2. procs'[c].at = "waiting" /\ (procs'[c].todo = <<"qa">> \/ procs'[c].todo \in Seq(Events))
      BY <2>4, ErrandsKnown
    <3> QED BY <2>4, <3>1, <3>2 DEF Typed, MidAppend
  <2>10. \A d \in Commands : procs'[d].at \in Locked => holder' = d
    BY <1>0, <1>3, <2>1, <2>4 DEF Typed, Locked, TestCalls
  <2>11. Typed'
    BY <1>3, <2>4, <2>8, <2>9, <2>10 DEF TestCalls, Typed, MidAppend
  <2> QED BY <2>7, <2>11
<1>4. ASSUME NEW p \in Processes, AppendHead(p) \/ AppendTail(p) \/ AppendNewline(p) PROVE IInv'
  BY <1>4, HeadStep, TailStep, NewlineStep
<1>5. ASSUME NEW p \in Processes, End(p) PROVE IInv'
  <2>1. ~MidAppend(p)
    BY <1>5 DEF End, MidAppend
  <2> QED BY <1>0, <1>5, <2>1, IdleIs, QuietStep DEF End, Places, Locked
<1>6. ASSUME NEW c \in Commands, Acquire(c) PROVE IInv'
  <2> DEFINE where == IF procs[c].todo = <<"qa">> THEN "checking" ELSE "ready"
  <2>1. ~MidAppend(c) /\ procs[c].at = "waiting"
    BY <1>6 DEF Acquire, MidAppend
  <2>2. procs[c].todo \in Seq(Events \cup {"qa"}) /\ procs[c].child \in Children
    BY <1>0 DEF ProcStates
  <2>3. where \in Places \ {"headed", "tailed"} /\ where \notin {"waiting", "testing"}
    BY DEF Places
  <2>4. where = "ready" => procs[c].todo \in Seq(Events)
    BY <1>0, <2>1 DEF Typed
  <2>5. procs' = [procs EXCEPT ![c] = [at |-> where, todo |-> procs[c].todo,
                                       child |-> procs[c].child]]
    BY <1>6 DEF Acquire, Goes
  <2> HIDE DEF where
  <2> QED BY <1>0, <1>6, <2>1, <2>2, <2>3, <2>4, <2>5, QuietStep DEF Acquire
<1>7. ASSUME NEW c \in Commands, CheckQa(c) PROVE IInv'
  <2>1. PICK outcome \in {"passed", "other"} : Goes(c, "ready", <<"other", outcome>>)
    BY <1>7 DEF CheckQa
  <2>2. ~MidAppend(c) /\ holder = c
    BY <1>0, <1>7 DEF CheckQa, MidAppend, Typed, Locked
  <2>3. <<"other", outcome>> \in Seq(Events) /\ <<"other", outcome>> \in Seq(Events \cup {"qa"})
    BY KnownTypes
  <2>4. procs[c].child \in Children
    BY <1>0 DEF ProcStates
  <2>5. procs' = [procs EXCEPT ![c] = [at |-> "ready", todo |-> <<"other", outcome>>,
                                       child |-> procs[c].child]]
    BY <2>1 DEF Goes
  <2> QED BY <1>0, <1>7, <2>2, <2>3, <2>4, <2>5, QuietStep DEF CheckQa, Places
<1>8. ASSUME NEW r \in Recorders, TestEnds(r) PROVE IInv'
  <2>1. ~MidAppend(r) /\ r \notin Commands
    BY <1>8, EventLogAssumptions DEF TestEnds, MidAppend
  <2>2. procs[r].todo \in Seq(Events) /\ procs[r].todo \in Seq(Events \cup {"qa"})
    BY <1>0, <1>8 DEF TestEnds, Typed, ProcStates
  <2> QED BY <1>0, <1>8, <2>1, <2>2, IdleIs, QuietStep DEF TestEnds, Places
<1>9. ASSUME NEW p \in Processes, Crash(p) PROVE IInv'
  BY <1>9, CrashStep
<1>10. CASE UNCHANGED vars
  <2>1. Typed'
    BY <1>10 DEF vars, Typed, MidAppend
  <2>2. Clean'
    BY <1>10 DEF vars, Clean, MidAppend, Last
  <2> QED BY <2>1, <2>2
<1> QED BY <1>1, <1>2, <1>3, <1>4, <1>5, <1>6, <1>7, <1>8, <1>9, <1>10 DEF Next, Work

LEMMA EventLogInv == Spec => []IInv
BY InvInit, InvStep, PTL DEF Spec

-----------------------------------------------------------------------------
(* What the lines list *)

(* What n lines list, given what the lines before list. *)
ListedAt(lines, before, n) ==
    IF n = 0 THEN <<>>
    ELSE IF Sound(lines[n]) THEN Append(before[n - 1], lines[n][1].type)
    ELSE before[n - 1]

LEMMA ListingExists ==
    ASSUME NEW lines \in Seq(Seq(Pieces))
    PROVE  \E f : f = [n \in 0..Len(lines) |-> ListedAt(lines, f, n)]
<1> DEFINE Start == {k \in 0..Len(lines) : \E f : f = [n \in 0..k |-> ListedAt(lines, f, n)]}
<1>1. 0 \in Start
  <2> DEFINE f == [n \in 0..0 |-> <<>>]
  <2>1. \A n \in 0..0 : ListedAt(lines, f, n) = <<>>
    BY DEF ListedAt
  <2>2. f = [n \in 0..0 |-> ListedAt(lines, f, n)]
    BY <2>1
  <2>3. 0 \in 0..Len(lines)
    OBVIOUS
  <2> HIDE DEF f
  <2> QED BY <2>2, <2>3
<1>2. ASSUME NEW k \in 0..Len(lines), k \in Start, k + 1 <= Len(lines)
      PROVE  k + 1 \in Start
  <2>1. PICK f : f = [n \in 0..k |-> ListedAt(lines, f, n)]
    BY <1>2
  <2> DEFINE g == [n \in 0..(k + 1) |-> IF n = k + 1 THEN ListedAt(lines, f, n) ELSE f[n]]
  <2>2. \A n \in 0..(k + 1) : n = 0 \/ (n - 1 \in 0..k /\ g[n - 1] = f[n - 1])
    OBVIOUS
  <2>3. \A n \in 0..(k + 1) : ListedAt(lines, g, n) = ListedAt(lines, f, n)
    BY <2>2 DEF ListedAt
  <2>4. \A n \in 0..(k + 1) : g[n] = ListedAt(lines, f, n)
    <3>1. \A n \in 0..k : f[n] = ListedAt(lines, f, n)
      BY <2>1
    <3> QED BY <3>1
  <2>5. g = [n \in 0..(k + 1) |-> ListedAt(lines, g, n)]
    <3>1. g = [n \in 0..(k + 1) |-> g[n]]
      OBVIOUS
    <3> HIDE DEF g
    <3> QED BY <2>3, <2>4, <3>1
  <2>6. k + 1 \in 0..Len(lines)
    BY <1>2
  <2> HIDE DEF g
  <2> QED BY <2>5, <2>6
<1>3. Len(lines) \in Nat
  OBVIOUS
<1>4. \A k \in 0..Len(lines) : k \in Start
  <2> HIDE DEF Start
  <2> QED BY <1>1, <1>2, <1>3, InductionUpTo
<1> QED BY <1>3, <1>4

LEMMA ListedUpToIs ==
    ASSUME NEW lines \in Seq(Seq(Pieces))
    PROVE  ListedUpTo(lines) = [n \in 0..Len(lines) |-> ListedAt(lines, ListedUpTo(lines), n)]
BY ListingExists DEF ListedUpTo, ListedAt

LEMMA ListedStep ==
    ASSUME NEW lines \in Seq(Seq(Pieces))
    PROVE  /\ ListedUpTo(lines)[0] = <<>>
           /\ \A n \in 1..Len(lines) : ListedUpTo(lines)[n] = 
                 IF Sound(lines[n]) THEN Append(ListedUpTo(lines)[n - 1], lines[n][1].type)
                 ELSE ListedUpTo(lines)[n - 1]
<1> DEFINE f == ListedUpTo(lines)
<1>1. f = [n \in 0..Len(lines) |-> ListedAt(lines, f, n)]
  BY ListedUpToIs
<1> HIDE DEF f
<1>2. \A n \in 0..Len(lines) : f[n] = ListedAt(lines, f, n)
  BY <1>1
<1>3. f[0] = <<>> /\ \A n \in 1..Len(lines) : f[n] = 
                 IF Sound(lines[n]) THEN Append(f[n - 1], lines[n][1].type)
                 ELSE f[n - 1]
  BY <1>2 DEF ListedAt
<1> QED BY <1>3 DEF f

(* What a prefix lists does not depend on the lines that follow. *)
LEMMA ListedOfPrefix ==
    ASSUME NEW lines \in Seq(Seq(Pieces)), NEW more \in Seq(Seq(Pieces)),
           NEW n \in Nat, n <= Len(lines), n <= Len(more), \A k \in 1..n : lines[k] = more[k]
    PROVE  ListedUpTo(lines)[n] = ListedUpTo(more)[n]
<1> DEFINE f == ListedUpTo(lines)
           g == ListedUpTo(more)
           Same == {k \in 0..n : f[k] = g[k]}
<1>1. /\ f[0] = <<>> /\ g[0] = <<>>
      /\ \A k \in 1..n : f[k] = IF Sound(lines[k]) THEN Append(f[k - 1], lines[k][1].type)
                                ELSE f[k - 1]
      /\ \A k \in 1..n : g[k] = IF Sound(more[k]) THEN Append(g[k - 1], more[k][1].type)
                                ELSE g[k - 1]
  BY ListedStep
<1> HIDE DEF f, g
<1>2. 0 \in Same
  BY <1>1
<1>3. ASSUME NEW k \in 0..n, k \in Same, k + 1 <= n PROVE k + 1 \in Same
  <2>1. k + 1 \in 1..n /\ (k + 1) - 1 = k /\ k + 1 \in 0..n
    BY <1>3
  <2>2. f[k] = g[k] /\ lines[k + 1] = more[k + 1]
    BY <1>3, <2>1
  <2>3. f[k + 1] = IF Sound(lines[k + 1]) THEN Append(f[k], lines[k + 1][1].type) ELSE f[k]
    BY <1>1, <2>1
  <2>4. g[k + 1] = IF Sound(more[k + 1]) THEN Append(g[k], more[k + 1][1].type) ELSE g[k]
    BY <1>1, <2>1
  <2> QED BY <2>1, <2>2, <2>3, <2>4
<1>4. \A k \in 0..n : k \in Same
  <2> HIDE DEF Same
  <2> QED BY <1>2, <1>3, InductionUpTo
<1> QED BY <1>4 DEF f, g

(* A piece changes no more than what the last line lists. *)
LEMMA ListedAfterPut ==
    ASSUME Typed, Typed', NEW piece \in Pieces, Put(piece)
    PROVE  /\ Listed = IF Sound(Last) THEN Append(ListedUpTo(log)[Len(log) - 1], Last[1].type)
                       ELSE ListedUpTo(log)[Len(log) - 1]
           /\ Listed' = IF Sound(Last') THEN Append(ListedUpTo(log)[Len(log) - 1], Last'[1].type)
                        ELSE ListedUpTo(log)[Len(log) - 1]
<1>1. /\ log \in Seq(Seq(Pieces)) /\ log' \in Seq(Seq(Pieces)) /\ Len(log') = Len(log)
      /\ Len(log) \in Nat \ {0}
      /\ \A n \in 1..(Len(log) - 1) : log'[n] = log[n]
  BY PutAppends DEF Typed
<1>2. ListedUpTo(log)[Len(log) - 1] = ListedUpTo(log')[Len(log) - 1]
  <2>1. Len(log) - 1 \in Nat /\ Len(log) - 1 <= Len(log) /\ Len(log) - 1 <= Len(log')
    BY <1>1
  <2>2. \A n \in 1..(Len(log) - 1) : log[n] = log'[n]
    BY <1>1
  <2> QED BY <1>1, <2>1, <2>2, ListedOfPrefix, Zenon
<1>3. Len(log) \in 1..Len(log)
  BY <1>1
<1>4. Listed = IF Sound(Last) THEN Append(ListedUpTo(log)[Len(log) - 1], Last[1].type)
               ELSE ListedUpTo(log)[Len(log) - 1]
  BY <1>1, <1>3, ListedStep DEF Listed, Last
<1>5. Listed' = IF Sound(Last') THEN Append(ListedUpTo(log')[Len(log) - 1], Last'[1].type)
                ELSE ListedUpTo(log')[Len(log) - 1]
  BY <1>1, <1>3, ListedStep DEF Listed, Last
<1> QED BY <1>2, <1>4, <1>5

(* An empty line lists nothing. *)
LEMMA ListedAfterNewline ==
    ASSUME Typed, Typed', log' = Append(log, <<>>)
    PROVE  Listed' = Listed
<1>1. <<>> \in Seq(Pieces)
  OBVIOUS
<1>2. /\ log \in Seq(Seq(Pieces)) /\ log' \in Seq(Seq(Pieces)) /\ Len(log) \in Nat
      /\ Len(log') = Len(log) + 1 /\ log'[Len(log) + 1] = <<>>
      /\ \A n \in 1..Len(log) : log'[n] = log[n]
  BY <1>1 DEF Typed
<1>3. ListedUpTo(log)[Len(log)] = ListedUpTo(log')[Len(log)]
  <2>1. Len(log) <= Len(log) /\ Len(log) <= Len(log')
    BY <1>2
  <2>2. \A n \in 1..Len(log) : log[n] = log'[n]
    BY <1>2
  <2> QED BY <1>2, <2>1, <2>2, ListedOfPrefix, Zenon
<1>4. Len(log) + 1 \in 1..Len(log') /\ (Len(log) + 1) - 1 = Len(log) /\ ~Sound(<<>>)
  BY <1>2 DEF Sound
<1>5. ListedUpTo(log')[Len(log) + 1] = ListedUpTo(log')[Len(log)]
  BY <1>2, <1>4, ListedStep
<1> QED BY <1>2, <1>3, <1>5 DEF Listed

-----------------------------------------------------------------------------
(* The last QA outcome *)

LEMMA LatestQaOf ==
    ASSUME NEW events \in Seq(Types), NEW n \in 1..Len(events), IsQa(events[n]),
           \A k \in 1..Len(events) : IsQa(events[k]) => k <= n
    PROVE  LatestQa(events) = events[n]
<1> DEFINE Q == {k \in DOMAIN events : IsQa(events[k])}
<1>1. Len(events) \in Nat /\ DOMAIN events = 1..Len(events)
  OBVIOUS
<1>2. n \in Q /\ Q \in SUBSET (0..Len(events)) /\ \A k \in Q : k <= n
  BY <1>1
<1> HIDE DEF Q
<1>3. Max(Q) \in Q /\ Max(Q) >= n
  BY <1>1, <1>2, MaxIsLatest
<1>4. Max(Q) = n
  <2>1. Max(Q) <= n /\ Max(Q) \in 0..Len(events)
    BY <1>2, <1>3
  <2> QED BY <1>1, <1>3, <2>1
<1> QED BY <1>2, <1>4 DEF LatestQa, Q

(* What is appended is the last outcome if it is one. *)
LEMMA LatestQaAfterAppend ==
    ASSUME NEW events \in Seq(Types), NEW type \in Types
    PROVE  LatestQa(Append(events, type)) = IF IsQa(type) THEN type ELSE LatestQa(events)
<1> DEFINE more == Append(events, type)
           Q == {k \in DOMAIN events : IsQa(events[k])}
<1>1. /\ more \in Seq(Types) /\ Len(events) \in Nat
      /\ Len(more) = Len(events) + 1
      /\ \A k \in 1..Len(events) : more[k] = events[k]
      /\ more[Len(events) + 1] = type
  OBVIOUS
<1>2. DOMAIN events = 1..Len(events) /\ DOMAIN more = 1..Len(more)
  BY <1>1
<1> HIDE DEF more
<1>3. CASE IsQa(type)
  <2>1. LatestQa(more) = more[Len(events) + 1]
    BY <1>1, <1>3, LatestQaOf
  <2> QED BY <1>1, <1>3, <2>1 DEF more
<1>4. CASE ~IsQa(type) /\ Q = {}
  <2>1. {k \in DOMAIN more : IsQa(more[k])} = {}
    BY <1>1, <1>2, <1>4
  <2> QED BY <1>4, <2>1 DEF LatestQa, more
<1>5. CASE ~IsQa(type) /\ Q # {}
  <2>1. Q \in SUBSET (0..Len(events))
    BY <1>2
  <2>2. PICK n \in Q : \A k \in Q : n >= k
    <3> HIDE DEF Q
    <3> QED BY <1>1, <1>5, <2>1, GreatestExists
  <2>3. /\ n \in 1..Len(events) /\ IsQa(events[n])
        /\ \A k \in 1..Len(events) : IsQa(events[k]) => k <= n
    BY <1>2, <2>2
  <2>4. LatestQa(events) = events[n]
    BY <2>3, LatestQaOf
  <2>5. /\ n \in 1..Len(more) /\ IsQa(more[n]) /\ more[n] = events[n]
        /\ \A k \in 1..Len(more) : IsQa(more[k]) => k <= n
    BY <1>1, <1>5, <2>3
  <2>6. LatestQa(more) = more[n]
    BY <1>1, <2>5, LatestQaOf
  <2> QED BY <1>5, <2>4, <2>5, <2>6 DEF more
<1> QED BY <1>3, <1>4, <1>5

-----------------------------------------------------------------------------
(* What was appended *)

LEMMA SoundIs ==
    ASSUME NEW line, Sound(line)
    PROVE  /\ Len(line) = 2 /\ line[1].part = "head" /\ line[2].part = "tail"
           /\ line[1].by = line[2].by
BY DEF Sound

LEMMA HistoryInit == Init => History
<1> SUFFICES ASSUME Init PROVE History
  OBVIOUS
<1>1. log \in Seq(Seq(Pieces)) /\ Len(log) = 1 /\ log[1] = <<>>
  <2>1. <<>> \in Seq(Pieces)
    OBVIOUS
  <2> QED BY <2>1 DEF Init
<1>2. Listed = <<>>
  <2>1. 1 \in 1..Len(log) /\ 1 - 1 = 0 /\ ~Sound(<<>>)
    BY <1>1 DEF Sound
  <2> QED BY <1>1, <2>1, ListedStep DEF Listed
<1>3. \A p \in Processes : procs[p] = Idle /\ procs[p].at = "idle" /\ procs[p].todo = <<>>
  BY DEF Init, Idle
<1>4. Told
  BY <1>2, <1>3 DEF Told, Init
<1>5. Backed
  BY <1>3 DEF Backed, QaPassesAreBacked, Entitled, Init
<1> QED BY <1>4, <1>5 DEF History

(* A step that appends nothing. *)
LEMMA QuietHistory ==
    ASSUME History, UNCHANGED <<log, appended, passes>>,
           \A q \in Processes :
               \/ procs'[q] = procs[q]
               \/ procs'[q].at # "headed" /\ Entitled(q, procs'[q])
    PROVE  History'
<1>1. Told'
  BY DEF History, Told, Last, Listed, Whole, Half
<1>2. Backed'
  BY DEF History, Backed, QaPassesAreBacked, Entitled
<1> QED BY <1>1, <1>2 DEF History

LEMMA HeadHistory ==
    ASSUME IInv, IInv', History, NEW p \in Processes, AppendHead(p)
    PROVE  History'
<1> DEFINE piece == [by |-> p, part |-> "head", type |-> TypeOf(Head(procs[p].todo))]
           before == ListedUpTo(log)[Len(log) - 1]
<1> USE DEF IInv
<1>1. procs[p].at = "ready" /\ procs[p].todo \in Seq(Events) /\ procs[p].todo # <<>>
  BY DEF AppendHead, Typed
<1>2. piece \in Pieces
  <2>1. Head(procs[p].todo) \in Events
    BY <1>1
  <2> QED BY <2>1, KnownTypes DEF Pieces
<1>3. /\ Len(log') = Len(log) /\ Last' = Append(Last, piece)
      /\ \A n \in 1..(Len(log) - 1) : log'[n] = log[n]
  BY <1>2, PutAppends DEF AppendHead
<1>4. /\ Last \in Seq(Pieces) /\ Len(Last) \in Nat /\ (Len(Last) = 0 => Last = <<>>)
      /\ Len(Last') = Len(Last) + 1
  <2>1. Last \in Seq(Pieces)
    BY DEF Typed, Last
  <2> QED BY <1>2, <1>3, <2>1
<1>5. /\ Listed = IF Sound(Last) THEN Append(before, Last[1].type) ELSE before
      /\ Listed' = IF Sound(Last') THEN Append(before, Last'[1].type) ELSE before
  BY <1>2, ListedAfterPut DEF AppendHead
<1> HIDE DEF before
<1>6. procs[p].todo \in Seq(Events \cup {"qa"}) /\ "headed" \in Places
  BY <1>1 DEF Typed, ProcStates, Places
<1>7. /\ procs'[p].at = "headed" /\ procs'[p].todo = procs[p].todo
      /\ \A q \in Processes \ {p} : procs'[q] = procs[q]
  BY <1>6, GoesMoves DEF AppendHead
<1>8. ASSUME Whole(Last') \/ Half(Last') PROVE Last = <<>> /\ Last' = <<piece>>
  <2>1. ASSUME Sound(Last') PROVE FALSE
    <3>1. Len(Last') = 2 /\ Last'[2].part = "tail"
      BY <2>1, SoundIs, Zenon
    <3>2. Last'[2] = piece
      BY <1>2, <1>3, <1>4, <3>1, SecondPiece
    <3> QED BY <3>1, <3>2
  <2>2. Len(Last') # 0
    BY <1>4
  <2>3. Len(Last') = 1
    BY <1>8, <2>1, <2>2 DEF Whole, Half
  <2>4. Last = <<>>
    BY <1>4, <2>3
  <2> QED BY <1>3, <2>4
<1>9. Told'
  <2>1. (\A n \in 1..(Len(log') - 1) : Whole(log'[n])) /\ (Whole(Last') \/ Half(Last'))
          => Listed' = appended'
    <3> SUFFICES ASSUME \A n \in 1..(Len(log') - 1) : Whole(log'[n]), Whole(Last') \/ Half(Last')
                 PROVE  Listed' = appended'
      OBVIOUS
    <3>1. Last = <<>> /\ ~Sound(Last) /\ ~Sound(Last')
      BY <1>8 DEF Sound
    <3>2. \A n \in 1..(Len(log) - 1) : Whole(log[n])
      BY <1>3
    <3>3. Listed = appended
      BY <3>1, <3>2 DEF History, Told, Whole
    <3> QED BY <1>5, <3>1, <3>3 DEF AppendHead
  <2>2. ASSUME NEW q \in Processes, procs'[q].at = "headed", Half(Last'), Last'[1].by = q
        PROVE  Last'[1].type = TypeOf(Head(procs'[q].todo))
    <3>1. Last'[1] = piece
      BY <1>8, <2>2
    <3>2. q = p
      BY <2>2, <3>1
    <3> QED BY <1>7, <3>1, <3>2
  <2> QED BY <2>1, <2>2 DEF Told, Whole, Half, Sound
<1>10. Backed'
  <2>1. appended' = appended /\ passes' = passes
    BY DEF AppendHead
  <2>2. \A q \in Processes : Entitled(q, procs[q])
    BY DEF History, Backed
  <2>3. \A q \in Processes : Entitled(q, procs[q])' 
    BY <1>7, <2>1, <2>2 DEF Entitled
  <2> QED BY <2>1, <2>3 DEF History, Backed, QaPassesAreBacked
<1> QED BY <1>9, <1>10 DEF History

(* While a pass of QA is under way nobody appends an outcome of QA.        *)
LEMMA NoOutcomeMeanwhile ==
    ASSUME IInv, History, NEW p \in Processes, procs[p].at = "headed",
           NEW q \in Processes, NEW n \in DOMAIN procs[q].todo,
           procs[q].todo[n] = "passed"
    PROVE  Head(procs[p].todo) \notin QaTypes /\ LatestQa(appended) # "qa_failed"
<1>1. /\ procs[p].todo \in Seq(Events) /\ procs[p].todo # <<>>
      /\ Head(procs[p].todo) = procs[p].todo[1] /\ 1 \in DOMAIN procs[p].todo
  BY DEF IInv, Typed, MidAppend
<1>2. /\ q \in Commands /\ procs[q].at \in {"ready", "headed", "tailed"}
      /\ \A k \in DOMAIN procs[q].todo : procs[q].todo[k] \notin QaTypes
      /\ LatestQa(appended) # "qa_failed"
  BY DEF History, Backed, Entitled
<1>3. CASE p \in Commands
  <2>1. holder = p /\ holder = q
    BY <1>2, <1>3 DEF IInv, Typed, Locked
  <2> QED BY <1>1, <1>2, <2>1
<1>4. CASE p \in Recorders
  <2>1. Head(procs[p].todo) = "other"
    BY <1>1, <1>4 DEF History, Backed, Entitled
  <2> QED BY <1>2, <2>1 DEF QaTypes
<1> QED BY <1>3, <1>4 DEF Processes

LEMMA TailBacked ==
    ASSUME IInv, IInv', History, NEW p \in Processes, AppendTail(p)
    PROVE  Backed'
<1> DEFINE event == Head(procs[p].todo)
           type == TypeOf(event)
<1> USE DEF IInv
<1>1. /\ procs[p].at = "headed" /\ procs[p].todo \in Seq(Events) /\ procs[p].todo # <<>>
      /\ event = procs[p].todo[1] /\ 1 \in DOMAIN procs[p].todo
      /\ event \in Events /\ type \in Types
  <2>1. procs[p].at = "headed" /\ procs[p].todo \in Seq(Events) /\ procs[p].todo # <<>>
    BY DEF AppendTail, Typed, MidAppend
  <2> QED BY <2>1, KnownTypes
<1>2. procs[p].todo \in Seq(Events \cup {"qa"}) /\ "tailed" \in Places
  BY <1>1 DEF Typed, ProcStates, Places
<1>3. /\ procs'[p].at = "tailed" /\ procs'[p].todo = procs[p].todo
      /\ \A q \in Processes \ {p} : procs'[q] = procs[q]
  BY <1>2, GoesMoves DEF AppendTail
<1>4. /\ appended \in Seq(Types) /\ appended' = Append(appended, type)
      /\ passes' = IF event = "passed" THEN passes \cup {Len(appended')} ELSE passes
      /\ passes \subseteq DOMAIN appended
  BY DEF AppendTail, Typed
<1> HIDE DEF event, type
<1>5. LatestQa(appended') = IF IsQa(type) THEN type ELSE LatestQa(appended)
  BY <1>1, <1>4, LatestQaAfterAppend
<1>6. ASSUME NEW q \in Processes, NEW n \in DOMAIN procs[q].todo, procs[q].todo[n] = "passed"
      PROVE  LatestQa(appended') # "qa_failed"
  <2>1. event \notin QaTypes /\ LatestQa(appended) # "qa_failed"
    BY <1>1, <1>6, NoOutcomeMeanwhile DEF event
  <2>2. ~IsQa(type)
    BY <1>1, <2>1 DEF IsQa, TypeOf, QaTypes, type
  <2> QED BY <1>5, <2>1, <2>2
<1>7. \A q \in Processes : Entitled(q, procs[q])'
  <2> SUFFICES ASSUME NEW q \in Processes PROVE Entitled(q, procs[q])'
    OBVIOUS
  <2>1. procs'[q].todo = procs[q].todo /\ (procs'[q].at = procs[q].at \/ procs'[q].at = "tailed")
    BY <1>3
  <2>2. Entitled(q, procs[q])
    BY DEF History, Backed
  <2> QED BY <1>6, <2>1, <2>2 DEF Entitled
<1>8. QaPassesAreBacked'
  <2> SUFFICES ASSUME NEW n \in passes'
               PROVE  LatestQa(SubSeq(appended', 1, n)) # "qa_failed"
    BY DEF QaPassesAreBacked
  <2>1. /\ Len(appended') = Len(appended) + 1 /\ Len(appended) \in Nat
        /\ DOMAIN appended = 1..Len(appended)
    BY <1>1, <1>4
  <2>2. CASE n \notin passes
    <3>1. event = "passed" /\ n = Len(appended')
      BY <1>4, <2>2
    <3>2. SubSeq(appended', 1, n) = appended'
      BY <1>1, <1>4, <2>1, <3>1
    <3> QED BY <1>1, <1>6, <3>1, <3>2
  <2>3. CASE n \in passes
    <3>1. n \in 1..Len(appended)
      BY <1>4, <2>1, <2>3
    <3>2. SubSeq(appended', 1, n) = SubSeq(appended, 1, n)
      BY <1>1, <1>4, <3>1
    <3> QED BY <2>3, <3>2 DEF History, Backed, QaPassesAreBacked
  <2> QED BY <2>2, <2>3
<1> QED BY <1>7, <1>8 DEF Backed

LEMMA TailHistory ==
    ASSUME IInv, IInv', History, NEW p \in Processes, AppendTail(p)
    PROVE  History'
<1> DEFINE piece == [by |-> p, part |-> "tail", type |-> TypeOf(Head(procs[p].todo))]
           before == ListedUpTo(log)[Len(log) - 1]
<1> USE DEF IInv
<1>1. /\ procs[p].at = "headed" /\ procs[p].todo \in Seq(Events) /\ procs[p].todo # <<>>
      /\ Head(procs[p].todo) \in Events /\ TypeOf(Head(procs[p].todo)) \in Types
  <2>1. procs[p].at = "headed" /\ procs[p].todo \in Seq(Events) /\ procs[p].todo # <<>>
    BY DEF AppendTail, Typed, MidAppend
  <2> QED BY <2>1, KnownTypes
<1>2. piece \in Pieces
  <2>1. Head(procs[p].todo) \in Events
    BY <1>1
  <2> QED BY <2>1, KnownTypes DEF Pieces
<1>3. /\ Len(log') = Len(log) /\ Last' = Append(Last, piece)
      /\ \A n \in 1..(Len(log) - 1) : log'[n] = log[n]
  BY <1>2, PutAppends DEF AppendTail
<1>4. /\ Last \in Seq(Pieces) /\ Len(Last) \in Nat /\ (Len(Last) = 0 => Last = <<>>)
      /\ Len(Last') = Len(Last) + 1
  <2>1. Last \in Seq(Pieces)
    BY DEF Typed, Last
  <2> QED BY <1>2, <1>3, <2>1
<1>5. /\ Listed = IF Sound(Last) THEN Append(before, Last[1].type) ELSE before
      /\ Listed' = IF Sound(Last') THEN Append(before, Last'[1].type) ELSE before
  BY <1>2, ListedAfterPut DEF AppendTail
<1> HIDE DEF before
<1>6. procs[p].todo \in Seq(Events \cup {"qa"}) /\ "tailed" \in Places
  BY <1>1 DEF Typed, ProcStates, Places
<1>7. /\ procs'[p].at = "tailed"
      /\ \A q \in Processes \ {p} : procs'[q] = procs[q]
  BY <1>6, GoesMoves DEF AppendTail
<1>8. ~Half(Last') /\ Last' # <<>>
  <2>1. Len(Last) = 0 => Last = <<>> /\ Last' = <<piece>>
    BY <1>3, <1>4
  <2>2. Len(Last) = 0 => Last'[1] = piece
    BY <2>1
  <2> QED BY <1>4, <2>2 DEF Half
<1>9. ASSUME Sound(Last') PROVE Half(Last) /\ Last[1].by = p /\ Last'[1] = Last[1]
  <2>0. /\ Len(Last') = 2 /\ Last'[1].part = "head" /\ Last'[1].by = Last'[2].by
    BY <1>9, SoundIs, Zenon
  <2>1. Len(Last) = 1
    <3>1. \A k \in Nat : k + 1 = 2 => k = 1
      OBVIOUS
    <3> QED BY <1>4, <2>0, <3>1, Zenon
  <2>2. Last'[1] = Last[1] /\ Last'[2] = piece
    BY <1>2, <1>3, <1>4, <2>1, SecondPiece
  <2> QED BY <2>0, <2>1, <2>2 DEF Half
<1>10. Told'
  <2>1. (\A n \in 1..(Len(log') - 1) : Whole(log'[n])) /\ (Whole(Last') \/ Half(Last'))
          => Listed' = appended'
    <3> SUFFICES ASSUME \A n \in 1..(Len(log') - 1) : Whole(log'[n]), Sound(Last')
                 PROVE  Listed' = appended'
      BY <1>8 DEF Whole
    <3>1. Half(Last) /\ ~Sound(Last) /\ Last[1].by = p /\ Last'[1] = Last[1]
      BY <1>9 DEF Sound, Half
    <3>2. \A n \in 1..(Len(log) - 1) : Whole(log[n])
      BY <1>3
    <3>3. before = appended /\ Last[1].type = TypeOf(Head(procs[p].todo))
      BY <1>1, <1>5, <3>1, <3>2 DEF History, Told
    <3>4. Listed' = Append(before, Last[1].type)
      BY <1>5, <3>1
    <3> QED BY <3>3, <3>4 DEF AppendTail
  <2> QED BY <1>8, <2>1 DEF Told, Whole, Half, Sound
<1> QED BY <1>10, TailBacked DEF History

LEMMA NewlineHistory ==
    ASSUME IInv, IInv', History, NEW p \in Processes, AppendNewline(p)
    PROVE  History'
<1> USE DEF IInv
<1>1. /\ procs[p].at = "tailed" /\ procs[p].todo \in Seq(Events) /\ procs[p].todo # <<>>
      /\ log' = Append(log, <<>>) /\ appended' = appended /\ passes' = passes
  BY DEF AppendNewline, Typed, MidAppend
<1>2. /\ log \in Seq(Seq(Pieces)) /\ Len(log) \in Nat \ {0} /\ Len(log') = Len(log) + 1
      /\ Last' = <<>> /\ \A n \in 1..Len(log) : log'[n] = log[n]
  BY <1>1 DEF Typed, Last
<1>3. Listed' = Listed
  BY <1>1, ListedAfterNewline
<1>4. Tail(procs[p].todo) \in Seq(Events) /\ Tail(procs[p].todo) \in Seq(Events \cup {"qa"})
  BY <1>1
<1>5. /\ procs'[p].at = "ready" /\ procs'[p].todo = Tail(procs[p].todo)
      /\ \A q \in Processes \ {p} : procs'[q] = procs[q]
  BY <1>4, GoesMoves DEF AppendNewline, Places
<1>6. Told'
  <2>1. (\A n \in 1..(Len(log') - 1) : Whole(log'[n])) => Listed' = appended'
    <3> SUFFICES ASSUME \A n \in 1..(Len(log') - 1) : Whole(log'[n])
                 PROVE  Listed' = appended'
      OBVIOUS
    <3>1. \A n \in 1..Len(log) : Whole(log[n])
      BY <1>2
    <3>2. (\A n \in 1..(Len(log) - 1) : Whole(log[n])) /\ Whole(Last)
      BY <1>2, <3>1 DEF Last
    <3> QED BY <1>1, <1>3, <3>2 DEF History, Told
  <2>2. ~Half(Last')
    BY <1>2 DEF Half
  <2> QED BY <2>1, <2>2 DEF Told, Whole, Half, Sound
<1>7. Backed'
  <2>1. \A q \in Processes : Entitled(q, procs[q])
    BY DEF History, Backed
  <2>2. \A n \in DOMAIN Tail(procs[p].todo) :
           n + 1 \in DOMAIN procs[p].todo /\ Tail(procs[p].todo)[n] = procs[p].todo[n + 1]
    BY <1>1
  <2>3. Entitled(p, procs[p])'
    BY <1>1, <1>5, <2>1, <2>2 DEF Entitled
  <2>4. \A q \in Processes \ {p} : Entitled(q, procs[q])'
    BY <1>1, <1>5, <2>1 DEF Entitled
  <2> QED BY <1>1, <2>3, <2>4 DEF History, Backed, QaPassesAreBacked
<1> QED BY <1>6, <1>7 DEF History

LEMMA ErrandsEntitled ==
    ASSUME NEW c \in Commands, NEW errand \in Errands
    PROVE  Entitled(c, [at |-> "waiting", todo |-> errand, child |-> NoChild])
<1>1. PICK type \in Types \cup {"qa"} : errand = <<type>>
  BY DEF Errands
<1>2. \A n \in DOMAIN errand : errand[n] # "passed"
  BY <1>1 DEF Types, QaTypes
<1> QED BY <1>2, EventLogAssumptions DEF Entitled

(* One process moves, and appends nothing. *)
LEMMA OneMoves ==
    ASSUME Typed, History, UNCHANGED <<log, appended, passes>>, NEW p \in Processes, NEW proc,
           procs' = [procs EXCEPT ![p] = proc], proc.at # "headed", Entitled(p, proc)
    PROVE  History'
<1>1. procs'[p] = proc /\ \A q \in Processes \ {p} : procs'[q] = procs[q]
  BY DEF Typed
<1> QED BY <1>1, QuietHistory

(* A log that can be read. *)
LEMMA ReadableTold ==
    ASSUME Typed, Told, Readable
    PROVE  Listed = appended
<1>1. \A n \in DOMAIN log : Whole(log[n])
  BY DEF Readable, Whole
<1>2. Len(log) \in DOMAIN log /\ \A n \in 1..(Len(log) - 1) : n \in DOMAIN log
  BY DEF Typed
<1> QED BY <1>1, <1>2 DEF Told, Last

LEMMA HistoryStep == IInv /\ IInv' /\ History /\ [Next]_vars => History'
<1> SUFFICES ASSUME IInv, IInv', History, [Next]_vars PROVE History'
  OBVIOUS
<1>0. /\ Commands \subseteq Processes /\ Recorders \subseteq Processes
      /\ Typed /\ \A q \in Processes : Entitled(q, procs[q])
      /\ \A c \in Commands : c \notin Recorders
      /\ \A q \in Processes : procs[q] \in ProcStates
  BY EventLogAssumptions DEF Processes, IInv, History, Backed, Typed
<1>1. ASSUME NEW c \in Commands, NEW errand \in Errands, StartCommand(c, errand) PROVE History'
  BY <1>0, <1>1, ErrandsEntitled, OneMoves DEF StartCommand
<1>2. ASSUME NEW r \in Recorders, StartRecorder(r) PROVE History'
  <2> DEFINE proc == [at |-> "testing", todo |-> <<"other">>, child |-> NoChild]
  <2>1. Entitled(r, proc) /\ proc.at # "headed"
    BY DEF Entitled
  <2>2. procs' = [procs EXCEPT ![r] = proc] /\ UNCHANGED <<log, appended, passes>>
    BY <1>2 DEF StartRecorder
  <2> HIDE DEF proc
  <2> QED BY <1>0, <2>1, <2>2, OneMoves
<1>3. ASSUME NEW r \in Recorders, NEW c \in Commands, NEW errand \in Errands,
             TestCalls(r, c, errand)
      PROVE  History'
  <2> DEFINE caller == [at |-> "testing", todo |-> procs[r].todo, child |-> c]
             called == [at |-> "waiting", todo |-> errand, child |-> NoChild]
  <2>1. procs' = [procs EXCEPT ![r] = caller, ![c] = called] /\ UNCHANGED <<log, appended, passes>>
    BY <1>3 DEF TestCalls
  <2>2. Entitled(c, called) /\ called.at # "headed"
    BY ErrandsEntitled
  <2>3. Entitled(r, caller) /\ caller.at # "headed"
    BY <1>0, <1>3 DEF Entitled, TestCalls
  <2> HIDE DEF caller, called
  <2>4. /\ procs'[r] = caller /\ procs'[c] = called
        /\ \A q \in Processes \ {r, c} : procs'[q] = procs[q]
    BY <1>0, <2>1 DEF Typed
  <2> QED BY <2>1, <2>2, <2>3, <2>4, QuietHistory
<1>4. ASSUME NEW p \in Processes, AppendHead(p) \/ AppendTail(p) \/ AppendNewline(p)
      PROVE  History'
  BY <1>4, HeadHistory, TailHistory, NewlineHistory
<1>5. ASSUME NEW p \in Processes, End(p) \/ Crash(p) PROVE History'
  <2>1. procs' = [procs EXCEPT ![p] = Idle] /\ UNCHANGED <<log, appended, passes>>
    BY <1>5 DEF End, Crash
  <2>2. Entitled(p, Idle) /\ Idle.at # "headed"
    BY DEF Entitled, Idle
  <2> QED BY <1>0, <2>1, <2>2, OneMoves
<1>6. ASSUME NEW c \in Commands, Acquire(c) PROVE History'
  <2> DEFINE where == IF procs[c].todo = <<"qa">> THEN "checking" ELSE "ready"
             proc == [at |-> where, todo |-> procs[c].todo, child |-> procs[c].child]
  <2>1. procs' = [procs EXCEPT ![c] = proc] /\ UNCHANGED <<log, appended, passes>>
    BY <1>6 DEF Acquire, Goes
  <2>2. Entitled(c, proc) /\ proc.at # "headed"
    <3>1. \A n \in DOMAIN procs[c].todo : procs[c].todo[n] # "passed"
      BY <1>0, <1>6 DEF Acquire, Entitled
    <3> QED BY <1>0, <3>1 DEF Entitled
  <2> HIDE DEF proc
  <2> QED BY <1>0, <2>1, <2>2, OneMoves
<1>7. ASSUME NEW c \in Commands, CheckQa(c) PROVE History'
  <2>1. PICK outcome \in {"passed", "other"} :
          (outcome = "passed" => QaLogClear) /\ Goes(c, "ready", <<"other", outcome>>)
    BY <1>7 DEF CheckQa
  <2> DEFINE proc == [at |-> "ready", todo |-> <<"other", outcome>>, child |-> procs[c].child]
  <2>2. procs' = [procs EXCEPT ![c] = proc] /\ UNCHANGED <<log, appended, passes>>
    BY <1>7, <2>1 DEF CheckQa, Goes
  <2>3. ASSUME outcome = "passed" PROVE LatestQa(appended) # "qa_failed"
    <3>1. Readable /\ LatestQa(Listed) # "qa_failed"
      BY <2>1, <2>3 DEF QaLogClear
    <3>2. Listed = appended
      BY <1>0, <3>1, ReadableTold DEF History
    <3> QED BY <3>1, <3>2
  <2>4. Entitled(c, proc) /\ proc.at # "headed"
    <3>1. \A n \in DOMAIN proc.todo : proc.todo[n] \in {"other", outcome}
      OBVIOUS
    <3>2. proc.todo[2] = outcome /\ proc.at = "ready"
      OBVIOUS
    <3> HIDE DEF proc
    <3> QED BY <1>0, <2>3, <3>1, <3>2 DEF Entitled, QaTypes
  <2> HIDE DEF proc
  <2> QED BY <1>0, <2>2, <2>4, OneMoves
<1>8. ASSUME NEW r \in Recorders, TestEnds(r) PROVE History'
  <2> DEFINE proc == [at |-> "ready", todo |-> procs[r].todo, child |-> NoChild]
  <2>1. procs' = [procs EXCEPT ![r] = proc] /\ UNCHANGED <<log, appended, passes>>
    BY <1>8 DEF TestEnds
  <2>2. Entitled(r, proc) /\ proc.at # "headed"
    BY <1>0 DEF Entitled
  <2> HIDE DEF proc
  <2> QED BY <1>0, <2>1, <2>2, OneMoves
<1>9. CASE UNCHANGED vars
  BY <1>9, QuietHistory DEF vars
<1> QED BY <1>1, <1>2, <1>3, <1>4, <1>5, <1>6, <1>7, <1>8, <1>9 DEF Next, Work

LEMMA HistoryInv == Spec => []History
<1>1. Spec => [][Next]_vars /\ Init
  BY DEF Spec
<1> QED BY <1>1, HistoryInit, HistoryStep, EventLogInv, PTL

-----------------------------------------------------------------------------
(* The theorems *)

(* The log, the lock, the processes and the history keep their types, and  *)
(* a command that reads or appends has the lock.                           *)
THEOREM EventLogTypes == Spec => []TypeOK
<1>1. IInv => TypeOK
  <2> SUFFICES ASSUME Typed PROVE TypeOK
    BY DEF IInv
  <2>1. \A n \in DOMAIN log : log[n] \in Seq(Pieces)
    BY DEF Typed
  <2>2. \A n \in DOMAIN log : \A k \in DOMAIN log[n] : log[n][k] \in Pieces
    BY <2>1
  <2>3. \A n \in DOMAIN appended : appended[n] \in Types
    BY DEF Typed
  <2>4. \A p \in Processes : procs[p].at \in Places /\ procs[p].child \in Children
    BY DEF Typed, ProcStates
  <2> QED BY <2>2, <2>3, <2>4 DEF Typed, TypeOK, Pieces, Places, Children, Locked
<1> QED BY <1>1, EventLogInv, PTL

(* Between appends the log can be read, unless an append was killed or met *)
(* one of a recorder: commands alone never spoil it.                       *)
THEOREM UndisturbedLogIsReadable == Spec => []DamageHasCause
<1>1. IInv => DamageHasCause
  <2> SUFFICES ASSUME IInv, ~disturbed, \A p \in Processes : ~MidAppend(p) PROVE Readable
    BY DEF DamageHasCause
  <2>1. Last = <<>> /\ \A n \in 1..(Len(log) - 1) : log[n] = <<>> \/ Sound(log[n])
    BY DEF IInv, Clean
  <2>2. DOMAIN log = 1..Len(log) /\ Len(log) \in Nat
    BY DEF IInv, Typed
  <2>3. \A n \in DOMAIN log : n = Len(log) \/ n \in 1..(Len(log) - 1)
    BY <2>2
  <2> QED BY <2>1, <2>3 DEF Readable, Last
<1> QED BY <1>1, EventLogInv, PTL

(* A log that can be read lists exactly the events that were written to    *)
(* their end, in their order: whoever overlapped or was killed in between, *)
(* each lost event leaves a line that fails the read.                      *)
THEOREM ReadableLogIsComplete == Spec => []ReadableIsComplete
<1>1. IInv /\ History => ReadableIsComplete
  BY ReadableTold DEF IInv, History, ReadableIsComplete
<1> QED BY <1>1, EventLogInv, HistoryInv, PTL

(* The QA gate reports no pass after a failed QA, whatever others append:  *)
(* between its look at the log and its event only recorders append, and    *)
(* they record no outcome.                                                 *)
THEOREM PassedGatesAreBacked == Spec => []QaPassesAreBacked
<1>1. History => QaPassesAreBacked
  BY DEF History, Backed
<1> QED BY <1>1, HistoryInv, PTL

(* The acquisition gate does not overlook a failed QA in a log that it can *)
(* read: it passes only on an entry that has all of its three fields.      *)
THEOREM FailureIsSeen == Spec => []AcquisitionSeesFailure
<1>1. IInv /\ History => AcquisitionSeesFailure
  <2> SUFFICES ASSUME IInv, History, Readable, LatestQa(appended) = "qa_failed",
                      NEW entry \in Entries, AcquisitionPasses({entry})
               PROVE  entry = [need |-> TRUE, tools |-> TRUE, result |-> TRUE]
    BY DEF AcquisitionSeesFailure
  <2>1. Listed = appended
    BY ReadableTold DEF IInv, History
  <2>2. Attempts({entry}) # {}
    BY <2>1 DEF AcquisitionPasses
  <2>3. entry.need /\ entry.tools /\ entry.result
    BY <2>2 DEF Attempts
  <2> QED BY <2>3 DEF Entries
<1> QED BY <1>1, EventLogInv, HistoryInv, PTL

-----------------------------------------------------------------------------
(* EventLog implements AppendOnlyLog *)

(* A reader gets what was appended, and an error where a line is damaged. *)
Honest == (Readable => Listed = appended) /\ (Damaged => ~Readable)

LEMMA AnswersHonest == IInv /\ History => Honest
<1> SUFFICES ASSUME IInv, History PROVE Honest
  OBVIOUS
<1>1. Readable => Listed = appended
  BY ReadableTold DEF IInv, History
<1>2. Damaged => ~Readable
  <2>1. \A n \in 1..(Len(log) - 1) : n \in DOMAIN log
    BY DEF IInv, Typed
  <2> QED BY <2>1 DEF Damaged, Readable
<1> QED BY <1>1, <1>2 DEF Honest

(* No step touches a line before the last. *)
LEMMA DamageStays ==
    ASSUME IInv, [Next]_vars, Damaged
    PROVE  Damaged'
<1> USE DEF IInv
<1>1. CASE UNCHANGED log
  BY <1>1 DEF Damaged
<1>2. ASSUME NEW p \in Processes, AppendHead(p) \/ AppendTail(p) PROVE Damaged'
  <2>1. TypeOf(Head(procs[p].todo)) \in Types
    <3>1. procs[p].todo \in Seq(Events) /\ procs[p].todo # <<>>
      BY <1>2 DEF AppendHead, AppendTail, Typed, MidAppend
    <3> QED BY <3>1, KnownTypes
  <2>2. PICK part \in {"head", "tail"} :
          Put([by |-> p, part |-> part, type |-> TypeOf(Head(procs[p].todo))])
    BY <1>2 DEF AppendHead, AppendTail
  <2>3. [by |-> p, part |-> part, type |-> TypeOf(Head(procs[p].todo))] \in Pieces
    BY <2>1 DEF Pieces
  <2>4. Len(log') = Len(log) /\ \A n \in 1..(Len(log) - 1) : log'[n] = log[n]
    BY <2>2, <2>3, PutAppends
  <2> QED BY <2>4 DEF Damaged
<1>3. ASSUME NEW p \in Processes, AppendNewline(p) PROVE Damaged'
  <2>1. /\ Len(log) \in Nat /\ Len(log') = Len(log) + 1
        /\ \A n \in 1..Len(log) : log'[n] = log[n]
    BY <1>3 DEF AppendNewline, Typed
  <2> QED BY <2>1 DEF Damaged
<1>4. CASE UNCHANGED vars
  BY <1>1, <1>4 DEF vars
<1> QED
  BY <1>1, <1>2, <1>3, <1>4
  DEF Next, Work, StartCommand, StartRecorder, TestCalls, End, Acquire, CheckQa, TestEnds, Crash

LEMMA AnswersStep ==
    ASSUME IInv, Honest', [Next]_vars
    PROVE  Log!Answers
<1>1. Damaged => Damaged'
  BY DamageStays
<1> QED BY <1>1 DEF Honest, Log!Answers

LEMMA LogRefinesInit == Init => Log!LogInit
<1> SUFFICES ASSUME Init PROVE Log!LogInit
  OBVIOUS
<1>1. Honest
  BY InvInit, HistoryInit, AnswersHonest
<1>2. log = <<<<>>>> /\ appended = <<>> /\ passes = {}
  BY DEF Init
<1>3. Readable
  BY <1>2 DEF Readable
<1>4. Listed = <<>>
  BY <1>1, <1>2, <1>3 DEF Honest
<1>5. LatestQa(appended) = "none"
  BY <1>2 DEF LatestQa
<1>6. ~Damaged
  BY <1>2 DEF Damaged
<1> QED BY <1>2, <1>3, <1>4, <1>5, <1>6 DEF Log!LogInit

LEMMA LogRefinesStep ==
    IInv /\ History /\ Honest' /\ [Next]_vars => [Log!LogNext]_(Log!logVars)
<1> SUFFICES ASSUME IInv, History, Honest', [Next]_vars PROVE Log!LogNext
  OBVIOUS
<1>1. Log!Answers
  BY AnswersStep
<1>2. ASSUME NEW p \in Processes, AppendTail(p) PROVE Log!LogNext
  <2> DEFINE event == Head(procs[p].todo)
             type == TypeOf(event)
  <2>1. /\ procs[p].at = "headed" /\ procs[p].todo \in Seq(Events) /\ procs[p].todo # <<>>
        /\ appended \in Seq(Types) /\ appended' = Append(appended, type)
        /\ passes' = IF event = "passed" THEN passes \cup {Len(appended')} ELSE passes
    BY <1>2 DEF AppendTail, IInv, Typed, MidAppend
  <2>2. /\ event \in Events /\ type \in Types
        /\ event = procs[p].todo[1] /\ 1 \in DOMAIN procs[p].todo
    BY <2>1, KnownTypes
  <2> HIDE DEF event, type
  <2>3. LatestQa(appended') = IF IsQa(type) THEN type ELSE LatestQa(appended)
    BY <2>1, <2>2, LatestQaAfterAppend
  <2>4. CASE event = "passed"
    <3>1. type = "gate_passed" /\ ~IsQa(type)
      BY <2>4 DEF type, TypeOf, IsQa, QaTypes
    <3>2. LatestQa(appended) # "qa_failed"
      BY <2>1, <2>2, <2>4, NoOutcomeMeanwhile
    <3>3. Log!Pass
      BY <1>1, <2>1, <2>3, <2>4, <3>1, <3>2 DEF Log!Pass
    <3> QED BY <3>3 DEF Log!LogNext
  <2>5. CASE event # "passed"
    <3>1. Log!Add(type)
      BY <1>1, <2>1, <2>3, <2>5 DEF Log!Add, IsQa, QaTypes
    <3> QED BY <2>2, <3>1 DEF Log!LogNext
  <2> QED BY <2>4, <2>5
<1>3. CASE UNCHANGED <<appended, passes>>
  BY <1>1, <1>3 DEF Log!LogNext, Log!Disturb
<1>4. CASE UNCHANGED vars
  BY <1>3, <1>4 DEF vars
<1> QED
  BY <1>2, <1>3, <1>4
  DEF Next, Work, StartCommand, StartRecorder, TestCalls, AppendHead, AppendNewline, End, Acquire,
      CheckQa, TestEnds, Crash

(* The lines, locks and processes implement the log that only grows: each  *)
(* reader gets all that was appended or an error, a damaged log stays so,  *)
(* and the QA gate reports no pass after a failure.                        *)
THEOREM LogImplemented == Spec => LogRefined
<1>1. Spec => Init /\ [][Next]_vars
  BY DEF Spec
<1>2. Init /\ [][Next]_vars /\ []IInv /\ []History => Log!LogSpec
  BY LogRefinesInit, LogRefinesStep, AnswersHonest, PTL DEF Log!LogSpec
<1> QED BY <1>1, <1>2, EventLogInv, HistoryInv, PTL DEF LogRefined

-----------------------------------------------------------------------------
(* Deadlock *)

(* The guard of Work(p), written out. *)
CanGo(p) ==
    \/ procs[p].at \in {"ready", "headed", "tailed"}
    \/ p \in Commands /\ procs[p].at = "checking"
    \/ p \in Commands /\ procs[p].at = "waiting" /\ holder = Free
    \/ /\ p \in Recorders /\ procs[p].at = "testing"
       /\ procs[p].child # NoChild => procs[procs[p].child] = Idle

(* A command waits for who has the lock, a recorder for what its test      *)
(* command has called.                                                     *)
WaitsFor(p, q) ==
    \/ procs[p].at = "waiting" /\ holder = q
    \/ procs[p].at = "testing" /\ procs[p].child = q /\ procs[q] # Idle

(* Whoever cannot go on waits for one who can, or for one who waits for    *)
(* such a one: a recorder for a command, that for the lock, and who has    *)
(* the lock goes on.  A recorder that took the lock would wait for its own *)
(* test command, which waits for the lock.                                 *)
NobodyStuck ==
    \A p \in Processes :
        procs[p] # Idle =>
            \/ CanGo(p)
            \/ \E q \in Processes :
                 /\ WaitsFor(p, q)
                 /\ CanGo(q) \/ \E h \in Processes : WaitsFor(q, h) /\ CanGo(h)

(* Who has the lock is a command at work, never one that is gone. *)
HolderWorks ==
    /\ holder # Free => holder \in Commands /\ procs[holder].at \in Locked
    /\ \A r \in Recorders : procs[r].at \in {"idle", "testing", "ready", "headed", "tailed"}
    /\ \A c \in Commands : procs[c].at # "testing"
    /\ \A p \in Processes : procs[p].at = "idle" => procs[p] = Idle

LEMMA HolderWorksInit == Init => HolderWorks
BY IdleIs DEF Init, HolderWorks, Processes

LEMMA WorksMove ==
    ASSUME Typed, HolderWorks, NEW p \in Processes, NEW proc,
           procs' = [procs EXCEPT ![p] = proc],
           p \in Recorders => proc.at \in {"idle", "testing", "ready", "headed", "tailed"},
           p \in Commands => proc.at # "testing",
           proc.at = "idle" => proc = Idle,
           \/ holder' = Free
           \/ holder' = p /\ p \in Commands /\ proc.at \in Locked
           \/ holder' = holder /\ holder # p
    PROVE  HolderWorks'
<1>1. procs'[p] = proc /\ \A q \in Processes \ {p} : procs'[q] = procs[q]
  BY DEF Typed
<1>2. /\ \A r \in Recorders : procs'[r].at \in {"idle", "testing", "ready", "headed", "tailed"}
      /\ \A c \in Commands : procs'[c].at # "testing"
      /\ \A q \in Processes : procs'[q].at = "idle" => procs'[q] = Idle
  BY <1>1 DEF HolderWorks, Processes
<1>3. holder' # Free => holder' \in Commands /\ procs'[holder'].at \in Locked
  BY <1>1 DEF HolderWorks, Processes
<1> QED BY <1>2, <1>3 DEF HolderWorks

LEMMA HolderWorksStep == IInv /\ HolderWorks /\ [Next]_vars => HolderWorks'
<1> SUFFICES ASSUME IInv, HolderWorks, [Next]_vars PROVE HolderWorks'
  OBVIOUS
<1>0. /\ Typed /\ Commands \subseteq Processes /\ Recorders \subseteq Processes
      /\ \A c \in Commands : c \notin Recorders /\ c # Free
      /\ Free \notin Processes
  BY EventLogAssumptions DEF Processes, IInv
<1>1. ASSUME NEW c \in Commands, NEW errand \in Errands, StartCommand(c, errand) PROVE HolderWorks'
  <2>1. holder # c
    BY <1>0, <1>1, IdleIs DEF HolderWorks, StartCommand, Locked
  <2> QED BY <1>0, <1>1, <2>1, WorksMove DEF StartCommand
<1>2. ASSUME NEW r \in Recorders, StartRecorder(r) PROVE HolderWorks'
  <2>1. holder # r
    BY <1>0 DEF HolderWorks
  <2> QED BY <1>0, <1>2, <2>1, WorksMove DEF StartRecorder
<1>3. ASSUME NEW r \in Recorders, NEW c \in Commands, NEW errand \in Errands,
             TestCalls(r, c, errand)
      PROVE  HolderWorks'
  <2> DEFINE caller == [at |-> "testing", todo |-> procs[r].todo, child |-> c]
             called == [at |-> "waiting", todo |-> errand, child |-> NoChild]
  <2>1. procs' = [procs EXCEPT ![r] = caller, ![c] = called] /\ holder' = holder
    BY <1>3 DEF TestCalls
  <2>2. caller.at = "testing" /\ called.at = "waiting"
    OBVIOUS
  <2> HIDE DEF caller, called
  <2>3. /\ procs'[r] = caller /\ procs'[c] = called
        /\ \A q \in Processes \ {r, c} : procs'[q] = procs[q]
    BY <1>0, <2>1 DEF Typed
  <2>4. holder # c /\ holder # r
    BY <1>0, <1>3, IdleIs DEF HolderWorks, TestCalls, Locked
  <2>5. holder' # Free => holder' \in Commands /\ procs'[holder'].at \in Locked
    BY <1>0, <2>1, <2>3, <2>4 DEF HolderWorks
  <2>6. /\ \A q \in Recorders : procs'[q].at \in {"idle", "testing", "ready", "headed", "tailed"}
        /\ \A d \in Commands : procs'[d].at # "testing"
        /\ \A q \in Processes : procs'[q].at = "idle" => procs'[q] = Idle
    BY <1>0, <2>2, <2>3 DEF HolderWorks
  <2> QED BY <2>5, <2>6 DEF HolderWorks
<1>4. ASSUME NEW p \in Processes, AppendHead(p) \/ AppendTail(p) \/ AppendNewline(p)
      PROVE  HolderWorks'
  <2>1. PICK where \in {"ready", "headed", "tailed"}, todo \in {procs[p].todo, Tail(procs[p].todo)} :
          Goes(p, where, todo) /\ holder' = holder
    BY <1>4 DEF AppendHead, AppendTail, AppendNewline
  <2> DEFINE proc == [at |-> where, todo |-> todo, child |-> procs[p].child]
  <2>2. procs' = [procs EXCEPT ![p] = proc] /\ proc.at = where
    BY <2>1 DEF Goes
  <2> HIDE DEF proc
  <2>3. holder = p => p \in Commands
    BY <1>0 DEF HolderWorks
  <2> QED BY <1>0, <2>1, <2>2, <2>3, WorksMove DEF Locked
<1>5. ASSUME NEW p \in Processes, End(p) \/ Crash(p) PROVE HolderWorks'
  <2>1. procs' = [procs EXCEPT ![p] = Idle] /\ holder' = IF holder = p THEN Free ELSE holder
    BY <1>5 DEF End, Crash
  <2> QED BY <1>0, <2>1, IdleIs, WorksMove
<1>6. ASSUME NEW c \in Commands, Acquire(c) \/ CheckQa(c) PROVE HolderWorks'
  <2>1. PICK where \in {"checking", "ready"},
             todo \in {procs[c].todo} \cup {<<"other", outcome>> : outcome \in {"passed", "other"}} :
          Goes(c, where, todo)
    BY <1>6 DEF Acquire, CheckQa
  <2> DEFINE proc == [at |-> where, todo |-> todo, child |-> procs[c].child]
  <2>2. procs' = [procs EXCEPT ![c] = proc] /\ proc.at = where
    BY <2>1 DEF Goes
  <2> HIDE DEF proc
  <2>3. holder' = c
    BY <1>0, <1>6 DEF Acquire, CheckQa, Typed, Locked
  <2> QED BY <1>0, <2>1, <2>2, <2>3, WorksMove DEF Locked
<1>7. ASSUME NEW r \in Recorders, TestEnds(r) PROVE HolderWorks'
  <2>1. holder # r
    BY <1>0 DEF HolderWorks
  <2> QED BY <1>0, <1>7, <2>1, WorksMove DEF TestEnds
<1>8. CASE UNCHANGED vars
  BY <1>8 DEF vars, HolderWorks
<1> QED BY <1>1, <1>2, <1>3, <1>4, <1>5, <1>6, <1>7, <1>8 DEF Next, Work

(* No number of commands and recorders deadlocks: at any time whoever is   *)
(* started can go on, or waits, at one remove or two, for one who can.     *)
THEOREM NoDeadlock == Spec => []NobodyStuck
<1>1. IInv /\ HolderWorks => NobodyStuck
  <2> SUFFICES ASSUME IInv, HolderWorks, NEW p \in Processes, procs[p] # Idle, ~CanGo(p)
               PROVE  \E q \in Processes :
                        /\ WaitsFor(p, q)
                        /\ CanGo(q) \/ \E h \in Processes : WaitsFor(q, h) /\ CanGo(h)
    BY DEF NobodyStuck
  <2>0. Commands \subseteq Processes /\ NoChild \notin Commands
    BY EventLogAssumptions DEF Processes
  <2>1. ASSUME NEW c \in Commands, procs[c].at = "waiting", ~CanGo(c)
        PROVE  holder \in Commands /\ WaitsFor(c, holder) /\ CanGo(holder)
    BY <2>1 DEF CanGo, WaitsFor, HolderWorks, Locked
  <2>2. ASSUME NEW c \in Commands, procs[c] # Idle, ~CanGo(c)
        PROVE  procs[c].at = "waiting"
    <3>1. procs[c].at \in Places
      BY <2>0 DEF IInv, Typed, ProcStates
    <3> QED BY <2>0, <2>2, <3>1 DEF CanGo, HolderWorks, Places
  <2>3. CASE p \in Commands
    BY <2>0, <2>1, <2>2, <2>3
  <2>4. CASE p \in Recorders
    <3>1. procs[p].at = "testing"
      BY <2>4 DEF CanGo, HolderWorks
    <3> DEFINE c == procs[p].child
    <3>2. c \in Commands /\ procs[c] # Idle /\ WaitsFor(p, c)
      <4>1. c \in Children
        BY <2>4 DEF IInv, Typed, ProcStates
      <4> QED BY <2>4, <3>1, <4>1 DEF CanGo, WaitsFor, Children
    <3> HIDE DEF c
    <3>3. CASE CanGo(c)
      BY <2>0, <3>2, <3>3
    <3>4. CASE ~CanGo(c)
      <4>1. holder \in Commands /\ WaitsFor(c, holder) /\ CanGo(holder)
        BY <2>1, <2>2, <3>2, <3>4
      <4> QED BY <2>0, <3>2, <4>1
    <3> QED BY <3>3, <3>4
  <2> QED BY <2>3, <2>4 DEF Processes
<1>2. Spec => Init /\ [][Next]_vars
  BY DEF Spec
<1> QED BY <1>1, <1>2, HolderWorksInit, HolderWorksStep, EventLogInv, PTL

-----------------------------------------------------------------------------
(* What else EveryProcessEnds rests on *)

(* How many steps a process has before it at most: an append takes three,  *)
(* the QA gate leaves two events to append.                                *)
StepsLeft(proc) ==
    LET toAppend == 3 * Len(proc.todo) IN
    CASE proc.at = "idle"     -> 0
      [] proc.at = "waiting"  -> toAppend + 9
      [] proc.at = "checking" -> 8
      [] proc.at = "testing"  -> toAppend + 2
      [] proc.at = "ready"    -> toAppend + 1
      [] proc.at = "headed"   -> toAppend
      [] proc.at = "tailed"   -> toAppend - 1

(* Whatever happens, a process that is started stays where it is or comes  *)
(* nearer its end, but for a test command that starts one more process.    *)
ComesNearer ==
    \A p \in Processes :
        procs[p] # Idle =>
            \/ procs'[p] = procs[p]
            \/ StepsLeft(procs'[p]) < StepsLeft(procs[p])
            \/ started' = started + 1 /\ StepsLeft(procs'[p]) = StepsLeft(procs[p])

LEMMA StepsLeftOf ==
    ASSUME NEW proc \in ProcStates
    PROVE  /\ proc.at = "idle" => StepsLeft(proc) = 0
           /\ proc.at = "waiting" => StepsLeft(proc) = 3 * Len(proc.todo) + 9
           /\ proc.at = "checking" => StepsLeft(proc) = 8
           /\ proc.at = "testing" => StepsLeft(proc) = 3 * Len(proc.todo) + 2
           /\ proc.at = "ready" => StepsLeft(proc) = 3 * Len(proc.todo) + 1
           /\ proc.at = "headed" => StepsLeft(proc) = 3 * Len(proc.todo)
           /\ proc.at = "tailed" => StepsLeft(proc) = 3 * Len(proc.todo) - 1
           /\ proc.at \in Places
           /\ Len(proc.todo) \in Nat
<1>1. proc.at = "idle" => StepsLeft(proc) = 0
  BY DEF StepsLeft
<1>2. proc.at = "waiting" => StepsLeft(proc) = 3 * Len(proc.todo) + 9
  BY DEF StepsLeft
<1>3. proc.at = "checking" => StepsLeft(proc) = 8
  BY DEF StepsLeft
<1>4. proc.at = "testing" => StepsLeft(proc) = 3 * Len(proc.todo) + 2
  BY DEF StepsLeft
<1>5. proc.at = "ready" => StepsLeft(proc) = 3 * Len(proc.todo) + 1
  BY DEF StepsLeft
<1>6. proc.at = "headed" => StepsLeft(proc) = 3 * Len(proc.todo)
  BY DEF StepsLeft
<1>7. proc.at = "tailed" => StepsLeft(proc) = 3 * Len(proc.todo) - 1
  BY DEF StepsLeft
<1>8. proc.at \in Places /\ Len(proc.todo) \in Nat
  BY DEF ProcStates
<1> QED BY <1>1, <1>2, <1>3, <1>4, <1>5, <1>6, <1>7, <1>8

(* Who is not at its end has steps left; an append has three of them. *)
LEMMA StepsAreLeft ==
    ASSUME Typed, HolderWorks, NEW p \in Processes
    PROVE  /\ StepsLeft(procs[p]) \in Nat
           /\ procs[p] # Idle => 0 < StepsLeft(procs[p])
<1> DEFINE steps == StepsLeft(procs[p])
           n == Len(procs[p].todo)
<1>1. procs[p] \in ProcStates /\ n \in Nat
  BY StepsLeftOf DEF Typed
<1>2. procs[p].at \in {"headed", "tailed"} => 1 <= n
  <2>1. procs[p].at \in {"headed", "tailed"} => procs[p].todo # <<>> /\ procs[p].todo \in Seq(Events)
    BY DEF Typed, MidAppend
  <2> QED BY <2>1
<1>3. steps \in {0, 3 * n + 9, 8, 3 * n + 2, 3 * n + 1, 3 * n, 3 * n - 1}
  BY <1>1, StepsLeftOf, Zenon DEF Places
<1>4. CASE procs[p].at = "idle"
  BY <1>1, <1>4, StepsLeftOf DEF HolderWorks
<1>5. CASE procs[p].at \in {"headed", "tailed"}
  <2>1. steps \in {3 * n, 3 * n - 1}
    BY <1>1, <1>5, StepsLeftOf, Zenon
  <2> HIDE DEF steps, n
  <2>2. steps \in Nat /\ 0 < steps
    BY <1>1, <1>2, <1>5, <2>1
  <2> QED BY <2>2 DEF steps
<1>6. CASE procs[p].at \in {"waiting", "checking", "testing", "ready"}
  <2>1. steps \in {3 * n + 9, 8, 3 * n + 2, 3 * n + 1}
    BY <1>1, <1>6, StepsLeftOf, Zenon
  <2> HIDE DEF steps, n
  <2>2. steps \in Nat /\ 0 < steps
    BY <1>1, <2>1
  <2> QED BY <2>2 DEF steps
<1> QED BY <1>1, <1>4, <1>5, <1>6, StepsLeftOf DEF Places

LEMMA NearerStep == IInv /\ HolderWorks /\ Typed' /\ [Next]_vars => ComesNearer
<1> SUFFICES ASSUME IInv, HolderWorks, Typed', [Next]_vars PROVE ComesNearer
  OBVIOUS
<1>0. /\ Typed /\ Commands \subseteq Processes /\ Recorders \subseteq Processes
      /\ \A p \in Processes : procs[p] \in ProcStates /\ procs'[p] \in ProcStates
  BY DEF Processes, IInv, Typed
<1>1. ASSUME NEW p \in Processes, \A q \in Processes \ {p} : procs'[q] = procs[q],
             procs[p] # Idle => StepsLeft(procs'[p]) < StepsLeft(procs[p])
      PROVE  ComesNearer
  BY <1>1 DEF ComesNearer
<1>2. ASSUME NEW p \in Processes, NEW where \in Places, NEW todo \in Seq(Events \cup {"qa"}),
             Goes(p, where, todo)
      PROVE  /\ procs'[p].at = where /\ procs'[p].todo = todo
             /\ \A q \in Processes \ {p} : procs'[q] = procs[q]
  BY <1>0, <1>2, GoesMoves
<1>3. ASSUME NEW p \in Processes, AppendHead(p) \/ AppendTail(p) PROVE ComesNearer
  <2>1. PICK where \in {"headed", "tailed"} :
          /\ Goes(p, where, procs[p].todo)
          /\ where = "headed" => procs[p].at = "ready"
          /\ where = "tailed" => procs[p].at = "headed"
    BY <1>3 DEF AppendHead, AppendTail
  <2>2. /\ procs'[p].at = where /\ procs'[p].todo = procs[p].todo
        /\ \A q \in Processes \ {p} : procs'[q] = procs[q]
    BY <1>0, <1>2, <2>1 DEF Places, ProcStates
  <2> DEFINE n == Len(procs[p].todo)
             a == StepsLeft(procs[p])
             b == StepsLeft(procs'[p])
  <2>3. (a = 3 * n + 1 /\ b = 3 * n) \/ (a = 3 * n /\ b = 3 * n - 1)
    BY <1>0, <2>1, <2>2, StepsLeftOf, Zenon
  <2>4. n \in Nat
    BY <1>0, StepsLeftOf
  <2> HIDE DEF n, a, b
  <2>5. b < a
    BY <2>3, <2>4
  <2> QED BY <1>1, <2>2, <2>5 DEF a, b
<1>4. ASSUME NEW p \in Processes, AppendNewline(p) PROVE ComesNearer
  <2>1. procs[p].at = "tailed" /\ Goes(p, "ready", Tail(procs[p].todo))
    BY <1>4 DEF AppendNewline
  <2>2. procs[p].todo \in Seq(Events) /\ procs[p].todo # <<>>
    BY <1>0, <2>1 DEF Typed, MidAppend
  <2>3. /\ Tail(procs[p].todo) \in Seq(Events \cup {"qa"})
        /\ Len(Tail(procs[p].todo)) = Len(procs[p].todo) - 1
        /\ Len(procs[p].todo) \in Nat
    BY <2>2
  <2>4. /\ procs'[p].at = "ready" /\ procs'[p].todo = Tail(procs[p].todo)
        /\ \A q \in Processes \ {p} : procs'[q] = procs[q]
    BY <1>2, <2>1, <2>3 DEF Places
  <2> DEFINE n == Len(procs[p].todo)
             a == StepsLeft(procs[p])
             b == StepsLeft(procs'[p])
  <2>5. a = 3 * n - 1 /\ b = 3 * (n - 1) + 1
    <3>1. a = 3 * n - 1 /\ b = 3 * Len(procs'[p].todo) + 1
      BY <1>0, <2>1, <2>4, StepsLeftOf, Zenon
    <3> QED BY <2>3, <2>4, <3>1, Zenon
  <2>6. n \in Nat
    BY <2>3
  <2> HIDE DEF n, a, b
  <2>7. b < a
    BY <2>5, <2>6
  <2> QED BY <1>1, <2>4, <2>7 DEF a, b
<1>5. ASSUME NEW p \in Processes, End(p) \/ Crash(p) PROVE ComesNearer
  <2>1. procs'[p] = Idle /\ \A q \in Processes \ {p} : procs'[q] = procs[q]
    BY <1>0, <1>5 DEF End, Crash, Typed
  <2>2. StepsLeft(procs'[p]) = 0
    BY <1>0, <2>1, IdleIs, StepsLeftOf, Zenon
  <2> QED BY <1>0, <1>1, <2>1, <2>2, StepsAreLeft
<1>6. ASSUME NEW c \in Commands, Acquire(c) PROVE ComesNearer
  <2>1. PICK where \in {"checking", "ready"} :
          procs[c].at = "waiting" /\ Goes(c, where, procs[c].todo)
    BY <1>6 DEF Acquire
  <2>2. /\ procs'[c].at = where /\ procs'[c].todo = procs[c].todo
        /\ \A q \in Processes \ {c} : procs'[q] = procs[q]
    <3>1. where \in Places /\ procs[c].todo \in Seq(Events \cup {"qa"}) /\ c \in Processes
      BY <1>0 DEF Places, ProcStates
    <3> QED BY <1>2, <2>1, <3>1
  <2> DEFINE n == Len(procs[c].todo)
             a == StepsLeft(procs[c])
             b == StepsLeft(procs'[c])
  <2>3. a = 3 * n + 9 /\ b \in {8, 3 * n + 1}
    BY <1>0, <2>1, <2>2, StepsLeftOf, Zenon
  <2>4. n \in Nat
    BY <1>0, StepsLeftOf
  <2> HIDE DEF n, a, b
  <2>5. b < a
    BY <2>3, <2>4
  <2> QED BY <1>0, <1>1, <2>2, <2>5 DEF a, b
<1>7. ASSUME NEW c \in Commands, CheckQa(c) PROVE ComesNearer
  <2>1. PICK outcome \in {"passed", "other"} :
          procs[c].at = "checking" /\ Goes(c, "ready", <<"other", outcome>>)
    BY <1>7 DEF CheckQa
  <2>2. <<"other", outcome>> \in Seq(Events \cup {"qa"}) /\ Len(<<"other", outcome>>) = 2
    BY KnownTypes
  <2>3. /\ procs'[c].at = "ready" /\ Len(procs'[c].todo) = 2
        /\ \A q \in Processes \ {c} : procs'[q] = procs[q]
    BY <1>0, <1>2, <2>1, <2>2 DEF Places
  <2>4. StepsLeft(procs[c]) = 8 /\ StepsLeft(procs'[c]) = 3 * 2 + 1
    BY <1>0, <2>1, <2>3, StepsLeftOf, Zenon
  <2>5. StepsLeft(procs'[c]) < StepsLeft(procs[c])
    BY <2>4
  <2> QED BY <1>0, <1>1, <2>3, <2>5
<1>8. ASSUME NEW r \in Recorders, TestEnds(r) PROVE ComesNearer
  <2> DEFINE proc == [at |-> "ready", todo |-> procs[r].todo, child |-> NoChild]
  <2>1. procs' = [procs EXCEPT ![r] = proc] /\ procs[r].at = "testing"
    BY <1>8 DEF TestEnds
  <2>2. proc.at = "ready" /\ proc.todo = procs[r].todo
    OBVIOUS
  <2> HIDE DEF proc
  <2>3. /\ procs'[r].at = "ready" /\ procs'[r].todo = procs[r].todo
        /\ \A q \in Processes \ {r} : procs'[q] = procs[q]
    BY <1>0, <2>1, <2>2 DEF Typed
  <2> DEFINE n == Len(procs[r].todo)
             a == StepsLeft(procs[r])
             b == StepsLeft(procs'[r])
  <2>4. a = 3 * n + 2 /\ b = 3 * n + 1
    BY <1>0, <2>1, <2>3, StepsLeftOf, Zenon
  <2>5. n \in Nat
    BY <1>0, StepsLeftOf
  <2> HIDE DEF n, a, b
  <2>6. b < a
    BY <2>4, <2>5
  <2> QED BY <1>0, <1>1, <2>3, <2>6 DEF a, b
<1>9. ASSUME NEW p \in Processes, procs[p] = Idle, \A q \in Processes \ {p} : procs'[q] = procs[q]
      PROVE  ComesNearer
  BY <1>1, <1>9
<1>10. ASSUME NEW c \in Commands, NEW errand \in Errands, StartCommand(c, errand)
       PROVE  ComesNearer
  BY <1>0, <1>9, <1>10 DEF StartCommand, Typed
<1>11. ASSUME NEW r \in Recorders, StartRecorder(r) PROVE ComesNearer
  BY <1>0, <1>9, <1>11 DEF StartRecorder, Typed
<1>12. ASSUME NEW r \in Recorders, NEW c \in Commands, NEW errand \in Errands,
              TestCalls(r, c, errand)
       PROVE  ComesNearer
  <2> DEFINE caller == [at |-> "testing", todo |-> procs[r].todo, child |-> c]
             called == [at |-> "waiting", todo |-> errand, child |-> NoChild]
  <2>1. /\ procs' = [procs EXCEPT ![r] = caller, ![c] = called]
        /\ procs[r].at = "testing" /\ procs[c] = Idle /\ started' = started + 1
    BY <1>12 DEF TestCalls
  <2>2. caller.at = "testing" /\ caller.todo = procs[r].todo
    OBVIOUS
  <2> HIDE DEF caller, called
  <2>3. r # c
    BY EventLogAssumptions
  <2>4. /\ procs'[r] = caller
        /\ \A q \in Processes \ {r, c} : procs'[q] = procs[q]
    BY <1>0, <2>1, <2>3 DEF Typed
  <2>5. StepsLeft(procs'[r]) = StepsLeft(procs[r])
    BY <1>0, <2>1, <2>2, <2>4, StepsLeftOf, Zenon
  <2> QED BY <2>1, <2>4, <2>5 DEF ComesNearer
<1>13. CASE UNCHANGED vars
  BY <1>13 DEF vars, ComesNearer
<1> QED
  BY <1>0, <1>3, <1>4, <1>5, <1>6, <1>7, <1>8, <1>10, <1>11, <1>12, <1>13 DEF Next, Work

(* Nothing sets a process back: each of its steps is one less, with the    *)
(* lock or waiting for it, whatever the others do and whoever is killed;   *)
(* and one that has not ended has steps left.                              *)
THEOREM ProcessesComeNearer ==
    Spec => /\ [](\A p \in Processes :
                    /\ StepsLeft(procs[p]) \in Nat
                    /\ procs[p] # Idle => 0 < StepsLeft(procs[p]))
            /\ [][ComesNearer]_vars
<1>1. IInv /\ HolderWorks =>
        \A p \in Processes : /\ StepsLeft(procs[p]) \in Nat
                             /\ procs[p] # Idle => 0 < StepsLeft(procs[p])
  BY StepsAreLeft DEF IInv
<1>2. Spec => Init /\ [][Next]_vars
  BY DEF Spec
<1>3. IInv => Typed
  BY DEF IInv
<1> QED
  BY <1>1, <1>2, <1>3, HolderWorksInit, HolderWorksStep, NearerStep, EventLogInv, PTL

=============================================================================
