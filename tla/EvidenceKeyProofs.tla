-------------------------- MODULE EvidenceKeyProofs --------------------------
(***************************************************************************)
(* All evidence is signed with one key, for any number of recorders of     *)
(* wb-runtime and of the hook and any number of polls.                     *)
(***************************************************************************)
EXTENDS EvidenceKey, TLAPS

Places == {"new", "looking", "creating", "writing", "waiting", "giving up"} \cup Ended
RecorderStates == [at : Places, polls : 0..MaxPolls, key : Keys \cup {NoKey}]

(* Only one recorder writes the key, into the file that it has created. *)
OneWriter ==
    \A p \in Recorders :
        recorders[p].at = "writing" =>
            /\ file = Empty
            /\ \A q \in Recorders : recorders[q].at = "writing" => q = p

(* Recorders that began when the key was there do not come to a place from *)
(* which they could fail or replace it.                                    *)
LateOnTheWay ==
    \A p \in late :
        /\ file \in Keys
        /\ recorders[p].at \in {"looking", "waiting", "signed", "killed"}

(* Who has not given up has polls left. *)
PollsLeft ==
    \A p \in Recorders :
        recorders[p].at \in {"new", "looking", "creating", "writing", "waiting"} =>
            recorders[p].polls < MaxPolls

(* Inductive: OneKey holds because the key is never replaced. *)
IInv == TypeOK /\ OneKey /\ OneWriter /\ LateOnTheWay /\ PollsLeft

On == {"new", "looking", "creating", "writing", "waiting"}

LEMMA KeysAreKeys == Absent \notin Keys /\ Empty \notin Keys /\ NoKey \notin Keys
BY EvidenceKeyAssumptions DEF Keys, Recorders

LEMMA InvInit == Init => IInv
<1> SUFFICES ASSUME Init PROVE IInv
  OBVIOUS
<1>1. TypeOK
  BY EvidenceKeyAssumptions DEF Init, TypeOK
<1>2. OneKey /\ OneWriter /\ LateOnTheWay
  BY DEF Init, OneKey, OneWriter, LateOnTheWay
<1>3. PollsLeft
  BY EvidenceKeyAssumptions DEF Init, PollsLeft
<1> QED BY <1>1, <1>2, <1>3 DEF IInv

LEMMA RecorderMoved ==
    ASSUME NEW r \in RecorderStates, NEW where
    PROVE  [r EXCEPT !.at = where] = [at |-> where, polls |-> r.polls, key |-> r.key]
<1>1. r = [at |-> r.at, polls |-> r.polls, key |-> r.key]
  BY DEF RecorderStates
<1>2. [[at |-> r.at, polls |-> r.polls, key |-> r.key] EXCEPT !.at = where]
          = [at |-> where, polls |-> r.polls, key |-> r.key]
  OBVIOUS
<1> QED BY <1>1, <1>2, Zenon

(* What Goes and Signs make of the recorders. *)
LEMMA GoesMoves ==
    ASSUME TypeOK, NEW p \in Recorders, NEW where \in Places, Goes(p, where)
    PROVE  /\ recorders' \in [Recorders -> RecorderStates]
           /\ recorders'[p].at = where
           /\ recorders'[p].polls = recorders[p].polls
           /\ \A q \in Recorders : q # p => recorders'[q] = recorders[q]
<1> DEFINE moved == [at |-> where, polls |-> recorders[p].polls, key |-> recorders[p].key]
<1>1. recorders \in [Recorders -> RecorderStates]
  BY DEF TypeOK, RecorderStates, Places
<1>2. recorders' = [recorders EXCEPT ![p] = moved]
  BY <1>1, RecorderMoved, Zenon DEF Goes
<1>3. moved \in RecorderStates
  BY <1>1 DEF RecorderStates
<1> QED BY <1>1, <1>2, <1>3

LEMMA SignsMoves ==
    ASSUME TypeOK, NEW p \in Recorders, NEW key \in Keys, Signs(p, key)
    PROVE  /\ recorders' \in [Recorders -> RecorderStates]
           /\ recorders'[p].at = "signed" /\ recorders'[p].key = key
           /\ \A q \in Recorders : q # p => recorders'[q] = recorders[q]
BY DEF TypeOK, RecorderStates, Places, Ended, Signs

LEMMA InvStep == IInv /\ [Next]_vars => IInv'
<1> SUFFICES ASSUME IInv, [Next]_vars PROVE IInv'
  OBVIOUS
<1> USE DEF IInv
<1>1. /\ TypeOK
      /\ recorders \in [Recorders -> RecorderStates]
      /\ Ended \subseteq Places
  BY DEF TypeOK, RecorderStates, Places
<1>2. \A p \in Recorders : Begin(p) => IInv'
  <2> SUFFICES ASSUME NEW p \in Recorders, Begin(p) PROVE IInv'
    OBVIOUS
  <2>1. /\ recorders' \in [Recorders -> RecorderStates]
        /\ recorders'[p].at = "looking"
        /\ recorders'[p].polls = recorders[p].polls
        /\ \A q \in Recorders : q # p => recorders'[q] = recorders[q]
    BY <1>1, GoesMoves DEF Begin, Places
  <2>2. TypeOK'
    BY <1>1, <2>1 DEF Begin, TypeOK, RecorderStates, Places
  <2>3. OneKey' /\ OneWriter'
    BY <1>1, <2>1 DEF Begin, OneKey, OneWriter, LoadKey
  <2>4. LateOnTheWay'
    BY <1>1, <2>1 DEF Begin, LateOnTheWay, TypeOK
  <2>5. PollsLeft'
    BY <2>1 DEF Begin, PollsLeft
  <2> QED BY <2>2, <2>3, <2>4, <2>5
(* A step that leaves the file alone and does not sign, create or fail. *)
<1>3. ASSUME NEW p \in Recorders, NEW where \in Places \ {"signed", "writing"}, Goes(p, where),
             UNCHANGED <<file, late>>,
             p \in late => where \in {"looking", "waiting", "killed"},
             where \in On => recorders[p].at \in On
      PROVE  IInv'
  <2>1. /\ recorders' \in [Recorders -> RecorderStates]
        /\ recorders'[p].at = where
        /\ recorders'[p].polls = recorders[p].polls
        /\ \A q \in Recorders : q # p => recorders'[q] = recorders[q]
    BY <1>1, <1>3, GoesMoves
  <2>2. TypeOK'
    BY <1>1, <1>3, <2>1 DEF TypeOK, RecorderStates, Places
  <2>3. OneKey' /\ OneWriter'
    BY <1>1, <1>3, <2>1 DEF OneKey, OneWriter, LoadKey
  <2>4. LateOnTheWay'
    BY <1>1, <1>3, <2>1 DEF LateOnTheWay, TypeOK
  <2>5. PollsLeft'
    BY <1>3, <2>1 DEF PollsLeft, On
  <2> QED BY <2>2, <2>3, <2>4, <2>5
<1>4. ASSUME NEW p \in Recorders, LoadKey # NoKey, Signs(p, LoadKey), UNCHANGED <<file, late>>
      PROVE  IInv'
  <2>1. LoadKey \in Keys /\ file \in Keys
    BY <1>4 DEF LoadKey
  <2>2. /\ recorders' \in [Recorders -> RecorderStates]
        /\ recorders'[p].at = "signed" /\ recorders'[p].key = LoadKey
        /\ \A q \in Recorders : q # p => recorders'[q] = recorders[q]
    BY <1>1, <1>4, <2>1, SignsMoves
  <2>3. TypeOK'
    BY <1>1, <1>4, <2>2 DEF TypeOK, RecorderStates, Places
  <2>4. OneKey' /\ OneWriter'
    BY <1>1, <1>4, <2>2 DEF OneKey, OneWriter, LoadKey
  <2>5. LateOnTheWay'
    BY <1>1, <1>4, <2>2 DEF LateOnTheWay, TypeOK
  <2>6. PollsLeft'
    BY <2>2 DEF PollsLeft
  <2> QED BY <2>3, <2>4, <2>5, <2>6
<1>5. ASSUME NEW p \in Recorders, Look(p) \/ HookLook(p) PROVE IInv'
  <2>1. CASE LoadKey # NoKey /\ HookLook(p)
    BY <1>4, <2>1 DEF HookLook
  <2>2. CASE ~(LoadKey # NoKey /\ HookLook(p))
    <3>1. PICK where \in {"creating", "waiting"} :
             Goes(p, where) /\ (where = "creating" => file \notin Keys)
      BY <1>5, <2>2, KeysAreKeys DEF Look, HookLook, LoadKey
    <3>2. p \in late => where \in {"looking", "waiting", "killed"}
      BY <3>1 DEF LateOnTheWay
    <3>3. UNCHANGED <<file, late>>
      BY <1>5 DEF Look, HookLook
    <3>4. recorders[p].at \in On
      BY <1>5 DEF Look, HookLook, On
    <3> QED BY <1>3, <3>1, <3>2, <3>3, <3>4 DEF Places
  <2> QED BY <2>1, <2>2
<1>6. ASSUME NEW p \in Recorders, CreateKey(p) PROVE IInv'
  <2>1. CASE file = Absent
    <3>1. /\ recorders' \in [Recorders -> RecorderStates]
          /\ recorders'[p].at = "writing"
          /\ recorders'[p].polls = recorders[p].polls
          /\ \A q \in Recorders : q # p => recorders'[q] = recorders[q]
      BY <1>1, <1>6, <2>1, GoesMoves DEF CreateKey, Places
    <3>2. file' = Empty /\ late' = late
      BY <1>6, <2>1 DEF CreateKey
    <3>3. \A q \in Recorders : recorders[q].at \notin {"signed", "writing"}
      BY <2>1, KeysAreKeys DEF OneKey, OneWriter, LoadKey, Absent, Empty
    <3>4. late = {}
      BY <2>1, KeysAreKeys DEF LateOnTheWay
    <3>5. TypeOK'
      BY <1>1, <3>1, <3>2 DEF TypeOK, RecorderStates, Places
    <3>6. OneKey' /\ OneWriter' /\ LateOnTheWay'
      BY <3>1, <3>2, <3>3, <3>4 DEF OneKey, OneWriter, LateOnTheWay
    <3>7. PollsLeft'
      BY <1>6, <3>1 DEF PollsLeft, CreateKey
    <3> QED BY <3>5, <3>6, <3>7
  <2>2. CASE file # Absent
    BY <1>3, <1>6, <2>2 DEF CreateKey, Places, Ended, On
  <2> QED BY <2>1, <2>2
<1>7. ASSUME NEW p \in Recorders, WriteKey(p) PROVE IInv'
  <2>1. p \in Keys /\ file = Empty /\ file' = p /\ late' = late
    BY <1>7 DEF WriteKey, OneWriter, Keys
  <2>2. /\ recorders' \in [Recorders -> RecorderStates]
        /\ recorders'[p].at = "signed" /\ recorders'[p].key = p
        /\ \A q \in Recorders : q # p => recorders'[q] = recorders[q]
    BY <1>1, <1>7, <2>1, SignsMoves DEF WriteKey
  <2>3. \A q \in Recorders : recorders[q].at # "signed"
    BY <2>1, KeysAreKeys DEF OneKey, LoadKey
  <2>4. late = {}
    BY <2>1, KeysAreKeys DEF LateOnTheWay
  <2>5. TypeOK'
    BY <1>1, <2>1, <2>2 DEF TypeOK, RecorderStates, Places
  <2>6. OneKey'
    BY <2>1, <2>2, <2>3, KeysAreKeys DEF OneKey, LoadKey
  <2>7. OneWriter' /\ LateOnTheWay'
    BY <1>7, <2>1, <2>2, <2>4 DEF WriteKey, OneWriter, LateOnTheWay
  <2>8. PollsLeft'
    BY <2>2 DEF PollsLeft
  <2> QED BY <2>5, <2>6, <2>7, <2>8
<1>8. ASSUME NEW p \in Recorders, Poll(p) PROVE IInv'
  <2> DEFINE polls == recorders[p].polls + 1
             r == [at |-> IF polls = MaxPolls THEN "giving up" ELSE "waiting",
                   polls |-> polls, key |-> recorders[p].key]
  <2>1. recorders' = [recorders EXCEPT ![p] = r] /\ file = Empty /\ UNCHANGED <<file, late>>
    BY <1>8 DEF Poll
  <2>2. recorders[p].polls \in 0..MaxPolls /\ recorders[p].polls < MaxPolls
    BY <1>1, <1>8 DEF Poll, PollsLeft, RecorderStates
  <2>3. r \in RecorderStates
    <3>1. polls \in 0..MaxPolls
      BY <2>2, EvidenceKeyAssumptions
    <3> QED BY <1>1, <3>1 DEF RecorderStates, Places
  <2>4. /\ recorders' \in [Recorders -> RecorderStates]
        /\ recorders'[p] = r
        /\ \A q \in Recorders : q # p => recorders'[q] = recorders[q]
    BY <1>1, <2>1, <2>3
  <2>5. r.at \in {"waiting", "giving up"} /\ (r.at = "waiting" => r.polls < MaxPolls)
    BY <2>2, EvidenceKeyAssumptions
  <2>6. late = {}
    BY <2>1, KeysAreKeys DEF LateOnTheWay
  <2> HIDE DEF r
  <2>7. TypeOK'
    BY <1>1, <2>1, <2>4 DEF TypeOK, RecorderStates, Places
  <2>8. OneKey' /\ OneWriter'
    BY <2>1, <2>4, <2>5 DEF OneKey, OneWriter, LoadKey
  <2>9. LateOnTheWay'
    BY <2>1, <2>6 DEF LateOnTheWay
  <2>10. PollsLeft'
    BY <2>4, <2>5 DEF PollsLeft
  <2> QED BY <2>7, <2>8, <2>9, <2>10
<1>9. ASSUME NEW p \in Recorders, GiveUp(p) \/ HookGiveUp(p) PROVE IInv'
  <2>1. p \notin late
    BY <1>9, KeysAreKeys DEF GiveUp, HookGiveUp, LateOnTheWay
  <2> QED BY <1>3, <1>9, <2>1 DEF GiveUp, HookGiveUp, Places, Ended, On
<1>10. ASSUME NEW p \in Recorders, ReadKey(p) PROVE IInv'
  BY <1>4, <1>10 DEF ReadKey
<1>11. ASSUME NEW p \in Recorders, Crash(p) PROVE IInv'
  BY <1>3, <1>11 DEF Crash, Places, Ended, On
<1>12. CASE UNCHANGED vars
  BY <1>12 DEF vars, TypeOK, OneKey, OneWriter, LateOnTheWay, LoadKey, PollsLeft
<1> QED
  BY <1>2, <1>5, <1>6, <1>7, <1>8, <1>9, <1>10, <1>11, <1>12 DEF Next, Work

LEMMA KeyInv == Spec => []IInv
BY InvInit, InvStep, PTL DEF Spec

(* The file is absent, empty or holds one key; a recorder polls no more    *)
(* often than load_key_waiting allows.                                     *)
THEOREM EvidenceKeyTypes == Spec => []TypeOK
BY KeyInv, PTL DEF IInv

(* Whoever signs, signs with the key that is in the file and stays there,  *)
(* for any number of recorders that create it at the same time, any number *)
(* of polls, and whoever of them is killed.                                *)
THEOREM OneKeySigns == Spec => []OneKey
BY KeyInv, PTL DEF IInv

(* A recorder that begins once the key is there never fails for want of    *)
(* it: what could make it fail, an empty file, never comes back.           *)
THEOREM LateRecordersSign == Spec => []LateNeverFails
<1>1. IInv => LateNeverFails
  BY DEF IInv, LateOnTheWay, LateNeverFails
<1> QED BY KeyInv, <1>1, PTL

-----------------------------------------------------------------------------
(* The refinement *)

Signatures ==
    {[by |-> p, key |-> recorders[p].key] : p \in {q \in Recorders : recorders[q].at = "signed"}}

Shared == INSTANCE SharedKey WITH Signers <- Recorders, chosen <- LoadKey, signatures <- Signatures

(* The key file, the polls and the race keep the promise of the key: one   *)
(* key, chosen by the first signer, with which all sign and which stays.   *)
KeyRefined == Shared!KeySpec

LEMMA KeyRefinesInit == Init => Shared!KeyInit
BY KeysAreKeys DEF Init, Shared!KeyInit, Signatures, LoadKey

(* A signer adds its signature and leaves the others'. *)
LEMMA SignatureAdded ==
    ASSUME NEW p \in Recorders, NEW key, recorders[p].at # "signed",
           recorders'[p].at = "signed", recorders'[p].key = key,
           \A q \in Recorders : q # p => recorders'[q] = recorders[q]
    PROVE  /\ Signatures' = Signatures \cup {[by |-> p, key |-> key]}
           /\ \A made \in Signatures : made.by # p
<1>1. Signatures' \subseteq Signatures \cup {[by |-> p, key |-> key]}
  BY DEF Signatures
<1>2. Signatures \subseteq Signatures'
  BY DEF Signatures
<1>3. [by |-> p, key |-> key] \in Signatures'
  BY DEF Signatures
<1>4. \A made \in Signatures : made.by # p
  BY DEF Signatures
<1> QED BY <1>1, <1>2, <1>3, <1>4

(* Who neither signs nor has signed leaves the signatures alone. *)
LEMMA SignaturesKept ==
    ASSUME NEW p \in Recorders, recorders[p].at # "signed", recorders'[p].at # "signed",
           \A q \in Recorders : q # p => recorders'[q] = recorders[q]
    PROVE  Signatures' = Signatures
<1>1. Signatures' \subseteq Signatures
  BY DEF Signatures
<1>2. Signatures \subseteq Signatures'
  BY DEF Signatures
<1> QED BY <1>1, <1>2

LEMMA KeyRefinesStep ==
    IInv /\ [Next]_vars => [\E p \in Recorders : Shared!Sign(p)]_<<LoadKey, Signatures>>
<1> SUFFICES ASSUME IInv, [Next]_vars
             PROVE  \/ \E p \in Recorders : Shared!Sign(p)
                    \/ LoadKey' = LoadKey /\ Signatures' = Signatures
  OBVIOUS
<1> USE DEF IInv
(* Someone moves to a place where it has not signed. *)
<1>1. ASSUME NEW p \in Recorders, NEW where \in Places \ {"signed"}, Goes(p, where),
             recorders[p].at # "signed"
      PROVE  Signatures' = Signatures
  <2>1. /\ recorders'[p].at = where
        /\ \A q \in Recorders : q # p => recorders'[q] = recorders[q]
    BY <1>1, GoesMoves
  <2> QED BY <1>1, <2>1, SignaturesKept
<1>2. ASSUME NEW p \in Recorders, LoadKey # NoKey, recorders[p].at # "signed",
             Signs(p, LoadKey), UNCHANGED file
      PROVE  Shared!Sign(p)
  <2>1. LoadKey \in Keys /\ LoadKey' = LoadKey
    BY <1>2 DEF LoadKey
  <2>2. /\ recorders'[p].at = "signed" /\ recorders'[p].key = LoadKey
        /\ \A q \in Recorders : q # p => recorders'[q] = recorders[q]
    BY <1>2, <2>1, SignsMoves
  <2>3. /\ Signatures' = Signatures \cup {[by |-> p, key |-> LoadKey]}
        /\ \A made \in Signatures : made.by # p
    BY <1>2, <2>2, SignatureAdded
  <2> QED BY <1>2, <2>1, <2>3 DEF Shared!Sign
<1>3. ASSUME NEW p \in Recorders, WriteKey(p) PROVE Shared!Sign(p)
  <2>1. p \in Keys /\ file = Empty /\ file' = p
    BY <1>3 DEF WriteKey, OneWriter, Keys
  <2>2. LoadKey = NoKey /\ LoadKey' = p
    BY <2>1, KeysAreKeys DEF LoadKey
  <2>3. /\ recorders'[p].at = "signed" /\ recorders'[p].key = p
        /\ \A q \in Recorders : q # p => recorders'[q] = recorders[q]
    BY <1>3, <2>1, SignsMoves DEF WriteKey
  <2>4. /\ Signatures' = Signatures \cup {[by |-> p, key |-> p]}
        /\ \A made \in Signatures : made.by # p
    BY <1>3, <2>3, SignatureAdded DEF WriteKey
  <2> QED BY <2>1, <2>2, <2>4 DEF Shared!Sign
<1>4. ASSUME NEW p \in Recorders, HookLook(p)
      PROVE  Shared!Sign(p) \/ (LoadKey' = LoadKey /\ Signatures' = Signatures)
  <2>1. CASE LoadKey = NoKey
    BY <1>1, <1>4, <2>1 DEF HookLook, Places, LoadKey
  <2>2. CASE LoadKey # NoKey
    BY <1>2, <1>4, <2>2 DEF HookLook
  <2> QED BY <2>1, <2>2
<1>5. ASSUME NEW p \in Recorders, CreateKey(p)
      PROVE  LoadKey' = LoadKey /\ Signatures' = Signatures
  <2>1. LoadKey' = LoadKey
    BY <1>5, KeysAreKeys DEF CreateKey, LoadKey
  <2>2. Signatures' = Signatures
    BY <1>1, <1>5 DEF CreateKey, Places
  <2> QED BY <2>1, <2>2
<1>6. ASSUME NEW p \in Recorders, Poll(p)
      PROVE  LoadKey' = LoadKey /\ Signatures' = Signatures
  <2>1. /\ recorders'[p].at # "signed"
        /\ \A q \in Recorders : q # p => recorders'[q] = recorders[q]
    BY <1>6 DEF Poll, TypeOK
  <2> QED BY <1>6, <2>1, SignaturesKept DEF Poll, LoadKey
<1>7. ASSUME NEW p \in Recorders,
             Begin(p) \/ Look(p) \/ GiveUp(p) \/ HookGiveUp(p) \/ Crash(p)
      PROVE  LoadKey' = LoadKey /\ Signatures' = Signatures
  <2>1. LoadKey' = LoadKey
    BY <1>7 DEF Begin, Look, GiveUp, HookGiveUp, Crash, LoadKey
  <2>2. PICK where \in Places \ {"signed"} : Goes(p, where) /\ recorders[p].at # "signed"
    BY <1>7 DEF Begin, Look, GiveUp, HookGiveUp, Crash, Places, Ended
  <2> QED BY <1>1, <2>1, <2>2
<1>8. ASSUME NEW p \in Recorders, ReadKey(p) PROVE Shared!Sign(p)
  BY <1>2, <1>8 DEF ReadKey
<1>9. CASE UNCHANGED vars
  BY <1>9 DEF vars, LoadKey, Signatures
<1> QED
  BY <1>3, <1>4, <1>5, <1>6, <1>7, <1>8, <1>9 DEF Next, Work

(* The recorders implement the shared key, however many race to create it  *)
(* and whoever of them is killed: a chosen key is not replaced or lost.    *)
THEOREM KeyImplemented == Spec => KeyRefined
<1>1. Spec => Init /\ [][Next]_vars
  BY DEF Spec
<1> QED
  BY <1>1, KeyRefinesInit, KeyRefinesStep, KeyInv, PTL
  DEF KeyRefined, Shared!KeySpec, Shared!keyVars

-----------------------------------------------------------------------------
(* What EveryRecorderEnds rests on *)

(* The guard of Work(p), written out. *)
CanGo(p) ==
    \/ recorders[p].at \in {"looking", "creating", "writing", "giving up"}
    \/ recorders[p].at = "waiting" /\ file # Absent

(* Nobody waits for another: whoever has begun and not ended can go on, in *)
(* whatever state a killed creator left the file.                          *)
NobodyStuck == \A p \in Recorders : recorders[p].at \notin Ended \cup {"new"} => CanGo(p)

(* Who waits for the key waits for a file that is there. *)
WaitedForIsThere == \A p \in Recorders : recorders[p].at = "waiting" => file # Absent

(* How many steps a recorder has before it at most. *)
StepsLeft(r) ==
    CASE r.at = "new"       -> MaxPolls + 5
      [] r.at = "looking"   -> MaxPolls + 4
      [] r.at = "creating"  -> MaxPolls + 3
      [] r.at = "waiting"   -> MaxPolls + 2 - r.polls
      [] r.at \in {"writing", "giving up"} -> 1
      [] r.at \in Ended     -> 0

(* Whatever happens, a recorder stays where it is or comes nearer its end. *)
ComesNearer ==
    \A p \in Recorders :
        \/ recorders'[p] = recorders[p]
        \/ StepsLeft(recorders'[p]) < StepsLeft(recorders[p])

LEMMA WaitedForStep ==
    IInv /\ WaitedForIsThere /\ [Next]_vars => WaitedForIsThere'
<1> SUFFICES ASSUME IInv, WaitedForIsThere, [Next]_vars PROVE WaitedForIsThere'
  OBVIOUS
<1>1. /\ TypeOK
      /\ recorders \in [Recorders -> RecorderStates]
  BY DEF IInv, TypeOK, RecorderStates, Places
<1>2. file' = Absent => file = Absent
  <2>1. \A p \in Recorders : p # Absent /\ Empty # Absent
    BY KeysAreKeys DEF Keys, Absent, Empty
  <2> QED
    BY <2>1 DEF Next, Work, Begin, Look, HookLook, CreateKey, WriteKey, ReadKey, Poll, GiveUp,
                HookGiveUp, Crash, vars
<1>3. ASSUME NEW p \in Recorders, NEW where \in Places \ {"waiting"}, Goes(p, where)
      PROVE  WaitedForIsThere'
  BY <1>1, <1>2, <1>3, GoesMoves DEF WaitedForIsThere
<1>4. ASSUME NEW p \in Recorders, file # Absent, Goes(p, "waiting")
      PROVE  WaitedForIsThere'
  BY <1>2, <1>4 DEF WaitedForIsThere
<1>5. ASSUME NEW p \in Recorders, NEW key \in Keys, Signs(p, key)
      PROVE  WaitedForIsThere'
  BY <1>1, <1>2, <1>5, SignsMoves DEF WaitedForIsThere
<1>6. ASSUME NEW p \in Recorders, Poll(p) PROVE WaitedForIsThere'
  BY <1>2, <1>6, KeysAreKeys DEF Poll, WaitedForIsThere, Absent, Empty
<1>7. ASSUME NEW p \in Recorders, Look(p) PROVE WaitedForIsThere'
  BY <1>3, <1>4, <1>7 DEF Look, Places
<1>8. ASSUME NEW p \in Recorders, HookLook(p) PROVE WaitedForIsThere'
  BY <1>3, <1>5, <1>8 DEF HookLook, Places, LoadKey
<1>9. ASSUME NEW p \in Recorders, CreateKey(p) PROVE WaitedForIsThere'
  BY <1>3, <1>4, <1>9 DEF CreateKey, Places
<1>10. ASSUME NEW p \in Recorders, WriteKey(p) \/ ReadKey(p) PROVE WaitedForIsThere'
  BY <1>5, <1>10 DEF WriteKey, ReadKey, LoadKey, Keys
<1>11. ASSUME NEW p \in Recorders, Begin(p) \/ GiveUp(p) \/ HookGiveUp(p) \/ Crash(p)
       PROVE  WaitedForIsThere'
  BY <1>3, <1>11 DEF Begin, GiveUp, HookGiveUp, Crash, Places, Ended
<1>12. CASE UNCHANGED vars
  BY <1>12 DEF vars, WaitedForIsThere
<1> QED BY <1>6, <1>7, <1>8, <1>9, <1>10, <1>11, <1>12 DEF Next, Work

(* A recorder that has begun is never stuck: not on a file that is not     *)
(* there, nor on one that a killed creator left empty.                     *)
THEOREM RecordersGoOn == Spec => []NobodyStuck
<1>1. Init => WaitedForIsThere
  BY DEF Init, WaitedForIsThere
<1>2. IInv /\ WaitedForIsThere => NobodyStuck
  BY DEF IInv, TypeOK, WaitedForIsThere, NobodyStuck, CanGo
<1>3. Spec => Init /\ [][Next]_vars
  BY DEF Spec
<1> QED BY <1>1, <1>2, <1>3, WaitedForStep, KeyInv, PTL

LEMMA StepsLeftOf ==
    ASSUME NEW r \in RecorderStates
    PROVE  /\ r.at = "new" => StepsLeft(r) = MaxPolls + 5
           /\ r.at = "looking" => StepsLeft(r) = MaxPolls + 4
           /\ r.at = "creating" => StepsLeft(r) = MaxPolls + 3
           /\ r.at = "waiting" => StepsLeft(r) = MaxPolls + 2 - r.polls
           /\ r.at \in {"writing", "giving up"} => StepsLeft(r) = 1
           /\ r.at \in Ended => StepsLeft(r) = 0
<1>1. r.at = "new" => StepsLeft(r) = MaxPolls + 5
  BY DEF StepsLeft, Ended
<1>2. r.at = "looking" => StepsLeft(r) = MaxPolls + 4
  BY DEF StepsLeft, Ended
<1>3. r.at = "creating" => StepsLeft(r) = MaxPolls + 3
  BY DEF StepsLeft, Ended
<1>4. r.at = "waiting" => StepsLeft(r) = MaxPolls + 2 - r.polls
  BY DEF StepsLeft, Ended
<1>5. r.at \in {"writing", "giving up"} => StepsLeft(r) = 1
  BY DEF StepsLeft, Ended
<1>6. r.at \in Ended => StepsLeft(r) = 0
  BY DEF StepsLeft, Ended
<1> QED BY <1>1, <1>2, <1>3, <1>4, <1>5, <1>6

LEMMA StepsLeftIs ==
    ASSUME NEW r \in RecorderStates
    PROVE  StepsLeft(r) \in 0..(MaxPolls + 5)
<1>1. r.polls \in 0..MaxPolls /\ r.at \in Places /\ MaxPolls \in Nat
  BY EvidenceKeyAssumptions DEF RecorderStates
<1>2. StepsLeft(r) \in {MaxPolls + 5, MaxPolls + 4, MaxPolls + 3, MaxPolls + 2 - r.polls, 1, 0}
  BY <1>1, StepsLeftOf, Zenon DEF Places
<1> QED BY <1>1, <1>2

LEMMA FewerStepsLeft ==
    ASSUME NEW r \in RecorderStates, NEW next \in RecorderStates,
           \/ next.at \in Ended /\ r.at \notin Ended
           \/ next.at = "looking" /\ r.at = "new"
           \/ next.at \in {"creating", "waiting"} /\ r.at = "looking"
           \/ next.at \in {"writing", "waiting"} /\ r.at = "creating"
    PROVE  StepsLeft(next) < StepsLeft(r)
<1> DEFINE a == StepsLeft(r)
           b == StepsLeft(next)
<1>1. /\ r.polls \in 0..MaxPolls /\ r.at \in Places
      /\ next.polls \in 0..MaxPolls
      /\ MaxPolls \in Nat \ {0}
  BY EvidenceKeyAssumptions DEF RecorderStates
<1>2. CASE next.at \in Ended /\ r.at \notin Ended
  <2>1. b = 0
    BY <1>2, StepsLeftOf, Zenon
  <2>2. a \in {MaxPolls + 5, MaxPolls + 4, MaxPolls + 3, MaxPolls + 2 - r.polls, 1}
    BY <1>1, <1>2, StepsLeftOf, Zenon DEF Places
  <2> HIDE DEF a, b
  <2>3. b < a
    BY <1>1, <2>1, <2>2
  <2> QED BY <2>3 DEF a, b
<1>3. CASE next.at = "looking" /\ r.at = "new"
  <2>1. b = MaxPolls + 4 /\ a = MaxPolls + 5
    BY <1>3, StepsLeftOf, Zenon
  <2> QED BY <1>1, <2>1
<1>4. CASE next.at \in {"creating", "waiting"} /\ r.at = "looking"
  <2>1. b \in {MaxPolls + 3, MaxPolls + 2 - next.polls} /\ a = MaxPolls + 4
    BY <1>4, StepsLeftOf, Zenon
  <2> QED BY <1>1, <2>1
<1>5. CASE next.at \in {"writing", "waiting"} /\ r.at = "creating"
  <2>1. b \in {1, MaxPolls + 2 - next.polls} /\ a = MaxPolls + 3
    BY <1>5, StepsLeftOf, Zenon
  <2> QED BY <1>1, <2>1
<1> QED BY <1>2, <1>3, <1>4, <1>5

LEMMA NearerStep == IInv /\ [Next]_vars => ComesNearer
<1> SUFFICES ASSUME IInv, [Next]_vars PROVE ComesNearer
  OBVIOUS
<1> USE DEF IInv
<1>1. /\ TypeOK
      /\ recorders \in [Recorders -> RecorderStates]
      /\ MaxPolls \in Nat \ {0}
  BY EvidenceKeyAssumptions DEF TypeOK, RecorderStates, Places
<1>2. ASSUME NEW p \in Recorders, NEW r,
             \A q \in Recorders : q # p => recorders'[q] = recorders[q],
             recorders'[p] = r, StepsLeft(r) < StepsLeft(recorders[p])
      PROVE  ComesNearer
  BY <1>2 DEF ComesNearer
(* The place tells the steps left, but where the file is polled. *)
<1>3. ASSUME NEW p \in Recorders, NEW where \in Places, Goes(p, where),
             \/ where \in Ended /\ recorders[p].at \notin Ended
             \/ where = "looking" /\ recorders[p].at = "new"
             \/ where \in {"creating", "waiting"} /\ recorders[p].at = "looking"
             \/ where \in {"writing", "waiting"} /\ recorders[p].at = "creating"
      PROVE  ComesNearer
  <2>1. /\ recorders'[p].at = where
        /\ recorders[p] \in RecorderStates /\ recorders'[p] \in RecorderStates
        /\ \A q \in Recorders : q # p => recorders'[q] = recorders[q]
    BY <1>1, <1>3, GoesMoves
  <2>2. StepsLeft(recorders'[p]) < StepsLeft(recorders[p])
    BY <1>3, <2>1, FewerStepsLeft, Zenon
  <2> QED BY <1>2, <2>1, <2>2
<1>4. ASSUME NEW p \in Recorders, NEW key \in Keys, Signs(p, key), recorders[p].at \notin Ended
      PROVE  ComesNearer
  <2>1. /\ recorders'[p].at \in Ended
        /\ recorders[p] \in RecorderStates /\ recorders'[p] \in RecorderStates
        /\ \A q \in Recorders : q # p => recorders'[q] = recorders[q]
    BY <1>1, <1>4, SignsMoves DEF Ended
  <2>2. StepsLeft(recorders'[p]) < StepsLeft(recorders[p])
    BY <1>4, <2>1, FewerStepsLeft, Zenon
  <2> QED BY <1>2, <2>1, <2>2
<1>5. ASSUME NEW p \in Recorders, Poll(p) PROVE ComesNearer
  <2> DEFINE r == [at |-> IF recorders[p].polls + 1 = MaxPolls THEN "giving up" ELSE "waiting",
                   polls |-> recorders[p].polls + 1, key |-> recorders[p].key]
  <2>1. recorders'[p] = r /\ \A q \in Recorders : q # p => recorders'[q] = recorders[q]
    BY <1>1, <1>5 DEF Poll
  <2>2. recorders[p].at = "waiting" /\ recorders[p].polls \in 0..MaxPolls
        /\ recorders[p].polls < MaxPolls
    BY <1>1, <1>5 DEF Poll, PollsLeft, RecorderStates
  <2>3. StepsLeft(r) < StepsLeft(recorders[p])
    BY <1>1, <2>2 DEF StepsLeft, Ended
  <2> QED BY <1>2, <2>1, <2>3
<1>6. ASSUME NEW p \in Recorders, Begin(p) \/ Look(p) \/ CreateKey(p) PROVE ComesNearer
  BY <1>3, <1>6 DEF Begin, Look, CreateKey, Places
<1>7. ASSUME NEW p \in Recorders, GiveUp(p) \/ HookGiveUp(p) \/ Crash(p) PROVE ComesNearer
  BY <1>3, <1>7 DEF GiveUp, HookGiveUp, Crash, Places, Ended
<1>8. ASSUME NEW p \in Recorders, HookLook(p) \/ ReadKey(p) \/ WriteKey(p) PROVE ComesNearer
  BY <1>3, <1>4, <1>8 DEF HookLook, ReadKey, WriteKey, LoadKey, Keys, Places, Ended
<1>9. CASE UNCHANGED vars
  BY <1>9 DEF vars, ComesNearer
<1> QED BY <1>5, <1>6, <1>7, <1>8, <1>9 DEF Next, Work

(* A recorder takes at most MaxPolls + 5 steps, however often the others   *)
(* take theirs: each step is one less, and others' do not set it back.     *)
THEOREM RecordersComeNearer ==
    Spec => /\ [](\A p \in Recorders : StepsLeft(recorders[p]) \in 0..(MaxPolls + 5))
            /\ [][ComesNearer]_vars
<1>1. IInv => \A p \in Recorders : StepsLeft(recorders[p]) \in 0..(MaxPolls + 5)
  BY StepsLeftIs DEF IInv, TypeOK, RecorderStates, Places
<1>2. Spec => Init /\ [][Next]_vars
  BY DEF Spec
<1> QED BY <1>1, <1>2, NearerStep, KeyInv, PTL

=============================================================================
