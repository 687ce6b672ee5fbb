---------------------------- MODULE ExtremaProofs ----------------------------
(***************************************************************************)
(* Sets of natural numbers have a least element and, if they are bounded,  *)
(* a greatest: what the first and last task of an id, the next task, the   *)
(* latest iteration of the verdicts, the last QA outcome in the log and    *)
(* every induction of these proofs rest on.                                *)
(***************************************************************************)
EXTENDS Naturals, FiniteSetsExt, WellFoundedInduction, TLAPS

LEMMA LeastExists ==
    ASSUME NEW S \in SUBSET Nat, S # {}
    PROVE  \E i \in S : \A j \in S : i <= j
<1>1. PICK i \in S : \A j \in S : ~(<<j, i>> \in OpToRel(<, Nat))
  BY NatLessThanWellFounded, WFMin
<1>2. \A j \in S : ~(j < i)
  BY <1>1 DEF OpToRel
<1> QED BY <1>2

(* It is n less the least distance to n. *)
LEMMA GreatestExists ==
    ASSUME NEW n \in Nat, NEW S \in SUBSET (0..n), S # {}
    PROVE  \E i \in S : \A j \in S : i >= j
<1> DEFINE D == {n - i : i \in S}
<1>1. D \subseteq Nat /\ D # {}
  <2>1. \A i \in S : n - i \in Nat
    OBVIOUS
  <2> QED BY <2>1
<1>2. PICK d \in D : \A e \in D : ~(<<e, d>> \in OpToRel(<, Nat))
  BY <1>1, NatLessThanWellFounded, WFMin
<1>3. \A e \in D : ~(e < d)
  BY <1>1, <1>2 DEF OpToRel
<1>4. PICK i \in S : d = n - i
  BY <1>2
<1>5. ASSUME NEW j \in S PROVE i >= j
  <2>1. n - j \in D
    OBVIOUS
  <2>2. ~(n - j < n - i)
    BY <1>3, <1>4, <2>1
  <2> QED BY <2>2
<1> QED BY <1>5

LEMMA MaxIsLatest ==
    ASSUME NEW n \in Nat, NEW S \in SUBSET (0..n), S # {}
    PROVE  Max(S) \in S /\ \A j \in S : Max(S) >= j
BY GreatestExists DEF Max

(* Induction up to n, with a set in the place of the statement: a number   *)
(* outside the set would have a least one.                                 *)
LEMMA InductionUpTo ==
    ASSUME NEW n \in Nat, NEW S, 0 \in S, \A k \in 0..n : k \in S /\ k + 1 <= n => k + 1 \in S
    PROVE  \A k \in 0..n : k \in S
<1> DEFINE Missed == {k \in 0..n : k \notin S}
<1> SUFFICES ASSUME Missed # {} PROVE FALSE
  OBVIOUS
<1>0. Missed \in SUBSET Nat
  OBVIOUS
<1>1. PICK i \in Missed : \A j \in Missed : i <= j
  BY <1>0, LeastExists, Zenon
<1>2. i \in 1..n
  OBVIOUS
<1>3. i - 1 \in 0..n /\ (i - 1) + 1 = i
  BY <1>2
<1>4. i - 1 \in S
  BY <1>1, <1>3
<1> QED BY <1>1, <1>2, <1>3, <1>4
=============================================================================
