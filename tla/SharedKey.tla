----------------------------- MODULE SharedKey -----------------------------
(***************************************************************************)
(* What the key promises to those who verify evidence, without a file and  *)
(* the race to create it.  The first signer chooses the key, among those   *)
(* the signers would create; it is never replaced or lost, and every       *)
(* signature is made with it.  EvidenceKey is shown to implement this      *)
(* specification.                                                          *)
(***************************************************************************)
CONSTANTS Signers, Keys,
          NoKey      \* the key while none is chosen

VARIABLES chosen,    \* the key
          signatures \* who has signed, and with which key

keyVars == <<chosen, signatures>>

Sign(p) ==
    /\ \A made \in signatures : made.by # p
    /\ IF chosen = NoKey THEN chosen' \in Keys ELSE UNCHANGED chosen
    /\ signatures' = signatures \cup {[by |-> p, key |-> chosen']}

KeyInit == chosen = NoKey /\ signatures = {}

KeySpec == KeyInit /\ [][\E p \in Signers : Sign(p)]_keyVars
=============================================================================
