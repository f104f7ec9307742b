------------------------------ MODULE Payment ------------------------------
(***************************************************************************)
(* What the QR scenarios promise about an intent, with no QR, request or   *)
(* account: terms are proposed once and never change; an open proposal is  *)
(* either paid, once, exactly on those terms and by the person they name,  *)
(* or dropped for good, together with others if need be.  WalletQr         *)
(* implements it.                                                          *)
(***************************************************************************)

CONSTANT Ids

VARIABLES offer,     \* id -> [state, payer, payee, amount, confirmer]
          paid       \* the payments made

vars == <<offer, paid>>

Open(i) == offer[i].state = "open"

Init ==
  /\ \A i \in Ids : offer[i].state = "none"
  /\ paid = {}

(* New terms are whatever the step gives them. *)
Propose(i) ==
  /\ offer[i].state = "none"
  /\ offer'[i].state = "open"
  /\ offer' = [offer EXCEPT ![i] = offer'[i]]
  /\ UNCHANGED paid

Pay(i) ==
  /\ Open(i)
  /\ offer' = [offer EXCEPT ![i].state = "paid"]
  /\ paid' = paid \cup {[id |-> i, by |-> offer[i].confirmer, from |-> offer[i].payer,
                         to |-> offer[i].payee, amount |-> offer[i].amount]}

Drop(D) ==
  /\ \A i \in D : Open(i)
  /\ offer' = [i \in Ids |-> IF i \in D THEN [offer[i] EXCEPT !.state = "dropped"]
                                        ELSE offer[i]]
  /\ UNCHANGED paid

Next ==
  \/ \E i \in Ids : Propose(i) \/ Pay(i)
  \/ \E D \in SUBSET Ids : Drop(D)

Spec == Init /\ [][Next]_vars
=============================================================================
