------------------------- MODULE TransactionsProofs -------------------------
(***************************************************************************)
(* Theorems about WalletQr and about the two parts of MCTransactions.       *)
(*                                                                         *)
(* QR sessions and intents: a claimed QR always has an intent behind it,   *)
(* and intents are payments on fixed terms, for any number of users, QRs,  *)
(* intents, keys, amounts and seasons (WalletQr).  A reset has the wallets *)
(* to itself, for any number of connections and any transactions, and      *)
(* transactions in order never wait in a circle (WalletLocks).  Wallets    *)
(* can be reached and sessions follow accounts, for any number of accounts, *)
(* profiles, numbers and requests (Profiles).                              *)
(***************************************************************************)
EXTENDS WalletQr, MCTransactions, FiniteSetTheorems, Sequences, TLAPS

(* What rows look like, and the rows other rows refer to. *)
RowsTyped ==
  /\ season \in Season
  /\ qr \in [QrIds -> {NoQr} \cup Qr]
  /\ intent \in [IntentIds -> {NoIntent} \cup Intent]

IntentHasItsQr == \A i \in IntentIds : Created(i) => Exists(intent[i].qr)

(* UNIQUE (qr_session_id). *)
OneIntentPerQr ==
  \A i, j \in IntentIds :
     Created(i) /\ Created(j) /\ intent[i].qr = intent[j].qr => i = j

(* A live QR is of the active season: POST /wallet/qr compares the season  *)
(* under the lock, and the reset expires all the others.                   *)
LiveQrIsCurrent ==
  \A q \in QrIds : qr[q].status \in LiveQr => qr[q].season = season

(* What the status of a QR says of its intent. *)
ClaimedIsAwaited ==
  \A q \in QrIds : qr[q].status = "claimed" =>
    \E i \in IntentIds : Created(i) /\ intent[i].qr = q /\ Pending(i)

ConsumedIsPaid ==
  \A q \in QrIds : qr[q].status = "consumed" =>
    \E i \in IntentIds : Created(i) /\ intent[i].qr = q /\ intent[i].status = "completed"

PaidIsConsumed ==
  \A i \in IntentIds :
    intent[i].status = "completed" => qr[intent[i].qr].status = "consumed"

Rows == RowsTyped /\ IntentHasItsQr /\ OneIntentPerQr /\ LiveQrIsCurrent
QrInv ==
  Rows /\ OneLiveQrPerUser /\ ClaimedIsAwaited /\ ConsumedIsPaid /\ PaidIsConsumed

-----------------------------------------------------------------------------
(* Rows *)

LEMMA QrRow ==
  ASSUME RowsTyped, NEW q \in QrIds
  PROVE  /\ Exists(q) <=> qr[q].status # "none"
         /\ Exists(q) <=> qr[q] \in Qr
         /\ Exists(q) => qr[q].status \in QrStatus
BY DEF RowsTyped, Exists, Qr, NoQr, QrStatus

LEMMA IntentRow ==
  ASSUME RowsTyped, NEW i \in IntentIds
  PROVE  /\ Created(i) <=> intent[i].status # "none"
         /\ Created(i) <=> intent[i] \in Intent
         /\ Created(i) => intent[i].status \in IntentStatus /\ intent[i].qr \in QrIds
         /\ Pending(i) => Created(i)
BY DEF RowsTyped, Created, Pending, Intent, NoIntent, IntentStatus, Awaiting

(* Confirm, reject and expire give one intent and its QR a new status: the *)
(* intent is over, and the QR is consumed exactly if it was paid, never    *)
(* claimed, and alive only if it was.                                      *)
Relabels(i, s, t) ==
  /\ Created(i) /\ intent[i].status # "completed"
  /\ SetIntent(i, s) /\ SetQr(intent[i].qr, t)
  /\ UNCHANGED season
  /\ s \in IntentStatus \ Awaiting /\ t \in QrStatus \ {"claimed"}
  /\ s = "completed" <=> t = "consumed"
  /\ t \in LiveQr => qr[intent[i].qr].status \in LiveQr

LEMMA StatusesSet ==
  ASSUME RowsTyped, IntentHasItsQr, NEW i \in IntentIds, Created(i),
         NEW s \in IntentStatus, NEW t \in QrStatus,
         SetIntent(i, s), SetQr(intent[i].qr, t)
  PROVE  /\ intent' \in [IntentIds -> {NoIntent} \cup Intent]
         /\ qr' \in [QrIds -> {NoQr} \cup Qr]
         /\ intent'[i] = [intent[i] EXCEPT !.status = s]
         /\ \A j \in IntentIds : j # i => intent'[j] = intent[j]
         /\ qr'[intent[i].qr] = [qr[intent[i].qr] EXCEPT !.status = t]
         /\ \A q \in QrIds : q # intent[i].qr => qr'[q] = qr[q]
<1>1. intent[i] \in Intent /\ intent[i].qr \in QrIds /\ qr[intent[i].qr] \in Qr
  BY QrRow, IntentRow DEF IntentHasItsQr
<1>2. [intent[i] EXCEPT !.status = s] \in Intent
  BY <1>1 DEF Intent
<1>3. [qr[intent[i].qr] EXCEPT !.status = t] \in Qr
  BY <1>1 DEF Qr
<1> QED BY <1>1, <1>2, <1>3 DEF RowsTyped, SetIntent, SetQr

-----------------------------------------------------------------------------
(* QRs and their intents *)

LEMMA RelabelsKeeps ==
  ASSUME QrInv, NEW i \in IntentIds, NEW s, NEW t, Relabels(i, s, t)
  PROVE  QrInv'
<1> DEFINE q0 == intent[i].qr
<1>1. /\ intent' \in [IntentIds -> {NoIntent} \cup Intent]
      /\ qr' \in [QrIds -> {NoQr} \cup Qr]
      /\ intent'[i] = [intent[i] EXCEPT !.status = s]
      /\ \A j \in IntentIds : j # i => intent'[j] = intent[j]
      /\ qr'[q0] = [qr[q0] EXCEPT !.status = t]
      /\ \A q \in QrIds : q # q0 => qr'[q] = qr[q]
  BY StatusesSet DEF QrInv, Rows, Relabels
<1>2. RowsTyped'
  BY <1>1 DEF QrInv, Rows, RowsTyped, Relabels
<1>3. /\ Created(i) /\ intent[i] \in Intent /\ q0 \in QrIds /\ qr[q0] \in Qr
      /\ intent'[i].status = s /\ intent'[i].qr = q0
      /\ qr'[q0].status = t /\ qr'[q0].owner = qr[q0].owner /\ qr'[q0].season = qr[q0].season
  BY <1>1, QrRow, IntentRow DEF QrInv, Rows, IntentHasItsQr, Relabels, Intent, Qr
<1>4. /\ \A j \in IntentIds : (Created(j))' <=> Created(j)
      /\ \A j \in IntentIds : Created(j) => intent'[j].qr = intent[j].qr
      /\ \A q \in QrIds : (Exists(q))' <=> Exists(q)
  <2>1. intent'[i] # NoIntent /\ qr'[q0] # NoQr
    BY <1>3 DEF NoIntent, NoQr, Relabels, IntentStatus, QrStatus, Awaiting
  <2>2. Exists(q0)
    BY <1>3 DEF QrInv, Rows, IntentHasItsQr
  <2> QED BY <1>1, <1>3, <2>1, <2>2 DEF Created, Exists
<1>5. IntentHasItsQr' /\ OneIntentPerQr'
  BY <1>4, IntentRow DEF QrInv, Rows, IntentHasItsQr, OneIntentPerQr
<1>6. LiveQrIsCurrent' /\ OneLiveQrPerUser'
  <2>1. \A q \in QrIds : qr'[q].status \in LiveQr =>
          qr[q].status \in LiveQr /\ qr'[q].owner = qr[q].owner /\ qr'[q].season = qr[q].season
    BY <1>1, <1>3 DEF Relabels
  <2>2. season' = season
    BY DEF Relabels
  <2> QED BY <2>1, <2>2 DEF QrInv, Rows, LiveQrIsCurrent, OneLiveQrPerUser
<1>7. ASSUME NEW q \in QrIds, q # q0, NEW j \in IntentIds, Created(j), intent[j].qr = q
      PROVE  intent'[j] = intent[j] /\ (Created(j))'
  BY <1>1, <1>4, <1>7
<1>8. ClaimedIsAwaited'
  <2> SUFFICES ASSUME NEW q \in QrIds, qr'[q].status = "claimed"
               PROVE  \E j \in IntentIds : (Created(j) /\ intent[j].qr = q /\ Pending(j))'
    BY DEF ClaimedIsAwaited
  <2>1. q # q0 /\ qr[q].status = "claimed"
    BY <1>1, <1>3 DEF Relabels
  <2>2. PICK j \in IntentIds : Created(j) /\ intent[j].qr = q /\ Pending(j)
    BY <2>1 DEF QrInv, ClaimedIsAwaited
  <2> QED BY <1>7, <2>1, <2>2 DEF Pending
<1>9. ConsumedIsPaid'
  <2> SUFFICES ASSUME NEW q \in QrIds, qr'[q].status = "consumed"
               PROVE  \E j \in IntentIds :
                        (Created(j) /\ intent[j].qr = q /\ intent[j].status = "completed")'
    BY DEF ConsumedIsPaid
  <2>1. CASE q = q0
    BY <1>3, <1>4, <2>1 DEF Relabels
  <2>2. CASE q # q0
    <3>1. PICK j \in IntentIds :
            Created(j) /\ intent[j].qr = q /\ intent[j].status = "completed"
      BY <1>1, <2>2 DEF QrInv, ConsumedIsPaid
    <3> QED BY <1>7, <2>2, <3>1
  <2> QED BY <2>1, <2>2
<1>10. PaidIsConsumed'
  <2> SUFFICES ASSUME NEW j \in IntentIds, intent'[j].status = "completed"
               PROVE  qr'[intent'[j].qr].status = "consumed"
    BY DEF PaidIsConsumed
  <2>1. CASE j = i
    BY <1>3, <2>1 DEF Relabels
  <2>2. CASE j # i
    <3>1. Created(j) /\ intent[j].qr \in QrIds /\ intent'[j] = intent[j]
      BY <1>1, <2>2, IntentRow DEF QrInv, Rows, IntentStatus
    <3>2. intent[j].qr # q0
      BY <1>3, <2>2, <3>1 DEF QrInv, Rows, OneIntentPerQr
    <3> QED BY <1>1, <3>1, <3>2 DEF QrInv, PaidIsConsumed
  <2> QED BY <2>1, <2>2
<1> QED BY <1>2, <1>5, <1>6, <1>8, <1>9, <1>10 DEF QrInv, Rows

LEMMA ConfirmRelabels ==
  ASSUME QrInv, NEW u \in Users, NEW i \in IntentIds, Confirm(u, i)
  PROVE  Relabels(i, "completed", "consumed")
BY DEF Confirm, Relabels, MayConfirm, Pending, Awaiting, IntentStatus, QrStatus, LiveQr

LEMMA ExpireRelabels ==
  ASSUME QrInv, NEW u \in Users, NEW i \in IntentIds, ExpireOnConfirm(u, i)
  PROVE  Relabels(i, "expired", "expired")
BY DEF ExpireOnConfirm, Relabels, Awaiting, IntentStatus, QrStatus, LiveQr, ledgerVars

(* The QR of an intent that waits is not consumed: the one intent it has   *)
(* was not paid.                                                           *)
LEMMA RejectRelabels ==
  ASSUME QrInv, NEW u \in Users, NEW i \in IntentIds, Reject(u, i)
  PROVE  Relabels(i, "rejected", AfterReject(u, i))
<1>1. /\ Created(i) /\ Pending(i) /\ intent[i].qr \in QrIds
      /\ qr[intent[i].qr].status \in QrStatus
  BY IntentRow, QrRow DEF QrInv, Rows, IntentHasItsQr, Reject
<1>2. qr[intent[i].qr].status # "consumed"
  BY <1>1 DEF QrInv, Rows, ConsumedIsPaid, OneIntentPerQr, Pending, Awaiting
<1>3. /\ AfterReject(u, i) \in QrStatus \ {"claimed", "consumed"}
      /\ AfterReject(u, i) \in LiveQr => qr[intent[i].qr].status \in LiveQr
  BY <1>1, <1>2 DEF AfterReject, QrStatus, LiveQr
<1> QED BY <1>1, <1>3 DEF Reject, Relabels, Pending, Awaiting, IntentStatus, ledgerVars

(* POST /wallet/qr: the new QR has no intent yet, and the user's other     *)
(* QRs are no longer alive.                                                *)
LEMMA CreateQrKeeps ==
  ASSUME QrInv, NEW u \in Users, NEW p \in QrIds, CreateQr(u, p)
  PROVE  QrInv'
<1>1. /\ intent' = intent /\ season' = season /\ ~Exists(p)
      /\ qr' = [q \in QrIds |->
                  IF q = p THEN [status |-> "active", owner |-> u, season |-> season]
                  ELSE IF qr[q].status \in LiveQr /\ qr[q].owner = u
                       THEN [qr[q] EXCEPT !.status = "cancelled"] ELSE qr[q]]
  BY DEF CreateQr, NextQr, ledgerVars
<1>2. \A q \in QrIds : q # p /\ qr[q].status \in LiveQr => qr[q] \in Qr
  BY QrRow DEF QrInv, Rows, LiveQr
<1>3. RowsTyped'
  <2>1. \A q \in QrIds : qr'[q] \in {NoQr} \cup Qr
    <3> SUFFICES ASSUME NEW q \in QrIds PROVE qr'[q] \in {NoQr} \cup Qr
      OBVIOUS
    <3>1. season \in Season /\ qr[q] \in {NoQr} \cup Qr
      BY DEF QrInv, Rows, RowsTyped
    <3>2. CASE q = p
      BY <1>1, <3>1, <3>2 DEF Qr, QrStatus
    <3>3. CASE q # p /\ qr[q].status \in LiveQr /\ qr[q].owner = u
      BY <1>1, <1>2, <3>3 DEF Qr, QrStatus
    <3>4. CASE q # p /\ ~(qr[q].status \in LiveQr /\ qr[q].owner = u)
      BY <1>1, <3>1, <3>4
    <3> QED BY <3>2, <3>3, <3>4
  <2> QED BY <1>1, <2>1 DEF QrInv, Rows, RowsTyped
<1>4. /\ qr'[p].status = "active" /\ qr'[p].owner = u /\ qr'[p].season = season
      /\ qr'[p] # NoQr
  BY <1>1 DEF NoQr
<1>5. ASSUME NEW q \in QrIds, q # p
      PROVE  /\ (Exists(q))' <=> Exists(q)
             /\ qr'[q].status \in LiveQr =>
                  qr[q].status \in LiveQr /\ qr[q].owner # u /\ qr'[q] = qr[q]
             /\ qr'[q].status \in {"claimed", "consumed"} => qr'[q] = qr[q]
             /\ qr[q].status = "consumed" => qr'[q] = qr[q]
  <2>1. CASE qr[q].status \in LiveQr /\ qr[q].owner = u
    <3>1. qr[q] \in Qr /\ qr'[q] = [qr[q] EXCEPT !.status = "cancelled"]
      BY <1>1, <1>2, <1>5, <2>1
    <3>2. qr'[q].status = "cancelled"
      BY <3>1 DEF Qr
    <3> QED BY <2>1, <3>1, <3>2, QrRow DEF QrInv, Rows, Exists, NoQr, LiveQr
  <2>2. CASE ~(qr[q].status \in LiveQr /\ qr[q].owner = u)
    BY <1>1, <1>5, <2>2 DEF Exists
  <2> QED BY <2>1, <2>2
<1>6. \A i \in IntentIds : Created(i) => intent[i].qr # p /\ intent[i].qr \in QrIds
  BY <1>1, IntentRow DEF QrInv, Rows, IntentHasItsQr
<1>7. /\ \A i \in IntentIds : (Created(i))' <=> Created(i)
      /\ \A i \in IntentIds : (Pending(i))' <=> Pending(i)
  BY <1>1 DEF Created, Pending
<1>8. IntentHasItsQr' /\ OneIntentPerQr'
  BY <1>1, <1>5, <1>6, <1>7 DEF QrInv, Rows, IntentHasItsQr, OneIntentPerQr
<1>9. LiveQrIsCurrent' /\ OneLiveQrPerUser'
  BY <1>1, <1>4, <1>5 DEF QrInv, Rows, LiveQrIsCurrent, OneLiveQrPerUser
<1>10. ClaimedIsAwaited'
  BY <1>1, <1>4, <1>5, <1>7 DEF QrInv, ClaimedIsAwaited
<1>11. ConsumedIsPaid'
  BY <1>1, <1>4, <1>5, <1>7 DEF QrInv, ConsumedIsPaid
<1>12. PaidIsConsumed'
  <2>1. \A i \in IntentIds : intent[i].status = "completed" => Created(i)
    BY IntentRow DEF QrInv, Rows
  <2> QED BY <1>1, <1>5, <1>6, <2>1 DEF QrInv, PaidIsConsumed
<1> QED BY <1>3, <1>8, <1>9, <1>10, <1>11, <1>12 DEF QrInv, Rows

(* DELETE /wallet/qr/:id and the reset end live QRs, Q, and waiting        *)
(* intents, I; a QR that stays alive keeps its intent, and its season.     *)
Withdraws(Q, I, s, t) ==
  /\ s \in {"cancelled", "expired"} /\ t \in {"cancelled", "expired"}
  /\ \A q \in Q : qr[q].status \in LiveQr
  /\ \A i \in I : Pending(i)
  /\ intent' = [i \in IntentIds |-> IF i \in I THEN [intent[i] EXCEPT !.status = s]
                                               ELSE intent[i]]
  /\ qr' = [q \in QrIds |-> IF q \in Q THEN [qr[q] EXCEPT !.status = t] ELSE qr[q]]
  /\ season' \in Season
  /\ \A q \in QrIds \ Q : qr[q].status \in LiveQr =>
       season' = season /\ \A i \in I : intent[i].qr # q

LEMMA WithdrawsKeeps ==
  ASSUME QrInv, NEW Q \in SUBSET QrIds, NEW I \in SUBSET IntentIds, NEW s, NEW t,
         Withdraws(Q, I, s, t)
  PROVE  QrInv'
<1>1. /\ \A i \in I : /\ Created(i) /\ intent[i] \in Intent
                      /\ intent[i].status \in Awaiting
      /\ \A q \in Q : qr[q] \in Qr /\ qr[q].status \in LiveQr
  BY IntentRow, QrRow DEF QrInv, Rows, Withdraws, Pending, LiveQr
<1>2. ASSUME NEW i \in I
      PROVE  /\ intent'[i] \in Intent /\ intent'[i].status = s /\ intent'[i].qr = intent[i].qr
             /\ intent'[i] # NoIntent
  <2>1. intent'[i] = [intent[i] EXCEPT !.status = s] /\ s \in IntentStatus
    BY DEF Withdraws, IntentStatus
  <2> QED BY <1>1, <2>1 DEF Intent, NoIntent, IntentStatus, Awaiting
<1>3. ASSUME NEW q \in Q
      PROVE  /\ qr'[q] \in Qr /\ qr'[q].status = t
             /\ qr'[q] # NoQr
  <2>1. qr'[q] = [qr[q] EXCEPT !.status = t] /\ t \in QrStatus
    BY DEF Withdraws, QrStatus
  <2> QED BY <1>1, <2>1 DEF Qr, NoQr, QrStatus
<1>4. /\ \A i \in IntentIds \ I : intent'[i] = intent[i]
      /\ \A q \in QrIds \ Q : qr'[q] = qr[q]
      /\ DOMAIN intent' = IntentIds /\ DOMAIN qr' = QrIds
  BY DEF Withdraws
<1>5. RowsTyped'
  <2>1. /\ \A i \in IntentIds : intent'[i] \in {NoIntent} \cup Intent
        /\ \A q \in QrIds : qr'[q] \in {NoQr} \cup Qr
    BY <1>2, <1>3, <1>4 DEF QrInv, Rows, RowsTyped
  <2>2. /\ intent' = [i \in IntentIds |-> intent'[i]]
        /\ qr' = [q \in QrIds |-> qr'[q]]
    BY DEF Withdraws
  <2> QED BY <2>1, <2>2 DEF RowsTyped, Withdraws
<1>6. /\ \A i \in IntentIds : (Created(i))' <=> Created(i)
      /\ \A i \in IntentIds : intent'[i].qr = intent[i].qr
      /\ \A q \in QrIds : (Exists(q))' <=> Exists(q)
  <2>1. \A q \in Q : Exists(q)
    BY <1>1, QrRow DEF QrInv, Rows
  <2> QED BY <1>1, <1>2, <1>3, <1>4, <2>1 DEF Created, Exists
<1>7. IntentHasItsQr' /\ OneIntentPerQr'
  BY <1>6, IntentRow DEF QrInv, Rows, IntentHasItsQr, OneIntentPerQr
<1>8. \A q \in QrIds : qr'[q].status \in LiveQr \cup {"consumed"} => q \notin Q /\ qr'[q] = qr[q]
  BY <1>3, <1>4 DEF Withdraws, LiveQr
<1>9. LiveQrIsCurrent' /\ OneLiveQrPerUser'
  BY <1>8 DEF QrInv, Rows, LiveQrIsCurrent, OneLiveQrPerUser, Withdraws
<1>10. ClaimedIsAwaited'
  <2> SUFFICES ASSUME NEW q \in QrIds, qr'[q].status = "claimed"
               PROVE  \E j \in IntentIds : (Created(j) /\ intent[j].qr = q /\ Pending(j))'
    BY DEF ClaimedIsAwaited
  <2>1. q \notin Q /\ qr[q].status = "claimed"
    BY <1>8 DEF LiveQr
  <2>2. PICK j \in IntentIds : Created(j) /\ intent[j].qr = q /\ Pending(j)
    BY <2>1 DEF QrInv, ClaimedIsAwaited
  <2>3. j \notin I
    BY <2>1, <2>2 DEF Withdraws, LiveQr
  <2> QED BY <1>4, <1>6, <2>2, <2>3 DEF Pending
<1>11. ConsumedIsPaid'
  <2> SUFFICES ASSUME NEW q \in QrIds, qr'[q].status = "consumed"
               PROVE  \E j \in IntentIds :
                        (Created(j) /\ intent[j].qr = q /\ intent[j].status = "completed")'
    BY DEF ConsumedIsPaid
  <2>1. PICK j \in IntentIds : Created(j) /\ intent[j].qr = q /\ intent[j].status = "completed"
    BY <1>8 DEF QrInv, ConsumedIsPaid
  <2>2. j \notin I
    BY <1>1, <2>1 DEF Awaiting
  <2> QED BY <1>4, <1>6, <2>1, <2>2
<1>12. PaidIsConsumed'
  <2> SUFFICES ASSUME NEW i \in IntentIds, intent'[i].status = "completed"
               PROVE  qr'[intent'[i].qr].status = "consumed"
    BY DEF PaidIsConsumed
  <2>1. i \notin I /\ intent'[i] = intent[i]
    BY <1>2, <1>4 DEF Withdraws
  <2>2. qr[intent[i].qr].status = "consumed" /\ intent[i].qr \in QrIds
    BY <2>1, IntentRow DEF QrInv, Rows, PaidIsConsumed, IntentStatus
  <2>3. intent[i].qr \notin Q
    BY <1>1, <2>2 DEF LiveQr
  <2> QED BY <1>4, <2>1, <2>2, <2>3
<1> QED BY <1>5, <1>7, <1>9, <1>10, <1>11, <1>12 DEF QrInv, Rows

LEMMA CancelQrWithdraws ==
  ASSUME QrInv, NEW u \in Users, NEW q \in QrIds, CancelQr(u, q)
  PROVE  \E I \in SUBSET IntentIds : Withdraws({q}, I, "cancelled", "cancelled")
<1> DEFINE I == {i \in IntentIds : Pending(i) /\ intent[i].qr = q}
<1>1. /\ qr' = [p \in QrIds |-> IF p \in {q} THEN [qr[p] EXCEPT !.status = "cancelled"] ELSE qr[p]]
      /\ intent' = [i \in IntentIds |-> IF i \in I THEN [intent[i] EXCEPT !.status = "cancelled"]
                                                   ELSE intent[i]]
      /\ season' = season /\ season \in Season /\ qr[q].status \in LiveQr
  BY DEF QrInv, Rows, RowsTyped, CancelQr, SetQr, ledgerVars
<1>2. Withdraws({q}, I, "cancelled", "cancelled")
  BY <1>1 DEF Withdraws
<1> QED BY <1>2

LEMMA ResetWithdraws ==
  ASSUME QrInv, Reset
  PROVE  \E Q \in SUBSET QrIds, I \in SUBSET IntentIds : Withdraws(Q, I, "expired", "expired")
<1> DEFINE Q == {q \in QrIds : qr[q].status \in LiveQr /\ qr[q].season = season}
           I == {i \in IntentIds : Pending(i) /\ intent[i].season = season}
<1>1. /\ qr' = [q \in QrIds |-> IF q \in Q THEN [qr[q] EXCEPT !.status = "expired"] ELSE qr[q]]
      /\ intent' = [i \in IntentIds |-> IF i \in I THEN [intent[i] EXCEPT !.status = "expired"]
                                                   ELSE intent[i]]
      /\ season' = season + 1 /\ season < MaxSeason
  BY DEF Reset, SwitchSeason
<1>2. season' \in Season
  BY <1>1, SeasonAssumption DEF QrInv, Rows, RowsTyped, Season
<1>3. \A q \in QrIds \ Q : qr[q].status \notin LiveQr
  BY DEF QrInv, Rows, LiveQrIsCurrent
<1>4. Withdraws(Q, I, "expired", "expired")
  BY <1>1, <1>2, <1>3 DEF Withdraws
<1> QED BY <1>4

(* POST /wallet/intents: the new intent takes a QR that has none.          *)
LEMMA NewIntentTyped ==
  ASSUME QrInv, NEW u \in Users, NEW i \in IntentIds, NEW q \in QrIds, NEW key \in Keys,
         NEW kind \in Kinds, NEW amount \in Amounts, CreateIntent(u, i, q, key, kind, amount)
  PROVE  /\ intent'[i] \in Intent /\ intent'[i].qr = q /\ intent'[i].status \in Awaiting
         /\ intent'[i].amount = amount
         /\ \A j \in IntentIds \ {i} : intent'[j] = intent[j]
         /\ DOMAIN intent' = IntentIds
<1>1. qr[q] \in Qr /\ qr[q].owner \in Users /\ season \in Season
  BY QrRow DEF QrInv, Rows, RowsTyped, CreateIntent, Claimable, Qr
<1> DEFINE owner == qr[q].owner
           row == [status |-> FirstStatus(kind), kind |-> kind, qr |-> q, key |-> key,
                   initiator |-> u, owner |-> owner, confirmer |-> Confirmer(kind, u, owner),
                   payer |-> Payer(kind, u, owner), payee |-> Payee(kind, owner),
                   amount |-> amount, season |-> season]
<1>2. /\ Payer(kind, u, owner) \in Account /\ Payee(kind, owner) \in Account
      /\ Confirmer(kind, u, owner) \in Users
      /\ FirstStatus(kind) \in Awaiting
  BY <1>1 DEF Payer, Payee, Confirmer, FirstStatus, Account, Owner, SystemKeys, Awaiting,
              Kinds, StaffKinds
<1>3. intent' = [intent EXCEPT ![i] = row]
  BY DEF CreateIntent
<1>4. row \in Intent
  <2>1. amount \in Nat \ {0} /\ FirstStatus(kind) \in IntentStatus
    BY <1>2, QrAssumption DEF IntentStatus
  <2> QED BY <1>1, <1>2, <2>1 DEF Intent
<1>5. intent'[i] = row /\ \A j \in IntentIds \ {i} : intent'[j] = intent[j]
  BY <1>3 DEF QrInv, Rows, RowsTyped
<1> QED BY <1>2, <1>3, <1>4, <1>5 DEF QrInv, Rows, RowsTyped

LEMMA CreateIntentKeeps ==
  ASSUME QrInv, NEW u \in Users, NEW i \in IntentIds, NEW q \in QrIds, NEW key \in Keys,
         NEW kind \in Kinds, NEW amount \in Amounts, CreateIntent(u, i, q, key, kind, amount)
  PROVE  QrInv'
<1>1. /\ intent'[i] \in Intent /\ intent'[i].qr = q /\ intent'[i].status \in Awaiting
      /\ \A j \in IntentIds \ {i} : intent'[j] = intent[j]
      /\ DOMAIN intent' = IntentIds
  BY NewIntentTyped
<1>2. /\ ~Created(i) /\ Exists(q) /\ qr[q] \in Qr /\ qr[q].status = "active"
      /\ \A j \in IntentIds : Created(j) => intent[j].qr # q
      /\ season' = season /\ qr' = [qr EXCEPT ![q].status = "claimed"]
  BY QrRow DEF QrInv, Rows, CreateIntent, NextIntent, Claimable, HasIntent, SetQr
<1>3. /\ qr'[q] \in Qr /\ qr'[q].status = "claimed" /\ qr'[q].owner = qr[q].owner
      /\ qr'[q].season = qr[q].season
      /\ \A p \in QrIds \ {q} : qr'[p] = qr[p]
  <2>1. qr'[q] = [qr[q] EXCEPT !.status = "claimed"] /\ \A p \in QrIds \ {q} : qr'[p] = qr[p]
    BY <1>2 DEF QrInv, Rows, RowsTyped
  <2>2. qr'[q] \in Qr
    BY <1>2, <2>1 DEF Qr, QrStatus
  <2> QED BY <1>2, <2>1, <2>2 DEF Qr
<1>4. RowsTyped'
  <2>1. \A j \in IntentIds : intent'[j] \in {NoIntent} \cup Intent
    BY <1>1 DEF QrInv, Rows, RowsTyped
  <2>2. intent' = [j \in IntentIds |-> intent'[j]]
    BY DEF QrInv, Rows, RowsTyped, CreateIntent
  <2>3. qr' \in [QrIds -> {NoQr} \cup Qr]
    BY <1>2, <1>3 DEF QrInv, Rows, RowsTyped
  <2> QED BY <1>2, <2>1, <2>2, <2>3 DEF QrInv, Rows, RowsTyped
<1>5. (Created(i))' /\ (Exists(q))'
  <2>1. intent'[i] # NoIntent /\ qr'[q] # NoQr
    BY <1>1, <1>3 DEF NoIntent, NoQr, Awaiting
  <2> QED BY <2>1 DEF Created, Exists
<1>6. /\ \A j \in IntentIds \ {i} : (Created(j))' <=> Created(j)
      /\ \A p \in QrIds : (Exists(p))' <=> Exists(p)
  BY <1>1, <1>2, <1>3, <1>5 DEF Created, Exists
<1>7. IntentHasItsQr' /\ OneIntentPerQr'
  <2>1. \A j \in IntentIds : (Created(j))' => j = i \/ (Created(j) /\ intent'[j] = intent[j])
    BY <1>1, <1>6
  <2>2. \A j \in IntentIds : Created(j) => intent[j].qr \in QrIds
    BY IntentRow DEF QrInv, Rows
  <2>3. IntentHasItsQr'
    BY <1>1, <1>5, <1>6, <2>1, <2>2 DEF QrInv, Rows, IntentHasItsQr
  <2>4. OneIntentPerQr'
    BY <1>1, <1>2, <2>1 DEF QrInv, Rows, OneIntentPerQr
  <2> QED BY <2>3, <2>4
<1>8. LiveQrIsCurrent' /\ OneLiveQrPerUser'
  BY <1>2, <1>3 DEF QrInv, Rows, LiveQrIsCurrent, OneLiveQrPerUser, LiveQr
<1>9. ClaimedIsAwaited'
  <2> SUFFICES ASSUME NEW p \in QrIds, qr'[p].status = "claimed"
               PROVE  \E j \in IntentIds : (Created(j) /\ intent[j].qr = p /\ Pending(j))'
    BY DEF ClaimedIsAwaited
  <2>1. CASE p = q
    BY <1>1, <1>5, <2>1 DEF Pending
  <2>2. CASE p # q
    <3>1. PICK j \in IntentIds : Created(j) /\ intent[j].qr = p /\ Pending(j)
      BY <1>3, <2>2 DEF QrInv, ClaimedIsAwaited
    <3> QED BY <1>1, <1>2, <1>6, <3>1 DEF Pending
  <2> QED BY <2>1, <2>2
<1>10. ConsumedIsPaid'
  <2> SUFFICES ASSUME NEW p \in QrIds, qr'[p].status = "consumed"
               PROVE  \E j \in IntentIds :
                        (Created(j) /\ intent[j].qr = p /\ intent[j].status = "completed")'
    BY DEF ConsumedIsPaid
  <2>1. PICK j \in IntentIds : Created(j) /\ intent[j].qr = p /\ intent[j].status = "completed"
    BY <1>3 DEF QrInv, ConsumedIsPaid
  <2> QED BY <1>1, <1>2, <1>6, <2>1
<1>11. PaidIsConsumed'
  <2> SUFFICES ASSUME NEW j \in IntentIds, intent'[j].status = "completed"
               PROVE  qr'[intent'[j].qr].status = "consumed"
    BY DEF PaidIsConsumed
  <2>1. j # i /\ intent'[j] = intent[j]
    BY <1>1 DEF Awaiting
  <2>2. Created(j) /\ intent[j].qr \in QrIds
    BY <2>1, IntentRow DEF QrInv, Rows, IntentStatus
  <2> QED BY <1>2, <1>3, <2>1, <2>2 DEF QrInv, PaidIsConsumed
<1> QED BY <1>4, <1>7, <1>8, <1>9, <1>10, <1>11 DEF QrInv, Rows

-----------------------------------------------------------------------------
(* Every step *)

(* No row changes. *)
RowsKept == UNCHANGED <<season, qr, intent, ledger>>

LEMMA QrStep ==
  ASSUME QrInv, [Next]_vars
  PROVE  \/ RowsKept
         \/ \E u \in Users, q \in QrIds : CreateQr(u, q) \/ CancelQr(u, q)
         \/ Reset
         \/ \E u \in Users, i \in IntentIds :
              ExpireOnConfirm(u, i) \/ Confirm(u, i) \/ Reject(u, i)
         \/ \E u \in Users, i \in IntentIds, q \in QrIds, key \in Keys, kind \in Kinds,
               amount \in Amounts : CreateIntent(u, i, q, key, kind, amount)
BY DEF Next, vars, RowsKept, ledgerVars, SetRules, LapseQr, LapseIntent, SetAccess, BeginQr,
       RefuseQr

LEMMA QrInvInit == Init => QrInv
<1> SUFFICES ASSUME Init PROVE QrInv
  OBVIOUS
<1>1. RowsTyped
  BY SeasonAssumption DEF Init, WelcomedInit, RowsTyped, Season
<1>2. /\ \A i \in IntentIds : ~Created(i) /\ intent[i].status = "none"
      /\ \A q \in QrIds : qr[q].status = "none"
  BY DEF Init, Created, NoIntent, NoQr
<1> QED BY <1>1, <1>2 DEF QrInv, Rows, IntentHasItsQr, OneIntentPerQr, LiveQrIsCurrent,
          OneLiveQrPerUser, ClaimedIsAwaited, ConsumedIsPaid, PaidIsConsumed, LiveQr

LEMMA QrInvNext == QrInv /\ [Next]_vars => QrInv'
<1> SUFFICES ASSUME QrInv, [Next]_vars PROVE QrInv'
  OBVIOUS
<1>1. CASE RowsKept
  BY <1>1 DEF RowsKept, QrInv, Rows, RowsTyped, IntentHasItsQr, OneIntentPerQr, LiveQrIsCurrent,
     OneLiveQrPerUser, ClaimedIsAwaited, ConsumedIsPaid, PaidIsConsumed, Created, Exists, Pending
<1>2. ASSUME NEW u \in Users, NEW q \in QrIds, CreateQr(u, q) PROVE QrInv'
  BY <1>2, CreateQrKeeps
<1>3. ASSUME NEW u \in Users, NEW q \in QrIds, CancelQr(u, q) PROVE QrInv'
  <2>1. PICK I \in SUBSET IntentIds : Withdraws({q}, I, "cancelled", "cancelled")
    BY <1>3, CancelQrWithdraws
  <2> QED BY <2>1, WithdrawsKeeps
<1>4. CASE Reset
  <2>1. PICK Q \in SUBSET QrIds, I \in SUBSET IntentIds : Withdraws(Q, I, "expired", "expired")
    BY <1>4, ResetWithdraws
  <2> QED BY <2>1, WithdrawsKeeps
<1>5. ASSUME NEW u \in Users, NEW i \in IntentIds,
             ExpireOnConfirm(u, i) \/ Confirm(u, i) \/ Reject(u, i)
      PROVE  QrInv'
  <2>1. \E s, t : Relabels(i, s, t)
    BY <1>5, ExpireRelabels, ConfirmRelabels, RejectRelabels
  <2> QED BY <2>1, RelabelsKeeps
<1>6. ASSUME NEW u \in Users, NEW i \in IntentIds, NEW q \in QrIds, NEW key \in Keys,
             NEW kind \in Kinds, NEW amount \in Amounts,
             CreateIntent(u, i, q, key, kind, amount)
      PROVE  QrInv'
  BY <1>6, CreateIntentKeeps
<1> QED BY <1>1, <1>2, <1>3, <1>4, <1>5, <1>6, QrStep

(* A QR is claimed only for an intent that still waits, and consumed       *)
(* exactly when its intent was paid; a user has one live QR: in every      *)
(* order of POST and DELETE /wallet/qr, intents, confirmations,            *)
(* rejections and resets.                                                  *)
THEOREM QrsFollowTheirIntents == Spec => []QrFollowsItsIntent
<1>1. QrInv => QrFollowsItsIntent
  <2> SUFFICES ASSUME QrInv PROVE QrFollowsItsIntent
    OBVIOUS
  <2>1. \A i \in IntentIds : intent[i].status = "completed" => Created(i)
    BY IntentRow DEF QrInv, Rows
  <2> QED BY <2>1 DEF QrInv, QrFollowsItsIntent, ClaimedIsAwaited, ConsumedIsPaid, PaidIsConsumed,
                Pending
<1> QED BY <1>1, QrInvInit, QrInvNext, PTL DEF Spec

-----------------------------------------------------------------------------
(* Intents are payments *)

(* The offer a row of wallet_intents is. *)
OfferOf(row) ==
  CASE row = NoIntent -> [state |-> "none"]
    [] OTHER ->
       [state |-> CASE row.status \in Awaiting -> "open"
                    [] row.status = "completed" -> "paid"
                    [] OTHER -> "dropped",
        payer |-> row.payer, payee |-> row.payee,
        amount |-> row.amount, confirmer |-> row.confirmer]

LEMMA OfferOfRow ==
  ASSUME NEW row \in Intent
  PROVE  OfferOf(row) = [state |-> CASE row.status \in Awaiting -> "open"
                                     [] row.status = "completed" -> "paid"
                                     [] OTHER -> "dropped",
                         payer |-> row.payer, payee |-> row.payee,
                         amount |-> row.amount, confirmer |-> row.confirmer]
<1>1. row # NoIntent
  BY DEF Intent, NoIntent, IntentStatus, Awaiting
<1> QED BY <1>1 DEF OfferOf

LEMMA OfferState ==
  ASSUME NEW row \in Intent
  PROVE  OfferOf(row).state = "open" <=> row.status \in Awaiting
<1>1. OfferOf(row).state = CASE row.status \in Awaiting -> "open"
                             [] row.status = "completed" -> "paid"
                             [] OTHER -> "dropped"
  BY OfferOfRow
<1>2. CASE row.status \in Awaiting
  BY <1>1, <1>2 DEF Awaiting
<1>3. CASE row.status = "completed"
  BY <1>1, <1>3 DEF Awaiting
<1>4. CASE row.status \notin Awaiting \cup {"completed"}
  BY <1>1, <1>4
<1> QED BY <1>2, <1>3, <1>4

LEMMA OfferSettled ==
  ASSUME NEW row \in Intent, NEW s \in IntentStatus \ Awaiting
  PROVE  LET state == IF s = "completed" THEN "paid" ELSE "dropped"
         IN  /\ [row EXCEPT !.status = s] \in Intent
             /\ OfferOf([row EXCEPT !.status = s]) = [OfferOf(row) EXCEPT !.state = state]
<1> DEFINE new == [row EXCEPT !.status = s]
<1>1. /\ new \in Intent /\ new.status = s
      /\ new.payer = row.payer /\ new.payee = row.payee
      /\ new.amount = row.amount /\ new.confirmer = row.confirmer
  BY DEF Intent, IntentStatus
<1> HIDE DEF new
<1>2. OfferOf(new) = [state |-> IF s = "completed" THEN "paid" ELSE "dropped",
                      payer |-> row.payer, payee |-> row.payee,
                      amount |-> row.amount, confirmer |-> row.confirmer]
  BY <1>1, OfferOfRow
<1>3. OfferOf(new) = [OfferOf(row) EXCEPT !.state = IF s = "completed" THEN "paid" ELSE "dropped"]
  BY <1>2, OfferOfRow
<1> QED BY <1>1, <1>3 DEF new

(* What the abstract state is. *)
Offers == [i \in IntentIds |-> OfferOf(intent[i])]

Paid ==
  {[id |-> t.key[2], by |-> t.actor, from |-> t.from, to |-> t.to, amount |-> t.amount] :
     t \in IntentEntries}

LEMMA OffersAreRows ==
  /\ [i \in IntentIds |-> Offer(i)] = Offers
  /\ [i \in IntentIds |-> Offer(i)]' = Offers'
BY DEF Offers, Offer, OfferOf, Created, Pending

LEMMA OfferOpen ==
  ASSUME RowsTyped, NEW i \in IntentIds
  PROVE  Offers[i].state = "open" <=> Pending(i)
<1>1. CASE intent[i] = NoIntent
  BY <1>1 DEF Offers, OfferOf, NoIntent, Pending, Awaiting
<1>2. CASE intent[i] \in Intent
  BY <1>2, OfferState DEF Offers, Pending
<1> QED BY <1>1, <1>2 DEF RowsTyped

LEMMA DropsOffers ==
  ASSUME RowsTyped, NEW D \in SUBSET IntentIds, \A i \in D : Pending(i),
         \A i \in D : \E s \in {"rejected", "cancelled", "expired"} :
           intent'[i] = [intent[i] EXCEPT !.status = s],
         \A i \in IntentIds \ D : intent'[i] = intent[i],
         ledger' = ledger
  PROVE  Payments!Drop(D)
<1>1. \A i \in D : Offers[i].state = "open"
  BY OfferOpen
<1>2. ASSUME NEW i \in D PROVE Offers'[i] = [Offers[i] EXCEPT !.state = "dropped"]
  <2>1. intent[i] \in Intent
    BY IntentRow
  <2>2. PICK s \in {"rejected", "cancelled", "expired"} :
          intent'[i] = [intent[i] EXCEPT !.status = s]
    OBVIOUS
  <2>3. OfferOf([intent[i] EXCEPT !.status = s]) = [OfferOf(intent[i]) EXCEPT !.state = "dropped"]
    BY <2>1, OfferSettled DEF IntentStatus, Awaiting
  <2> QED BY <2>2, <2>3 DEF Offers
<1>3. Offers' = [i \in IntentIds |-> IF i \in D THEN [Offers[i] EXCEPT !.state = "dropped"]
                                                ELSE Offers[i]]
  BY <1>2 DEF Offers
<1>4. Paid' = Paid
  BY DEF Paid, IntentEntries
<1> QED BY <1>1, <1>3, <1>4, OffersAreRows DEF Payments!Drop, Payments!Open, Paid

LEMMA ProposesOffer ==
  ASSUME QrInv, NEW u \in Users, NEW i \in IntentIds, NEW q \in QrIds, NEW key \in Keys,
         NEW kind \in Kinds, NEW amount \in Amounts, CreateIntent(u, i, q, key, kind, amount)
  PROVE  Payments!Propose(i)
<1>1. /\ intent'[i] \in Intent /\ intent'[i].status \in Awaiting
      /\ \A j \in IntentIds \ {i} : intent'[j] = intent[j]
  BY NewIntentTyped
<1>2. intent[i] = NoIntent /\ ledger' = ledger
  BY DEF CreateIntent, NextIntent, Created
<1>3. Offers[i].state = "none"
  BY <1>2 DEF Offers, OfferOf
<1>4. Offers'[i].state = "open"
  BY <1>1, OfferState DEF Offers
<1>5. Offers' = [Offers EXCEPT ![i] = Offers'[i]]
  BY <1>1 DEF Offers
<1>6. Paid' = Paid
  BY <1>2 DEF Paid, IntentEntries
<1> QED BY <1>3, <1>4, <1>5, <1>6, OffersAreRows DEF Payments!Propose, Paid

(* The transaction of a confirmation is made of the row alone.             *)
LEMMA PaysOffer ==
  ASSUME QrInv, NEW u \in Users, NEW i \in IntentIds, Confirm(u, i)
  PROVE  Payments!Pay(i)
<1> DEFINE t == IntentTransaction(u, i)
<1>1. /\ intent[i] \in Intent /\ Pending(i) /\ u = intent[i].confirmer
      /\ intent'[i] = [intent[i] EXCEPT !.status = "completed"]
      /\ \A j \in IntentIds \ {i} : intent'[j] = intent[j]
      /\ ledger' = ledger \cup {t}
  BY IntentRow DEF QrInv, Rows, RowsTyped, Confirm, MayConfirm, SetIntent, Post
<1>2. Offers[i].state = "open"
  BY <1>1, OfferOpen DEF QrInv, Rows
<1>3. Offers' = [Offers EXCEPT ![i].state = "paid"]
  <2>1. Offers'[i] = [Offers[i] EXCEPT !.state = "paid"]
    <3>1. OfferOf([intent[i] EXCEPT !.status = "completed"])
            = [OfferOf(intent[i]) EXCEPT !.state = "paid"]
      BY <1>1, OfferSettled DEF IntentStatus, Awaiting
    <3> QED BY <1>1, <3>1 DEF Offers
  <2>2. \A j \in IntentIds \ {i} : Offers'[j] = Offers[j]
    BY <1>1 DEF Offers
  <2> QED BY <2>1, <2>2 DEF Offers
<1>4. /\ t.key[1] = "intent" /\ t.key[2] = i /\ t.actor = u
      /\ t.from = intent[i].payer /\ t.to = intent[i].payee /\ t.amount = intent[i].amount
  BY DEF IntentTransaction, IntentKey
<1>5. IntentEntries' = IntentEntries \cup {t}
  <2> HIDE DEF t
  <2> QED BY <1>1, <1>4 DEF IntentEntries
<1>6. /\ Offers[i].confirmer = u /\ Offers[i].payer = t.from /\ Offers[i].payee = t.to
      /\ Offers[i].amount = t.amount
  <2> HIDE DEF t
  <2> QED BY <1>1, <1>4, OfferOfRow DEF Offers
<1>7. Paid' = Paid \cup {[id |-> i, by |-> Offers[i].confirmer, from |-> Offers[i].payer,
                          to |-> Offers[i].payee, amount |-> Offers[i].amount]}
  <2> HIDE DEF t
  <2> QED BY <1>4, <1>5, <1>6 DEF Paid
<1> QED BY <1>2, <1>3, <1>7, OffersAreRows DEF Payments!Pay, Payments!Open, Paid

(* Intents are payments on fixed terms: each is paid at most once, by the  *)
(* person who had to confirm it and exactly as it was proposed, and never  *)
(* after it was rejected, withdrawn or expired.                            *)
THEOREM IntentsArePayments == Spec => PaymentSpec
<1>1. Init => Payments!Init
  <2> SUFFICES ASSUME Init PROVE Payments!Init
    OBVIOUS
  <2>1. \A i \in IntentIds : Offers[i].state = "none"
    BY DEF Init, Offers, OfferOf
  <2>2. Paid = {}
    BY DEF Init, WelcomedInit, WelcomeOf, Paid, IntentEntries
  <2> QED BY <2>1, <2>2, OffersAreRows DEF Payments!Init, Paid
<1>2. ASSUME QrInv, [Next]_vars PROVE [Payments!Next]_(Payments!vars)
  <2>1. RowsTyped
    BY <1>2 DEF QrInv, Rows
  <2>2. ASSUME \A i \in IntentIds : OfferOf(intent'[i]) = OfferOf(intent[i]), ledger' = ledger
        PROVE  UNCHANGED Payments!vars
    <3>1. Offers' = Offers /\ Paid' = Paid
      BY <2>2 DEF Offers, Paid, IntentEntries
    <3> QED BY <3>1, OffersAreRows DEF Payments!vars, Paid
  <2>3. CASE RowsKept
    BY <2>2, <2>3 DEF RowsKept
  <2>4. ASSUME NEW u \in Users, NEW q \in QrIds, CreateQr(u, q) PROVE UNCHANGED Payments!vars
    BY <2>2, <2>4 DEF CreateQr, ledgerVars
  <2>5. ASSUME NEW u \in Users, NEW q \in QrIds, CancelQr(u, q)
        PROVE  \E D \in SUBSET IntentIds : Payments!Drop(D)
    <3> DEFINE D == {i \in IntentIds : Pending(i) /\ intent[i].qr = q}
    <3>1. /\ \A i \in D : intent'[i] = [intent[i] EXCEPT !.status = "cancelled"]
          /\ \A i \in IntentIds \ D : intent'[i] = intent[i]
          /\ ledger' = ledger
      BY <2>5 DEF CancelQr, ledgerVars
    <3>2. Payments!Drop(D)
      BY <2>1, <3>1, DropsOffers
    <3> QED BY <3>2
  <2>6. CASE Reset
    <3> DEFINE D == {i \in IntentIds : Pending(i) /\ intent[i].season = season}
    <3>1. /\ \A i \in D : intent'[i] = [intent[i] EXCEPT !.status = "expired"]
          /\ \A i \in IntentIds \ D : intent'[i] = intent[i]
          /\ ledger' = ledger
      BY <2>6 DEF Reset, SwitchSeason
    <3>2. Payments!Drop(D)
      BY <2>1, <3>1, DropsOffers
    <3> QED BY <3>2 DEF Payments!Next
  <2>7. ASSUME NEW u \in Users, NEW i \in IntentIds, ExpireOnConfirm(u, i)
        PROVE  (\E D \in SUBSET IntentIds : Payments!Drop(D)) \/ UNCHANGED Payments!vars
    <3>1. /\ intent[i] \in Intent /\ intent[i].status # "completed"
          /\ intent'[i] = [intent[i] EXCEPT !.status = "expired"]
          /\ \A j \in IntentIds \ {i} : intent'[j] = intent[j]
          /\ ledger' = ledger
      BY <2>1, <2>7, IntentRow DEF RowsTyped, ExpireOnConfirm, SetIntent, ledgerVars
    <3>2. CASE Pending(i)
      <4>1. Payments!Drop({i})
        BY <2>1, <3>1, <3>2, DropsOffers
      <4> QED BY <4>1
    <3>3. CASE ~Pending(i)
      <4>1. /\ OfferOf(intent'[i]) = [OfferOf(intent[i]) EXCEPT !.state = "dropped"]
        BY <3>1, OfferSettled DEF IntentStatus, Awaiting
      <4>2. OfferOf(intent[i]) = [OfferOf(intent[i]) EXCEPT !.state = "dropped"]
        BY <3>1, <3>3, OfferOfRow DEF Pending
      <4>3. \A j \in IntentIds : OfferOf(intent'[j]) = OfferOf(intent[j])
        BY <3>1, <4>1, <4>2
      <4> QED BY <2>2, <3>1, <4>3
    <3> QED BY <3>2, <3>3
  <2>8. ASSUME NEW u \in Users, NEW i \in IntentIds, Reject(u, i)
        PROVE  \E D \in SUBSET IntentIds : Payments!Drop(D)
    <3>1. /\ Pending(i) /\ intent'[i] = [intent[i] EXCEPT !.status = "rejected"]
          /\ \A j \in IntentIds \ {i} : intent'[j] = intent[j]
          /\ ledger' = ledger
      BY <2>1, <2>8 DEF RowsTyped, Reject, SetIntent, ledgerVars
    <3>2. Payments!Drop({i})
      BY <2>1, <3>1, DropsOffers
    <3> QED BY <3>2
  <2>9. ASSUME NEW u \in Users, NEW i \in IntentIds, Confirm(u, i)
        PROVE  \E j \in IntentIds : Payments!Pay(j)
    BY <1>2, <2>9, PaysOffer
  <2>10. ASSUME NEW u \in Users, NEW i \in IntentIds, NEW q \in QrIds, NEW key \in Keys,
                NEW kind \in Kinds, NEW amount \in Amounts,
                CreateIntent(u, i, q, key, kind, amount)
         PROVE  \E j \in IntentIds : Payments!Propose(j)
    BY <1>2, <2>10, ProposesOffer
  <2> QED
    BY <1>2, <2>3, <2>4, <2>5, <2>6, <2>7, <2>8, <2>9, <2>10, QrStep DEF Payments!Next
<1> QED BY <1>1, <1>2, QrInvInit, QrInvNext, PTL DEF Spec, PaymentSpec, Payments!Spec

-----------------------------------------------------------------------------
(* WalletLocks: the locks of transactions *)

(* Locks are taken one by one; what a list of them is made of matters, not *)
(* the set they are from.                                                  *)
IsList(s) == \E S : s \in Seq(S)

Gates == {Locks!Shared(Locks!Program), Locks!Exclusive(Locks!Program),
          Locks!Shared(Locks!ProgramRow)}

(* Only a reset wants the programme row for itself.                        *)
Ordinary(s) == \A n \in 1 .. Len(s) : s[n] # Locks!Exclusive(Locks!ProgramRow)

Before(s, n, locks) == \E m \in 1 .. Len(s) : m < n /\ s[m] \in locks

(* Whoever takes a lock of the wallets has entered by the programme, and   *)
(* whoever has the programme row for itself has the programme.             *)
Gated(s) == \A n \in 1 .. Len(s) :
  /\ s[n].lock \in Locks!Wallets => Before(s, n, Gates)
  /\ s[n] = Locks!Exclusive(Locks!ProgramRow) => Before(s, n, {Locks!Exclusive(Locks!Program)})

Opened(s) == \E m \in 1 .. Len(s) : s[m] \in Gates

-----------------------------------------------------------------------------

LEMMA ConcatList ==
  ASSUME NEW s, NEW t, IsList(s), IsList(t)
  PROVE  /\ IsList(s \o t) /\ Len(s) \in Nat /\ Len(t) \in Nat
         /\ Len(s \o t) = Len(s) + Len(t)
         /\ \A n \in 1 .. Len(s) : (s \o t)[n] = s[n]
         /\ \A n \in 1 .. Len(s) + Len(t) : n > Len(s) =>
              n - Len(s) \in 1 .. Len(t) /\ (s \o t)[n] = t[n - Len(s)]
<1>1. PICK S, T : s \in Seq(S) /\ t \in Seq(T)
  BY DEF IsList
<1>2. s \in Seq(S \cup T) /\ t \in Seq(S \cup T)
  BY <1>1
<1>3. s \o t \in Seq(S \cup T)
  BY <1>2
<1>4. IsList(s \o t)
  BY <1>3 DEF IsList
<1> QED BY <1>1, <1>2, <1>4

LEMMA OrdinaryConcat ==
  ASSUME NEW s, NEW t, IsList(s), IsList(t), Ordinary(s), Ordinary(t)
  PROVE  IsList(s \o t) /\ Ordinary(s \o t)
<1>1. ASSUME NEW n \in 1 .. Len(s \o t) PROVE (s \o t)[n] # Locks!Exclusive(Locks!ProgramRow)
  <2>1. CASE n \in 1 .. Len(s)
    BY <2>1, ConcatList DEF Ordinary
  <2>2. CASE n > Len(s)
    BY <2>2, ConcatList DEF Ordinary
  <2> QED BY <2>1, <2>2, ConcatList
<1> QED BY <1>1, ConcatList DEF Ordinary

(* After the gate, anything.                                               *)
LEMMA GatedConcat ==
  ASSUME NEW s, NEW t, IsList(s), IsList(t), Gated(s), Opened(s), Ordinary(t)
  PROVE  IsList(s \o t) /\ Gated(s \o t) /\ Opened(s \o t)
<1>0. /\ Len(s \o t) = Len(s) + Len(t) /\ Len(s) \in Nat /\ Len(t) \in Nat
      /\ \A n \in 1 .. Len(s) : (s \o t)[n] = s[n]
  BY ConcatList
<1>1. PICK m \in 1 .. Len(s) : s[m] \in Gates
  BY DEF Opened
<1>2. m \in 1 .. Len(s \o t) /\ (s \o t)[m] \in Gates
  BY <1>0, <1>1
<1>3. ASSUME NEW n \in 1 .. Len(s \o t)
      PROVE  /\ (s \o t)[n].lock \in Locks!Wallets => Before(s \o t, n, Gates)
             /\ (s \o t)[n] = Locks!Exclusive(Locks!ProgramRow)
                  => Before(s \o t, n, {Locks!Exclusive(Locks!Program)})
  <2>1. CASE n \in 1 .. Len(s)
    <3>1. (s \o t)[n] = s[n]
      BY <2>1, <1>0
    <3>2. \A locks : Before(s, n, locks) => Before(s \o t, n, locks)
      BY <1>0 DEF Before
    <3> QED BY <2>1, <3>1, <3>2 DEF Gated
  <2>2. CASE n > Len(s)
    <3>1. (s \o t)[n] # Locks!Exclusive(Locks!ProgramRow)
      BY <2>2, <1>0, ConcatList DEF Ordinary
    <3>2. m < n
      BY <2>2, <1>0
    <3> QED BY <3>1, <3>2, <1>2 DEF Before
  <2> QED BY <2>1, <2>2, <1>0
<1> QED BY <1>2, <1>3, ConcatList DEF Gated, Opened

(* Lists written out.                                                      *)
LEMMA Lists ==
  /\ \A a : IsList(<<a>>) /\ Len(<<a>>) = 1 /\ <<a>>[1] = a
  /\ \A a, b : IsList(<<a, b>>) /\ Len(<<a, b>>) = 2 /\ <<a, b>>[1] = a /\ <<a, b>>[2] = b
  /\ \A a, b, c : /\ IsList(<<a, b, c>>) /\ Len(<<a, b, c>>) = 3 /\ <<a, b, c>>[1] = a
                  /\ <<a, b, c>>[2] = b /\ <<a, b, c>>[3] = c
  /\ \A a, b, c, d :
       /\ IsList(<<a, b, c, d>>) /\ Len(<<a, b, c, d>>) = 4 /\ <<a, b, c, d>>[1] = a
       /\ <<a, b, c, d>>[2] = b /\ <<a, b, c, d>>[3] = c /\ <<a, b, c, d>>[4] = d
<1>1. ASSUME NEW a PROVE IsList(<<a>>)
  <2>1. <<a>> \in Seq({a})
    OBVIOUS
  <2> QED BY <2>1 DEF IsList
<1>2. ASSUME NEW a, NEW b PROVE IsList(<<a, b>>)
  <2>1. <<a, b>> \in Seq({a, b})
    OBVIOUS
  <2> QED BY <2>1 DEF IsList
<1>3. ASSUME NEW a, NEW b, NEW c PROVE IsList(<<a, b, c>>)
  <2>1. <<a, b, c>> \in Seq({a, b, c})
    OBVIOUS
  <2> QED BY <2>1 DEF IsList
<1>4. ASSUME NEW a, NEW b, NEW c, NEW d PROVE IsList(<<a, b, c, d>>)
  <2>1. <<a, b, c, d>> \in Seq({a, b, c, d})
    OBVIOUS
  <2> QED BY <2>1 DEF IsList
<1> QED BY <1>1, <1>2, <1>3, <1>4

LEMMA SameFiniteSets ==
  /\ \A S : Locks!IsFiniteSet(S) = IsFiniteSet(S)
  /\ \A S : Locks!Cardinality(S) = Cardinality(S)
<1>1. \A S : Locks!IsFiniteSet(S) = IsFiniteSet(S)
  BY DEF Locks!IsFiniteSet, IsFiniteSet
<1>2. \A S : Locks!Cardinality(S) = Cardinality(S)
  BY DEF Locks!Cardinality, Cardinality
<1> QED BY <1>1, <1>2

(* FOR UPDATE of accounts, and the events that rows refer to.              *)
LEMMA AccountRowsList ==
  ASSUME Locks!LocksAssumption, NEW owners
  PROVE  IsList(Locks!AccountRows(owners)) /\ Ordinary(Locks!AccountRows(owners))
<1> DEFINE Places == {p \in DOMAIN IdOrder : IdOrder[p] \in owners}
           Nth(n) == CHOOSE p \in Places : Locks!Cardinality({q \in Places : q < p}) = n - 1
           Row(n) == Locks!Exclusive(Locks!AccountRow(IdOrder[Nth(n)]))
           RowSet == {Row(n) : n \in 1 .. Locks!Cardinality(Places)}
<1>1. IsFiniteSet(Places)
  <2>1. DOMAIN IdOrder = 1 .. Len(IdOrder) /\ Len(IdOrder) \in Nat
    BY DEF Locks!LocksAssumption
  <2>2. IsFiniteSet(1 .. Len(IdOrder))
    BY <2>1, FS_Interval
  <2> QED BY <2>1, <2>2, FS_Subset
<1>2. Locks!Cardinality(Places) \in Nat
  BY <1>1, FS_CardinalityType, SameFiniteSets
<1>3. Locks!AccountRows(owners) = [n \in 1 .. Locks!Cardinality(Places) |-> Row(n)]
  BY DEF Locks!AccountRows
<1> HIDE DEF Places, Nth
<1>4. Locks!AccountRows(owners) \in Seq(RowSet) /\ Len(Locks!AccountRows(owners)) = Locks!Cardinality(Places)
  BY <1>2, <1>3
<1>5. \A n : Row(n) # Locks!Exclusive(Locks!ProgramRow)
  BY DEF Locks!Exclusive, Locks!AccountRow, Locks!ProgramRow
<1> QED BY <1>3, <1>4, <1>5 DEF IsList, Ordinary

LEMMA EventRefsList ==
  ASSUME NEW events, IsFiniteSet(events)
  PROVE  IsList(Locks!EventRefs(events)) /\ Ordinary(Locks!EventRefs(events))
<1> DEFINE Listed == Locks!SetToSeq(events)
           Row(n) == Locks!Shared(Locks!EventRow(Listed[n]))
           RowSet == {Row(n) : n \in DOMAIN Listed}
<1>1. Cardinality(events) \in Nat /\ ExistsBijection(1 .. Cardinality(events), events)
  BY FS_CardinalityType
<1>2. \E f \in [1 .. Cardinality(events) -> events] : Locks!IsInjective(f)
  BY <1>1 DEF ExistsBijection, Bijection, Injection, IsInjective, Locks!IsInjective
<1>3. DOMAIN Listed = 1 .. Cardinality(events)
  BY <1>2, SameFiniteSets DEF Locks!SetToSeq
<1>4. Locks!EventRefs(events) = [n \in DOMAIN Listed |-> Row(n)]
  BY DEF Locks!EventRefs
<1> HIDE DEF Listed
<1>5. Locks!EventRefs(events) \in Seq(RowSet) /\ Len(Locks!EventRefs(events)) = Cardinality(events)
  BY <1>1, <1>3, <1>4
<1>6. \A n : Row(n) # Locks!Exclusive(Locks!ProgramRow)
  BY DEF Locks!Exclusive, Locks!Shared
<1> QED BY <1>3, <1>4, <1>5, <1>6 DEF IsList, Ordinary

-----------------------------------------------------------------------------
(* The transactions                                                        *)

(* What comes before the gate is no matter, if it has nothing of wallets.  *)
Apart(s) == Ordinary(s) /\ \A n \in 1 .. Len(s) : s[n].lock \notin Locks!Wallets

LEMMA ApartConcat ==
  ASSUME NEW s, NEW t, IsList(s), IsList(t), Apart(s), Gated(t)
  PROVE  IsList(s \o t) /\ Gated(s \o t) /\ (Opened(t) => Opened(s \o t))
<1>0. /\ Len(s \o t) = Len(s) + Len(t) /\ Len(s) \in Nat /\ Len(t) \in Nat
      /\ \A n \in 1 .. Len(s) : (s \o t)[n] = s[n]
      /\ \A n \in 1 .. Len(t) : (s \o t)[Len(s) + n] = t[n] /\ Len(s) + n \in 1 .. Len(s \o t)
  <2>1. PICK S, T : s \in Seq(S) /\ t \in Seq(T)
    BY DEF IsList
  <2>2. s \in Seq(S \cup T) /\ t \in Seq(S \cup T)
    BY <2>1
  <2> QED BY <2>2
<1>1. ASSUME NEW n \in 1 .. Len(s \o t)
      PROVE  /\ (s \o t)[n].lock \in Locks!Wallets => Before(s \o t, n, Gates)
             /\ (s \o t)[n] = Locks!Exclusive(Locks!ProgramRow)
                  => Before(s \o t, n, {Locks!Exclusive(Locks!Program)})
  <2>1. CASE n \in 1 .. Len(s)
    BY <2>1, <1>0 DEF Apart, Ordinary
  <2>2. CASE n > Len(s)
    <3>1. PICK k \in 1 .. Len(t) : n = Len(s) + k
      <4>1. n - Len(s) \in 1 .. Len(t) /\ n = Len(s) + (n - Len(s))
        BY <2>2, <1>0
      <4> QED BY <4>1
    <3>2. (s \o t)[n] = t[k]
      BY <3>1, <1>0
    <3>3. ASSUME NEW locks, Before(t, k, locks) PROVE Before(s \o t, n, locks)
      <4>1. PICK m \in 1 .. Len(t) : m < k /\ t[m] \in locks
        BY <3>3 DEF Before
      <4>2. Len(s) + m \in 1 .. Len(s \o t) /\ Len(s) + m < n /\ (s \o t)[Len(s) + m] \in locks
        BY <4>1, <3>1, <1>0
      <4> QED BY <4>2 DEF Before
    <3> QED BY <3>1, <3>2, <3>3 DEF Gated
  <2> QED BY <2>1, <2>2, <1>0
<1>2. ASSUME Opened(t) PROVE Opened(s \o t)
  <2>1. PICK m \in 1 .. Len(t) : t[m] \in Gates
    BY <1>2 DEF Opened
  <2> QED BY <2>1, <1>0 DEF Opened
<1> QED BY <1>1, <1>2, ConcatList DEF Gated

(* A list that begins with a gate and has nothing of the programme row.    *)
LEMMA GatedFirst ==
  ASSUME NEW s, Len(s) \in Nat \ {0}, s[1] \in Gates, s[1].lock \notin Locks!Wallets, Ordinary(s)
  PROVE  Gated(s) /\ Opened(s)
<1>1. Opened(s)
  BY DEF Opened
<1>2. ASSUME NEW n \in 1 .. Len(s), s[n].lock \in Locks!Wallets PROVE Before(s, n, Gates)
  <2>1. n # 1
    BY <1>2
  <2> QED BY <2>1, <1>1 DEF Before
<1> QED BY <1>1, <1>2 DEF Gated, Ordinary

LEMMA LockNames ==
  /\ Locks!Program \notin Locks!Wallets /\ Locks!ProgramRow \notin Locks!Wallets
  /\ \A q : Locks!QrLock(q) \notin Locks!Wallets /\ Locks!QrRow(q) \notin Locks!Wallets
  /\ \A q : Locks!IntentRow(q) \notin Locks!Wallets
  /\ \A e : Locks!EventRow(e) \notin Locks!Wallets
BY DEF Locks!Program, Locks!ProgramRow, Locks!QrLock, Locks!QrRow, Locks!IntentRow,
   Locks!EventRow, Locks!Wallets, Locks!AccountRow, Locks!Wallet

(* Neither shared locks, nor those of anything else, are of the programme row. *)
LEMMA LockModes ==
  /\ \A l : Locks!Shared(l).lock = l /\ Locks!Exclusive(l).lock = l
  /\ \A l : Locks!Shared(l) # Locks!Exclusive(Locks!ProgramRow)
  /\ \A l : l # Locks!ProgramRow => Locks!Exclusive(l) # Locks!Exclusive(Locks!ProgramRow)
  /\ Locks!Shared(Locks!Program) \in Gates /\ Locks!Exclusive(Locks!Program) \in Gates
  /\ Locks!Shared(Locks!ProgramRow) \in Gates
  /\ \A k, l : <<k, l>> # Locks!ProgramRow
BY DEF Locks!Shared, Locks!Exclusive, Locks!ProgramRow, Locks!Program, Gates

(* RowSet of other tables.                                                   *)
LEMMA OtherRows ==
  ASSUME NEW table \in {"product row", "inventory row", "order row", "submission row", "policy row"},
         NEW k
  PROVE  /\ Locks!Exclusive(<<table, k>>).lock \notin Locks!Wallets
         /\ Locks!Exclusive(<<table, k>>) # Locks!Exclusive(Locks!ProgramRow)
<1>1. <<table, k>> \notin Locks!Wallets
  BY DEF Locks!Wallets, Locks!AccountRow, Locks!Wallet
<1> QED BY <1>1, LockModes

LEMMA PairOfLocks ==
  ASSUME NEW a, NEW b,
         a # Locks!Exclusive(Locks!ProgramRow), b # Locks!Exclusive(Locks!ProgramRow)
  PROVE  /\ IsList(<<a, b>>) /\ Ordinary(<<a, b>>)
         /\ a \in Gates /\ a.lock \notin Locks!Wallets => Gated(<<a, b>>) /\ Opened(<<a, b>>)
         /\ a.lock \notin Locks!Wallets /\ b.lock \notin Locks!Wallets => Apart(<<a, b>>)
<1>1. IsList(<<a, b>>) /\ Ordinary(<<a, b>>)
  BY Lists DEF Ordinary
<1>2. a \in Gates /\ a.lock \notin Locks!Wallets => Gated(<<a, b>>) /\ Opened(<<a, b>>)
  BY <1>1, Lists, GatedFirst
<1> QED BY <1>1, <1>2, Lists DEF Apart

LEMMA OneLock ==
  ASSUME NEW a, a # Locks!Exclusive(Locks!ProgramRow)
  PROVE  IsList(<<a>>) /\ Ordinary(<<a>>) /\ (a.lock \notin Locks!Wallets => Apart(<<a>>))
BY Lists DEF Ordinary, Apart

LEMMA AccountList ==
  ASSUME NEW u
  PROVE  /\ IsList(Locks!Account(u)) /\ Ordinary(Locks!Account(u))
         /\ Gated(Locks!Account(u)) /\ Opened(Locks!Account(u))
<1>1. /\ Locks!Shared(Locks!Program) # Locks!Exclusive(Locks!ProgramRow)
      /\ Locks!Exclusive(Locks!Wallet(u)) # Locks!Exclusive(Locks!ProgramRow)
      /\ Locks!Shared(Locks!Program) \in Gates
      /\ Locks!Shared(Locks!Program).lock \notin Locks!Wallets
  BY LockModes, LockNames DEF Locks!Wallet
<1> QED BY <1>1, PairOfLocks DEF Locks!Account

LEMMA QrMutationList ==
  ASSUME NEW q
  PROVE  /\ IsList(Locks!QrMutation(q)) /\ Ordinary(Locks!QrMutation(q))
         /\ Gated(Locks!QrMutation(q)) /\ Opened(Locks!QrMutation(q))
<1>1. /\ Locks!Shared(Locks!Program) # Locks!Exclusive(Locks!ProgramRow)
      /\ Locks!Exclusive(Locks!QrLock(q)) # Locks!Exclusive(Locks!ProgramRow)
      /\ Locks!Shared(Locks!Program) \in Gates
      /\ Locks!Shared(Locks!Program).lock \notin Locks!Wallets
  BY LockModes, LockNames DEF Locks!QrLock
<1> QED BY <1>1, PairOfLocks DEF Locks!QrMutation

LEMMA PostingList ==
  ASSUME Locks!LocksAssumption, NEW key, NEW owners, NEW events, IsFiniteSet(events)
  PROVE  /\ IsList(Locks!Posting(key, owners, events))
         /\ Ordinary(Locks!Posting(key, owners, events))
<1> DEFINE A == <<Locks!Shared(Locks!Program), Locks!Exclusive(<<"wallet-ledger", key>>)>>
           B == Locks!AccountRows(owners)
           C == <<Locks!Shared(Locks!ProgramRow)>>
           D == Locks!EventRefs(events)
<1>1. IsList(A) /\ Ordinary(A)
  BY PairOfLocks, LockModes
<1>2. IsList(B) /\ Ordinary(B)
  BY AccountRowsList
<1>3. IsList(C) /\ Ordinary(C)
  BY OneLock, LockModes
<1>4. IsList(D) /\ Ordinary(D)
  BY EventRefsList
<1>5. Locks!Posting(key, owners, events) = ((A \o B) \o C) \o D
  BY DEF Locks!Posting
<1> HIDE DEF A, B, C, D
<1>6. IsList(A \o B) /\ Ordinary(A \o B)
  BY <1>1, <1>2, OrdinaryConcat
<1>7. IsList((A \o B) \o C) /\ Ordinary((A \o B) \o C)
  BY <1>3, <1>6, OrdinaryConcat
<1> QED BY <1>4, <1>5, <1>7, OrdinaryConcat

LEMMA TripleOfLocks ==
  ASSUME NEW a, NEW b, NEW c,
         a # Locks!Exclusive(Locks!ProgramRow), b # Locks!Exclusive(Locks!ProgramRow),
         c # Locks!Exclusive(Locks!ProgramRow)
  PROVE  /\ IsList(<<a, b, c>>) /\ Ordinary(<<a, b, c>>)
         /\ a \in Gates /\ a.lock \notin Locks!Wallets => Gated(<<a, b, c>>)
         /\ /\ a.lock \notin Locks!Wallets /\ b.lock \notin Locks!Wallets
            /\ c.lock \notin Locks!Wallets
            => Apart(<<a, b, c>>)
<1>1. IsList(<<a, b, c>>) /\ Ordinary(<<a, b, c>>)
  BY Lists DEF Ordinary
<1>2. a \in Gates /\ a.lock \notin Locks!Wallets => Gated(<<a, b, c>>)
  BY <1>1, Lists, GatedFirst
<1> QED BY <1>1, <1>2, Lists DEF Apart

LEMMA ApartIsGated == \A s : Apart(s) => Gated(s)
BY DEF Apart, Gated, Ordinary

Good(s) == IsList(s) /\ Gated(s)

LEMMA OpenGood ==
  ASSUME Locks!LocksAssumption, NEW t
  PROVE  Good(Locks!Open(t)) /\ Good(Locks!Adjust(t))
<1>1. IsFiniteSet({})
  BY FS_EmptySet
<1> QED BY <1>1, AccountList, PostingList, GatedConcat DEF Good, Locks!Open, Locks!Adjust

LEMMA RegisterGood ==
  ASSUME NEW t
  PROVE  Good(Locks!Register(t)) /\ Good(Locks!Fund(t)) /\ Good(Locks!Policy(t))
<1>1. Good(Locks!Register(t))
  BY TripleOfLocks, LockModes, LockNames DEF Good, Locks!Register, Locks!AccountRow
<1>2. Good(Locks!Fund(t))
  BY PairOfLocks, LockModes, LockNames DEF Good, Locks!Fund, Locks!EventRow
<1>3. Good(Locks!Policy(t))
  BY OneLock, ApartIsGated, OtherRows DEF Good, Locks!Policy
<1> QED BY <1>1, <1>2, <1>3

LEMMA FourLocks ==
  ASSUME NEW a \in Gates, NEW b, NEW c, NEW d, a.lock \notin Locks!Wallets,
         \A l \in {a, b, c, d} : l # Locks!Exclusive(Locks!ProgramRow)
  PROVE  Good(<<a, b, c, d>>)
<1>1. PICK s : s = <<a, b, c, d>>
  OBVIOUS
<1>2. IsList(s) /\ Len(s) = 4 /\ s[1] = a /\ s[2] = b /\ s[3] = c /\ s[4] = d
  BY <1>1, Lists
<1>3. Ordinary(s)
  BY <1>2 DEF Ordinary
<1> QED BY <1>1, <1>2, <1>3, GatedFirst DEF Good

LEMMA CreateQrGood ==
  ASSUME NEW t
  PROVE  Good(Locks!CreateQr(t))
<1>1. /\ Locks!Shared(Locks!Program) \in Gates
      /\ Locks!Shared(Locks!Program).lock \notin Locks!Wallets
      /\ Locks!Shared(Locks!Program) # Locks!Exclusive(Locks!ProgramRow)
      /\ Locks!Exclusive(<<"wallet-qr", t.user>>) # Locks!Exclusive(Locks!ProgramRow)
      /\ Locks!Exclusive(Locks!QrRow(t.qr)) # Locks!Exclusive(Locks!ProgramRow)
      /\ Locks!Shared(Locks!ProgramRow) # Locks!Exclusive(Locks!ProgramRow)
  BY LockModes, LockNames DEF Locks!QrRow
<1> QED BY <1>1, FourLocks DEF Locks!CreateQr

LEMMA ProposeGood ==
  ASSUME NEW t, IsFiniteSet(t.events)
  PROVE  Good(Locks!Propose(t))
<1> DEFINE A == Locks!QrMutation(t.qr)
           B == <<Locks!Exclusive(Locks!QrRow(t.qr))>>
           C == Locks!Account(t.initiator)
           D == Locks!Account(t.owner)
           E == <<Locks!Shared(Locks!ProgramRow), Locks!Shared(Locks!AccountRow(t.payer)),
                  Locks!Shared(Locks!AccountRow(t.payee))>>
           F == Locks!EventRefs(t.events)
<1>1. Good(A) /\ Opened(A)
  BY QrMutationList DEF Good
<1>2. IsList(B) /\ Ordinary(B)
  BY OneLock, LockModes DEF Locks!QrRow
<1>3. IsList(C) /\ Ordinary(C) /\ IsList(D) /\ Ordinary(D)
  BY AccountList
<1>4. IsList(E) /\ Ordinary(E)
  BY TripleOfLocks, LockModes
<1>5. IsList(F) /\ Ordinary(F)
  BY EventRefsList
<1>6. Locks!Propose(t) = ((((A \o B) \o C) \o D) \o E) \o F
  BY DEF Locks!Propose
<1> HIDE DEF A, B, C, D, E, F
<1>7. Good(A \o B) /\ Opened(A \o B)
  BY <1>1, <1>2, GatedConcat DEF Good
<1>8. Good((A \o B) \o C) /\ Opened((A \o B) \o C)
  BY <1>3, <1>7, GatedConcat DEF Good
<1>9. Good(((A \o B) \o C) \o D) /\ Opened(((A \o B) \o C) \o D)
  BY <1>3, <1>8, GatedConcat DEF Good
<1>10. Good((((A \o B) \o C) \o D) \o E) /\ Opened((((A \o B) \o C) \o D) \o E)
  BY <1>4, <1>9, GatedConcat DEF Good
<1> QED BY <1>5, <1>6, <1>10, GatedConcat DEF Good

LEMMA ConfirmGood ==
  ASSUME Locks!LocksAssumption, NEW t, IsFiniteSet(t.events)
  PROVE  Good(Locks!Confirm(t))
<1> DEFINE A == Locks!QrMutation(t.qr)
           B == <<Locks!Exclusive(Locks!IntentRow(t.qr))>>
           C == Locks!Posting(<<"intent", t.qr>>, {t.payer, t.payee}, t.events)
           D == <<Locks!Exclusive(Locks!QrRow(t.qr))>>
<1>1. Good(A) /\ Opened(A)
  BY QrMutationList DEF Good
<1>2. IsList(B) /\ Ordinary(B) /\ IsList(D) /\ Ordinary(D)
  BY OneLock, LockModes DEF Locks!QrRow, Locks!IntentRow
<1>3. IsList(C) /\ Ordinary(C)
  BY PostingList
<1>4. Locks!Confirm(t) = ((A \o B) \o C) \o D
  BY DEF Locks!Confirm
<1> HIDE DEF A, B, C, D
<1>5. Good(A \o B) /\ Opened(A \o B)
  BY <1>1, <1>2, GatedConcat DEF Good
<1>6. Good((A \o B) \o C) /\ Opened((A \o B) \o C)
  BY <1>3, <1>5, GatedConcat DEF Good
<1> QED BY <1>2, <1>4, <1>6, GatedConcat DEF Good

LEMMA WithdrawGood ==
  ASSUME NEW t
  PROVE  Good(Locks!Withdraw(t)) /\ Good(Locks!Pickup(t))
<1>1. Good(Locks!Withdraw(t))
  <2> DEFINE A == Locks!QrMutation(t.qr)
             B == <<Locks!Exclusive(Locks!IntentRow(t.qr)), Locks!Exclusive(Locks!QrRow(t.qr))>>
  <2>1. IsList(B) /\ Ordinary(B)
    BY PairOfLocks, LockModes DEF Locks!QrRow, Locks!IntentRow
  <2>2. Locks!Withdraw(t) = A \o B
    BY DEF Locks!Withdraw
  <2> HIDE DEF B
  <2> QED BY <2>1, <2>2, QrMutationList, GatedConcat DEF Good
<1>2. Good(Locks!Pickup(t))
  <2>1. /\ Locks!Exclusive(Locks!QrRow(t.qr)).lock \notin Locks!Wallets
        /\ Locks!Exclusive(<<"order row", t.qr>>).lock \notin Locks!Wallets
        /\ Locks!Exclusive(<<"inventory row", t.product>>).lock \notin Locks!Wallets
    <3>1. Locks!Exclusive(Locks!QrRow(t.qr)).lock \notin Locks!Wallets
      BY LockModes, LockNames
    <3> QED BY <3>1, OtherRows
  <2>2. Apart(Locks!Pickup(t)) /\ IsList(Locks!Pickup(t))
    BY <2>1, TripleOfLocks, LockModes DEF Locks!Pickup, Locks!QrRow
  <2> QED BY <2>2, ApartIsGated DEF Good
<1> QED BY <1>1, <1>2

LEMMA CheckoutGood ==
  ASSUME Locks!LocksAssumption, NEW t
  PROVE  Good(Locks!Checkout(t))
<1> DEFINE A == <<Locks!Exclusive(<<"product row", t.product>>),
                  Locks!Exclusive(<<"inventory row", t.product>>)>>
           B == Locks!Account(t.user)
           C == Locks!Posting(<<"store", t.user>>, {"store", t.user}, {})
<1>1. IsList(A) /\ Apart(A)
  BY PairOfLocks, OtherRows
<1>2. IsList(C) /\ Ordinary(C)
  BY PostingList, FS_EmptySet
<1>3. Locks!Checkout(t) = (A \o B) \o C
  BY DEF Locks!Checkout
<1> HIDE DEF A, C
<1>4. Good(A \o B) /\ Opened(A \o B)
  BY <1>1, AccountList, ApartConcat DEF Good
<1> QED BY <1>2, <1>3, <1>4, GatedConcat DEF Good

LEMMA RewardGood ==
  ASSUME Locks!LocksAssumption, NEW t
  PROVE  Good(Locks!Reward(t))
<1> DEFINE A == <<Locks!Exclusive(<<"submission row", t.user>>),
                  Locks!Exclusive(<<"policy row", t.event>>),
                  Locks!Exclusive(Locks!EventRow(t.event))>>
           B == Locks!Account(t.user)
           C == Locks!Posting(<<"artifact", t.user>>, {t.event, t.user}, {t.event})
<1>1. IsList(A) /\ Apart(A)
  <2>1. /\ Locks!Exclusive(Locks!EventRow(t.event)).lock \notin Locks!Wallets
        /\ Locks!Exclusive(Locks!EventRow(t.event)) # Locks!Exclusive(Locks!ProgramRow)
    <3>1. Locks!EventRow(t.event) # Locks!ProgramRow
      BY LockModes DEF Locks!EventRow
    <3> QED BY <3>1, LockModes, LockNames
  <2> QED BY <2>1, TripleOfLocks, OtherRows
<1>2. IsList(C) /\ Ordinary(C)
  BY PostingList, FS_Singleton
<1>3. Locks!Reward(t) = (A \o B) \o C
  BY DEF Locks!Reward
<1> HIDE DEF A, C
<1>4. Good(A \o B) /\ Opened(A \o B)
  BY <1>1, AccountList, ApartConcat DEF Good
<1> QED BY <1>2, <1>3, <1>4, GatedConcat DEF Good

LEMMA AwardGood ==
  ASSUME Locks!LocksAssumption, NEW t, IsFiniteSet(t.events)
  PROVE  Good(Locks!Award(t))
<1> DEFINE A == <<Locks!Shared(Locks!Program), Locks!Shared(Locks!ProgramRow)>>
           B == Locks!EventRefs(t.events)
           C == Locks!Account(t.user)
           D == Locks!Posting(<<"leader-id", t.user>>, {"leader", t.user}, {})
<1>1. Good(A) /\ Opened(A)
  BY PairOfLocks, LockModes, LockNames DEF Good
<1>2. IsList(B) /\ Ordinary(B)
  BY EventRefsList
<1>3. IsList(D) /\ Ordinary(D)
  BY PostingList, FS_EmptySet
<1>4. Locks!Award(t) = ((A \o B) \o C) \o D
  BY DEF Locks!Award
<1> HIDE DEF A, B, D
<1>5. Good(A \o B) /\ Opened(A \o B)
  BY <1>1, <1>2, GatedConcat DEF Good
<1>6. Good((A \o B) \o C) /\ Opened((A \o B) \o C)
  BY <1>5, AccountList, GatedConcat DEF Good
<1> QED BY <1>3, <1>4, <1>6, GatedConcat DEF Good

LEMMA ResetGood ==
  ASSUME Locks!LocksAssumption, NEW t, IsFiniteSet(t.events)
  PROVE  Good(Locks!Reset(t))
<1> DEFINE A == <<Locks!Exclusive(Locks!Program), Locks!Exclusive(Locks!ProgramRow)>>
           B == Locks!AccountRows(Locks!ToSet(IdOrder))
           C == Locks!EventRefs(t.events)
           D == <<Locks!Exclusive(Locks!IntentRow(t.qr)), Locks!Exclusive(Locks!QrRow(t.qr))>>
<1>1. Good(A) /\ Opened(A)
  <2>1. /\ IsList(A) /\ Len(A) = 2 /\ A[1] = Locks!Exclusive(Locks!Program)
        /\ A[2] = Locks!Exclusive(Locks!ProgramRow)
    BY Lists
  <2>2. A[1].lock \notin Locks!Wallets /\ A[2].lock \notin Locks!Wallets
    BY <2>1, LockModes, LockNames
  <2>3. A[1] # Locks!Exclusive(Locks!ProgramRow) /\ A[1] \in Gates
    BY <2>1, LockModes DEF Locks!Program, Locks!ProgramRow
  <2>4. Before(A, 2, {Locks!Exclusive(Locks!Program)})
    BY <2>1 DEF Before
  <2>5. ASSUME NEW n \in 1 .. Len(A)
        PROVE  /\ A[n].lock \in Locks!Wallets => Before(A, n, Gates)
               /\ A[n] = Locks!Exclusive(Locks!ProgramRow)
                    => Before(A, n, {Locks!Exclusive(Locks!Program)})
    <3> HIDE DEF A
    <3>1. n = 1 \/ n = 2
      BY <2>1
    <3> QED BY <3>1, <2>2, <2>3, <2>4
  <2> HIDE DEF A
  <2> QED BY <2>1, <2>3, <2>5 DEF Good, Gated, Opened
<1>2. IsList(B) /\ Ordinary(B)
  BY AccountRowsList
<1>3. IsList(C) /\ Ordinary(C)
  BY EventRefsList
<1>4. IsList(D) /\ Ordinary(D)
  BY PairOfLocks, LockModes DEF Locks!QrRow, Locks!IntentRow
<1>5. Locks!Reset(t) = ((A \o B) \o C) \o D
  BY DEF Locks!Reset
<1> HIDE DEF A, B, C, D
<1>6. Good(A \o B) /\ Opened(A \o B)
  BY <1>1, <1>2, GatedConcat DEF Good
<1>7. Good((A \o B) \o C) /\ Opened((A \o B) \o C)
  BY <1>3, <1>6, GatedConcat DEF Good
<1> QED BY <1>4, <1>5, <1>7, GatedConcat DEF Good

LEMMA ScriptGood ==
  ASSUME Locks!LocksAssumption, NEW t \in Tasks
  PROVE  Good(Locks!Script[t])
<1>1. /\ t.op \in {"open", "register", "adjust", "create-qr", "propose", "confirm", "withdraw",
                   "checkout", "pickup", "reward", "award", "fund", "policy", "reset"}
      /\ t.op \in {"propose", "confirm", "award", "reset"} => IsFiniteSet(t.events)
  BY SameFiniteSets DEF Locks!LocksAssumption
<1>2. CASE t.op = "open"
  BY <1>2, OpenGood DEF Locks!Script
<1>3. CASE t.op = "register"
  BY <1>3, RegisterGood DEF Locks!Script
<1>4. CASE t.op = "adjust"
  BY <1>4, OpenGood DEF Locks!Script
<1>5. CASE t.op = "create-qr"
  BY <1>5, CreateQrGood DEF Locks!Script
<1>6. CASE t.op = "propose"
  BY <1>1, <1>6, ProposeGood DEF Locks!Script
<1>7. CASE t.op = "confirm"
  BY <1>1, <1>7, ConfirmGood DEF Locks!Script
<1>8. CASE t.op = "withdraw"
  BY <1>8, WithdrawGood DEF Locks!Script
<1>9. CASE t.op = "checkout"
  BY <1>9, CheckoutGood DEF Locks!Script
<1>10. CASE t.op = "pickup"
  BY <1>10, WithdrawGood DEF Locks!Script
<1>11. CASE t.op = "reward"
  BY <1>11, RewardGood DEF Locks!Script
<1>12. CASE t.op = "award"
  BY <1>1, <1>12, AwardGood DEF Locks!Script
<1>13. CASE t.op = "fund"
  BY <1>13, RegisterGood DEF Locks!Script
<1>14. CASE t.op = "policy"
  BY <1>14, RegisterGood DEF Locks!Script
<1>15. CASE t.op = "reset"
  BY <1>1, <1>15, ResetGood DEF Locks!Script
<1> QED BY <1>1, <1>2, <1>3, <1>4, <1>5, <1>6, <1>7, <1>8, <1>9, <1>10, <1>11, <1>12, <1>13,
           <1>14, <1>15

-----------------------------------------------------------------------------
(* Inductive: nobody holds a lock that conflicts with one of another's.    *)

Exclusion ==
  \A b, c \in Backends : b # c =>
    \A r \in Locks!Held(b), s \in Locks!Held(c) : ~Locks!Conflict(r, s)

LocksInv == Locks!TypeOK /\ taken \in [Backends -> Nat] /\ Exclusion

LEMMA LocksInit == Locks!LocksAssumption /\ Locks!Init => LocksInv
<1> SUFFICES ASSUME Locks!LocksAssumption, Locks!Init PROVE LocksInv
  OBVIOUS
<1>1. \A b \in Backends : taken[b] = 0 /\ task[b] \in Tasks
  BY DEF Locks!Init
<1>2. \A b \in Backends : Len(Locks!Script[task[b]]) \in Nat
  <2>1. ASSUME NEW s, IsList(s) PROVE Len(s) \in Nat
    BY <2>1, ConcatList
  <2> QED BY <1>1, <2>1, ScriptGood DEF Good
<1>3. \A b \in Backends : Locks!Held(b) = {}
  BY <1>1 DEF Locks!Held
<1> QED BY <1>1, <1>2, <1>3 DEF Locks!Init, LocksInv, Locks!TypeOK, Exclusion

LEMMA LocksNext ==
  Locks!LocksAssumption /\ LocksInv /\ [Locks!Next]_Locks!vars => LocksInv'
<1> SUFFICES ASSUME Locks!LocksAssumption, LocksInv, [Locks!Next]_Locks!vars PROVE LocksInv'
  OBVIOUS
<1>0. \A b \in Backends : Len(Locks!Script[task[b]]) \in Nat
  <2>1. ASSUME NEW s, IsList(s) PROVE Len(s) \in Nat
    BY <2>1, ConcatList
  <2> QED BY <2>1, ScriptGood DEF Good, LocksInv, Locks!TypeOK
<1>1. ASSUME NEW b \in Backends, Locks!Take(b) PROVE LocksInv'
  <2>1. /\ task' = task /\ ended' = ended /\ taken' = [taken EXCEPT ![b] = @ + 1]
        /\ b \notin ended /\ taken[b] < Len(Locks!Script[task[b]])
        /\ \A c \in Backends : ~Locks!WaitsFor(b, c)
    BY <1>1 DEF Locks!Take, Locks!Wanting
  <2>2. Locks!TypeOK' /\ taken' \in [Backends -> Nat]
    BY <2>1, <1>0 DEF LocksInv, Locks!TypeOK
  <2>3. \A c \in Backends \ {b} : Locks!Held(c)' = Locks!Held(c)
    BY <2>1 DEF LocksInv, Locks!Held
  <2>4. Locks!Held(b)' \subseteq Locks!Held(b) \cup {Locks!Wanted(b)}
    <3>1. taken'[b] = taken[b] + 1 /\ taken[b] \in Nat
      BY <2>1 DEF LocksInv
    <3>2. 1 .. taken[b] + 1 = 1 .. taken[b] \cup {taken[b] + 1}
      BY <3>1
    <3> QED BY <2>1, <3>1, <3>2 DEF Locks!Held, Locks!Wanted
  <2>5. \A c \in Backends \ {b} : \A r \in Locks!Held(c) : ~Locks!Conflict(r, Locks!Wanted(b))
    BY <2>1 DEF Locks!WaitsFor, Locks!Wanting
  <2>6. \A r, s : Locks!Conflict(r, s) <=> Locks!Conflict(s, r)
    BY DEF Locks!Conflict
  <2>7. Exclusion'
    <3>1. ASSUME NEW c \in Backends, NEW d \in Backends, c # d,
                 NEW r \in Locks!Held(c)', NEW s \in Locks!Held(d)'
          PROVE  ~Locks!Conflict(r, s)
      <4>1. CASE c = b
        <5>1. s \in Locks!Held(d) /\ r \in Locks!Held(b) \cup {Locks!Wanted(b)}
          BY <3>1, <4>1, <2>3, <2>4
        <5> QED BY <3>1, <4>1, <5>1, <2>5, <2>6 DEF LocksInv, Exclusion
      <4>2. CASE d = b
        <5>1. r \in Locks!Held(c) /\ s \in Locks!Held(b) \cup {Locks!Wanted(b)}
          BY <3>1, <4>2, <2>3, <2>4
        <5> QED BY <3>1, <4>2, <5>1, <2>5 DEF LocksInv, Exclusion
      <4>3. CASE c # b /\ d # b
        BY <3>1, <4>3, <2>3 DEF LocksInv, Exclusion
      <4> QED BY <4>1, <4>2, <4>3
    <3> QED BY <3>1 DEF Exclusion, Locks!Conflict
  <2> QED BY <2>2, <2>7 DEF LocksInv
<1>2. ASSUME NEW b \in Backends, Locks!Commit(b) \/ Locks!Rollback(b) PROVE LocksInv'
  <2>1. task' = task /\ taken' = taken /\ ended' = ended \cup {b}
    BY <1>2 DEF Locks!Commit, Locks!Rollback
  <2>2. \A c \in Backends : Locks!Held(c)' \subseteq Locks!Held(c)
    BY <2>1 DEF Locks!Held
  <2>3. Exclusion'
    BY <2>2 DEF LocksInv, Exclusion, Locks!Conflict
  <2> QED BY <2>1, <2>3 DEF LocksInv, Locks!TypeOK
<1>3. CASE UNCHANGED Locks!vars
  BY <1>3 DEF LocksInv, Locks!vars, Locks!TypeOK, Exclusion, Locks!Held, Locks!Conflict
<1> QED BY <1>1, <1>2, <1>3 DEF Locks!Next

(* What is before a lock in the list was taken before it.                  *)
LEMMA HeldBefore ==
  ASSUME LocksInv, NEW b \in Backends, b \notin ended, NEW n \in 1 .. taken[b], NEW locks,
         Before(Locks!Script[task[b]], n, locks)
  PROVE  \E r \in Locks!Held(b) : r \in locks
<1>1. PICK m \in 1 .. Len(Locks!Script[task[b]]) : m < n /\ Locks!Script[task[b]][m] \in locks
  BY DEF Before
<1>2. m \in 1 .. taken[b]
  BY <1>1 DEF LocksInv
<1> QED BY <1>1, <1>2 DEF Locks!Held

LEMMA AloneFollows == Locks!LocksAssumption /\ LocksInv => Locks!ResetIsAlone
<1> SUFFICES ASSUME Locks!LocksAssumption, LocksInv, NEW b \in Backends, NEW c \in Backends,
                    b # c, Locks!Exclusive(Locks!ProgramRow) \in Locks!Held(b),
                    NEW r \in Locks!Held(c), r.lock \in Locks!Wallets
             PROVE  FALSE
  BY DEF Locks!ResetIsAlone
<1>0. /\ task[b] \in Tasks /\ task[c] \in Tasks /\ b \notin ended /\ c \notin ended
      /\ taken[b] \in Nat /\ taken[b] <= Len(Locks!Script[task[b]])
      /\ taken[c] \in Nat /\ taken[c] <= Len(Locks!Script[task[c]])
  BY DEF LocksInv, Locks!TypeOK, Locks!Held
<1>1. PICK n \in 1 .. taken[b] : Locks!Script[task[b]][n] = Locks!Exclusive(Locks!ProgramRow)
  BY DEF Locks!Held
<1>2. PICK k \in 1 .. taken[c] : Locks!Script[task[c]][k] = r
  BY DEF Locks!Held
<1>3. Before(Locks!Script[task[b]], n, {Locks!Exclusive(Locks!Program)})
  <2>1. n \in 1 .. Len(Locks!Script[task[b]])
    BY <1>0, ScriptGood, ConcatList DEF Good
  <2> QED BY <1>0, <1>1, <2>1, ScriptGood DEF Good, Gated
<1>4. Before(Locks!Script[task[c]], k, Gates)
  <2>1. k \in 1 .. Len(Locks!Script[task[c]])
    BY <1>0, ScriptGood, ConcatList DEF Good
  <2> QED BY <1>0, <1>2, <2>1, ScriptGood DEF Good, Gated
<1>5. Locks!Exclusive(Locks!Program) \in Locks!Held(b)
  <2>1. \E g \in Locks!Held(b) : g \in {Locks!Exclusive(Locks!Program)}
    BY <1>0, <1>3, HeldBefore
  <2> QED BY <2>1
<1>6. PICK g \in Locks!Held(c) : g \in Gates
  BY <1>0, <1>4, HeldBefore
<1>7. /\ ~Locks!Conflict(Locks!Exclusive(Locks!Program), g)
      /\ ~Locks!Conflict(Locks!Exclusive(Locks!ProgramRow), g)
  BY <1>5, <1>6 DEF LocksInv, Exclusion
<1> QED BY <1>6, <1>7 DEF Gates, Locks!Conflict, Locks!Exclusive, Locks!Shared

(* docs/wallet.md, admin-wallet.ts: a reset that has the programme row has *)
(* all wallets to itself, whatever the other transactions are, registrations *)
(* included, and however many.                                             *)
THEOREM ResetHasTheWallets ==
  ASSUME Locks!LocksAssumption
  PROVE  Locks!Spec => []ResetIsAlone
<1>1. LocksInv => ResetIsAlone
  BY AloneFollows DEF ResetIsAlone
<1> QED BY <1>1, LocksInit, LocksNext, PTL DEF Locks!Spec

-----------------------------------------------------------------------------
(* Nobody waits in a circle                                                *)
(*                                                                         *)
(* Every lock a script wants has a rank.  It is either above all that the  *)
(* script has by then, or settled: whoever has it does not wait for anybody *)
(* who waits.  So along the waits of transactions that all wait the ranks   *)
(* climb, and they are bounded.                                            *)

PlaceIn(order, u) ==
  IF u \in Locks!ToSet(order) THEN CHOOSE n \in DOMAIN order : order[n] = u ELSE 0

(* The order in which scripts come to the locks they may have to wait for.  *)
Rank(order, r) ==
  LET table == r.lock[1]
      users == Len(order)
  IN  CASE table = "program" -> IF r.mode = "exclusive" THEN 0 ELSE 10
        [] table = "product row" -> 1
        [] table = "submission row" -> 2
        [] table = "policy row" -> 3
        [] table \in {"wallet-qr", "wallet-qr-session"} -> 6
        [] table \in {"qr row", "intent row"} -> 7
        [] table = "order row" -> 8
        [] table = "inventory row" -> 9
        [] table = "program row" -> 11
        [] table = "event row" -> IF r.mode = "exclusive" THEN 12 ELSE 13
        [] table = "wallet-user" -> 14 + PlaceIn(order, r.lock[2])
        [] table = "wallet-ledger" -> 15 + users
        [] OTHER -> 16 + users + PlaceIn(IdOrder, r.lock[2])

(* What is wanted by who waits for a lock that is held has no higher rank.  *)
RankBehind(order, r) ==
  CASE r.lock[1] = "program" -> IF r.mode = "exclusive" THEN 10 ELSE 0
    [] r.lock[1] = "event row" -> IF r.mode = "exclusive" THEN 13 ELSE 12
    [] OTHER -> Rank(order, r)

Enough(order) == 16 + Len(order) + Len(IdOrder)

(* Nobody who waits too can have the lock that is wanted.                  *)
Settled(T, t, held, w) ==
  \/ w \in held \/ Locks!Exclusive(w.lock) \in held
  \/ w = Locks!Shared(Locks!Program) /\ \A s \in T : s.op # "reset"
  \/ w = Locks!Shared(Locks!ProgramRow) /\ Locks!Shared(Locks!Program) \in held
  \/ w.mode = "shared" /\ w.lock[1] = "event row" /\ \A s \in T : s.op # "reward"
  \/ /\ w.lock[1] = "qr row" /\ t.op # "pickup"
     /\ Locks!Shared(Locks!Program) \in held
     /\ Locks!Exclusive(Locks!QrLock(w.lock[2])) \in held
  \/ /\ w.lock[1] \in {"account row", "intent row", "qr row"} /\ t.op = "reset"
     /\ Locks!Exclusive(Locks!Program) \in held
     /\ Locks!Exclusive(Locks!ProgramRow) \in held

Below(order, held, n) == \A r \in held : RankBehind(order, r) \in 0 .. n - 1

Climbs(order, held, w) == Below(order, held, Rank(order, w))

(* What else has been locked by who locks a row.                           *)
Guarded(t, held, r) ==
  /\ r.lock[1] \in {"account row", "intent row"} => \E g \in held : g \in Gates
  /\ r.lock[1] = "qr row" =>
       /\ t.op \in {"create-qr", "propose", "confirm", "withdraw", "reset", "pickup"}
       /\ r.lock[2] = t.qr
       /\ \/ t.op = "pickup"
          \/ Locks!Exclusive(Locks!Program) \in held
          \/ /\ Locks!Shared(Locks!Program) \in held
             /\ t.op = "create-qr" \/ Locks!Exclusive(Locks!QrLock(t.qr)) \in held
  /\ r.lock[1] = "event row" /\ r.mode = "exclusive" => t.op = "reward"
  /\ r.lock[1] = "program" /\ r.mode = "exclusive" => t.op = "reset"
  /\ r.lock[1] = "program row" /\ r.mode = "exclusive" => Locks!Exclusive(Locks!Program) \in held

Fine(T, order, t, held, w) ==
  /\ w.mode \in {"shared", "exclusive"} /\ Guarded(t, held, w)
  /\ Settled(T, t, held, w) \/ Climbs(order, held, w)
  /\ Rank(order, w) \in 0 .. Enough(order)

FineAfter(T, order, t, held, s) ==
  \A k \in 1 .. Len(s) : Fine(T, order, t, held \cup {s[m] : m \in 1 .. k - 1}, s[k])

Locked(s) == {s[m] : m \in 1 .. Len(s)}


IsOrder(order) ==
  /\ Len(order) \in Nat /\ DOMAIN order = 1 .. Len(order)
  /\ \A m, n \in DOMAIN order : order[m] = order[n] => m = n

LEMMA OrderlyIsOrder ==
  ASSUME Locks!LocksAssumption, NEW T, NEW order, Locks!Orderly(T, order)
  PROVE  IsOrder(order) /\ IsOrder(IdOrder)
<1>1. ASSUME NEW s, s \in Seq(Locks!ToSet(s)), Locks!IsInjective(s)
      PROVE  IsOrder(s)
  BY <1>1 DEF IsOrder, Locks!IsInjective
<1> QED BY <1>1 DEF Locks!LocksAssumption, Locks!Orderly

LEMMA Places ==
  ASSUME NEW order, IsOrder(order)
  PROVE  /\ \A u : PlaceIn(order, u) \in 0 .. Len(order)
         /\ \A n \in DOMAIN order : PlaceIn(order, order[n]) = n
         /\ \A u, v : Locks!Precedes(u, v, order) => PlaceIn(order, u) < PlaceIn(order, v)
<1>1. ASSUME NEW n \in DOMAIN order
      PROVE  PlaceIn(order, order[n]) = n
  <2>1. order[n] \in Locks!ToSet(order)
    BY DEF Locks!ToSet
  <2>2. \E m \in DOMAIN order : order[m] = order[n]
    OBVIOUS
  <2> QED BY <2>1, <2>2 DEF PlaceIn, IsOrder
<1>2. ASSUME NEW u
      PROVE  PlaceIn(order, u) \in 0 .. Len(order)
  <2>1. CASE u \in Locks!ToSet(order)
    <3>1. PICK n \in DOMAIN order : u = order[n]
      BY <2>1 DEF Locks!ToSet
    <3> QED BY <1>1, <3>1 DEF IsOrder
  <2>2. CASE u \notin Locks!ToSet(order)
    BY <2>2 DEF PlaceIn, IsOrder
  <2> QED BY <2>1, <2>2
<1>3. ASSUME NEW u, NEW v, Locks!Precedes(u, v, order)
      PROVE  PlaceIn(order, u) < PlaceIn(order, v)
  BY <1>1, <1>3 DEF Locks!Precedes
<1> QED BY <1>1, <1>2, <1>3

LEMMA RankOf ==
  ASSUME NEW order, NEW r
  PROVE  /\ r.lock[1] = "program" /\ r.mode = "shared" =>
              Rank(order, r) = 10 /\ RankBehind(order, r) = 0
         /\ r.lock[1] = "program" /\ r.mode = "exclusive" =>
              Rank(order, r) = 0 /\ RankBehind(order, r) = 10
         /\ r.lock[1] = "product row" => Rank(order, r) = 1 /\ RankBehind(order, r) = 1
         /\ r.lock[1] = "submission row" => Rank(order, r) = 2 /\ RankBehind(order, r) = 2
         /\ r.lock[1] = "policy row" => Rank(order, r) = 3 /\ RankBehind(order, r) = 3
         /\ r.lock[1] \in {"wallet-qr", "wallet-qr-session"} =>
              Rank(order, r) = 6 /\ RankBehind(order, r) = 6
         /\ r.lock[1] \in {"qr row", "intent row"} =>
              Rank(order, r) = 7 /\ RankBehind(order, r) = 7
         /\ r.lock[1] = "order row" => Rank(order, r) = 8 /\ RankBehind(order, r) = 8
         /\ r.lock[1] = "inventory row" => Rank(order, r) = 9 /\ RankBehind(order, r) = 9
         /\ r.lock[1] = "program row" => Rank(order, r) = 11 /\ RankBehind(order, r) = 11
         /\ r.lock[1] = "event row" /\ r.mode = "exclusive" =>
              Rank(order, r) = 12 /\ RankBehind(order, r) = 13
         /\ r.lock[1] = "event row" /\ r.mode = "shared" =>
              Rank(order, r) = 13 /\ RankBehind(order, r) = 12
         /\ r.lock[1] = "wallet-user" =>
              /\ Rank(order, r) = 14 + PlaceIn(order, r.lock[2])
              /\ RankBehind(order, r) = 14 + PlaceIn(order, r.lock[2])
         /\ r.lock[1] = "wallet-ledger" =>
              Rank(order, r) = 15 + Len(order) /\ RankBehind(order, r) = 15 + Len(order)
         /\ r.lock[1] = "account row" =>
              /\ Rank(order, r) = 16 + Len(order) + PlaceIn(IdOrder, r.lock[2])
              /\ RankBehind(order, r) = 16 + Len(order) + PlaceIn(IdOrder, r.lock[2])
BY DEF Rank, RankBehind

LEMMA ConflictRanks ==
  ASSUME NEW order, NEW r, NEW w, Locks!Conflict(r, w),
         Rank(order, w) \in Nat, RankBehind(order, r) \in Nat,
         w.mode \in {"shared", "exclusive"}, r.mode \in {"shared", "exclusive"}
  PROVE  Rank(order, w) <= RankBehind(order, r)
<1>1. r.lock = w.lock /\ (r.mode = "exclusive" \/ w.mode = "exclusive")
  BY DEF Locks!Conflict
<1>2. CASE r.lock[1] = "program"
  <2>1. CASE r.mode = "exclusive"
    <3>1. RankBehind(order, r) = 10
      BY <1>2, <2>1, RankOf
    <3>2. Rank(order, w) = 0 \/ Rank(order, w) = 10
      BY <1>1, <1>2, RankOf
    <3> QED BY <3>1, <3>2
  <2>2. CASE r.mode = "shared"
    <3>1. Rank(order, w) = 0
      BY <1>1, <1>2, <2>2, RankOf
    <3> QED BY <3>1
  <2> QED BY <2>1, <2>2
<1>3. CASE r.lock[1] = "event row"
  <2>1. CASE r.mode = "exclusive"
    <3>1. RankBehind(order, r) = 13
      BY <1>3, <2>1, RankOf
    <3>2. Rank(order, w) = 12 \/ Rank(order, w) = 13
      BY <1>1, <1>3, RankOf
    <3> QED BY <3>1, <3>2
  <2>2. CASE r.mode = "shared"
    <3>1. RankBehind(order, r) = 12 /\ Rank(order, w) = 12
      BY <1>1, <1>3, <2>2, RankOf
    <3> QED BY <3>1
  <2> QED BY <2>1, <2>2
<1>4. CASE r.lock[1] \notin {"program", "event row"}
  <2>1. RankBehind(order, r) = Rank(order, r)
    BY <1>4 DEF RankBehind
  <2>2. Rank(order, r) = Rank(order, w)
    BY <1>1, <1>4 DEF Rank
  <2> QED BY <2>1, <2>2
<1> QED BY <1>2, <1>3, <1>4

(* The tables of the locks, and how they are held.                         *)
LEMMA LockTables ==
  /\ \A l : Locks!Shared(l).lock = l /\ Locks!Shared(l).mode = "shared"
  /\ \A l : Locks!Exclusive(l).lock = l /\ Locks!Exclusive(l).mode = "exclusive"
  /\ Locks!Program[1] = "program" /\ Locks!ProgramRow[1] = "program row"
BY DEF Locks!Shared, Locks!Exclusive, Locks!Program, Locks!ProgramRow

Tables == {"program", "product row", "submission row", "policy row", "wallet-qr",
           "wallet-qr-session", "qr row", "intent row", "order row", "inventory row",
           "program row", "event row", "wallet-user", "wallet-ledger", "account row"}

LEMMA RankRange ==
  ASSUME NEW order, IsOrder(order), IsOrder(IdOrder), NEW r, r.lock[1] \in Tables,
         r.mode \in {"shared", "exclusive"}
  PROVE  /\ Rank(order, r) \in 0 .. Enough(order)
         /\ RankBehind(order, r) \in 0 .. Enough(order)
<1>1. PlaceIn(order, r.lock[2]) \in 0 .. Len(order) /\ PlaceIn(IdOrder, r.lock[2]) \in 0 .. Len(IdOrder)
  BY Places
<1>2. Len(order) \in Nat /\ Len(IdOrder) \in Nat
  BY DEF IsOrder
<1>3. CASE r.lock[1] \in {"program", "event row"}
  <2>1. Rank(order, r) \in {0, 10, 12, 13} /\ RankBehind(order, r) \in {0, 10, 12, 13}
    BY <1>3, RankOf
  <2> QED BY <1>2, <2>1 DEF Enough
<1>4. CASE r.lock[1] \in {"wallet-user", "wallet-ledger", "account row"}
  <2>1. /\ Rank(order, r) \in {14 + PlaceIn(order, r.lock[2]), 15 + Len(order),
                               16 + Len(order) + PlaceIn(IdOrder, r.lock[2])}
        /\ RankBehind(order, r) = Rank(order, r)
    BY <1>4, RankOf
  <2> QED BY <1>1, <1>2, <2>1 DEF Enough
<1>5. CASE r.lock[1] \in Tables \ {"program", "event row", "wallet-user", "wallet-ledger", "account row"}
  <2>1. r.lock[1] \in {"product row", "submission row", "policy row", "wallet-qr",
                       "wallet-qr-session", "qr row", "intent row", "order row", "inventory row",
                       "program row"}
    BY <1>5 DEF Tables
  <2>2. Rank(order, r) \in {1, 2, 3, 6, 7, 8, 9, 11}
    BY <2>1 DEF Rank
  <2>3. RankBehind(order, r) = Rank(order, r)
    BY <2>1 DEF RankBehind
  <2> QED BY <1>2, <2>2, <2>3 DEF Enough
<1> QED BY <1>3, <1>4, <1>5

-----------------------------------------------------------------------------
LEMMA FineConcat ==
  ASSUME NEW T, NEW order, NEW t, NEW held, NEW a, NEW b, IsList(a), IsList(b),
         FineAfter(T, order, t, held, a), FineAfter(T, order, t, held \cup Locked(a), b)
  PROVE  /\ IsList(a \o b) /\ FineAfter(T, order, t, held, a \o b)
         /\ Locked(a \o b) = Locked(a) \cup Locked(b)
<1>1. /\ Len(a) \in Nat /\ Len(b) \in Nat /\ Len(a \o b) = Len(a) + Len(b)
      /\ \A n \in 1 .. Len(a) : (a \o b)[n] = a[n]
      /\ \A n \in 1 .. Len(b) : (a \o b)[Len(a) + n] = b[n]
  <2>1. PICK S, U : a \in Seq(S) /\ b \in Seq(U)
    BY DEF IsList
  <2>2. a \in Seq(S \cup U) /\ b \in Seq(S \cup U)
    BY <2>1
  <2> QED BY <2>2
<1>2. ASSUME NEW k \in 1 .. Len(b) + 1
      PROVE  {(a \o b)[m] : m \in 1 .. Len(a) + k - 1} = Locked(a) \cup {b[m] : m \in 1 .. k - 1}
  <2>1. ASSUME NEW m \in 1 .. Len(a) + k - 1
        PROVE  (a \o b)[m] \in Locked(a) \cup {b[n] : n \in 1 .. k - 1}
    <3>1. CASE m <= Len(a)
      BY <1>1, <3>1 DEF Locked
    <3>2. CASE m > Len(a)
      <4>1. m - Len(a) \in 1 .. k - 1 /\ m - Len(a) \in 1 .. Len(b) /\ m = Len(a) + (m - Len(a))
        BY <1>1, <3>2
      <4> QED BY <4>1, <1>1
    <3> QED BY <3>1, <3>2, <1>1
  <2>2. ASSUME NEW m \in 1 .. Len(a)
        PROVE  a[m] \in {(a \o b)[n] : n \in 1 .. Len(a) + k - 1}
    <3>1. m \in 1 .. Len(a) + k - 1 /\ (a \o b)[m] = a[m]
      BY <1>1
    <3> QED BY <3>1
  <2>3. ASSUME NEW m \in 1 .. k - 1
        PROVE  b[m] \in {(a \o b)[n] : n \in 1 .. Len(a) + k - 1}
    <3>1. Len(a) + m \in 1 .. Len(a) + k - 1 /\ (a \o b)[Len(a) + m] = b[m]
      BY <1>1
    <3> QED BY <3>1
  <2> QED BY <2>1, <2>2, <2>3 DEF Locked
<1>3. Locked(a \o b) = Locked(a) \cup Locked(b)
  <2>1. Len(b) + 1 \in 1 .. Len(b) + 1 /\ Len(a) + (Len(b) + 1) - 1 = Len(a) + Len(b)
        /\ (Len(b) + 1) - 1 = Len(b)
    BY <1>1
  <2> QED BY <1>1, <1>2, <2>1 DEF Locked
<1>4. ASSUME NEW k \in 1 .. Len(a \o b)
      PROVE  Fine(T, order, t, held \cup {(a \o b)[m] : m \in 1 .. k - 1}, (a \o b)[k])
  <2>1. CASE k <= Len(a)
    <3>1. k \in 1 .. Len(a) /\ (a \o b)[k] = a[k] /\ \A m \in 1 .. k - 1 : (a \o b)[m] = a[m]
      BY <1>1, <2>1
    <3>2. {(a \o b)[m] : m \in 1 .. k - 1} = {a[m] : m \in 1 .. k - 1}
      BY <3>1
    <3> QED BY <3>1, <3>2 DEF FineAfter
  <2>2. CASE k > Len(a)
    <3>1. PICK n \in 1 .. Len(b) : k = Len(a) + n
      <4>1. k - Len(a) \in 1 .. Len(b) /\ k = Len(a) + (k - Len(a))
        BY <1>1, <2>2
      <4> QED BY <4>1
    <3>2. {(a \o b)[m] : m \in 1 .. k - 1} = Locked(a) \cup {b[m] : m \in 1 .. n - 1}
      <4>1. {(a \o b)[m] : m \in 1 .. Len(a) + n - 1} = Locked(a) \cup {b[m] : m \in 1 .. n - 1}
        <5>1. n \in 1 .. Len(b) + 1
          BY <1>1
        <5> QED BY <1>2, <5>1
      <4>2. k - 1 = Len(a) + n - 1
        BY <3>1, <1>1
      <4> QED BY <4>1, <4>2
    <3>3. Fine(T, order, t, (held \cup Locked(a)) \cup {b[m] : m \in 1 .. n - 1}, b[n])
      BY DEF FineAfter
    <3>4. held \cup (Locked(a) \cup {b[m] : m \in 1 .. n - 1})
            = (held \cup Locked(a)) \cup {b[m] : m \in 1 .. n - 1}
      OBVIOUS
    <3>5. (a \o b)[k] = b[n]
      BY <1>1, <3>1
    <3>6. held \cup {(a \o b)[m] : m \in 1 .. k - 1}
            = (held \cup Locked(a)) \cup {b[m] : m \in 1 .. n - 1}
      BY <3>2, <3>4
    <3> QED BY <3>3, <3>5, <3>6
  <2>3. k <= Len(a) \/ k > Len(a)
    BY <1>1
  <2> QED BY <2>1, <2>2, <2>3
<1> QED BY <1>3, <1>4, ConcatList DEF FineAfter

(* Concatenation, where what is in the result does not matter.             *)
a ++ b == a \o b

LEMMA FineJoin ==
  ASSUME NEW T, NEW order, NEW t, NEW held, NEW a, NEW b, IsList(a), IsList(b),
         FineAfter(T, order, t, held, a), FineAfter(T, order, t, held \cup Locked(a), b)
  PROVE  /\ IsList(a ++ b) /\ FineAfter(T, order, t, held, a ++ b)
         /\ Locked(a ++ b) = Locked(a) \cup Locked(b)
BY FineConcat DEF ++

LEMMA FineNext ==
  ASSUME NEW T, NEW order, NEW t, NEW a, NEW b, IsList(a), IsList(b),
         FineAfter(T, order, t, {}, a), FineAfter(T, order, t, Locked(a), b)
  PROVE  /\ IsList(a ++ b) /\ FineAfter(T, order, t, {}, a ++ b)
         /\ Locked(a ++ b) = Locked(a) \cup Locked(b)
<1>1. PICK none, h : none = {} /\ h = none \cup Locked(a)
  OBVIOUS
<1>2. h = Locked(a)
  BY <1>1
<1>3. FineAfter(T, order, t, none, a) /\ FineAfter(T, order, t, h, b)
  BY <1>1, <1>2
<1>4. FineAfter(T, order, t, none \cup Locked(a), b)
  BY <1>1, <1>3
<1> QED BY <1>1, <1>3, <1>4, FineJoin

LEMMA FineOne ==
  ASSUME NEW T, NEW order, NEW t, NEW held, NEW s, IsList(s), Len(s) = 1,
         Fine(T, order, t, held, s[1])
  PROVE  FineAfter(T, order, t, held, s) /\ Locked(s) = {s[1]}
<1>1. 1 .. Len(s) = {1}
  OBVIOUS
<1>2. Locked(s) = {s[1]}
  BY <1>1 DEF Locked
<1>3. held \cup {s[m] : m \in 1 .. 1 - 1} = held
  OBVIOUS
<1>4. ASSUME NEW k \in 1 .. Len(s)
      PROVE  Fine(T, order, t, held \cup {s[m] : m \in 1 .. k - 1}, s[k])
  <2>1. CASE k = 1
    BY <2>1, <1>3
  <2> QED BY <1>1, <2>1
<1> QED BY <1>2, <1>4 DEF FineAfter

LEMMA FineTwo ==
  ASSUME NEW T, NEW order, NEW t, NEW held, NEW s, IsList(s), Len(s) = 2,
         Fine(T, order, t, held, s[1]),
         Fine(T, order, t, held \cup {s[1]}, s[2])
  PROVE  FineAfter(T, order, t, held, s) /\ Locked(s) = {s[1], s[2]}
<1>1. 1 .. Len(s) = {1, 2}
  OBVIOUS
<1>2. Locked(s) = {s[1], s[2]}
  BY <1>1 DEF Locked
<1>3. held \cup {s[m] : m \in 1 .. 1 - 1} = held
  OBVIOUS
<1>4. {s[m] : m \in 1 .. 2 - 1} = {s[1]}
  <2>1. 1 .. 2 - 1 = {1}
    OBVIOUS
  <2> QED BY <2>1
<1>5. ASSUME NEW k \in 1 .. Len(s)
      PROVE  Fine(T, order, t, held \cup {s[m] : m \in 1 .. k - 1}, s[k])
  <2>1. CASE k = 1
    BY <2>1, <1>3
  <2>2. CASE k = 2
    BY <2>2, <1>4
  <2> QED BY <1>1, <2>1, <2>2
<1> QED BY <1>2, <1>5 DEF FineAfter

LEMMA FineThree ==
  ASSUME NEW T, NEW order, NEW t, NEW held, NEW s, IsList(s), Len(s) = 3,
         Fine(T, order, t, held, s[1]),
         Fine(T, order, t, held \cup {s[1]}, s[2]),
         Fine(T, order, t, held \cup {s[1], s[2]}, s[3])
  PROVE  FineAfter(T, order, t, held, s) /\ Locked(s) = {s[1], s[2], s[3]}
<1>1. 1 .. Len(s) = {1, 2, 3}
  OBVIOUS
<1>2. Locked(s) = {s[1], s[2], s[3]}
  BY <1>1 DEF Locked
<1>3. held \cup {s[m] : m \in 1 .. 1 - 1} = held
  OBVIOUS
<1>4. {s[m] : m \in 1 .. 2 - 1} = {s[1]}
  <2>1. 1 .. 2 - 1 = {1}
    OBVIOUS
  <2> QED BY <2>1
<1>5. {s[m] : m \in 1 .. 3 - 1} = {s[1], s[2]}
  <2>1. 1 .. 3 - 1 = {1, 2}
    OBVIOUS
  <2> QED BY <2>1
<1>6. ASSUME NEW k \in 1 .. Len(s)
      PROVE  Fine(T, order, t, held \cup {s[m] : m \in 1 .. k - 1}, s[k])
  <2>1. CASE k = 1
    BY <2>1, <1>3
  <2>2. CASE k = 2
    BY <2>2, <1>4
  <2>3. CASE k = 3
    BY <2>3, <1>5
  <2> QED BY <1>1, <2>1, <2>2, <2>3
<1> QED BY <1>2, <1>6 DEF FineAfter

LEMMA FineFour ==
  ASSUME NEW T, NEW order, NEW t, NEW held, NEW s, IsList(s), Len(s) = 4,
         Fine(T, order, t, held, s[1]),
         Fine(T, order, t, held \cup {s[1]}, s[2]),
         Fine(T, order, t, held \cup {s[1], s[2]}, s[3]),
         Fine(T, order, t, held \cup {s[1], s[2], s[3]}, s[4])
  PROVE  FineAfter(T, order, t, held, s) /\ Locked(s) = {s[1], s[2], s[3], s[4]}
<1>1. 1 .. Len(s) = {1, 2, 3, 4}
  OBVIOUS
<1>2. Locked(s) = {s[1], s[2], s[3], s[4]}
  BY <1>1 DEF Locked
<1>3. held \cup {s[m] : m \in 1 .. 1 - 1} = held
  OBVIOUS
<1>4. {s[m] : m \in 1 .. 2 - 1} = {s[1]}
  <2>1. 1 .. 2 - 1 = {1}
    OBVIOUS
  <2> QED BY <2>1
<1>5. {s[m] : m \in 1 .. 3 - 1} = {s[1], s[2]}
  <2>1. 1 .. 3 - 1 = {1, 2}
    OBVIOUS
  <2> QED BY <2>1
<1>6. {s[m] : m \in 1 .. 4 - 1} = {s[1], s[2], s[3]}
  <2>1. 1 .. 4 - 1 = {1, 2, 3}
    OBVIOUS
  <2> QED BY <2>1
<1>7. ASSUME NEW k \in 1 .. Len(s)
      PROVE  Fine(T, order, t, held \cup {s[m] : m \in 1 .. k - 1}, s[k])
  <2>1. CASE k = 1
    BY <2>1, <1>3
  <2>2. CASE k = 2
    BY <2>2, <1>4
  <2>3. CASE k = 3
    BY <2>3, <1>5
  <2>4. CASE k = 4
    BY <2>4, <1>6
  <2> QED BY <1>1, <2>1, <2>2, <2>3, <2>4
<1> QED BY <1>2, <1>7 DEF FineAfter

-----------------------------------------------------------------------------
Ordered(order) == IsOrder(order) /\ IsOrder(IdOrder)

(* What may come at any time, given that it climbs.                        *)
PlainTables == Tables \ {"account row", "intent row", "qr row", "event row", "program", "program row"}

LEMMA LockRanks ==
  ASSUME NEW order
  PROVE  /\ Rank(order, Locks!Shared(Locks!Program)) = 10
         /\ RankBehind(order, Locks!Shared(Locks!Program)) = 0
         /\ Rank(order, Locks!Exclusive(Locks!Program)) = 0
         /\ RankBehind(order, Locks!Exclusive(Locks!Program)) = 10
         /\ Rank(order, Locks!Shared(Locks!ProgramRow)) = 11
         /\ RankBehind(order, Locks!Shared(Locks!ProgramRow)) = 11
         /\ Rank(order, Locks!Exclusive(Locks!ProgramRow)) = 11
         /\ RankBehind(order, Locks!Exclusive(Locks!ProgramRow)) = 11
         /\ \A u : Rank(order, Locks!Exclusive(Locks!Wallet(u))) = 14 + PlaceIn(order, u)
                   /\ RankBehind(order, Locks!Exclusive(Locks!Wallet(u))) = 14 + PlaceIn(order, u)
         /\ \A q : Rank(order, Locks!Exclusive(Locks!QrLock(q))) = 6
                   /\ RankBehind(order, Locks!Exclusive(Locks!QrLock(q))) = 6
         /\ \A q : Rank(order, Locks!Exclusive(Locks!QrRow(q))) = 7
                   /\ RankBehind(order, Locks!Exclusive(Locks!QrRow(q))) = 7
         /\ \A q : Rank(order, Locks!Exclusive(Locks!IntentRow(q))) = 7
                   /\ RankBehind(order, Locks!Exclusive(Locks!IntentRow(q))) = 7
         /\ \A e : Rank(order, Locks!Shared(Locks!EventRow(e))) = 13
                   /\ RankBehind(order, Locks!Shared(Locks!EventRow(e))) = 12
         /\ \A e : Rank(order, Locks!Exclusive(Locks!EventRow(e))) = 12
                   /\ RankBehind(order, Locks!Exclusive(Locks!EventRow(e))) = 13
<1>1. PICK sp, ep, sr, er : /\ sp = Locks!Shared(Locks!Program) /\ ep = Locks!Exclusive(Locks!Program)
                            /\ sr = Locks!Shared(Locks!ProgramRow)
                            /\ er = Locks!Exclusive(Locks!ProgramRow)
  OBVIOUS
<1>2. /\ sp.lock[1] = "program" /\ sp.mode = "shared" /\ ep.lock[1] = "program" /\ ep.mode = "exclusive"
      /\ sr.lock[1] = "program row" /\ er.lock[1] = "program row"
  BY <1>1, LockTables
<1>3. /\ Rank(order, sp) = 10 /\ RankBehind(order, sp) = 0
      /\ Rank(order, ep) = 0 /\ RankBehind(order, ep) = 10
  BY <1>2 DEF Rank, RankBehind
<1>4. /\ Rank(order, sr) = 11 /\ RankBehind(order, sr) = 11
      /\ Rank(order, er) = 11 /\ RankBehind(order, er) = 11
  BY <1>2 DEF Rank, RankBehind
<1>5. ASSUME NEW u
      PROVE  /\ Rank(order, Locks!Exclusive(Locks!Wallet(u))) = 14 + PlaceIn(order, u)
             /\ RankBehind(order, Locks!Exclusive(Locks!Wallet(u))) = 14 + PlaceIn(order, u)
  <2>1. PICK r : r = Locks!Exclusive(Locks!Wallet(u))
    OBVIOUS
  <2>2. r.lock[1] = "wallet-user" /\ r.lock[2] = u
    BY <2>1 DEF Locks!Exclusive, Locks!Wallet
  <2> QED BY <2>1, <2>2 DEF Rank, RankBehind
<1>6. ASSUME NEW q
      PROVE  /\ Rank(order, Locks!Exclusive(Locks!QrLock(q))) = 6
             /\ RankBehind(order, Locks!Exclusive(Locks!QrLock(q))) = 6
             /\ Rank(order, Locks!Exclusive(Locks!QrRow(q))) = 7
             /\ RankBehind(order, Locks!Exclusive(Locks!QrRow(q))) = 7
             /\ Rank(order, Locks!Exclusive(Locks!IntentRow(q))) = 7
             /\ RankBehind(order, Locks!Exclusive(Locks!IntentRow(q))) = 7
  <2>1. PICK a, b, c : /\ a = Locks!Exclusive(Locks!QrLock(q)) /\ b = Locks!Exclusive(Locks!QrRow(q))
                       /\ c = Locks!Exclusive(Locks!IntentRow(q))
    OBVIOUS
  <2>2. a.lock[1] = "wallet-qr-session" /\ b.lock[1] = "qr row" /\ c.lock[1] = "intent row"
    BY <2>1 DEF Locks!Exclusive, Locks!QrLock, Locks!QrRow, Locks!IntentRow
  <2> QED BY <2>1, <2>2 DEF Rank, RankBehind
<1>7. ASSUME NEW e
      PROVE  /\ Rank(order, Locks!Shared(Locks!EventRow(e))) = 13
             /\ RankBehind(order, Locks!Shared(Locks!EventRow(e))) = 12
             /\ Rank(order, Locks!Exclusive(Locks!EventRow(e))) = 12
             /\ RankBehind(order, Locks!Exclusive(Locks!EventRow(e))) = 13
  <2>1. PICK a, b : a = Locks!Shared(Locks!EventRow(e)) /\ b = Locks!Exclusive(Locks!EventRow(e))
    OBVIOUS
  <2>2. a.lock[1] = "event row" /\ a.mode = "shared" /\ b.lock[1] = "event row" /\ b.mode = "exclusive"
    BY <2>1 DEF Locks!Exclusive, Locks!Shared, Locks!EventRow
  <2> QED BY <2>1, <2>2 DEF Rank, RankBehind
<1> QED BY <1>1, <1>3, <1>4, <1>5, <1>6, <1>7

LEMMA AccountTable ==
  ASSUME NEW o
  PROVE  Locks!AccountRow(o)[1] = "account row" /\ Locks!AccountRow(o)[2] = o
BY DEF Locks!AccountRow

LEMMA AccountRanks ==
  ASSUME NEW order, NEW o, NEW r,
         r = Locks!Exclusive(Locks!AccountRow(o)) \/ r = Locks!Shared(Locks!AccountRow(o))
  PROVE  /\ Rank(order, r) = 16 + Len(order) + PlaceIn(IdOrder, o)
         /\ RankBehind(order, r) = 16 + Len(order) + PlaceIn(IdOrder, o)
<1>1. r.lock = Locks!AccountRow(o)
  BY LockTables
<1>2. r.lock[1] = "account row" /\ r.lock[2] = o
  BY <1>1, AccountTable
<1> QED BY <1>2, RankOf

(* A lock that climbs, or that nobody can have who waits.                  *)
LEMMA FineLock ==
  ASSUME NEW T, NEW order, Ordered(order), NEW t, NEW held, NEW w,
         w.lock[1] \in Tables, w.mode \in {"shared", "exclusive"}, Guarded(t, held, w),
         Settled(T, t, held, w) \/ Below(order, held, Rank(order, w))
  PROVE  Fine(T, order, t, held, w)
BY RankRange DEF Ordered, Fine, Climbs, Below

LEMMA PlainFine ==
  ASSUME NEW T, NEW order, Ordered(order), NEW t, NEW held, NEW w,
         w.lock[1] \in PlainTables, w.mode \in {"shared", "exclusive"},
         Below(order, held, Rank(order, w))
  PROVE  Fine(T, order, t, held, w)
<1>1. Guarded(t, held, w) /\ w.lock[1] \in Tables
  BY DEF Guarded, PlainTables
<1> QED BY <1>1, FineLock

NoReset(T) == \A s \in T : s.op # "reset"
NoReward(T) == \A s \in T : s.op # "reward"
SharesProgram(held) == Locks!Shared(Locks!Program) \in held

LEMMA ProgramFine ==
  ASSUME NEW T, NEW order, Ordered(order), NEW t, NEW held,
         SharesProgram(held) \/ NoReset(T) \/ Below(order, held, 10)
  PROVE  Fine(T, order, t, held, Locks!Shared(Locks!Program))
<1>1. PICK w : w = Locks!Shared(Locks!Program)
  OBVIOUS
<1>2. w.lock[1] = "program" /\ w.mode = "shared" /\ Rank(order, w) = 10
  BY <1>1, LockTables, LockRanks
<1>3. Guarded(t, held, w) /\ w.lock[1] \in Tables
  BY <1>2 DEF Guarded, Tables
<1>4. Settled(T, t, held, w) \/ Below(order, held, Rank(order, w))
  BY <1>1, <1>2 DEF Settled, SharesProgram, NoReset
<1> QED BY <1>1, <1>2, <1>3, <1>4, FineLock

LEMMA ProgramRowFine ==
  ASSUME NEW T, NEW order, Ordered(order), NEW t, NEW held,
         SharesProgram(held) \/ Below(order, held, 11)
  PROVE  Fine(T, order, t, held, Locks!Shared(Locks!ProgramRow))
<1>1. PICK w : w = Locks!Shared(Locks!ProgramRow)
  OBVIOUS
<1>2. w.lock[1] = "program row" /\ w.mode = "shared" /\ Rank(order, w) = 11
  BY <1>1, LockTables, LockRanks
<1>3. Guarded(t, held, w) /\ w.lock[1] \in Tables
  BY <1>2 DEF Guarded, Tables
<1>4. Settled(T, t, held, w) \/ Below(order, held, Rank(order, w))
  BY <1>1, <1>2 DEF Settled, SharesProgram
<1> QED BY <1>1, <1>2, <1>3, <1>4, FineLock

LEMMA AccountRowFine ==
  ASSUME NEW T, NEW order, Ordered(order), NEW t, NEW held, NEW o, NEW w,
         w = Locks!Exclusive(Locks!AccountRow(o)) \/ w = Locks!Shared(Locks!AccountRow(o)),
         \E g \in held : g \in Gates,
         Below(order, held, 16 + Len(order) + PlaceIn(IdOrder, o))
  PROVE  Fine(T, order, t, held, w)
<1>1. w.lock[1] = "account row" /\ w.mode \in {"shared", "exclusive"}
  <2>1. w.lock = Locks!AccountRow(o) /\ w.mode \in {"shared", "exclusive"}
    BY LockTables
  <2> QED BY <2>1, AccountTable
<1>2. Guarded(t, held, w) /\ w.lock[1] \in Tables
  BY <1>1 DEF Guarded, Tables
<1> QED BY <1>1, <1>2, AccountRanks, FineLock

LEMMA EventRefFine ==
  ASSUME NEW T, NEW order, Ordered(order), NEW t, NEW held, NEW e,
         NoReward(T) \/ Locks!Exclusive(Locks!EventRow(e)) \in held \/ Below(order, held, 13)
  PROVE  Fine(T, order, t, held, Locks!Shared(Locks!EventRow(e)))
<1>1. PICK w : w = Locks!Shared(Locks!EventRow(e))
  OBVIOUS
<1>2. w.lock = Locks!EventRow(e) /\ w.lock[1] = "event row" /\ w.mode = "shared" /\ Rank(order, w) = 13
  <2>1. w.lock = Locks!EventRow(e) /\ w.lock[1] = "event row" /\ w.mode = "shared"
    BY <1>1 DEF Locks!Shared, Locks!EventRow
  <2> QED BY <1>1, <2>1, LockRanks
<1>3. Guarded(t, held, w) /\ w.lock[1] \in Tables
  BY <1>2 DEF Guarded, Tables
<1>4. Settled(T, t, held, w) \/ Below(order, held, Rank(order, w))
  BY <1>2 DEF Settled, NoReward
<1> QED BY <1>1, <1>2, <1>3, <1>4, FineLock

-----------------------------------------------------------------------------
(* FOR UPDATE of accounts goes by their ids.                               *)
LEMMA AccountRowsClimb ==
  ASSUME Locks!LocksAssumption, NEW owners, NEW n \in 1 .. Len(Locks!AccountRows(owners))
  PROVE  \E p \in DOMAIN IdOrder :
           /\ Locks!AccountRows(owners)[n] = Locks!Exclusive(Locks!AccountRow(IdOrder[p]))
           /\ \A m \in 1 .. n - 1 : \E q \in DOMAIN IdOrder :
                /\ q < p
                /\ Locks!AccountRows(owners)[m] = Locks!Exclusive(Locks!AccountRow(IdOrder[q]))
<1> DEFINE Mine == {p \in DOMAIN IdOrder : IdOrder[p] \in owners}
           Ahead(p) == {q \in Mine : q < p}
           Nth(k) == CHOOSE p \in Mine : Locks!Cardinality({q \in Mine : q < p}) = k - 1
           Total == Cardinality(Mine)
<1>1. DOMAIN IdOrder = 1 .. Len(IdOrder) /\ Len(IdOrder) \in Nat
  BY DEF Locks!LocksAssumption
<1>2. IsFiniteSet(Mine)
  <2>1. IsFiniteSet(1 .. Len(IdOrder))
    BY <1>1, FS_Interval
  <2> QED BY <1>1, <2>1, FS_Subset
<1>3. Total \in Nat
  BY <1>2, FS_CardinalityType
<1>4. Locks!AccountRows(owners)
        = [k \in 1 .. Total |-> Locks!Exclusive(Locks!AccountRow(IdOrder[Nth(k)]))]
  BY SameFiniteSets DEF Locks!AccountRows
<1>5. Mine \subseteq Nat /\ Mine \subseteq DOMAIN IdOrder
  BY <1>1
<1> HIDE DEF Mine
<1>6. \A p : IsFiniteSet(Ahead(p)) /\ Cardinality(Ahead(p)) \in Nat
  BY <1>2, FS_Subset, FS_CardinalityType
<1>61. \A p, q : q \in Ahead(p) <=> q \in Mine /\ q < p
  OBVIOUS
<1>62. \A p : Locks!Cardinality({q \in Mine : q < p}) = Cardinality(Ahead(p))
  BY SameFiniteSets
<1> HIDE DEF Ahead
<1>7. ASSUME NEW p \in Mine, NEW q \in Mine, p < q
      PROVE  Cardinality(Ahead(p)) < Cardinality(Ahead(q))
  <2>1. p \in Ahead(q) /\ p \notin Ahead(p) /\ Ahead(p) \subseteq Ahead(q)
    <3>1. p \in Nat /\ q \in Nat
      BY <1>5
    <3>2. p \in Ahead(q)
      BY <1>7, <1>61
    <3>3. p \notin Ahead(p)
      BY <1>61, <3>1
    <3>4. ASSUME NEW x \in Ahead(p) PROVE x \in Ahead(q)
      <4>1. x \in Mine /\ x < p
        BY <1>61
      <4>2. x \in Nat
        BY <1>5, <4>1
      <4>3. x < q
        BY <1>7, <3>1, <4>1, <4>2
      <4> QED BY <1>61, <4>1, <4>3
    <3> QED BY <3>2, <3>3, <3>4
  <2>2. IsFiniteSet(Ahead(q) \ {p}) /\ Cardinality(Ahead(q) \ {p}) = Cardinality(Ahead(q)) - 1
    BY <1>6, <2>1, FS_RemoveElement
  <2>3. Ahead(p) \in SUBSET (Ahead(q) \ {p})
    BY <2>1
  <2>4. Cardinality(Ahead(p)) <= Cardinality(Ahead(q) \ {p})
    BY <2>2, <2>3, FS_Subset
  <2> QED BY <1>6, <2>2, <2>4
<1>8. ASSUME NEW k \in 1 .. Total
      PROVE  \E p \in Mine : Cardinality(Ahead(p)) = k - 1
  <2> DEFINE f == [p \in Mine |-> Cardinality(Ahead(p)) + 1]
  <2>1. ASSUME NEW p \in Mine PROVE Cardinality(Ahead(p)) + 1 \in 1 .. Total
    <3>1. IsFiniteSet(Mine \ {p}) /\ Cardinality(Mine \ {p}) = Total - 1
      BY <1>2, FS_RemoveElement
    <3>2. Ahead(p) \in SUBSET (Mine \ {p})
      BY <1>5, <1>61
    <3>3. Cardinality(Ahead(p)) <= Total - 1
      BY <3>1, <3>2, FS_Subset
    <3> QED BY <1>3, <1>6, <3>3
  <2>2. f \in [Mine -> 1 .. Total]
    BY <2>1
  <2>3. ASSUME NEW p \in Mine, NEW q \in Mine, f[p] = f[q] PROVE p = q
    <3>1. Cardinality(Ahead(p)) = Cardinality(Ahead(q))
      BY <1>6, <2>3
    <3>2. ~(p < q) /\ ~(q < p)
      BY <1>6, <1>7, <3>1
    <3> QED BY <1>5, <3>2
  <2>4. f \in Injection(Mine, 1 .. Total)
    BY <2>2, <2>3 DEF Injection, IsInjective
  <2>5. IsFiniteSet(1 .. Total) /\ Cardinality(1 .. Total) = Total
    BY <1>3, FS_Interval
  <2> HIDE DEF f
  <2>6. f \in Surjection(Mine, 1 .. Total)
    BY <2>4, <2>5, FS_Injection
  <2>7. PICK p \in Mine : f[p] = k
    BY <2>6 DEF Surjection
  <2>8. Cardinality(Ahead(p)) + 1 = k
    BY <2>7 DEF f
  <2> QED BY <1>6, <2>8
<1>9. ASSUME NEW k \in 1 .. Total
      PROVE  Nth(k) \in Mine /\ Cardinality(Ahead(Nth(k))) = k - 1
  <2>1. \E p \in Mine : Locks!Cardinality({q \in Mine : q < p}) = k - 1
    BY <1>8, <1>62
  <2>2. Nth(k) \in Mine /\ Locks!Cardinality({q \in Mine : q < Nth(k)}) = k - 1
    BY <2>1
  <2> QED BY <2>2, <1>62
<1> HIDE DEF Nth
<1>10. n \in 1 .. Total /\ \A m \in 1 .. n - 1 : m \in 1 .. Total
  BY <1>3, <1>4
<1>11. ASSUME NEW m \in 1 .. n - 1
       PROVE  Nth(m) < Nth(n)
  <2>1. Nth(m) \in Mine /\ Nth(n) \in Mine
        /\ Cardinality(Ahead(Nth(m))) = m - 1 /\ Cardinality(Ahead(Nth(n))) = n - 1
    BY <1>9, <1>10
  <2>2. ~(Nth(n) < Nth(m))
    BY <1>7, <1>10, <2>1
  <2>3. Nth(n) # Nth(m)
    BY <2>1, <1>10
  <2>4. PICK x, y : x = Nth(m) /\ y = Nth(n)
    OBVIOUS
  <2>5. x \in Nat /\ y \in Nat
    BY <1>5, <2>1, <2>4
  <2>6. ~(y < x) /\ y # x
    BY <2>2, <2>3, <2>4
  <2>7. x < y
    BY <2>5, <2>6
  <2> QED BY <2>4, <2>7
<1>12. Nth(n) \in DOMAIN IdOrder /\ \A m \in 1 .. n - 1 : Nth(m) \in DOMAIN IdOrder
  BY <1>5, <1>9, <1>10
<1>13. \A m \in 1 .. n :
         Locks!AccountRows(owners)[m] = Locks!Exclusive(Locks!AccountRow(IdOrder[Nth(m)]))
  BY <1>3, <1>4, <1>10
<1> QED BY <1>10, <1>11, <1>12, <1>13

-----------------------------------------------------------------------------
(* The parts of scripts                                                    *)

LEMMA BelowMore ==
  ASSUME NEW order, NEW held, NEW more, NEW n,
         Below(order, held, n), Below(order, more, n)
  PROVE  Below(order, held \cup more, n)
BY DEF Below

LEMMA BelowHigher ==
  ASSUME NEW order, NEW held, NEW m \in Int, NEW n \in Int, m <= n, Below(order, held, m)
  PROVE  Below(order, held, n)
BY DEF Below

LEMMA OrderedLengths ==
  ASSUME NEW order, Ordered(order)
  PROVE  /\ Len(order) \in Nat /\ Len(IdOrder) \in Nat
         /\ \A u : PlaceIn(order, u) \in 0 .. Len(order)
         /\ \A u : PlaceIn(IdOrder, u) \in 0 .. Len(IdOrder)
BY Places DEF Ordered, IsOrder

LEMMA AccountFine ==
  ASSUME NEW T, NEW order, Ordered(order), NEW t, NEW held, NEW u,
         SharesProgram(held) \/ NoReset(T) \/ Below(order, held, 10),
         Below(order, held, 14 + PlaceIn(order, u))
  PROVE  /\ FineAfter(T, order, t, held, Locks!Account(u))
         /\ Locked(Locks!Account(u)) = {Locks!Shared(Locks!Program), Locks!Exclusive(Locks!Wallet(u))}
         /\ IsList(Locks!Account(u))
<1>1. PICK a, b, s : /\ a = Locks!Shared(Locks!Program) /\ b = Locks!Exclusive(Locks!Wallet(u))
                     /\ s = Locks!Account(u)
  OBVIOUS
<1>2. s = <<a, b>>
  BY <1>1 DEF Locks!Account
<1>3. IsList(s) /\ Len(s) = 2 /\ s[1] = a /\ s[2] = b
  BY <1>2, Lists
<1>4. Fine(T, order, t, held, a)
  BY <1>1, ProgramFine
<1>5. b.lock[1] \in PlainTables /\ b.mode \in {"shared", "exclusive"}
  BY <1>1 DEF Locks!Exclusive, Locks!Wallet, PlainTables, Tables
<1>6. RankBehind(order, a) \in 0 .. (14 + PlaceIn(order, u)) - 1
  BY <1>1, LockRanks, OrderedLengths
<1>7. Below(order, held \cup {a}, 14 + PlaceIn(order, u))
  BY <1>6 DEF Below
<1>8. Fine(T, order, t, held \cup {a}, b)
  BY <1>1, <1>5, <1>7, LockRanks, PlainFine
<1>9. FineAfter(T, order, t, held, s) /\ Locked(s) = {a, b}
  BY <1>3, <1>4, <1>8, FineTwo
<1> QED BY <1>1, <1>3, <1>9

LEMMA QrMutationFine ==
  ASSUME NEW T, NEW order, Ordered(order), NEW t, NEW q
  PROVE  /\ FineAfter(T, order, t, {}, Locks!QrMutation(q))
         /\ Locked(Locks!QrMutation(q)) = {Locks!Shared(Locks!Program), Locks!Exclusive(Locks!QrLock(q))}
         /\ IsList(Locks!QrMutation(q))
<1>1. PICK a, b, s : /\ a = Locks!Shared(Locks!Program) /\ b = Locks!Exclusive(Locks!QrLock(q))
                     /\ s = Locks!QrMutation(q)
  OBVIOUS
<1>2. s = <<a, b>>
  BY <1>1 DEF Locks!QrMutation
<1>3. IsList(s) /\ Len(s) = 2 /\ s[1] = a /\ s[2] = b
  BY <1>2, Lists
<1>4. Fine(T, order, t, {}, a)
  BY <1>1, ProgramFine DEF Below
<1>5. b.lock[1] \in PlainTables /\ b.mode \in {"shared", "exclusive"}
  BY <1>1 DEF Locks!Exclusive, Locks!QrLock, PlainTables, Tables
<1>6. Below(order, {} \cup {a}, 6)
  BY <1>1, LockRanks DEF Below
<1>7. Fine(T, order, t, {} \cup {a}, b)
  BY <1>1, <1>5, <1>6, LockRanks, PlainFine
<1>8. FineAfter(T, order, t, {}, s) /\ Locked(s) = {a, b}
  BY <1>3, <1>4, <1>7, FineTwo
<1> QED BY <1>1, <1>3, <1>8

LEMMA AccountRowsFine ==
  ASSUME Locks!LocksAssumption, NEW T, NEW order, Ordered(order), NEW t, NEW held, NEW owners,
         \E g \in held : g \in Gates, Below(order, held, 16 + Len(order))
  PROVE  FineAfter(T, order, t, held, Locks!AccountRows(owners))
<1>1. PICK s : s = Locks!AccountRows(owners)
  OBVIOUS
<1>2. ASSUME NEW k \in 1 .. Len(s)
      PROVE  Fine(T, order, t, held \cup {s[m] : m \in 1 .. k - 1}, s[k])
  <2>1. PICK p \in DOMAIN IdOrder :
          /\ s[k] = Locks!Exclusive(Locks!AccountRow(IdOrder[p]))
          /\ \A m \in 1 .. k - 1 : \E q \in DOMAIN IdOrder :
               q < p /\ s[m] = Locks!Exclusive(Locks!AccountRow(IdOrder[q]))
    BY <1>1, AccountRowsClimb
  <2>2. /\ DOMAIN IdOrder = 1 .. Len(IdOrder) /\ Len(IdOrder) \in Nat /\ Len(order) \in Nat
        /\ \A n \in DOMAIN IdOrder : PlaceIn(IdOrder, IdOrder[n]) = n
    BY Places DEF Ordered, IsOrder
  <2>3. Below(order, held, 16 + Len(order) + p)
    BY <2>2, BelowHigher
  <2>4. ASSUME NEW m \in 1 .. k - 1
        PROVE  RankBehind(order, s[m]) \in 0 .. (16 + Len(order) + p) - 1
    <3>1. PICK q \in DOMAIN IdOrder :
            q < p /\ s[m] = Locks!Exclusive(Locks!AccountRow(IdOrder[q]))
      BY <2>1
    <3>2. PICK o : o = IdOrder[q]
      OBVIOUS
    <3>3. RankBehind(order, s[m]) = 16 + Len(order) + PlaceIn(IdOrder, o)
      BY <3>1, <3>2, AccountRanks
    <3> QED BY <2>2, <3>1, <3>2, <3>3
  <2>5. Below(order, held \cup {s[m] : m \in 1 .. k - 1}, 16 + Len(order) + p)
    BY <2>3, <2>4 DEF Below
  <2>6. \E g \in held \cup {s[m] : m \in 1 .. k - 1} : g \in Gates
    OBVIOUS
  <2>7. PICK o : o = IdOrder[p]
    OBVIOUS
  <2>8. PlaceIn(IdOrder, o) = p /\ s[k] = Locks!Exclusive(Locks!AccountRow(o))
    BY <2>1, <2>2, <2>7
  <2> QED BY <2>5, <2>6, <2>8, AccountRowFine
<1> QED BY <1>1, <1>2 DEF FineAfter

LEMMA EventRefsAre ==
  ASSUME NEW events, IsFiniteSet(events)
  PROVE  /\ Len(Locks!EventRefs(events)) \in Nat
         /\ \A k \in 1 .. Len(Locks!EventRefs(events)) :
              \E e \in events : Locks!EventRefs(events)[k] = Locks!Shared(Locks!EventRow(e))
<1> DEFINE Listed == Locks!SetToSeq(events)
           Row(n) == Locks!Shared(Locks!EventRow(Listed[n]))
           RowSet == {Row(n) : n \in DOMAIN Listed}
<1>1. Cardinality(events) \in Nat /\ ExistsBijection(1 .. Cardinality(events), events)
  BY FS_CardinalityType
<1>2. \E f \in [1 .. Cardinality(events) -> events] : Locks!IsInjective(f)
  BY <1>1 DEF ExistsBijection, Bijection, Injection, IsInjective, Locks!IsInjective
<1>3. Listed \in [1 .. Cardinality(events) -> events]
  BY <1>2, SameFiniteSets DEF Locks!SetToSeq
<1>4. Locks!EventRefs(events) = [n \in DOMAIN Listed |-> Row(n)]
  BY DEF Locks!EventRefs
<1> HIDE DEF Listed
<1>5. Locks!EventRefs(events) \in Seq(RowSet) /\ Len(Locks!EventRefs(events)) = Cardinality(events)
  BY <1>1, <1>3, <1>4
<1> QED BY <1>1, <1>3, <1>4, <1>5

LEMMA EventRefsFine ==
  ASSUME NEW T, NEW order, Ordered(order), NEW t, NEW held, NEW events, IsFiniteSet(events),
         NoReward(T) \/ Below(order, held, 13)
           \/ \A e \in events : Locks!Exclusive(Locks!EventRow(e)) \in held
  PROVE  /\ FineAfter(T, order, t, held, Locks!EventRefs(events))
         /\ \A r \in Locked(Locks!EventRefs(events)) :
              RankBehind(order, r) = 12 /\ \E e \in events : r = Locks!Shared(Locks!EventRow(e))
<1>1. PICK s : s = Locks!EventRefs(events)
  OBVIOUS
<1>2. ASSUME NEW k \in 1 .. Len(s)
      PROVE  \E e \in events : s[k] = Locks!Shared(Locks!EventRow(e))
  BY <1>1, EventRefsAre
<1>3. ASSUME NEW k \in 1 .. Len(s)
      PROVE  RankBehind(order, s[k]) = 12
  <2>1. PICK e \in events : s[k] = Locks!Shared(Locks!EventRow(e))
    BY <1>2
  <2> QED BY <2>1, LockRanks
<1>4. ASSUME NEW k \in 1 .. Len(s)
      PROVE  Fine(T, order, t, held \cup {s[m] : m \in 1 .. k - 1}, s[k])
  <2>1. PICK e \in events : s[k] = Locks!Shared(Locks!EventRow(e))
    BY <1>2
  <2>2. \A m \in 1 .. k - 1 : RankBehind(order, s[m]) \in 0 .. 13 - 1
    BY <1>1, <1>3, EventRefsAre
  <2>3. Below(order, held, 13) => Below(order, held \cup {s[m] : m \in 1 .. k - 1}, 13)
    BY <2>2 DEF Below
  <2> QED BY <2>1, <2>3, EventRefFine
<1> QED BY <1>1, <1>2, <1>3, <1>4 DEF FineAfter, Locked

LEMMA PostingFine ==
  ASSUME Locks!LocksAssumption, NEW T, NEW order, Ordered(order), NEW t, NEW held,
         NEW key, NEW owners, NEW events, IsFiniteSet(events),
         SharesProgram(held), Below(order, held, 15 + Len(order)),
         NoReward(T) \/ \A e \in events : Locks!Exclusive(Locks!EventRow(e)) \in held
  PROVE  /\ FineAfter(T, order, t, held, Locks!Posting(key, owners, events))
         /\ IsList(Locks!Posting(key, owners, events))
<1> DEFINE A == <<Locks!Shared(Locks!Program), Locks!Exclusive(<<"wallet-ledger", key>>)>>
           B == Locks!AccountRows(owners)
           C == <<Locks!Shared(Locks!ProgramRow)>>
           D == Locks!EventRefs(events)
<1>1. Len(order) \in Nat
  BY OrderedLengths
<1>2. PICK sp, w : sp = Locks!Shared(Locks!Program) /\ w = Locks!Exclusive(<<"wallet-ledger", key>>)
  OBVIOUS
<1>21. IsList(A) /\ Len(A) = 2 /\ A[1] = sp /\ A[2] = w
  BY <1>2, Lists
<1>22. w.lock[1] = "wallet-ledger" /\ w.mode = "exclusive"
  BY <1>2 DEF Locks!Exclusive
<1>23. /\ Rank(order, w) = 15 + Len(order) /\ RankBehind(order, w) = 15 + Len(order)
       /\ RankBehind(order, sp) = 0
  BY <1>2, <1>22, RankOf, LockRanks
<1>3. Fine(T, order, t, held, sp) /\ Fine(T, order, t, held \cup {sp}, w)
  <2>1. w.lock[1] \in PlainTables
    BY <1>22 DEF PlainTables, Tables
  <2>2. Below(order, held \cup {sp}, 15 + Len(order))
    BY <1>2 DEF SharesProgram, Below
  <2> QED BY <1>2, <1>22, <1>23, <2>1, <2>2, ProgramFine, PlainFine
<1> HIDE DEF A
<1>4. FineAfter(T, order, t, held, A) /\ Locked(A) = {sp, w}
  BY <1>3, <1>21, FineTwo
<1> HIDE DEF B, C, D
<1>5. FineAfter(T, order, t, held \cup Locked(A), B) /\ IsList(B)
  <2>1. Below(order, held, 16 + Len(order))
    BY <1>1, BelowHigher
  <2>2. Below(order, held \cup Locked(A), 16 + Len(order))
    BY <1>1, <1>4, <1>23, <2>1 DEF Below
  <2>3. Locks!Shared(Locks!Program) \in held \cup Locked(A) /\ Locks!Shared(Locks!Program) \in Gates
    BY LockModes DEF SharesProgram
  <2> QED BY <2>2, <2>3, AccountRowsFine, AccountRowsList DEF B
<1>6. /\ FineAfter(T, order, t, held, A ++ B) /\ IsList(A ++ B)
  BY <1>21, <1>4, <1>5, FineJoin
<1>7. \A h : SharesProgram(held \cup h)
  BY DEF SharesProgram
<1>8. FineAfter(T, order, t, held \cup Locked(A ++ B), C) /\ IsList(C)
  <2>1. IsList(C) /\ Len(C) = 1 /\ C[1] = Locks!Shared(Locks!ProgramRow)
    BY Lists DEF C
  <2>2. Fine(T, order, t, held \cup Locked(A ++ B), C[1])
    BY <1>7, <2>1, ProgramRowFine
  <2> QED BY <2>1, <2>2, FineOne
<1>9. FineAfter(T, order, t, held, (A ++ B) ++ C) /\ IsList((A ++ B) ++ C)
  BY <1>6, <1>8, FineJoin
<1>10. FineAfter(T, order, t, held \cup Locked((A ++ B) ++ C), D) /\ IsList(D)
  <2>1. \A e \in events :
          Locks!Exclusive(Locks!EventRow(e)) \in held
            => Locks!Exclusive(Locks!EventRow(e)) \in held \cup Locked((A ++ B) ++ C)
    OBVIOUS
  <2> QED BY <2>1, EventRefsFine, EventRefsList DEF D
<1>11. FineAfter(T, order, t, held, ((A ++ B) ++ C) ++ D) /\ IsList(((A ++ B) ++ C) ++ D)
  BY <1>9, <1>10, FineJoin
<1>12. Locks!Posting(key, owners, events) = ((A ++ B) ++ C) ++ D
  BY DEF ++, Locks!Posting, A, B, C, D
<1> QED BY <1>11, <1>12

(* Account and posting, after locks of little rank.                        *)
LEMMA AccountAndPostingFine ==
  ASSUME Locks!LocksAssumption, NEW T, NEW order, Ordered(order), NEW t, NEW held, NEW u,
         NEW key, NEW owners, NEW events, IsFiniteSet(events),
         SharesProgram(held) \/ NoReset(T) \/ Below(order, held, 10), Below(order, held, 14),
         NoReward(T) \/ \A e \in events : Locks!Exclusive(Locks!EventRow(e)) \in held
  PROVE  /\ FineAfter(T, order, t, held, Locks!Account(u) ++ Locks!Posting(key, owners, events))
         /\ IsList(Locks!Account(u) ++ Locks!Posting(key, owners, events))
<1>1. Len(order) \in Nat /\ PlaceIn(order, u) \in 0 .. Len(order)
  BY OrderedLengths
<1>2. PICK a, p : a = Locks!Account(u) /\ p = Locks!Posting(key, owners, events)
  OBVIOUS
<1>3. PICK sp, w : sp = Locks!Shared(Locks!Program) /\ w = Locks!Exclusive(Locks!Wallet(u))
  OBVIOUS
<1>4. Below(order, held, 14 + PlaceIn(order, u)) /\ Below(order, held, 15 + Len(order))
  BY <1>1, BelowHigher
<1>5. FineAfter(T, order, t, held, a) /\ Locked(a) = {sp, w} /\ IsList(a)
  BY <1>2, <1>3, <1>4, AccountFine
<1>6. RankBehind(order, sp) \in 0 .. (15 + Len(order)) - 1 /\ RankBehind(order, w) \in 0 .. (15 + Len(order)) - 1
  BY <1>1, <1>3, LockRanks
<1>7. Below(order, held \cup Locked(a), 15 + Len(order))
  BY <1>4, <1>5, <1>6 DEF Below
<1>8. SharesProgram(held \cup Locked(a))
  BY <1>3, <1>5 DEF SharesProgram
<1>9. \A e \in events : Locks!Exclusive(Locks!EventRow(e)) \in held
        => Locks!Exclusive(Locks!EventRow(e)) \in held \cup Locked(a)
  OBVIOUS
<1>10. FineAfter(T, order, t, held \cup Locked(a), p) /\ IsList(p)
  BY <1>2, <1>7, <1>8, <1>9, PostingFine
<1> QED BY <1>2, <1>5, <1>10, FineJoin

LEMMA ConcatAssociates ==
  ASSUME NEW a, NEW b, NEW c, IsList(a), IsList(b), IsList(c)
  PROVE  (a ++ b) ++ c = a ++ (b ++ c)
<1>1. PICK A, B, C : a \in Seq(A) /\ b \in Seq(B) /\ c \in Seq(C)
  BY DEF IsList
<1>2. PICK S : S = A \cup B \cup C
  OBVIOUS
<1>3. a \in Seq(S) /\ b \in Seq(S) /\ c \in Seq(S)
  BY <1>1, <1>2
<1>4. (a \o b) \o c = a \o (b \o c)
  BY <1>3
<1> QED BY <1>4 DEF ++

-----------------------------------------------------------------------------
(* The transactions, in any mix that is in order                            *)

QrOps == {"create-qr", "propose", "confirm", "withdraw", "reset", "pickup"}

LEMMA QrRowFine ==
  ASSUME NEW T, NEW order, Ordered(order), NEW t, t.op \in QrOps \ {"pickup", "create-qr", "reset"},
         NEW held, SharesProgram(held), Locks!Exclusive(Locks!QrLock(t.qr)) \in held
  PROVE  Fine(T, order, t, held, Locks!Exclusive(Locks!QrRow(t.qr)))
<1>1. PICK w : w = Locks!Exclusive(Locks!QrRow(t.qr))
  OBVIOUS
<1>2. w.lock[1] = "qr row" /\ w.lock[2] = t.qr /\ w.mode = "exclusive"
  BY <1>1 DEF Locks!Exclusive, Locks!QrRow
<1>3. Guarded(t, held, w) /\ w.lock[1] \in Tables
  BY <1>2 DEF Guarded, Tables, QrOps, SharesProgram
<1>4. Settled(T, t, held, w)
  BY <1>2 DEF Settled, QrOps, SharesProgram
<1> QED BY <1>1, <1>2, <1>3, <1>4, FineLock

LEMMA IntentRowFine ==
  ASSUME NEW T, NEW order, Ordered(order), NEW t, NEW held, NEW q,
         SharesProgram(held), Below(order, held, 7)
  PROVE  Fine(T, order, t, held, Locks!Exclusive(Locks!IntentRow(q)))
<1>1. PICK w : w = Locks!Exclusive(Locks!IntentRow(q))
  OBVIOUS
<1>2. w.lock[1] = "intent row" /\ w.mode = "exclusive"
  BY <1>1 DEF Locks!Exclusive, Locks!IntentRow
<1>3. Guarded(t, held, w) /\ w.lock[1] \in Tables
  BY <1>2, LockModes DEF Guarded, Tables, SharesProgram
<1>4. Rank(order, w) = 7
  BY <1>2, RankOf
<1> QED BY <1>1, <1>2, <1>3, <1>4, FineLock

LEMMA OpenFine ==
  ASSUME Locks!LocksAssumption, NEW T, NEW order, Ordered(order), NEW t
  PROVE  FineAfter(T, order, t, {}, Locks!Open(t)) /\ FineAfter(T, order, t, {}, Locks!Adjust(t))
<1>1. IsFiniteSet({}) /\ Below(order, {}, 10) /\ Below(order, {}, 14)
  BY FS_EmptySet DEF Below
<1>2. \A e \in {} : Locks!Exclusive(Locks!EventRow(e)) \in {}
  OBVIOUS
<1> QED BY <1>1, <1>2, AccountAndPostingFine DEF ++, Locks!Open, Locks!Adjust

LEMMA CheckoutFine ==
  ASSUME Locks!LocksAssumption, NEW T, NEW order, Ordered(order), NEW t
  PROVE  FineAfter(T, order, t, {}, Locks!Checkout(t))
<1>1. PICK a, b, s, u, p :
        /\ a = Locks!Exclusive(<<"product row", t.product>>)
        /\ b = Locks!Exclusive(<<"inventory row", t.product>>) /\ s = <<a, b>>
        /\ u = Locks!Account(t.user) /\ p = Locks!Posting(<<"store", t.user>>, {"store", t.user}, {})
  OBVIOUS
<1>2. /\ a.lock[1] = "product row" /\ a.mode = "exclusive"
      /\ b.lock[1] = "inventory row" /\ b.mode = "exclusive"
  BY <1>1 DEF Locks!Exclusive
<1>3. /\ Rank(order, a) = 1 /\ RankBehind(order, a) = 1
      /\ Rank(order, b) = 9 /\ RankBehind(order, b) = 9
      /\ a.lock[1] \in PlainTables /\ b.lock[1] \in PlainTables
  BY <1>2, RankOf DEF PlainTables, Tables
<1>4. Below(order, {}, 1) /\ Below(order, {} \cup {a}, 9)
  BY <1>3 DEF Below
<1>5. Fine(T, order, t, {}, a) /\ Fine(T, order, t, {} \cup {a}, b)
  BY <1>2, <1>3, <1>4, PlainFine
<1>6. IsList(s) /\ Len(s) = 2 /\ s[1] = a /\ s[2] = b
  BY <1>1, Lists
<1>7. FineAfter(T, order, t, {}, s) /\ Locked(s) = {a, b}
  BY <1>5, <1>6, FineTwo
<1>8. Below(order, Locked(s), 10) /\ Below(order, Locked(s), 14)
  BY <1>3, <1>7 DEF Below
<1>9. IsFiniteSet({}) /\ \A e \in {} : Locks!Exclusive(Locks!EventRow(e)) \in Locked(s)
  BY FS_EmptySet
<1>10. FineAfter(T, order, t, Locked(s), u ++ p) /\ IsList(u ++ p)
  BY <1>1, <1>8, <1>9, AccountAndPostingFine
<1>11. FineAfter(T, order, t, {}, s ++ (u ++ p))
  BY <1>6, <1>7, <1>10, FineNext
<1>12. IsList(u) /\ IsList(p)
  BY <1>1, <1>9, AccountList, PostingList
<1>13. Locks!Checkout(t) = (s ++ u) ++ p
  BY <1>1 DEF ++, Locks!Checkout
<1>14. (s ++ u) ++ p = s ++ (u ++ p)
  BY <1>6, <1>12, ConcatAssociates
<1> QED BY <1>11, <1>13, <1>14


LEMMA RegisterFine ==
  ASSUME NEW T, NEW order, Ordered(order), NEW t
  PROVE  FineAfter(T, order, t, {}, Locks!Register(t))
<1>1. PICK a, b, c, s :
        /\ a = Locks!Shared(Locks!ProgramRow) /\ c = Locks!Exclusive(Locks!AccountRow("welcome"))
        /\ b = Locks!Exclusive(<<"wallet-ledger", <<"welcome", t.user>>>>) /\ s = <<a, b, c>>
  OBVIOUS
<1>2. b.lock[1] = "wallet-ledger" /\ b.mode = "exclusive"
  BY <1>1 DEF Locks!Exclusive
<1>3. /\ RankBehind(order, a) = 11 /\ b.lock[1] \in PlainTables
      /\ Rank(order, b) = 15 + Len(order) /\ RankBehind(order, b) = 15 + Len(order)
  BY <1>1, <1>2, RankOf, LockRanks DEF PlainTables, Tables
<1>4. Len(order) \in Nat /\ PlaceIn(IdOrder, "welcome") \in 0 .. Len(IdOrder) /\ Len(IdOrder) \in Nat
  BY OrderedLengths
<1>5. Fine(T, order, t, {}, a)
  <2>1. Below(order, {}, 11)
    BY DEF Below
  <2> QED BY <1>1, <2>1, ProgramRowFine
<1>6. Fine(T, order, t, {} \cup {a}, b)
  <2>1. Below(order, {} \cup {a}, 15 + Len(order))
    BY <1>3, <1>4 DEF Below
  <2> QED BY <1>2, <1>3, <2>1, PlainFine
<1>7. Fine(T, order, t, {} \cup {a, b}, c)
  <2>1. a \in {} \cup {a, b} /\ a \in Gates
    BY <1>1, LockModes
  <2>2. Below(order, {} \cup {a, b}, 16 + Len(order) + PlaceIn(IdOrder, "welcome"))
    BY <1>3, <1>4 DEF Below
  <2> QED BY <1>1, <2>1, <2>2, AccountRowFine
<1>8. IsList(s) /\ Len(s) = 3 /\ s[1] = a /\ s[2] = b /\ s[3] = c
  BY <1>1, Lists
<1>9. FineAfter(T, order, t, {}, s)
  BY <1>5, <1>6, <1>7, <1>8, FineThree
<1> QED BY <1>1, <1>9 DEF Locks!Register

LEMMA CreateQrFine ==
  ASSUME NEW T, NEW order, Ordered(order), NEW t, t.op = "create-qr"
  PROVE  FineAfter(T, order, t, {}, Locks!CreateQr(t))
<1>1. PICK a, b, c, d, s :
        /\ a = Locks!Shared(Locks!Program) /\ b = Locks!Exclusive(<<"wallet-qr", t.user>>)
        /\ c = Locks!Exclusive(Locks!QrRow(t.qr)) /\ d = Locks!Shared(Locks!ProgramRow)
        /\ s = <<a, b, c, d>>
  OBVIOUS
<1>2. /\ b.lock[1] = "wallet-qr" /\ b.mode = "exclusive"
      /\ c.lock[1] = "qr row" /\ c.lock[2] = t.qr /\ c.mode = "exclusive"
  BY <1>1 DEF Locks!Exclusive, Locks!QrRow
<1>3. /\ RankBehind(order, a) = 0 /\ b.lock[1] \in PlainTables
      /\ Rank(order, b) = 6 /\ RankBehind(order, b) = 6 /\ Rank(order, c) = 7
  <2>1. RankBehind(order, a) = 0 /\ Rank(order, c) = 7
    BY <1>1, LockRanks
  <2>2. Rank(order, b) = 6 /\ RankBehind(order, b) = 6
    BY <1>2, RankOf
  <2>3. b.lock[1] \in PlainTables
    BY <1>2 DEF PlainTables, Tables
  <2> QED BY <2>1, <2>2, <2>3
<1>4. Fine(T, order, t, {}, a)
  <2>1. Below(order, {}, 10)
    BY DEF Below
  <2> QED BY <1>1, <2>1, ProgramFine
<1>5. Fine(T, order, t, {} \cup {a}, b)
  <2>1. Below(order, {} \cup {a}, 6)
    BY <1>3 DEF Below
  <2> QED BY <1>2, <1>3, <2>1, PlainFine
<1>6. Fine(T, order, t, {} \cup {a, b}, c)
  <2>1. Below(order, {} \cup {a, b}, 7)
    BY <1>3 DEF Below
  <2>2. Guarded(t, {} \cup {a, b}, c) /\ c.lock[1] \in Tables
    BY <1>1, <1>2 DEF Guarded, Tables
  <2> QED BY <1>2, <1>3, <2>1, <2>2, FineLock
<1>7. Fine(T, order, t, {} \cup {a, b, c}, d)
  <2>1. SharesProgram({} \cup {a, b, c})
    BY <1>1 DEF SharesProgram
  <2> QED BY <1>1, <2>1, ProgramRowFine
<1>8. IsList(s) /\ Len(s) = 4 /\ s[1] = a /\ s[2] = b /\ s[3] = c /\ s[4] = d
  BY <1>1, Lists
<1>9. FineAfter(T, order, t, {}, s)
  BY <1>4, <1>5, <1>6, <1>7, <1>8, FineFour
<1> QED BY <1>1, <1>9 DEF Locks!CreateQr

LEMMA ProposeFine ==
  ASSUME Locks!LocksAssumption, NEW T \in SUBSET Tasks, NEW order, Locks!Orderly(T, order),
         NEW t \in T, t.op = "propose"
  PROVE  FineAfter(T, order, t, {}, Locks!Propose(t))
<1>1. /\ Ordered(order) /\ IsFiniteSet(t.events) /\ t.op \in QrOps \ {"pickup", "create-qr", "reset"}
      /\ NoReward(T) \/ t.events = {}
  <2>1. Ordered(order) /\ IsFiniteSet(t.events)
    BY OrderlyIsOrder, SameFiniteSets DEF Ordered, Locks!LocksAssumption
  <2>2. NoReward(T) \/ t.events = {}
    BY DEF NoReward, Locks!Orderly
  <2> QED BY <2>1, <2>2 DEF QrOps
<1>2. PICK i, w, p, q : i = t.initiator /\ w = t.owner /\ p = t.payer /\ q = t.payee
  OBVIOUS
<1>3. /\ Len(order) \in Nat /\ Len(IdOrder) \in Nat
      /\ PlaceIn(order, i) \in 0 .. Len(order) /\ PlaceIn(order, w) \in 0 .. Len(order)
      /\ PlaceIn(IdOrder, p) \in 0 .. Len(IdOrder) /\ PlaceIn(IdOrder, q) \in 0 .. Len(IdOrder)
      /\ PlaceIn(order, i) < PlaceIn(order, w) /\ PlaceIn(IdOrder, p) < PlaceIn(IdOrder, q)
  <2>1. Locks!Precedes(i, w, order) /\ Locks!Precedes(p, q, IdOrder)
    BY <1>2 DEF Locks!Orderly
  <2> QED BY <1>1, <2>1, OrderedLengths, Places DEF Ordered
<1>4. PICK sp, ql, row, sr, ap, aq, wi, ww :
        /\ sp = Locks!Shared(Locks!Program) /\ ql = Locks!Exclusive(Locks!QrLock(t.qr))
        /\ row = Locks!Exclusive(Locks!QrRow(t.qr)) /\ sr = Locks!Shared(Locks!ProgramRow)
        /\ ap = Locks!Shared(Locks!AccountRow(p)) /\ aq = Locks!Shared(Locks!AccountRow(q))
        /\ wi = Locks!Exclusive(Locks!Wallet(i)) /\ ww = Locks!Exclusive(Locks!Wallet(w))
  OBVIOUS
<1>5. /\ RankBehind(order, sp) = 0 /\ RankBehind(order, ql) = 6 /\ RankBehind(order, row) = 7
      /\ RankBehind(order, sr) = 11 /\ RankBehind(order, wi) = 14 + PlaceIn(order, i)
      /\ RankBehind(order, ww) = 14 + PlaceIn(order, w)
      /\ RankBehind(order, ap) = 16 + Len(order) + PlaceIn(IdOrder, p)
  BY <1>4, LockRanks, AccountRanks
<1>6. PICK M, R, A, B, S, E :
        /\ M = Locks!QrMutation(t.qr) /\ R = <<row>> /\ A = Locks!Account(i) /\ B = Locks!Account(w)
        /\ S = <<sr, ap, aq>> /\ E = Locks!EventRefs(t.events)
  OBVIOUS
<1>7. FineAfter(T, order, t, {}, M) /\ IsList(M) /\ Locked(M) = {sp, ql}
  BY <1>1, <1>4, <1>6, QrMutationFine
<1>8. FineAfter(T, order, t, {}, M ++ R) /\ IsList(M ++ R) /\ Locked(M ++ R) = {sp, ql, row}
  <2>1. IsList(R) /\ Len(R) = 1 /\ R[1] = row
    BY <1>6, Lists
  <2>2. Fine(T, order, t, Locked(M), row)
    BY <1>1, <1>4, <1>7, QrRowFine DEF SharesProgram
  <2>3. FineAfter(T, order, t, Locked(M), R) /\ Locked(R) = {row}
    BY <2>1, <2>2, FineOne
  <2>4. /\ FineAfter(T, order, t, {}, M ++ R) /\ IsList(M ++ R)
        /\ Locked(M ++ R) = Locked(M) \cup Locked(R)
    BY <1>7, <2>1, <2>3, FineNext
  <2> QED BY <1>7, <2>3, <2>4
<1>9. /\ FineAfter(T, order, t, {}, M ++ R ++ A) /\ IsList(M ++ R ++ A)
      /\ Locked(M ++ R ++ A) = {sp, ql, row, wi}
  <2>1. SharesProgram(Locked(M ++ R))
    BY <1>4, <1>8 DEF SharesProgram
  <2>2. Below(order, Locked(M ++ R), 14 + PlaceIn(order, i))
    BY <1>3, <1>5, <1>8 DEF Below
  <2>3. /\ FineAfter(T, order, t, Locked(M ++ R), A) /\ IsList(A) /\ Locked(A) = {sp, wi}
    BY <1>1, <1>4, <1>6, <2>1, <2>2, AccountFine
  <2>4. /\ FineAfter(T, order, t, {}, M ++ R ++ A) /\ IsList(M ++ R ++ A)
        /\ Locked(M ++ R ++ A) = Locked(M ++ R) \cup Locked(A)
    BY <1>8, <2>3, FineNext
  <2> QED BY <1>8, <2>3, <2>4
<1>10. /\ FineAfter(T, order, t, {}, M ++ R ++ A ++ B) /\ IsList(M ++ R ++ A ++ B)
       /\ Locked(M ++ R ++ A ++ B) = {sp, ql, row, wi, ww}
  <2>1. SharesProgram(Locked(M ++ R ++ A))
    BY <1>4, <1>9 DEF SharesProgram
  <2>2. Below(order, Locked(M ++ R ++ A), 14 + PlaceIn(order, w))
    BY <1>3, <1>5, <1>9 DEF Below
  <2>3. /\ FineAfter(T, order, t, Locked(M ++ R ++ A), B) /\ IsList(B) /\ Locked(B) = {sp, ww}
    BY <1>1, <1>4, <1>6, <2>1, <2>2, AccountFine
  <2>4. /\ FineAfter(T, order, t, {}, M ++ R ++ A ++ B) /\ IsList(M ++ R ++ A ++ B)
        /\ Locked(M ++ R ++ A ++ B) = Locked(M ++ R ++ A) \cup Locked(B)
    BY <1>9, <2>3, FineNext
  <2> QED BY <1>9, <2>3, <2>4
<1>11. FineAfter(T, order, t, {}, M ++ R ++ A ++ B ++ S) /\ IsList(M ++ R ++ A ++ B ++ S)
  <2>1. PICK h : h = Locked(M ++ R ++ A ++ B)
    OBVIOUS
  <2>2. sp \in h /\ sp \in Gates /\ SharesProgram(h)
    BY <1>4, <1>10, <2>1, LockModes DEF SharesProgram
  <2>3. Below(order, h, 15 + Len(order))
    BY <1>3, <1>5, <1>10, <2>1 DEF Below
  <2>4. Fine(T, order, t, h, sr)
    BY <1>1, <1>4, <2>2, ProgramRowFine
  <2>5. Fine(T, order, t, h \cup {sr}, ap)
    <3>1. Below(order, h \cup {sr}, 16 + Len(order) + PlaceIn(IdOrder, p))
      BY <1>3, <1>5, <2>3 DEF Below
    <3> QED BY <1>1, <1>4, <2>2, <3>1, AccountRowFine
  <2>6. Fine(T, order, t, h \cup {sr, ap}, aq)
    <3>1. Below(order, h \cup {sr, ap}, 16 + Len(order) + PlaceIn(IdOrder, q))
      BY <1>3, <1>5, <2>3 DEF Below
    <3> QED BY <1>1, <1>4, <2>2, <3>1, AccountRowFine
  <2>7. IsList(S) /\ Len(S) = 3 /\ S[1] = sr /\ S[2] = ap /\ S[3] = aq
    BY <1>6, Lists
  <2>8. FineAfter(T, order, t, h, S)
    BY <2>4, <2>5, <2>6, <2>7, FineThree
  <2> QED BY <1>10, <2>1, <2>7, <2>8, FineNext
<1>12. FineAfter(T, order, t, {}, M ++ R ++ A ++ B ++ S ++ E)
  <2>1. PICK h : h = Locked(M ++ R ++ A ++ B ++ S)
    OBVIOUS
  <2>2. NoReward(T) \/ \A e \in t.events : Locks!Exclusive(Locks!EventRow(e)) \in h
    BY <1>1
  <2>3. FineAfter(T, order, t, h, E) /\ IsList(E)
    BY <1>1, <1>6, <2>2, EventRefsFine, EventRefsList
  <2> QED BY <1>11, <2>1, <2>3, FineNext
<1> QED BY <1>2, <1>4, <1>6, <1>12 DEF ++, Locks!Propose

LEMMA WithdrawFine ==
  ASSUME NEW T, NEW order, Ordered(order), NEW t, t.op = "withdraw"
  PROVE  FineAfter(T, order, t, {}, Locks!Withdraw(t))
<1>1. PICK sp, ql, r, row, M, R :
        /\ sp = Locks!Shared(Locks!Program) /\ ql = Locks!Exclusive(Locks!QrLock(t.qr))
        /\ r = Locks!Exclusive(Locks!IntentRow(t.qr)) /\ row = Locks!Exclusive(Locks!QrRow(t.qr))
        /\ M = Locks!QrMutation(t.qr) /\ R = <<r, row>>
  OBVIOUS
<1>2. FineAfter(T, order, t, {}, M) /\ IsList(M) /\ Locked(M) = {sp, ql}
  BY <1>1, QrMutationFine
<1>3. PICK h : h = Locked(M)
  OBVIOUS
<1>4. RankBehind(order, sp) = 0 /\ RankBehind(order, ql) = 6
  BY <1>1, LockRanks
<1>5. Below(order, h, 7) /\ SharesProgram(h)
  BY <1>1, <1>2, <1>3, <1>4 DEF Below, SharesProgram
<1>6. Fine(T, order, t, h, r)
  BY <1>1, <1>5, IntentRowFine
<1>7. Fine(T, order, t, h \cup {r}, row)
  <2>1. SharesProgram(h \cup {r}) /\ Locks!Exclusive(Locks!QrLock(t.qr)) \in h \cup {r}
    BY <1>1, <1>2, <1>3 DEF SharesProgram
  <2>2. t.op \in QrOps \ {"pickup", "create-qr", "reset"}
    BY DEF QrOps
  <2> QED BY <1>1, <2>1, <2>2, QrRowFine
<1>8. IsList(R) /\ Len(R) = 2 /\ R[1] = r /\ R[2] = row
  BY <1>1, Lists
<1>9. FineAfter(T, order, t, h, R)
  BY <1>6, <1>7, <1>8, FineTwo
<1> QED BY <1>1, <1>2, <1>3, <1>8, <1>9, FineNext DEF ++, Locks!Withdraw

LEMMA ConfirmFine ==
  ASSUME Locks!LocksAssumption, NEW T \in SUBSET Tasks, NEW order, Locks!Orderly(T, order),
         NEW t \in T, t.op = "confirm"
  PROVE  FineAfter(T, order, t, {}, Locks!Confirm(t))
<1>1. /\ Ordered(order) /\ IsFiniteSet(t.events) /\ t.op \in QrOps \ {"pickup", "create-qr", "reset"}
      /\ NoReward(T) \/ t.events = {}
  <2>1. Ordered(order) /\ IsFiniteSet(t.events)
    BY OrderlyIsOrder, SameFiniteSets DEF Ordered, Locks!LocksAssumption
  <2>2. NoReward(T) \/ t.events = {}
    BY DEF NoReward, Locks!Orderly
  <2> QED BY <2>1, <2>2 DEF QrOps
<1>2. PICK sp, ql, r, row, M, I, P, R :
        /\ sp = Locks!Shared(Locks!Program) /\ ql = Locks!Exclusive(Locks!QrLock(t.qr))
        /\ r = Locks!Exclusive(Locks!IntentRow(t.qr)) /\ row = Locks!Exclusive(Locks!QrRow(t.qr))
        /\ M = Locks!QrMutation(t.qr) /\ I = <<r>> /\ R = <<row>>
        /\ P = Locks!Posting(<<"intent", t.qr>>, {t.payer, t.payee}, t.events)
  OBVIOUS
<1>3. FineAfter(T, order, t, {}, M) /\ IsList(M) /\ Locked(M) = {sp, ql}
  BY <1>1, <1>2, QrMutationFine
<1>4. /\ RankBehind(order, sp) = 0 /\ RankBehind(order, ql) = 6 /\ RankBehind(order, r) = 7
      /\ Len(order) \in Nat
  BY <1>1, <1>2, LockRanks, OrderedLengths
<1>5. FineAfter(T, order, t, {}, M ++ I) /\ IsList(M ++ I) /\ Locked(M ++ I) = {sp, ql, r}
  <2>1. Below(order, Locked(M), 7) /\ SharesProgram(Locked(M))
    BY <1>2, <1>3, <1>4 DEF Below, SharesProgram
  <2>2. Fine(T, order, t, Locked(M), r)
    BY <1>1, <1>2, <2>1, IntentRowFine
  <2>3. IsList(I) /\ Len(I) = 1 /\ I[1] = r
    BY <1>2, Lists
  <2>4. FineAfter(T, order, t, Locked(M), I) /\ Locked(I) = {r}
    BY <2>2, <2>3, FineOne
  <2>5. /\ FineAfter(T, order, t, {}, M ++ I) /\ IsList(M ++ I)
        /\ Locked(M ++ I) = Locked(M) \cup Locked(I)
    BY <1>3, <2>3, <2>4, FineNext
  <2> QED BY <1>3, <2>4, <2>5
<1>6. /\ FineAfter(T, order, t, {}, M ++ I ++ P) /\ IsList(M ++ I ++ P)
      /\ Locked(M ++ I) \subseteq Locked(M ++ I ++ P)
  <2>1. PICK h : h = Locked(M ++ I)
    OBVIOUS
  <2>2. Below(order, h, 15 + Len(order)) /\ SharesProgram(h)
    BY <1>2, <1>4, <1>5, <2>1 DEF Below, SharesProgram
  <2>3. NoReward(T) \/ \A e \in t.events : Locks!Exclusive(Locks!EventRow(e)) \in h
    BY <1>1
  <2>4. FineAfter(T, order, t, h, P) /\ IsList(P)
    BY <1>1, <1>2, <2>2, <2>3, PostingFine
  <2>5. /\ FineAfter(T, order, t, {}, M ++ I ++ P) /\ IsList(M ++ I ++ P)
        /\ Locked(M ++ I ++ P) = Locked(M ++ I) \cup Locked(P)
    BY <1>5, <2>1, <2>4, FineNext
  <2> QED BY <2>5
<1>7. FineAfter(T, order, t, {}, M ++ I ++ P ++ R)
  <2>1. PICK h : h = Locked(M ++ I ++ P)
    OBVIOUS
  <2>2. SharesProgram(h) /\ Locks!Exclusive(Locks!QrLock(t.qr)) \in h
    BY <1>2, <1>5, <1>6, <2>1 DEF SharesProgram
  <2>3. Fine(T, order, t, h, row)
    BY <1>1, <1>2, <2>2, QrRowFine
  <2>4. IsList(R) /\ Len(R) = 1 /\ R[1] = row
    BY <1>2, Lists
  <2>5. FineAfter(T, order, t, h, R)
    BY <2>3, <2>4, FineOne
  <2> QED BY <1>6, <2>1, <2>4, <2>5, FineNext
<1> QED BY <1>2, <1>7 DEF ++, Locks!Confirm

LEMMA PickupFine ==
  ASSUME NEW T, NEW order, Ordered(order), NEW t, t.op = "pickup"
  PROVE  FineAfter(T, order, t, {}, Locks!Pickup(t))
<1>1. PICK a, b, c, s :
        /\ a = Locks!Exclusive(Locks!QrRow(t.qr)) /\ b = Locks!Exclusive(<<"order row", t.qr>>)
        /\ c = Locks!Exclusive(<<"inventory row", t.product>>) /\ s = <<a, b, c>>
  OBVIOUS
<1>2. /\ a.lock[1] = "qr row" /\ a.lock[2] = t.qr /\ a.mode = "exclusive"
      /\ b.lock[1] = "order row" /\ b.mode = "exclusive"
      /\ c.lock[1] = "inventory row" /\ c.mode = "exclusive"
  BY <1>1 DEF Locks!Exclusive, Locks!QrRow
<1>3. /\ Rank(order, a) = 7 /\ RankBehind(order, a) = 7 /\ Rank(order, b) = 8
      /\ RankBehind(order, b) = 8 /\ Rank(order, c) = 9
  BY <1>2, RankOf
<1>4. b.lock[1] \in PlainTables /\ c.lock[1] \in PlainTables
  BY <1>2 DEF PlainTables, Tables
<1>5. Fine(T, order, t, {}, a)
  <2>1. Guarded(t, {}, a) /\ a.lock[1] \in Tables
    BY <1>2 DEF Guarded, Tables
  <2>2. Below(order, {}, 7)
    BY DEF Below
  <2> QED BY <1>2, <1>3, <2>1, <2>2, FineLock
<1>6. Below(order, {} \cup {a}, 8) /\ Below(order, {} \cup {a, b}, 9)
  BY <1>3 DEF Below
<1>7. Fine(T, order, t, {} \cup {a}, b) /\ Fine(T, order, t, {} \cup {a, b}, c)
  BY <1>2, <1>3, <1>4, <1>6, PlainFine
<1>8. IsList(s) /\ Len(s) = 3 /\ s[1] = a /\ s[2] = b /\ s[3] = c
  BY <1>1, Lists
<1>9. FineAfter(T, order, t, {}, s)
  BY <1>5, <1>7, <1>8, FineThree
<1> QED BY <1>1, <1>9 DEF Locks!Pickup

LEMMA PolicyFine ==
  ASSUME NEW T, NEW order, Ordered(order), NEW t
  PROVE  FineAfter(T, order, t, {}, Locks!Policy(t))
<1>1. PICK a, s : a = Locks!Exclusive(<<"policy row", t.event>>) /\ s = <<a>>
  OBVIOUS
<1>2. a.lock[1] = "policy row" /\ a.mode = "exclusive"
  BY <1>1 DEF Locks!Exclusive
<1>3. a.lock[1] \in PlainTables /\ Rank(order, a) = 3
  BY <1>2, RankOf DEF PlainTables, Tables
<1>4. Below(order, {}, 3)
  BY DEF Below
<1>5. Fine(T, order, t, {}, a)
  BY <1>2, <1>3, <1>4, PlainFine
<1>6. IsList(s) /\ Len(s) = 1 /\ s[1] = a
  BY <1>1, Lists
<1> QED BY <1>1, <1>5, <1>6, FineOne DEF Locks!Policy

LEMMA FundFine ==
  ASSUME NEW T, NEW order, Ordered(order), NEW t
  PROVE  FineAfter(T, order, t, {}, Locks!Fund(t))
<1>1. PICK a, b, s : /\ a = Locks!Shared(Locks!ProgramRow) /\ b = Locks!Shared(Locks!EventRow(t.event))
                     /\ s = <<a, b>>
  OBVIOUS
<1>2. RankBehind(order, a) = 11
  BY <1>1, LockRanks
<1>3. Below(order, {}, 11) /\ Below(order, {} \cup {a}, 13)
  BY <1>2 DEF Below
<1>4. Fine(T, order, t, {}, a)
  BY <1>1, <1>3, ProgramRowFine
<1>5. Fine(T, order, t, {} \cup {a}, b)
  BY <1>1, <1>3, EventRefFine
<1>6. IsList(s) /\ Len(s) = 2 /\ s[1] = a /\ s[2] = b
  BY <1>1, Lists
<1>7. FineAfter(T, order, t, {}, s)
  BY <1>4, <1>5, <1>6, FineTwo
<1> QED BY <1>1, <1>7 DEF Locks!Fund

LEMMA RewardFine ==
  ASSUME Locks!LocksAssumption, NEW T \in SUBSET Tasks, NEW order, Locks!Orderly(T, order),
         NEW t \in T, t.op = "reward"
  PROVE  FineAfter(T, order, t, {}, Locks!Reward(t))
<1>1. Ordered(order) /\ NoReset(T)
  BY OrderlyIsOrder DEF Ordered, NoReset, Locks!Orderly
<1>2. PICK a, b, c, s, u, p :
        /\ a = Locks!Exclusive(<<"submission row", t.user>>)
        /\ b = Locks!Exclusive(<<"policy row", t.event>>)
        /\ c = Locks!Exclusive(Locks!EventRow(t.event)) /\ s = <<a, b, c>>
        /\ u = Locks!Account(t.user)
        /\ p = Locks!Posting(<<"artifact", t.user>>, {t.event, t.user}, {t.event})
  OBVIOUS
<1>3. /\ a.lock[1] = "submission row" /\ a.mode = "exclusive"
      /\ b.lock[1] = "policy row" /\ b.mode = "exclusive"
      /\ c.lock[1] = "event row" /\ c.mode = "exclusive"
  BY <1>2 DEF Locks!Exclusive, Locks!EventRow
<1>4. /\ Rank(order, a) = 2 /\ RankBehind(order, a) = 2 /\ Rank(order, b) = 3
      /\ RankBehind(order, b) = 3 /\ Rank(order, c) = 12 /\ RankBehind(order, c) = 13
  BY <1>3, RankOf
<1>5. a.lock[1] \in PlainTables /\ b.lock[1] \in PlainTables
  BY <1>3 DEF PlainTables, Tables
<1>6. /\ Below(order, {}, 2) /\ Below(order, {} \cup {a}, 3) /\ Below(order, {} \cup {a, b}, 12)
      /\ Below(order, {} \cup {a, b, c}, 14)
  BY <1>4 DEF Below
<1>7. Fine(T, order, t, {}, a) /\ Fine(T, order, t, {} \cup {a}, b)
  BY <1>1, <1>3, <1>4, <1>5, <1>6, PlainFine
<1>8. Fine(T, order, t, {} \cup {a, b}, c)
  <2>1. Guarded(t, {} \cup {a, b}, c) /\ c.lock[1] \in Tables
    BY <1>3 DEF Guarded, Tables
  <2> QED BY <1>1, <1>3, <1>4, <1>6, <2>1, FineLock
<1>9. IsList(s) /\ Len(s) = 3 /\ s[1] = a /\ s[2] = b /\ s[3] = c
  BY <1>2, Lists
<1>10. FineAfter(T, order, t, {}, s) /\ Locked(s) = {a, b, c}
  BY <1>7, <1>8, <1>9, FineThree
<1>11. Below(order, Locked(s), 14)
  BY <1>6, <1>10
<1>12. IsFiniteSet({t.event})
       /\ \A e \in {t.event} : Locks!Exclusive(Locks!EventRow(e)) \in Locked(s)
  BY <1>2, <1>10, FS_Singleton
<1>13. FineAfter(T, order, t, Locked(s), u ++ p) /\ IsList(u ++ p)
  BY <1>1, <1>2, <1>11, <1>12, AccountAndPostingFine
<1>14. FineAfter(T, order, t, {}, s ++ (u ++ p))
  BY <1>9, <1>10, <1>13, FineNext
<1>15. IsList(u) /\ IsList(p)
  BY <1>2, <1>12, AccountList, PostingList
<1>16. Locks!Reward(t) = (s ++ u) ++ p
  BY <1>2 DEF ++, Locks!Reward
<1>17. (s ++ u) ++ p = s ++ (u ++ p)
  BY <1>9, <1>15, ConcatAssociates
<1> QED BY <1>14, <1>16, <1>17

LEMMA AwardFine ==
  ASSUME Locks!LocksAssumption, NEW T \in SUBSET Tasks, NEW order, Locks!Orderly(T, order),
         NEW t \in T, t.op = "award"
  PROVE  FineAfter(T, order, t, {}, Locks!Award(t))
<1>1. Ordered(order) /\ IsFiniteSet(t.events)
  BY OrderlyIsOrder, SameFiniteSets DEF Ordered, Locks!LocksAssumption
<1>2. PICK sp, sr, s, E, u, p :
        /\ sp = Locks!Shared(Locks!Program) /\ sr = Locks!Shared(Locks!ProgramRow)
        /\ s = <<sp, sr>> /\ E = Locks!EventRefs(t.events) /\ u = Locks!Account(t.user)
        /\ p = Locks!Posting(<<"leader-id", t.user>>, {"leader", t.user}, {})
  OBVIOUS
<1>3. RankBehind(order, sp) = 0 /\ RankBehind(order, sr) = 11
  BY <1>2, LockRanks
<1>4. Below(order, {}, 10)
  BY DEF Below
<1>5. Fine(T, order, t, {}, sp) /\ Fine(T, order, t, {} \cup {sp}, sr)
  <2>1. SharesProgram({} \cup {sp})
    BY <1>2 DEF SharesProgram
  <2> QED BY <1>1, <1>2, <1>4, <2>1, ProgramFine, ProgramRowFine
<1>6. IsList(s) /\ Len(s) = 2 /\ s[1] = sp /\ s[2] = sr
  BY <1>2, Lists
<1>7. FineAfter(T, order, t, {}, s) /\ Locked(s) = {sp, sr}
  BY <1>5, <1>6, FineTwo
<1>8. /\ FineAfter(T, order, t, {}, s ++ E) /\ IsList(s ++ E) /\ IsList(E)
      /\ SharesProgram(Locked(s ++ E)) /\ Below(order, Locked(s ++ E), 14)
  <2>1. Below(order, Locked(s), 13)
    BY <1>3, <1>7 DEF Below
  <2>2. /\ FineAfter(T, order, t, Locked(s), E) /\ IsList(E)
        /\ \A r \in Locked(E) : RankBehind(order, r) = 12
    BY <1>1, <1>2, <2>1, EventRefsFine, EventRefsList
  <2>3. /\ FineAfter(T, order, t, {}, s ++ E) /\ IsList(s ++ E)
        /\ Locked(s ++ E) = Locked(s) \cup Locked(E)
    BY <1>6, <1>7, <2>2, FineNext
  <2>4. SharesProgram(Locked(s ++ E))
    BY <1>2, <1>7, <2>3 DEF SharesProgram
  <2>5. Below(order, Locked(s ++ E), 14)
    BY <1>3, <1>7, <2>2, <2>3 DEF Below
  <2> QED BY <2>2, <2>3, <2>4, <2>5
<1>9. IsFiniteSet({}) /\ \A e \in {} : Locks!Exclusive(Locks!EventRow(e)) \in Locked(s ++ E)
  BY FS_EmptySet
<1>10. FineAfter(T, order, t, Locked(s ++ E), u ++ p) /\ IsList(u ++ p)
  BY <1>1, <1>2, <1>8, <1>9, AccountAndPostingFine
<1>11. FineAfter(T, order, t, {}, (s ++ E) ++ (u ++ p))
  BY <1>8, <1>10, FineNext
<1>12. IsList(u) /\ IsList(p)
  BY <1>2, <1>9, AccountList, PostingList
<1>13. Locks!Award(t) = ((s ++ E) ++ u) ++ p
  BY <1>2 DEF ++, Locks!Award
<1>14. ((s ++ E) ++ u) ++ p = (s ++ E) ++ (u ++ p)
  BY <1>8, <1>12, ConcatAssociates
<1> QED BY <1>11, <1>13, <1>14

LEMMA ResetFine ==
  ASSUME Locks!LocksAssumption, NEW T \in SUBSET Tasks, NEW order, Locks!Orderly(T, order),
         NEW t \in T, t.op = "reset"
  PROVE  FineAfter(T, order, t, {}, Locks!Reset(t))
<1>1. Ordered(order) /\ IsFiniteSet(t.events) /\ NoReward(T)
  BY OrderlyIsOrder, SameFiniteSets DEF Ordered, NoReward, Locks!LocksAssumption, Locks!Orderly
<1>2. PICK ep, er, r, row, s, A, E, R :
        /\ ep = Locks!Exclusive(Locks!Program) /\ er = Locks!Exclusive(Locks!ProgramRow)
        /\ r = Locks!Exclusive(Locks!IntentRow(t.qr)) /\ row = Locks!Exclusive(Locks!QrRow(t.qr))
        /\ s = <<ep, er>> /\ A = Locks!AccountRows(Locks!ToSet(IdOrder))
        /\ E = Locks!EventRefs(t.events) /\ R = <<r, row>>
  OBVIOUS
<1>3. /\ Rank(order, ep) = 0 /\ Rank(order, er) = 11 /\ RankBehind(order, ep) = 10
  BY <1>2, LockRanks
<1>4. /\ ep.lock[1] = "program" /\ ep.mode = "exclusive"
      /\ er.lock[1] = "program row" /\ er.mode = "exclusive"
  BY <1>2, LockTables
<1>5. Fine(T, order, t, {}, ep)
  <2>1. Below(order, {}, 0)
    BY DEF Below
  <2>2. Guarded(t, {}, ep) /\ ep.lock[1] \in Tables
    BY <1>4 DEF Guarded, Tables
  <2> QED BY <1>1, <1>3, <1>4, <2>1, <2>2, FineLock
<1>6. Fine(T, order, t, {} \cup {ep}, er)
  <2>1. Below(order, {} \cup {ep}, 11)
    BY <1>3 DEF Below
  <2>2. Guarded(t, {} \cup {ep}, er) /\ er.lock[1] \in Tables
    BY <1>2, <1>4 DEF Guarded, Tables
  <2> QED BY <1>1, <1>3, <1>4, <2>1, <2>2, FineLock
<1>7. IsList(s) /\ Len(s) = 2 /\ s[1] = ep /\ s[2] = er
  BY <1>2, Lists
<1>8. FineAfter(T, order, t, {}, s) /\ Locked(s) = {ep, er}
  BY <1>5, <1>6, <1>7, FineTwo
<1>9. ASSUME NEW h, {ep, er} \subseteq h, NEW w, w.mode = "exclusive",
             \/ w.lock[1] \in {"account row", "intent row"}
             \/ w.lock[1] = "qr row" /\ w.lock[2] = t.qr
      PROVE  Fine(T, order, t, h, w)
  <2>1. \E g \in h : g \in Gates
    BY <1>2, <1>9, LockModes
  <2>2. Guarded(t, h, w) /\ w.lock[1] \in Tables
    BY <1>2, <1>9, <2>1 DEF Guarded, Tables
  <2>3. Settled(T, t, h, w)
    BY <1>2, <1>9 DEF Settled
  <2> QED BY <1>1, <1>9, <2>2, <2>3, FineLock
<1>10. FineAfter(T, order, t, Locked(s), A) /\ IsList(A)
  <2>1. IsList(A)
    BY <1>2, AccountRowsList
  <2>2. ASSUME NEW k \in 1 .. Len(A)
        PROVE  Fine(T, order, t, Locked(s) \cup {A[m] : m \in 1 .. k - 1}, A[k])
    <3>1. PICK q \in DOMAIN IdOrder : A[k] = Locks!Exclusive(Locks!AccountRow(IdOrder[q]))
      BY <1>2, AccountRowsClimb
    <3>2. PICK o, w : o = IdOrder[q] /\ w = Locks!Exclusive(Locks!AccountRow(o))
      OBVIOUS
    <3>3. w.lock[1] = "account row" /\ w.mode = "exclusive"
      BY <3>2 DEF Locks!Exclusive, Locks!AccountRow
    <3> QED BY <1>8, <1>9, <3>1, <3>2, <3>3
  <2> QED BY <2>1, <2>2 DEF FineAfter
<1>11. /\ FineAfter(T, order, t, {}, s ++ A) /\ IsList(s ++ A)
       /\ Locked(s ++ A) = Locked(s) \cup Locked(A)
  BY <1>7, <1>8, <1>10, FineNext
<1>12. FineAfter(T, order, t, Locked(s ++ A), E) /\ IsList(E)
  BY <1>1, <1>2, EventRefsFine, EventRefsList
<1>13. /\ FineAfter(T, order, t, {}, s ++ A ++ E) /\ IsList(s ++ A ++ E)
       /\ Locked(s ++ A ++ E) = Locked(s ++ A) \cup Locked(E)
  BY <1>11, <1>12, FineNext
<1>14. PICK h : h = Locked(s ++ A ++ E)
  OBVIOUS
<1>15. {ep, er} \subseteq h /\ {ep, er} \subseteq h \cup {r}
  BY <1>8, <1>11, <1>13, <1>14
<1>16. /\ r.lock[1] = "intent row" /\ r.mode = "exclusive"
       /\ row.lock[1] = "qr row" /\ row.lock[2] = t.qr /\ row.mode = "exclusive"
  BY <1>2 DEF Locks!Exclusive, Locks!IntentRow, Locks!QrRow
<1>17. Fine(T, order, t, h, r) /\ Fine(T, order, t, h \cup {r}, row)
  BY <1>9, <1>15, <1>16
<1>18. IsList(R) /\ Len(R) = 2 /\ R[1] = r /\ R[2] = row
  BY <1>2, Lists
<1>19. FineAfter(T, order, t, h, R)
  BY <1>17, <1>18, FineTwo
<1>20. FineAfter(T, order, t, {}, (s ++ A ++ E) ++ R)
  BY <1>13, <1>14, <1>18, <1>19, FineNext
<1> QED BY <1>2, <1>20 DEF ++, Locks!Reset

LEMMA ScriptFine ==
  ASSUME Locks!LocksAssumption, NEW T \in SUBSET Tasks, NEW order, Locks!Orderly(T, order),
         NEW t \in T
  PROVE  FineAfter(T, order, t, {}, Locks!Script[t])
<1>1. Ordered(order)
  BY OrderlyIsOrder DEF Ordered
<1>2. t \in Tasks
  OBVIOUS
<1>3. CASE t.op \in {"open", "register", "adjust", "create-qr"}
  <2>1. FineAfter(T, order, t, {}, Locks!Open(t)) /\ FineAfter(T, order, t, {}, Locks!Adjust(t))
    BY <1>1, OpenFine
  <2>2. FineAfter(T, order, t, {}, Locks!Register(t))
    BY <1>1, RegisterFine
  <2>3. t.op = "create-qr" => FineAfter(T, order, t, {}, Locks!CreateQr(t))
    BY <1>1, CreateQrFine
  <2>4. Locks!Script[t] =
          IF t.op = "open" THEN Locks!Open(t) ELSE IF t.op = "register" THEN Locks!Register(t)
          ELSE IF t.op = "adjust" THEN Locks!Adjust(t) ELSE Locks!CreateQr(t)
    BY <1>2, <1>3 DEF Locks!Script
  <2> QED BY <1>3, <2>1, <2>2, <2>3, <2>4
<1>4. CASE t.op \in {"propose", "confirm", "withdraw", "checkout", "pickup"}
  <2>1. t.op = "propose" => Locks!Script[t] = Locks!Propose(t)
    BY <1>2 DEF Locks!Script
  <2>2. t.op = "confirm" => Locks!Script[t] = Locks!Confirm(t)
    BY <1>2 DEF Locks!Script
  <2>3. t.op = "withdraw" => Locks!Script[t] = Locks!Withdraw(t)
    BY <1>2 DEF Locks!Script
  <2>4. t.op = "checkout" => Locks!Script[t] = Locks!Checkout(t)
    BY <1>2 DEF Locks!Script
  <2>5. t.op = "pickup" => Locks!Script[t] = Locks!Pickup(t)
    BY <1>2 DEF Locks!Script
  <2>6. t.op = "propose" => FineAfter(T, order, t, {}, Locks!Propose(t))
    BY ProposeFine
  <2>7. t.op = "confirm" => FineAfter(T, order, t, {}, Locks!Confirm(t))
    BY ConfirmFine
  <2>8. t.op = "withdraw" => FineAfter(T, order, t, {}, Locks!Withdraw(t))
    BY <1>1, WithdrawFine
  <2>9. FineAfter(T, order, t, {}, Locks!Checkout(t))
    BY <1>1, CheckoutFine
  <2>10. t.op = "pickup" => FineAfter(T, order, t, {}, Locks!Pickup(t))
    BY <1>1, PickupFine
  <2> QED BY <1>4, <2>1, <2>2, <2>3, <2>4, <2>5, <2>6, <2>7, <2>8, <2>9, <2>10
<1>5. CASE t.op \in {"reward", "award", "fund", "policy", "reset"}
  <2>1. t.op = "reward" => Locks!Script[t] = Locks!Reward(t)
    BY <1>2 DEF Locks!Script
  <2>2. t.op = "award" => Locks!Script[t] = Locks!Award(t)
    BY <1>2 DEF Locks!Script
  <2>3. t.op = "fund" => Locks!Script[t] = Locks!Fund(t)
    BY <1>2 DEF Locks!Script
  <2>4. t.op = "policy" => Locks!Script[t] = Locks!Policy(t)
    BY <1>2 DEF Locks!Script
  <2>5. t.op = "reset" => Locks!Script[t] = Locks!Reset(t)
    BY <1>2 DEF Locks!Script
  <2>6. t.op = "reward" => FineAfter(T, order, t, {}, Locks!Reward(t))
    BY RewardFine
  <2>7. t.op = "award" => FineAfter(T, order, t, {}, Locks!Award(t))
    BY AwardFine
  <2>8. FineAfter(T, order, t, {}, Locks!Fund(t)) /\ FineAfter(T, order, t, {}, Locks!Policy(t))
    BY <1>1, FundFine, PolicyFine
  <2>9. t.op = "reset" => FineAfter(T, order, t, {}, Locks!Reset(t))
    BY ResetFine
  <2> QED BY <1>5, <2>1, <2>2, <2>3, <2>4, <2>5, <2>6, <2>7, <2>8, <2>9
<1> QED BY <1>3, <1>4, <1>5 DEF Locks!LocksAssumption

-----------------------------------------------------------------------------
(* Connections                                                              *)

TasksRun == {task[b] : b \in Backends}

HeldGuarded == \A b \in Backends : \A r \in Locks!Held(b) : Guarded(task[b], Locks!Held(b), r)

LEMMA GuardedMore ==
  ASSUME NEW t, NEW held, NEW more, held \subseteq more, NEW r, Guarded(t, held, r)
  PROVE  Guarded(t, more, r)
BY DEF Guarded

LEMMA TaskFine ==
  ASSUME Locks!LocksAssumption, LocksInv, NEW order, Locks!Orderly(TasksRun, order),
         NEW b \in Backends
  PROVE  /\ task[b] \in TasksRun /\ taken[b] \in Nat /\ Len(Locks!Script[task[b]]) \in Nat
         /\ taken[b] <= Len(Locks!Script[task[b]])
         /\ FineAfter(TasksRun, order, task[b], {}, Locks!Script[task[b]])
<1>1. task[b] \in TasksRun /\ TasksRun \in SUBSET Tasks
  BY DEF TasksRun, LocksInv, Locks!TypeOK
<1>2. task[b] \in Tasks
  BY <1>1
<1>3. PICK s : s = Locks!Script[task[b]]
  OBVIOUS
<1>4. Len(s) \in Nat
  <2>1. IsList(s)
    BY <1>2, <1>3, ScriptGood DEF Good
  <2> QED BY <2>1, ConcatList
<1>5. taken[b] \in Nat /\ taken[b] <= Len(s)
  BY <1>3, <1>4 DEF LocksInv, Locks!TypeOK
<1> QED BY <1>1, <1>3, <1>4, <1>5, ScriptFine

LEMMA WantedFine ==
  ASSUME Locks!LocksAssumption, LocksInv, NEW order, Locks!Orderly(TasksRun, order),
         NEW b \in Backends, Locks!Wanting(b)
  PROVE  Fine(TasksRun, order, task[b], Locks!Held(b), Locks!Wanted(b))
<1>1. PICK s, n : s = Locks!Script[task[b]] /\ n = taken[b]
  OBVIOUS
<1>2. n \in Nat /\ Len(s) \in Nat /\ n < Len(s) /\ b \notin ended
  BY <1>1, TaskFine DEF Locks!Wanting
<1>3. Locks!Held(b) = {s[m] : m \in 1 .. n} /\ Locks!Wanted(b) = s[n + 1]
  BY <1>1, <1>2 DEF Locks!Held, Locks!Wanted
<1>4. FineAfter(TasksRun, order, task[b], {}, s)
  BY <1>1, TaskFine
<1>5. n + 1 \in 1 .. Len(s) /\ (n + 1) - 1 = n
  BY <1>2
<1>6. Fine(TasksRun, order, task[b], {} \cup {s[m] : m \in 1 .. (n + 1) - 1}, s[n + 1])
  BY <1>4, <1>5 DEF FineAfter
<1> QED BY <1>3, <1>5, <1>6

LEMMA HeldAreGuarded ==
  ASSUME Locks!LocksAssumption, LocksInv, NEW order, Locks!Orderly(TasksRun, order)
  PROVE  HeldGuarded
<1> SUFFICES ASSUME NEW b \in Backends, NEW r \in Locks!Held(b)
             PROVE  Guarded(task[b], Locks!Held(b), r)
  BY DEF HeldGuarded
<1>1. PICK s, n : s = Locks!Script[task[b]] /\ n = taken[b]
  OBVIOUS
<1>2. n \in Nat /\ Len(s) \in Nat /\ n <= Len(s) /\ FineAfter(TasksRun, order, task[b], {}, s)
  BY <1>1, TaskFine
<1>3. Locks!Held(b) = {s[m] : m \in 1 .. n}
  BY <1>1 DEF Locks!Held
<1>4. PICK k \in 1 .. n : r = s[k]
  BY <1>3
<1>5. k \in 1 .. Len(s) /\ \A m \in 1 .. k - 1 : m \in 1 .. n
  BY <1>2
<1>6. Guarded(task[b], {} \cup {s[m] : m \in 1 .. k - 1}, s[k])
  BY <1>2, <1>5 DEF FineAfter, Fine
<1>7. {} \cup {s[m] : m \in 1 .. k - 1} \subseteq Locks!Held(b)
  BY <1>3, <1>5
<1> QED BY <1>4, <1>6, <1>7, GuardedMore

LEMMA ThreeOfFour ==
  ASSUME NEW n \in Nat, n < 4, NEW k \in 1 .. n, k # 1, k # 2
  PROVE  1 \in 1 .. n /\ n + 1 = 4
OBVIOUS

(* Whoever has a QR row that it made wants the programme row next, or is   *)
(* about to commit.                                                        *)
LEMMA MadeQrWants ==
  ASSUME LocksInv, NEW b \in Backends, task[b].op = "create-qr", Locks!Wanting(b),
         NEW r \in Locks!Held(b), r.lock[1] = "qr row"
  PROVE  /\ Locks!Wanted(b) = Locks!Shared(Locks!ProgramRow)
         /\ Locks!Shared(Locks!Program) \in Locks!Held(b)
<1>1. PICK s, n, t : s = Locks!Script[task[b]] /\ n = taken[b] /\ t = task[b]
  OBVIOUS
<1>2. PICK p, c, d, w :
        /\ p = Locks!Shared(Locks!Program) /\ c = Locks!Exclusive(<<"wallet-qr", t.user>>)
        /\ d = Locks!Exclusive(Locks!QrRow(t.qr)) /\ w = Locks!Shared(Locks!ProgramRow)
  OBVIOUS
<1>3. s = <<p, c, d, w>>
  <2>1. task[b] \in Tasks
    BY DEF LocksInv, Locks!TypeOK
  <2>2. s = Locks!CreateQr(t)
    BY <1>1, <2>1 DEF Locks!Script
  <2> QED BY <1>2, <2>2 DEF Locks!CreateQr
<1>4. Len(s) = 4 /\ s[1] = p /\ s[2] = c /\ s[3] = d /\ s[4] = w
  BY <1>3, Lists
<1>5. n \in Nat /\ n < 4 /\ Locks!Held(b) = {s[m] : m \in 1 .. n} /\ Locks!Wanted(b) = s[n + 1]
  BY <1>1, <1>4 DEF Locks!Held, Locks!Wanted, Locks!Wanting, LocksInv
<1>6. PICK k \in 1 .. n : r = s[k]
  BY <1>5
<1>7. p.lock[1] = "program" /\ c.lock[1] = "wallet-qr"
  BY <1>2 DEF Locks!Shared, Locks!Exclusive, Locks!Program
<1>8. k # 1 /\ k # 2
  BY <1>4, <1>6, <1>7
<1>9. 1 \in 1 .. n /\ n + 1 = 4
  BY <1>5, <1>6, <1>8, ThreeOfFour
<1> QED BY <1>2, <1>4, <1>5, <1>9

(* Nobody waits for a settled lock whose holder waits for one who waits.    *)
LEMMA NotSettled ==
  ASSUME Locks!LocksAssumption, LocksInv, NEW order, Locks!Orderly(TasksRun, order),
         NEW b \in Backends, NEW c \in Backends, NEW d \in Backends,
         Locks!WaitsFor(b, c), Locks!WaitsFor(c, d),
         Fine(TasksRun, order, task[b], Locks!Held(b), Locks!Wanted(b))
  PROVE  ~Settled(TasksRun, task[b], Locks!Held(b), Locks!Wanted(b))
<1>1. PICK w, t, u : w = Locks!Wanted(b) /\ t = task[b] /\ u = task[c]
  OBVIOUS
<1>2. /\ t \in TasksRun /\ u \in TasksRun /\ b # c /\ c # d /\ HeldGuarded
      /\ Locks!Wanting(c)
  BY <1>1, TaskFine, HeldAreGuarded DEF Locks!WaitsFor
<1>3. PICK s \in Locks!Held(c) : Locks!Conflict(s, w)
  BY <1>1 DEF Locks!WaitsFor
<1>4. s.lock = w.lock /\ (s.mode = "exclusive" \/ w.mode = "exclusive")
  BY <1>3 DEF Locks!Conflict
<1>5. Guarded(u, Locks!Held(c), s) /\ Guarded(t, Locks!Held(b), w)
  BY <1>1, <1>2, <1>3 DEF HeldGuarded, Fine
<1>6. \A x, y \in Backends : x # y =>
        \A l : Locks!Exclusive(l) \in Locks!Held(x) =>
          \A r \in Locks!Held(y) : r.lock # l
  <2> SUFFICES ASSUME NEW x \in Backends, NEW y \in Backends, x # y, NEW l,
                      Locks!Exclusive(l) \in Locks!Held(x), NEW r \in Locks!Held(y), r.lock = l
               PROVE  FALSE
    OBVIOUS
  <2>1. ~Locks!Conflict(Locks!Exclusive(l), r)
    BY DEF LocksInv, Exclusion
  <2>2. PICK e : e = Locks!Exclusive(l)
    OBVIOUS
  <2>3. e.lock = r.lock /\ e.mode = "exclusive"
    BY <2>2, LockTables
  <2>4. Locks!Conflict(e, r)
    BY <2>3 DEF Locks!Conflict
  <2> QED BY <2>1, <2>2, <2>4
<1>7. \A r \in Locks!Held(b) : ~Locks!Conflict(s, r)
  BY <1>2, <1>3 DEF LocksInv, Exclusion
<1>8. ~(w \in Locks!Held(b) \/ Locks!Exclusive(w.lock) \in Locks!Held(b))
  BY <1>2, <1>3, <1>4, <1>6, <1>7
<1>9. ~(w = Locks!Shared(Locks!Program) /\ \A r \in TasksRun : r.op # "reset")
  <2> SUFFICES ASSUME w = Locks!Shared(Locks!Program) PROVE \E r \in TasksRun : r.op = "reset"
    OBVIOUS
  <2>1. s.lock[1] = "program" /\ s.mode = "exclusive"
    BY <1>4, LockTables
  <2> QED BY <1>2, <1>5, <2>1 DEF Guarded
<1>10. ~(w = Locks!Shared(Locks!ProgramRow) /\ Locks!Shared(Locks!Program) \in Locks!Held(b))
  <2> SUFFICES ASSUME w = Locks!Shared(Locks!ProgramRow),
                      Locks!Shared(Locks!Program) \in Locks!Held(b)
               PROVE  FALSE
    OBVIOUS
  <2>1. s.lock[1] = "program row" /\ s.mode = "exclusive"
    BY <1>4, LockTables
  <2>2. Locks!Exclusive(Locks!Program) \in Locks!Held(c)
    BY <1>5, <2>1 DEF Guarded
  <2>3. Locks!Shared(Locks!Program).lock # Locks!Program
    BY <1>2, <1>6, <2>2
  <2> QED BY <2>3, LockTables
<1>11. ~(w.mode = "shared" /\ w.lock[1] = "event row" /\ \A r \in TasksRun : r.op # "reward")
  <2> SUFFICES ASSUME w.mode = "shared", w.lock[1] = "event row"
               PROVE  \E r \in TasksRun : r.op = "reward"
    OBVIOUS
  <2>1. s.lock[1] = "event row" /\ s.mode = "exclusive"
    BY <1>4
  <2> QED BY <1>2, <1>5, <2>1 DEF Guarded
<1>12. ~(/\ w.lock[1] = "qr row" /\ t.op # "pickup"
         /\ Locks!Shared(Locks!Program) \in Locks!Held(b)
         /\ Locks!Exclusive(Locks!QrLock(w.lock[2])) \in Locks!Held(b))
  <2> SUFFICES ASSUME w.lock[1] = "qr row", t.op # "pickup",
                      Locks!Shared(Locks!Program) \in Locks!Held(b),
                      Locks!Exclusive(Locks!QrLock(w.lock[2])) \in Locks!Held(b)
               PROVE  FALSE
    OBVIOUS
  <2>1. /\ w.lock[2] = t.qr /\ t.op \in {"create-qr", "propose", "confirm", "withdraw", "reset"}
    BY <1>5 DEF Guarded
  <2>2. s.lock[1] = "qr row" /\ s.lock[2] = t.qr
    BY <1>4, <2>1
  <2>3. u.qr = t.qr /\ u.op # "pickup"
    <3>1. u.qr = t.qr
      BY <1>5, <2>2 DEF Guarded
    <3> QED BY <1>2, <2>1, <3>1 DEF Locks!Orderly
  <2>4. CASE Locks!Exclusive(Locks!Program) \in Locks!Held(c)
    <3>1. Locks!Shared(Locks!Program).lock # Locks!Program
      BY <1>2, <1>6, <2>4
    <3> QED BY <3>1, LockTables
  <2>5. CASE Locks!Exclusive(Locks!QrLock(u.qr)) \in Locks!Held(c)
    <3>1. PICK l : l = Locks!QrLock(t.qr)
      OBVIOUS
    <3>2. Locks!Exclusive(l) \in Locks!Held(b) /\ Locks!Exclusive(l) \in Locks!Held(c)
      BY <2>1, <2>3, <2>5, <3>1
    <3>3. Locks!Exclusive(l).lock # l
      BY <1>2, <1>6, <3>2
    <3> QED BY <3>3, LockTables
  <2>6. CASE u.op = "create-qr"
    <3>1. /\ Locks!Wanted(c) = Locks!Shared(Locks!ProgramRow)
          /\ Locks!Shared(Locks!Program) \in Locks!Held(c)
      BY <1>1, <1>2, <2>2, <2>6, MadeQrWants
    <3>2. PICK x \in Locks!Held(d) : Locks!Conflict(x, Locks!Wanted(c))
      BY DEF Locks!WaitsFor
    <3>3. x.lock[1] = "program row" /\ x.mode = "exclusive"
      BY <3>1, <3>2, LockTables DEF Locks!Conflict
    <3>4. Locks!Exclusive(Locks!Program) \in Locks!Held(d)
      BY <1>2, <3>3 DEF HeldGuarded, Guarded
    <3>5. Locks!Shared(Locks!Program).lock # Locks!Program
      BY <1>2, <1>6, <3>1, <3>4
    <3> QED BY <3>5, LockTables
  <2> QED BY <1>5, <2>2, <2>3, <2>4, <2>5, <2>6 DEF Guarded
<1>13. ~(/\ w.lock[1] \in {"account row", "intent row", "qr row"} /\ t.op = "reset"
         /\ Locks!Exclusive(Locks!Program) \in Locks!Held(b)
         /\ Locks!Exclusive(Locks!ProgramRow) \in Locks!Held(b))
  <2> SUFFICES ASSUME w.lock[1] \in {"account row", "intent row", "qr row"}, t.op = "reset",
                      Locks!Exclusive(Locks!Program) \in Locks!Held(b),
                      Locks!Exclusive(Locks!ProgramRow) \in Locks!Held(b)
               PROVE  FALSE
    OBVIOUS
  <2>1. \A g \in Locks!Held(c) : g.lock # Locks!Program /\ g.lock # Locks!ProgramRow
    BY <1>2, <1>6
  <2>2. \A g \in Locks!Held(c) : g \notin Gates
    BY <2>1, LockTables DEF Gates
  <2>3. w.lock[1] = "qr row" /\ s.lock[1] = "qr row"
    BY <1>4, <1>5, <2>2 DEF Guarded
  <2>4. w.lock[2] = t.qr /\ s.lock[2] = u.qr /\ u.op = "pickup"
    BY <1>5, <2>2, <2>3 DEF Guarded, Gates
  <2> QED BY <1>2, <1>4, <2>4 DEF Locks!Orderly
<1> QED BY <1>1, <1>8, <1>9, <1>10, <1>11, <1>12, <1>13 DEF Settled

LEMMA Highest ==
  ASSUME NEW N \in Nat, NEW S \in SUBSET (0 .. N), S # {}
  PROVE  \E n \in S : \A m \in S : m <= n
<1> DEFINE Above(n) == {k \in 0 .. N : k > n}
           B == {Above(n) : n \in S}
<1>1. IsFiniteSet(0 .. N)
  BY FS_Interval
<1>2. \A n \in S : Above(n) \in FiniteSubsetsOf(0 .. N)
  BY <1>1, FS_Subset DEF FiniteSubsetsOf
<1>3. B \subseteq FiniteSubsetsOf(0 .. N) /\ B # {}
  BY <1>2
<1> HIDE DEF B
<1>4. PICK s \in B : \A r \in B : ~(<<r, s>> \in StrictSubsetOrdering(0 .. N))
  BY <1>1, <1>3, FS_StrictSubsetOrderingWellFounded, WFMin
<1>5. PICK n \in S : s = Above(n)
  BY DEF B
<1>6. ASSUME NEW m \in S, m > n PROVE FALSE
  <2>1. Above(m) \subseteq Above(n) /\ m \in Above(n) /\ m \notin Above(m)
    BY <1>6
  <2>2. Above(m) \in B
    BY DEF B
  <2> HIDE DEF Above
  <2>3. Above(m) \in SUBSET (0 .. N) /\ Above(n) \in SUBSET (0 .. N)
    BY <1>2, <1>3 DEF FiniteSubsetsOf
  <2>4. <<Above(m), Above(n)>> \in StrictSubsetOrdering(0 .. N)
    BY <2>1, <2>3 DEF StrictSubsetOrdering
  <2> QED BY <1>4, <1>5, <2>2, <2>4
<1> QED BY <1>6

(* Along a wait, what is wanted climbs.                                    *)
LEMMA WaitsClimb ==
  ASSUME Locks!LocksAssumption, LocksInv, NEW order, Locks!Orderly(TasksRun, order),
         NEW b \in Backends, NEW c \in Backends, NEW d \in Backends, NEW e \in Backends,
         Locks!WaitsFor(b, c), Locks!WaitsFor(c, d), Locks!WaitsFor(d, e)
  PROVE  Rank(order, Locks!Wanted(b)) < Rank(order, Locks!Wanted(c))
<1>1. PICK w, v : w = Locks!Wanted(b) /\ v = Locks!Wanted(c)
  OBVIOUS
<1>2. Locks!Wanting(b) /\ Locks!Wanting(c)
  BY DEF Locks!WaitsFor
<1>3. /\ Fine(TasksRun, order, task[b], Locks!Held(b), w)
      /\ Fine(TasksRun, order, task[c], Locks!Held(c), v)
  BY <1>1, <1>2, WantedFine
<1>4. ~Settled(TasksRun, task[c], Locks!Held(c), v)
  BY <1>1, <1>3, NotSettled
<1>5. Below(order, Locks!Held(c), Rank(order, v))
  BY <1>3, <1>4 DEF Fine, Climbs
<1>6. Len(order) \in Nat /\ Len(IdOrder) \in Nat
  BY OrderlyIsOrder, OrderedLengths DEF Ordered
<1>7. /\ Rank(order, w) \in Nat /\ Rank(order, v) \in Nat
      /\ w.mode \in {"shared", "exclusive"}
  BY <1>3, <1>6 DEF Fine, Enough
<1>8. PICK r \in Locks!Held(c) : Locks!Conflict(r, w)
  BY <1>1 DEF Locks!WaitsFor
<1>9. r.mode \in {"shared", "exclusive"}
  <2>1. PICK s, n : s = Locks!Script[task[c]] /\ n = taken[c]
    OBVIOUS
  <2>2. /\ n \in Nat /\ Len(s) \in Nat /\ n <= Len(s)
        /\ FineAfter(TasksRun, order, task[c], {}, s)
    BY <2>1, TaskFine
  <2>3. PICK k \in 1 .. n : r = s[k]
    BY <2>1 DEF Locks!Held
  <2>4. k \in 1 .. Len(s)
    BY <2>2
  <2> QED BY <2>2, <2>3, <2>4 DEF FineAfter, Fine
<1>10. RankBehind(order, r) \in 0 .. Rank(order, v) - 1
  BY <1>5, <1>8 DEF Below
<1>11. Rank(order, w) <= RankBehind(order, r)
  <2>1. RankBehind(order, r) \in Nat
    BY <1>7, <1>10
  <2> QED BY <1>7, <1>8, <1>9, <2>1, ConflictRanks
<1> QED BY <1>1, <1>7, <1>10, <1>11

LEMMA OrderlyNoCircle ==
  ASSUME Locks!LocksAssumption, LocksInv, NEW order, Locks!Orderly(TasksRun, order)
  PROVE  Locks!NoWaitCycle
<1> SUFFICES ASSUME NEW waiters \in SUBSET Backends, waiters # {},
                    \A b \in waiters : \E c \in waiters : Locks!WaitsFor(b, c)
             PROVE  FALSE
  BY Zenon DEF Locks!NoWaitCycle
<1> DEFINE Wants(b) == Rank(order, Locks!Wanted(b))
<1>1. ASSUME NEW b \in waiters PROVE Wants(b) \in 0 .. Enough(order)
  <2>1. b \in Backends /\ Locks!Wanting(b)
    BY DEF Locks!WaitsFor
  <2> QED BY <2>1, WantedFine DEF Fine
<1>2. Enough(order) \in Nat
  BY OrderlyIsOrder, OrderedLengths DEF Ordered, Enough
<1>3. ASSUME NEW b \in waiters PROVE \E c \in waiters : Wants(b) < Wants(c)
  <2>1. PICK c \in waiters : Locks!WaitsFor(b, c)
    OBVIOUS
  <2>2. PICK d \in waiters : Locks!WaitsFor(c, d)
    OBVIOUS
  <2>3. PICK e \in waiters : Locks!WaitsFor(d, e)
    OBVIOUS
  <2> QED BY <2>1, <2>2, <2>3, WaitsClimb
<1> HIDE DEF Wants
<1>4. PICK S : S = {Wants(b) : b \in waiters}
  OBVIOUS
<1>5. S \in SUBSET (0 .. Enough(order)) /\ S # {}
  BY <1>1, <1>4
<1>6. PICK n \in S : \A m \in S : m <= n
  BY <1>2, <1>5, Highest
<1>7. PICK b \in waiters : n = Wants(b)
  BY <1>4
<1>8. PICK c \in waiters : Wants(b) < Wants(c)
  BY <1>3
<1>9. Wants(c) <= Wants(b)
  BY <1>4, <1>6, <1>7
<1> QED BY <1>1, <1>8, <1>9

(* docs/wallet.md, awardOnce: accounts are locked in a stable order, the   *)
(* programme first.  However many connections, users and events there are, *)
(* no transactions wait for one another in a circle, if no reset meets the *)
(* reward of an artifact, no transfer with an event meets one, and         *)
(* transfers go one way (Orderly).                                         *)
THEOREM NobodyWaitsInACircle ==
  ASSUME Locks!LocksAssumption, NEW CONSTANT order
  PROVE  Locks!Orderly(TasksRun, order) /\ Locks!Spec => []NoWaitCycle
<1> DEFINE Calm == LocksInv /\ Locks!Orderly(TasksRun, order)
<1>1. Locks!Orderly(TasksRun, order) /\ Locks!Init => Calm
  BY LocksInit
<1>2. Calm /\ [Locks!Next]_Locks!vars => Calm'
  <2> SUFFICES ASSUME Calm, [Locks!Next]_Locks!vars PROVE Calm'
    OBVIOUS
  <2>1. LocksInv'
    BY LocksNext
  <2>2. task' = task
    BY DEF Locks!Next, Locks!vars, Locks!Take, Locks!Commit, Locks!Rollback
  <2>3. TasksRun' = TasksRun
    BY <2>2 DEF TasksRun
  <2> QED BY <2>1, <2>3 DEF Locks!Orderly
<1>3. Calm => NoWaitCycle
  BY OrderlyNoCircle DEF NoWaitCycle
<1> QED BY <1>1, <1>2, <1>3, PTL DEF Locks!Spec

-----------------------------------------------------------------------------
(* Profiles: who is who *)

(* The wallet of a retired profile is frozen, or the account leads there.  *)
Follows(a, u) ==
  /\ u \in People /\ user[u].status # "none"
  /\ user[u].wallet = "active" => identity[a] = u

TelegramsFollow ==
  /\ \A a \in Telegrams : identity[a] # Nobody => user[identity[a]].telegram = a
  /\ \A u, v \in People : user[u].telegram = user[v].telegram /\ user[u].telegram # Nobody => u = v
  /\ \A u \in People : user[u].telegram # Nobody => user[u].status # "none"

IdentitiesExist ==
  \A a \in SignIns!Accounts : identity[a] # Nobody => user[identity[a]].status # "none"

(* What a request read stays true enough until it is used.                 *)
RequestFollows(r) ==
  /\ r # SignIns!Idle => r.account \in SignIns!Accounts
  /\ r.step = "new" => r.account \in Maxes
  /\ r.step = "resolved" =>
       IF r.account \in Telegrams
       THEN r.user \in People /\ user[r.user].status # "none" /\ user[r.user].telegram = r.account
       ELSE Follows(r.account, r.user)
  /\ r.step \in {"identified", "admitted", "read", "linked"} => Follows(r.account, r.user)
  /\ r.work = "contact" => r.account \in Maxes
  /\ r.step = "read" /\ r.candidate # Nobody =>
       /\ r.candidate \in People \ {r.user}
       /\ user[r.candidate].status # "none"
       /\ user[r.candidate].telegram # Nobody

(* What is kept of the profiles and of where accounts lead.                *)
ProfilesInv ==
  /\ user \in [People -> SignIns!User]
  /\ identity \in [SignIns!Accounts -> SignIns!Identity]
  /\ TelegramsFollow /\ IdentitiesExist
  /\ SignIns!ActiveWalletsHaveAWayIn

SignInInv ==
  /\ ProfilesInv
  /\ session \subseteq SignIns!Session
  /\ request \in [Handlers -> SignIns!Request]
  /\ \A h \in Handlers : RequestFollows(request[h])
  /\ \A s \in session : Follows(s.account, s.user)

(* A profile keeps its Telegram account, a frozen wallet stays frozen, and *)
(* an account moves away only from a profile whose wallet is frozen by it. *)
ProfilesGrow ==
  /\ \A u \in People : user[u].status # "none" =>
       /\ user'[u].status # "none" /\ user'[u].telegram = user[u].telegram
       /\ user'[u].wallet = "active" => user[u].wallet = "active"
  /\ \A a \in SignIns!Accounts : identity[a] # Nobody =>
       identity'[a] = identity[a] \/ user'[identity[a]].wallet # "active"

ProfilesStep == ProfilesInv' /\ ProfilesGrow

-----------------------------------------------------------------------------

LEMMA SignInsInit == SignIns!ProfilesAssumption /\ SignIns!Init => SignInInv
<1> SUFFICES ASSUME SignIns!ProfilesAssumption, SignIns!Init PROVE SignInInv
  OBVIOUS
<1>1. SignIns!NoUser \in SignIns!User /\ SignIns!Idle \in SignIns!Request
  BY DEF SignIns!NoUser, SignIns!User, SignIns!Idle, SignIns!Request, SignIns!Works
<1>2. ProfilesInv
  BY <1>1 DEF SignIns!Init, ProfilesInv, SignIns!Identity, TelegramsFollow, IdentitiesExist,
     SignIns!Accounts, SignIns!NoUser, SignIns!ActiveWalletsHaveAWayIn
<1>3. RequestFollows(SignIns!Idle)
  BY DEF RequestFollows, SignIns!Idle
<1> QED BY <1>1, <1>2, <1>3 DEF SignIns!Init, SignInInv

LEMMA FollowsStays ==
  ASSUME SignIns!ProfilesAssumption, ProfilesInv, ProfilesGrow,
         NEW a \in SignIns!Accounts, NEW u, Follows(a, u)
  PROVE  Follows(a, u)'
BY DEF SignIns!ProfilesAssumption, ProfilesGrow, Follows

LEMMA RequestStays ==
  ASSUME SignIns!ProfilesAssumption, ProfilesInv, ProfilesGrow,
         NEW r \in SignIns!Request, RequestFollows(r)
  PROVE  RequestFollows(r)'
<1>1. CASE r.account \in SignIns!Accounts
  BY <1>1, FollowsStays DEF RequestFollows, ProfilesGrow
<1>2. CASE r = SignIns!Idle
  BY <1>2 DEF RequestFollows, SignIns!Idle
<1> QED BY <1>1, <1>2 DEF RequestFollows

(* What remains to be shown of a step of one request.                      *)
LEMMA RequestStep ==
  ASSUME SignIns!ProfilesAssumption, SignInInv, ProfilesStep, NEW h \in Handlers,
         NEW r \in SignIns!Request, RequestFollows(r)',
         request' = [request EXCEPT ![h] = r], session' \subseteq SignIns!Session,
         \A s \in session' \ session : Follows(s.account, s.user)'
  PROVE  SignInInv'
<1>1. \A g \in Handlers : RequestFollows(request[g])'
  <2> SUFFICES ASSUME NEW g \in Handlers PROVE RequestFollows(request[g])'
    OBVIOUS
  <2>1. CASE g = h
    <3>1. request'[g] = r
      BY <2>1 DEF SignInInv
    <3> QED BY <3>1 DEF RequestFollows, Follows
  <2>2. CASE g # h
    <3>1. PICK q \in SignIns!Request : q = request[g]
      BY DEF SignInInv
    <3>2. RequestFollows(q)'
      BY <3>1, RequestStays DEF SignInInv, ProfilesStep
    <3>3. request'[g] = q
      BY <2>2, <3>1 DEF SignInInv
    <3> QED BY <3>2, <3>3 DEF RequestFollows, Follows
  <2> QED BY <2>1, <2>2
<1>2. \A s \in session' : Follows(s.account, s.user)'
  <2> SUFFICES ASSUME NEW s \in session, s \in session' PROVE Follows(s.account, s.user)'
    OBVIOUS
  <2> QED BY FollowsStays DEF SignInInv, ProfilesStep, SignIns!Session
<1> QED BY <1>1, <1>2 DEF SignInInv, ProfilesStep

(* A request that is over, one way or another.                             *)
LEMMA IdleStep ==
  ASSUME SignIns!ProfilesAssumption, SignInInv, ProfilesStep, NEW h \in Handlers,
         request' = [request EXCEPT ![h] = SignIns!Idle], session' \subseteq SignIns!Session,
         \A s \in session' \ session : Follows(s.account, s.user)'
  PROVE  SignInInv'
<1>1. PICK r : r = SignIns!Idle
  OBVIOUS
<1>2. r \in SignIns!Request
  BY <1>1 DEF SignIns!Idle, SignIns!Request, SignIns!Works
<1>3. RequestFollows(r)'
  BY <1>1 DEF RequestFollows, SignIns!Idle
<1> QED BY <1>1, <1>2, <1>3, RequestStep DEF SignInInv

(* Requests and sessions are as they were, or fewer.                       *)
LEMMA OthersStay ==
  ASSUME SignIns!ProfilesAssumption, SignInInv, ProfilesStep,
         request' = request, session' \subseteq session
  PROVE  SignInInv'
<1>1. ASSUME NEW h \in Handlers PROVE RequestFollows(request[h])'
  <2>1. PICK q \in SignIns!Request : q = request[h]
    BY DEF SignInInv
  <2>2. RequestFollows(q)'
    BY <2>1, RequestStays DEF SignInInv, ProfilesStep
  <2> QED BY <2>1, <2>2 DEF RequestFollows, Follows
<1>2. ASSUME NEW s \in session' PROVE Follows(s.account, s.user)'
  BY FollowsStays DEF SignInInv, ProfilesStep, SignIns!Session
<1> QED BY <1>1, <1>2 DEF SignInInv, ProfilesStep
-----------------------------------------------------------------------------
(* The steps of profiles and accounts                                      *)

LEMMA SameProfiles ==
  ASSUME SignIns!ProfilesAssumption, ProfilesInv, UNCHANGED <<user, identity>>
  PROVE  ProfilesStep
BY DEF ProfilesStep, ProfilesInv, ProfilesGrow, TelegramsFollow, IdentitiesExist,
   SignIns!ActiveWalletsHaveAWayIn

(* A number, a name, being blocked.                                        *)
LEMMA ProfileChange ==
  ASSUME SignIns!ProfilesAssumption, ProfilesInv, NEW u \in People,
         NEW p \in SignIns!User, p.telegram = user[u].telegram, p.wallet = user[u].wallet,
         (p.status = "none") = (user[u].status = "none"),
         user' = [user EXCEPT ![u] = p], identity' = identity
  PROVE  ProfilesStep
<1>1. \A v \in People : /\ user'[v] \in SignIns!User
                        /\ user'[v].telegram = user[v].telegram
                        /\ user'[v].wallet = user[v].wallet
                        /\ (user'[v].status = "none") = (user[v].status = "none")
  BY DEF ProfilesInv
<1>2. user' \in [People -> SignIns!User]
  BY DEF ProfilesInv
<1>3. \A a \in SignIns!Accounts : identity[a] # Nobody => identity[a] \in People
  BY DEF ProfilesInv, SignIns!Identity
<1>4. TelegramsFollow'
  BY <1>1, <1>3 DEF ProfilesInv, TelegramsFollow, SignIns!Accounts
<1>5. IdentitiesExist'
  BY <1>1, <1>3 DEF ProfilesInv, IdentitiesExist
<1>6. SignIns!ActiveWalletsHaveAWayIn'
  BY <1>1 DEF ProfilesInv, SignIns!ActiveWalletsHaveAWayIn
<1>7. ProfilesGrow
  BY <1>1 DEF ProfilesGrow
<1> QED BY <1>2, <1>4, <1>5, <1>6, <1>7 DEF ProfilesInv, ProfilesStep

LEMMA NewProfile ==
  ASSUME SignIns!ProfilesAssumption, ProfilesInv, NEW u \in People, user[u] = SignIns!NoUser,
         NEW telegram \in Telegrams \cup {Nobody},
         telegram # Nobody => \A v \in People : user[v].telegram # telegram,
         user' = [user EXCEPT ![u] = SignIns!NewUser(telegram)],
         \/ telegram # Nobody /\ identity' = identity
         \/ \E a \in Maxes : identity[a] = Nobody /\ identity' = [identity EXCEPT ![a] = u]
  PROVE  ProfilesStep
<1>1. /\ user' \in [People -> SignIns!User] /\ user'[u].status = "active"
      /\ user'[u].telegram = telegram
      /\ \A v \in People \ {u} : user'[v] = user[v]
  BY DEF ProfilesInv, SignIns!User, SignIns!NewUser
<1>2. user[u].status = "none"
  BY DEF SignIns!NoUser
<1>3. \A a \in SignIns!Accounts : identity[a] # Nobody => identity[a] \in People \ {u}
  BY <1>2 DEF ProfilesInv, SignIns!Identity, IdentitiesExist
<1>4. /\ identity' \in [SignIns!Accounts -> SignIns!Identity]
      /\ \A a \in SignIns!Accounts : \/ identity'[a] = identity[a]
                                     \/ a \in Maxes /\ identity[a] = Nobody /\ identity'[a] = u
  BY DEF ProfilesInv, SignIns!Accounts, SignIns!Identity
<1>5. TelegramsFollow'
  <2>1. \A a \in Telegrams : identity'[a] = identity[a]
    BY <1>4 DEF SignIns!ProfilesAssumption, SignIns!Accounts
  <2>2. \A a \in Telegrams : identity'[a] # Nobody => user'[identity'[a]].telegram = a
    BY <2>1, <1>1, <1>3 DEF ProfilesInv, TelegramsFollow, SignIns!Accounts
  <2>3. \A v, w \in People : user'[v].telegram = user'[w].telegram /\ user'[v].telegram # Nobody
                             => v = w
    BY <1>1 DEF ProfilesInv, TelegramsFollow
  <2>4. \A v \in People : user'[v].telegram # Nobody => user'[v].status # "none"
    BY <1>1 DEF ProfilesInv, TelegramsFollow
  <2> QED BY <2>2, <2>3, <2>4 DEF TelegramsFollow
<1>6. IdentitiesExist'
  BY <1>1, <1>3, <1>4 DEF ProfilesInv, IdentitiesExist
<1>7. SignIns!ActiveWalletsHaveAWayIn'
  <2>1. ASSUME NEW v \in People, user'[v].wallet = "active"
        PROVE  user'[v].telegram # Nobody \/ \E a \in SignIns!Accounts : identity'[a] = v
    <3>1. CASE v = u
      BY <3>1, <1>1, <1>4 DEF SignIns!Accounts, ProfilesInv
    <3>2. CASE v # u
      <4>1. user[v].telegram # Nobody \/ \E a \in SignIns!Accounts : identity[a] = v
        BY <3>2, <2>1, <1>1 DEF ProfilesInv, SignIns!ActiveWalletsHaveAWayIn
      <4> QED BY <4>1, <3>2, <1>1, <1>4 DEF SignIns!ProfilesAssumption
    <3> QED BY <3>1, <3>2
  <2> QED BY <2>1 DEF SignIns!ActiveWalletsHaveAWayIn
<1>8. ProfilesGrow
  BY <1>1, <1>2, <1>4 DEF ProfilesGrow
<1> QED BY <1>1, <1>4, <1>5, <1>6, <1>7, <1>8 DEF ProfilesInv, ProfilesStep

(* The first to record an account decides where it leads.                  *)
LEMMA AccountRecorded ==
  ASSUME SignIns!ProfilesAssumption, ProfilesInv, NEW a \in SignIns!Accounts,
         NEW u \in People, user[u].status # "none",
         a \in Telegrams => user[u].telegram = a,
         identity' = [identity EXCEPT ![a] = IF @ = Nobody THEN u ELSE @], user' = user
  PROVE  ProfilesStep
<1>1. /\ identity' \in [SignIns!Accounts -> SignIns!Identity]
      /\ \A b \in SignIns!Accounts : \/ identity'[b] = identity[b]
                                     \/ b = a /\ identity[a] = Nobody /\ identity'[a] = u
  BY DEF ProfilesInv, SignIns!Identity
<1>2. TelegramsFollow'
  BY <1>1 DEF ProfilesInv, TelegramsFollow, SignIns!Accounts
<1>3. IdentitiesExist'
  BY <1>1 DEF ProfilesInv, IdentitiesExist
<1>4. SignIns!ActiveWalletsHaveAWayIn'
  BY <1>1 DEF ProfilesInv, SignIns!ActiveWalletsHaveAWayIn, SignIns!ProfilesAssumption
<1>5. ProfilesGrow
  BY <1>1 DEF ProfilesGrow
<1> QED BY <1>1, <1>2, <1>3, <1>4, <1>5 DEF ProfilesInv, ProfilesStep

(* The account of a profile that retires moves to one of Telegram.         *)
LEMMA AccountMoves ==
  ASSUME SignIns!ProfilesAssumption, ProfilesInv, NEW a \in Maxes,
         NEW own \in People, NEW candidate \in People \ {own}, NEW phone \in Phones \cup {Nobody},
         identity[a] = own, user[candidate].status # "none", user[candidate].telegram # Nobody,
         identity' = [identity EXCEPT ![a] = candidate],
         user' = [user EXCEPT ![candidate].phone = phone, ![own] = SignIns!Retired(@)]
  PROVE  ProfilesStep
<1>1. user[own] \in SignIns!User /\ user[candidate] \in SignIns!User
  BY DEF ProfilesInv
<1>2. /\ user' \in [People -> SignIns!User]
      /\ user'[own].status = "blocked" /\ user'[own].wallet # "active"
      /\ user'[own].telegram = user[own].telegram
      /\ user'[candidate].status = user[candidate].status
      /\ user'[candidate].wallet = user[candidate].wallet
      /\ user'[candidate].telegram = user[candidate].telegram
      /\ \A v \in People \ {own, candidate} : user'[v] = user[v]
  BY <1>1 DEF ProfilesInv, SignIns!User, SignIns!Retired
<1>3. /\ identity' \in [SignIns!Accounts -> SignIns!Identity]
      /\ a \in SignIns!Accounts /\ identity'[a] = candidate
      /\ \A b \in SignIns!Accounts \ {a} : identity'[b] = identity[b]
  BY DEF ProfilesInv, SignIns!Accounts, SignIns!Identity
<1>4. \A b \in SignIns!Accounts : identity[b] # Nobody => identity[b] \in People
  BY DEF ProfilesInv, SignIns!Identity
<1>5. \A v \in People : user'[v].telegram = user[v].telegram
  BY <1>2
<1>6. TelegramsFollow'
  <2>1. \A b \in Telegrams : b # a /\ b \in SignIns!Accounts
    BY DEF SignIns!ProfilesAssumption, SignIns!Accounts
  <2>2. \A v \in People : user'[v].telegram # Nobody => user'[v].status # "none"
    BY <1>2, <1>5 DEF ProfilesInv, TelegramsFollow
  <2> QED BY <2>1, <2>2, <1>3, <1>4, <1>5 DEF ProfilesInv, TelegramsFollow
<1>7. IdentitiesExist'
  BY <1>2, <1>3, <1>4 DEF ProfilesInv, IdentitiesExist
<1>8. SignIns!ActiveWalletsHaveAWayIn'
  <2>1. \A v \in People : user'[v].wallet = "active" => v # own /\ user[v].wallet = "active"
    BY <1>2
  <2> QED BY <2>1, <1>3, <1>5 DEF ProfilesInv, SignIns!ActiveWalletsHaveAWayIn
<1>9. ProfilesGrow
  BY <1>2, <1>3 DEF ProfilesGrow
<1> QED BY <1>2, <1>3, <1>6, <1>7, <1>8, <1>9 DEF ProfilesInv, ProfilesStep

-----------------------------------------------------------------------------
(* The steps of requests                                                   *)

LEMMA ResolvedType ==
  ASSUME NEW work \in {"enter", "write"}, NEW a \in SignIns!Accounts, NEW u \in People \cup {Nobody}
  PROVE  /\ SignIns!Resolved(work, a, u) \in SignIns!Request
         /\ [SignIns!Resolved(work, a, u) EXCEPT !.step = "new"] \in SignIns!Request
         /\ SignIns!Resolved(work, a, u).step = "resolved"
         /\ SignIns!Resolved(work, a, u).account = a
         /\ SignIns!Resolved(work, a, u).user = u
         /\ SignIns!Resolved(work, a, u).work # "contact"
BY DEF SignIns!Resolved, SignIns!Idle, SignIns!Request, SignIns!Works

(* Whom a Telegram account was found to be, and whom one of MAX.           *)
LEMMA ResolvedTelegram ==
  ASSUME SignIns!ProfilesAssumption, SignInInv, ProfilesStep, NEW h \in Handlers,
         NEW work \in {"enter", "write"}, NEW a \in Telegrams, NEW u \in People,
         user'[u].status # "none", user'[u].telegram = a,
         request' = [request EXCEPT ![h] = SignIns!Resolved(work, a, u)], session' = session
  PROVE  SignInInv'
<1>1. PICK r : r = SignIns!Resolved(work, a, u)
  OBVIOUS
<1>2. /\ r \in SignIns!Request /\ r.step = "resolved" /\ r.account = a /\ r.user = u
      /\ r.work # "contact" /\ a \in SignIns!Accounts
  <2>1. a \in SignIns!Accounts
    BY DEF SignIns!Accounts
  <2> QED BY <2>1, <1>1 DEF SignIns!Resolved, SignIns!Idle, SignIns!Request, SignIns!Works
<1>3. RequestFollows(r)'
  BY <1>2 DEF RequestFollows
<1> QED BY <1>1, <1>2, <1>3, RequestStep DEF SignInInv

LEMMA ResolvedMax ==
  ASSUME SignIns!ProfilesAssumption, SignInInv, ProfilesStep, NEW h \in Handlers,
         NEW work \in {"enter", "write"}, NEW a \in Maxes, NEW u \in People,
         Follows(a, u)',
         request' = [request EXCEPT ![h] = SignIns!Resolved(work, a, u)], session' = session
  PROVE  SignInInv'
<1>1. PICK r : r = SignIns!Resolved(work, a, u)
  OBVIOUS
<1>2. /\ r \in SignIns!Request /\ r.step = "resolved" /\ r.account = a /\ r.user = u
      /\ r.work # "contact" /\ a \in SignIns!Accounts /\ a \notin Telegrams
  <2>1. a \in SignIns!Accounts /\ a \notin Telegrams
    BY DEF SignIns!Accounts, SignIns!ProfilesAssumption
  <2> QED BY <2>1, <1>1 DEF SignIns!Resolved, SignIns!Idle, SignIns!Request, SignIns!Works
<1>3. RequestFollows(r)'
  BY <1>2 DEF RequestFollows, Follows
<1> QED BY <1>1, <1>2, <1>3, RequestStep DEF SignInInv

LEMMA UpsertTelegramUserStep ==
  ASSUME SignIns!ProfilesAssumption, SignInInv, NEW h \in Handlers,
         NEW work \in {"enter", "write"}, NEW a \in Telegrams,
         SignIns!UpsertTelegramUser(h, work, a)
  PROVE  SignInInv'
<1>1. PICK u \in People :
        /\ request' = [request EXCEPT ![h] = SignIns!Resolved(work, a, u)]
        /\ \/ user[u].telegram = a /\ UNCHANGED user
           \/ /\ \A v \in People : user[v].telegram # a
              /\ user[u] = SignIns!NoUser
              /\ user' = [user EXCEPT ![u] = SignIns!NewUser(a)]
  BY DEF SignIns!UpsertTelegramUser, SignIns!Go
<1>2. UNCHANGED <<identity, session>>
  BY DEF SignIns!UpsertTelegramUser
<1>3. ProfilesInv
  BY DEF SignInInv
<1>4. CASE user[u].telegram = a /\ UNCHANGED user
  <2>1. ProfilesStep
    BY <1>2, <1>3, <1>4, SameProfiles
  <2>2. user[u].status # "none"
    BY <1>3, <1>4 DEF ProfilesInv, TelegramsFollow, SignIns!ProfilesAssumption
  <2> QED BY <1>1, <1>2, <1>4, <2>1, <2>2, ResolvedTelegram
<1>5. CASE /\ \A v \in People : user[v].telegram # a
           /\ user[u] = SignIns!NoUser
           /\ user' = [user EXCEPT ![u] = SignIns!NewUser(a)]
  <2>1. ProfilesStep
    <3>1. a \in Telegrams \cup {Nobody} /\ a # Nobody
      BY DEF SignIns!ProfilesAssumption
    <3> QED BY <3>1, <1>2, <1>3, <1>5, NewProfile
  <2>2. user'[u].status # "none" /\ user'[u].telegram = a
    BY <1>3, <1>5 DEF ProfilesInv, SignIns!NewUser
  <2> QED BY <1>1, <1>2, <2>1, <2>2, ResolvedTelegram
<1> QED BY <1>1, <1>4, <1>5

LEMMA FindMaxUserStep ==
  ASSUME SignIns!ProfilesAssumption, SignInInv, NEW h \in Handlers,
         NEW work \in {"enter", "write"}, NEW a \in Maxes,
         SignIns!FindMaxUser(h, work, a)
  PROVE  SignInInv'
<1>1. UNCHANGED <<user, identity, session>>
  BY DEF SignIns!FindMaxUser
<1>2. ProfilesStep
  BY <1>1, SameProfiles DEF SignInInv
<1>3. a \in SignIns!Accounts
  BY DEF SignIns!Accounts
<1>4. CASE identity[a] = Nobody
  <2>1. PICK r : r = [SignIns!Resolved(work, a, Nobody) EXCEPT !.step = "new"]
    OBVIOUS
  <2>2. /\ r \in SignIns!Request /\ r.step = "new" /\ r.account = a /\ r.work # "contact"
    BY <2>1, <1>3, ResolvedType DEF SignIns!Resolved, SignIns!Idle
  <2>3. RequestFollows(r)'
    BY <1>3, <2>2 DEF RequestFollows
  <2>4. request' = [request EXCEPT ![h] = r]
    BY <2>1, <1>4 DEF SignIns!FindMaxUser, SignIns!Go
  <2> QED BY <1>1, <1>2, <2>2, <2>3, <2>4, RequestStep DEF SignInInv
<1>5. CASE identity[a] # Nobody
  <2>1. /\ identity[a] \in People /\ user[identity[a]].status # "none"
    BY <1>3, <1>5 DEF SignInInv, ProfilesInv, SignIns!Identity, IdentitiesExist
  <2>2. PICK u \in People : u = identity[a]
    BY <2>1
  <2>3. Follows(a, u)'
    BY <2>1, <2>2, <1>1 DEF Follows
  <2>4. request' = [request EXCEPT ![h] = SignIns!Resolved(work, a, u)]
    BY <2>2, <1>5 DEF SignIns!FindMaxUser, SignIns!Go
  <2> QED BY <1>1, <1>2, <2>3, <2>4, ResolvedMax
<1> QED BY <1>4, <1>5

LEMMA CreateMaxUserStep ==
  ASSUME SignIns!ProfilesAssumption, SignInInv, NEW h \in Handlers, SignIns!CreateMaxUser(h)
  PROVE  SignInInv'
<1>1. /\ request[h].work \in {"enter", "write"} /\ request[h].step = "new" /\ session' = session
  BY DEF SignIns!CreateMaxUser, SignIns!At
<1>2. request[h].account \in Maxes
  BY <1>1 DEF SignInInv, RequestFollows
<1>3. PICK a \in Maxes, work \in {"enter", "write"} : a = request[h].account /\ work = request[h].work
  BY <1>1, <1>2
<1>4. a \in SignIns!Accounts
  BY DEF SignIns!Accounts
<1>5. CASE /\ identity[a] # Nobody
           /\ SignIns!Go(h, SignIns!Resolved(work, a, identity[a])) /\ UNCHANGED <<user, identity>>
  <2>1. /\ identity[a] \in People /\ user[identity[a]].status # "none"
    BY <1>4, <1>5 DEF SignInInv, ProfilesInv, SignIns!Identity, IdentitiesExist
  <2>2. PICK u \in People : u = identity[a]
    BY <2>1
  <2>3. Follows(a, u)'
    BY <2>1, <2>2, <1>5 DEF Follows
  <2>4. ProfilesStep
    BY <1>5, SameProfiles DEF SignInInv
  <2> QED BY <1>1, <1>5, <2>2, <2>3, <2>4, ResolvedMax DEF SignIns!Go
<1>6. ASSUME NEW u \in People, identity[a] = Nobody, user[u] = SignIns!NoUser,
             user' = [user EXCEPT ![u] = SignIns!NewUser(Nobody)],
             identity' = [identity EXCEPT ![a] = u],
             SignIns!Go(h, SignIns!Resolved(work, a, u))
      PROVE  SignInInv'
  <2>1. ProfilesInv
    BY DEF SignInInv
  <2>2. ProfilesStep
    BY <2>1, <1>6, NewProfile
  <2>3. Follows(a, u)'
    BY <2>1, <1>4, <1>6 DEF ProfilesInv, Follows, SignIns!NewUser
  <2> QED BY <1>1, <1>6, <2>2, <2>3, ResolvedMax DEF SignIns!Go
<1> QED BY <1>3, <1>5, <1>6 DEF SignIns!CreateMaxUser

LEMMA UpsertMessengerIdentityStep ==
  ASSUME SignIns!ProfilesAssumption, SignInInv, NEW h \in Handlers,
         SignIns!UpsertMessengerIdentity(h)
  PROVE  SignInInv'
<1>1. PICK q \in SignIns!Request : q = request[h]
  BY DEF SignInInv
<1>2. /\ RequestFollows(q) /\ q.step = "resolved" /\ q.work \in {"enter", "write"}
      /\ user' = user /\ session' = session
  BY <1>1 DEF SignInInv, SignIns!UpsertMessengerIdentity, SignIns!At
<1>3. PICK a \in SignIns!Accounts, u \in People : a = q.account /\ u = q.user
  BY <1>2 DEF RequestFollows, Follows, SignIns!Idle
<1>4. /\ user[u].status # "none"
      /\ a \in Telegrams => user[u].telegram = a
      /\ a \notin Telegrams => Follows(a, u)
  BY <1>2, <1>3 DEF RequestFollows, Follows
<1>5. identity' = [identity EXCEPT ![a] = IF @ = Nobody THEN u ELSE @]
  BY <1>1, <1>3 DEF SignIns!UpsertMessengerIdentity
<1>6. ProfilesStep
  BY <1>2, <1>4, <1>5, AccountRecorded DEF SignInInv
<1>7. Follows(a, u)'
  <2>1. identity'[a] = IF identity[a] = Nobody THEN u ELSE identity[a]
    BY <1>5 DEF SignInInv, ProfilesInv
  <2>2. CASE a \in Telegrams /\ identity[a] # Nobody
    <3>1. user[identity[a]].telegram = a /\ identity[a] \in People
      BY <2>2 DEF SignInInv, ProfilesInv, TelegramsFollow, SignIns!Identity
    <3>2. a # Nobody
      BY <2>2 DEF SignIns!ProfilesAssumption
    <3>3. identity[a] = u
      BY <1>4, <2>2, <3>1, <3>2 DEF SignInInv, ProfilesInv, TelegramsFollow
    <3> QED BY <1>2, <1>4, <2>1, <3>3 DEF Follows
  <2>3. CASE ~(a \in Telegrams /\ identity[a] # Nobody)
    BY <1>2, <1>4, <2>1, <2>3 DEF Follows
  <2> QED BY <2>2, <2>3
<1>8. CASE q.work = "write"
  <2>1. request' = [request EXCEPT ![h] = SignIns!Idle]
    BY <1>1, <1>8 DEF SignIns!UpsertMessengerIdentity, SignIns!Finish, SignIns!Go
  <2> QED BY <1>2, <1>6, <2>1, IdleStep DEF SignInInv
<1>9. CASE q.work # "write"
  <2>1. PICK r : r = [q EXCEPT !.step = "identified"]
    OBVIOUS
  <2>2. request' = [request EXCEPT ![h] = r]
    BY <1>1, <1>9, <2>1 DEF SignIns!UpsertMessengerIdentity, SignIns!Go
  <2>3. /\ r \in SignIns!Request /\ r.step = "identified" /\ r.work = q.work
        /\ r.account = a /\ r.user = u
    BY <2>1, <1>3 DEF SignIns!Request
  <2>4. RequestFollows(r)'
    BY <1>2, <1>7, <2>3 DEF RequestFollows, Follows
  <2> QED BY <1>2, <1>6, <2>2, <2>3, <2>4, RequestStep DEF SignInInv
<1> QED BY <1>8, <1>9

LEMMA CreateSessionStep ==
  ASSUME SignIns!ProfilesAssumption, SignInInv, NEW h \in Handlers, SignIns!CreateSession(h)
  PROVE  SignInInv'
<1>1. PICK q \in SignIns!Request : q = request[h]
  BY DEF SignInInv
<1>2. /\ q.step = "identified" /\ RequestFollows(q) /\ UNCHANGED <<user, identity>>
      /\ session' = session \cup {[user |-> q.user, account |-> q.account]}
      /\ request' = [request EXCEPT ![h] = SignIns!Idle]
  BY <1>1 DEF SignInInv, SignIns!CreateSession, SignIns!At, SignIns!Finish, SignIns!Go
<1>3. ProfilesStep
  BY <1>2, SameProfiles DEF SignInInv
<1>4. q.account \in SignIns!Accounts /\ Follows(q.account, q.user)
  BY <1>2 DEF RequestFollows, SignIns!Idle
<1>5. /\ session' \subseteq SignIns!Session
      /\ \A s \in session' \ session : Follows(s.account, s.user)'
  BY <1>2, <1>4 DEF SignInInv, SignIns!Session, Follows
<1> QED BY <1>2, <1>3, <1>5, IdleStep

LEMMA RequireAuthStep ==
  ASSUME SignIns!ProfilesAssumption, SignInInv, NEW h \in Handlers,
         NEW work \in {"profile", "contact"}, NEW s \in session, SignIns!RequireAuth(h, work, s)
  PROVE  SignInInv'
<1>1. UNCHANGED <<user, identity, session>> /\ (work = "contact" => s.account \in Maxes)
  BY DEF SignIns!RequireAuth
<1>2. ProfilesStep
  BY <1>1, SameProfiles DEF SignInInv
<1>3. /\ s.account \in SignIns!Accounts /\ s.user \in People /\ Follows(s.account, s.user)
  BY DEF SignInInv, SignIns!Session
<1>4. PICK r : r = [SignIns!Idle EXCEPT !.work = work, !.step = "admitted",
                                      !.account = s.account, !.user = s.user]
  OBVIOUS
<1>5. /\ r \in SignIns!Request /\ r.step = "admitted" /\ r.work = work
      /\ r.account = s.account /\ r.user = s.user
  BY <1>3, <1>4 DEF SignIns!Idle, SignIns!Request, SignIns!Works
<1>6. RequestFollows(r)'
  BY <1>1, <1>3, <1>5 DEF RequestFollows, Follows
<1>7. request' = [request EXCEPT ![h] = r]
  BY <1>4 DEF SignIns!RequireAuth, SignIns!Go
<1> QED BY <1>1, <1>2, <1>5, <1>6, <1>7, RequestStep DEF SignInInv

LEMMA UpdateProfileStep ==
  ASSUME SignIns!ProfilesAssumption, SignInInv, NEW h \in Handlers,
         NEW phone \in Phones \cup {Nobody}, SignIns!UpdateProfile(h, phone)
  PROVE  SignInInv'
<1>1. PICK q \in SignIns!Request : q = request[h]
  BY DEF SignInInv
<1>2. RequestFollows(q) /\ q.step = "admitted"
  BY <1>1 DEF SignInInv, SignIns!UpdateProfile, SignIns!At
<1>3. PICK u \in People : u = q.user
  BY <1>2 DEF RequestFollows, Follows
<1>4. user[u] \in SignIns!User
  BY DEF SignInInv, ProfilesInv
<1>5. PICK p : p = [user[u] EXCEPT !.pristine = FALSE, !.phone = phone]
  OBVIOUS
<1>6. /\ p \in SignIns!User /\ p.telegram = user[u].telegram /\ p.wallet = user[u].wallet
      /\ p.status = user[u].status
  BY <1>4, <1>5 DEF SignIns!User
<1>7. /\ user' = [user EXCEPT ![u] = p] /\ identity' = identity /\ session' = session
      /\ request' = [request EXCEPT ![h] = SignIns!Idle]
  <2>1. user' = [user EXCEPT ![u].pristine = FALSE, ![u].phone = phone]
    BY <1>1, <1>3 DEF SignIns!UpdateProfile
  <2>2. user' = [user EXCEPT ![u] = p]
    BY <2>1, <1>4, <1>5 DEF SignInInv, ProfilesInv, SignIns!User
  <2> QED BY <2>2 DEF SignIns!UpdateProfile, SignIns!Finish, SignIns!Go
<1>8. ProfilesStep
  BY <1>6, <1>7, ProfileChange DEF SignInInv
<1> QED BY <1>7, <1>8, IdleStep DEF SignInInv

LEMMA ReadCandidateStep ==
  ASSUME SignIns!ProfilesAssumption, SignInInv, NEW h \in Handlers, NEW phone \in Phones,
         SignIns!ReadCandidate(h, phone)
  PROVE  SignInInv'
<1>1. PICK q \in SignIns!Request : q = request[h]
  BY DEF SignInInv
<1>2. /\ RequestFollows(q) /\ q.step = "admitted" /\ q.work = "contact"
      /\ UNCHANGED <<user, identity, session>>
  BY <1>1 DEF SignInInv, SignIns!ReadCandidate, SignIns!At
<1>3. PICK u \in People : u = q.user
  BY <1>2 DEF RequestFollows, Follows
<1>4. PICK c \in SignIns!Candidates(u, phone) \cup {Nobody} :
        request' = [request EXCEPT ![h] = [q EXCEPT !.step = "read", !.phone = phone,
                                                    !.candidate = c]]
  BY <1>1, <1>3 DEF SignIns!ReadCandidate, SignIns!Go
<1>5. PICK r : r = [q EXCEPT !.step = "read", !.phone = phone, !.candidate = c]
  OBVIOUS
<1>6. c # Nobody => /\ c \in People \ {u} /\ user[c].status = "active"
                    /\ user[c].telegram # Nobody
  BY <1>4 DEF SignIns!Candidates
<1>7. /\ r \in SignIns!Request /\ r.step = "read" /\ r.work = "contact"
      /\ r.account = q.account /\ r.user = u /\ r.candidate = c
  BY <1>2, <1>3, <1>5, <1>6 DEF SignIns!Request
<1>8. RequestFollows(r)'
  <2>1. q # SignIns!Idle
    BY <1>2 DEF SignIns!Idle
  <2> QED BY <2>1, <1>2, <1>3, <1>6, <1>7 DEF RequestFollows, Follows
<1>9. ProfilesStep
  BY <1>2, SameProfiles DEF SignInInv
<1> QED BY <1>2, <1>4, <1>5, <1>7, <1>8, <1>9, RequestStep DEF SignInInv

LEMMA LinkStep ==
  ASSUME SignIns!ProfilesAssumption, SignInInv, NEW h \in Handlers, SignIns!Link(h)
  PROVE  SignInInv'
<1>1. PICK q \in SignIns!Request : q = request[h]
  BY DEF SignInInv
<1>2. /\ RequestFollows(q) /\ q.step = "read" /\ q.work = "contact" /\ q.candidate # Nobody
      /\ session' = session
  BY <1>1 DEF SignInInv, SignIns!Link, SignIns!Moves, SignIns!At
<1>3. PICK a \in Maxes, own \in People, candidate \in People :
        a = q.account /\ own = q.user /\ candidate = q.candidate
  BY <1>2 DEF RequestFollows, Follows
<1>4. /\ candidate \in People \ {own} /\ user[candidate].status # "none"
      /\ user[candidate].telegram # Nobody
  BY <1>2, <1>3 DEF RequestFollows
<1>5. PICK phone \in Phones \cup {Nobody} : phone = q.phone
  BY DEF SignIns!Request
<1>6. /\ identity[a] = own /\ identity' = [identity EXCEPT ![a] = candidate]
      /\ user' = [user EXCEPT ![candidate].phone = phone, ![own] = SignIns!Retired(@)]
      /\ request' = [request EXCEPT ![h] = [q EXCEPT !.step = "linked", !.user = candidate]]
  BY <1>1, <1>3, <1>5 DEF SignIns!Link, SignIns!Moves, SignIns!MayMove, SignIns!Linked, SignIns!Go
<1>7. ProfilesStep
  BY <1>4, <1>6, AccountMoves DEF SignInInv
<1>8. PICK r : r = [q EXCEPT !.step = "linked", !.user = candidate]
  OBVIOUS
<1>9. /\ r \in SignIns!Request /\ r.step = "linked" /\ r.work = "contact"
      /\ r.account = a /\ r.user = candidate
  BY <1>2, <1>3, <1>8 DEF SignIns!Request
<1>10. Follows(a, candidate)'
  <2>1. a \in SignIns!Accounts
    BY DEF SignIns!Accounts
  <2>2. user'[candidate].status # "none"
    BY <1>4, <1>7 DEF ProfilesStep, ProfilesGrow
  <2> QED BY <2>1, <2>2, <1>6 DEF Follows, SignInInv, ProfilesInv
<1>11. RequestFollows(r)'
  BY <1>9, <1>10 DEF RequestFollows, Follows, SignIns!Accounts
<1> QED BY <1>2, <1>6, <1>7, <1>8, <1>9, <1>11, RequestStep DEF SignInInv

LEMMA KeepApartStep ==
  ASSUME SignIns!ProfilesAssumption, SignInInv, NEW h \in Handlers, SignIns!KeepApart(h)
  PROVE  SignInInv'
<1>1. PICK q \in SignIns!Request : q = request[h]
  BY DEF SignInInv
<1>2. /\ RequestFollows(q) /\ q.step = "read" /\ q.work = "contact"
      /\ UNCHANGED <<identity, session>>
  BY <1>1 DEF SignInInv, SignIns!KeepApart, SignIns!At
<1>3. PICK u \in People, phone \in Phones \cup {Nobody} : u = q.user /\ phone = q.phone
  BY <1>2 DEF RequestFollows, Follows, SignIns!Request
<1>4. user[u] \in SignIns!User
  BY DEF SignInInv, ProfilesInv
<1>5. PICK p : p = [user[u] EXCEPT !.phone = phone]
  OBVIOUS
<1>6. /\ p \in SignIns!User /\ p.telegram = user[u].telegram /\ p.wallet = user[u].wallet
      /\ p.status = user[u].status
  BY <1>4, <1>5 DEF SignIns!User
<1>7. user' = [user EXCEPT ![u] = p]
  BY <1>1, <1>3, <1>5 DEF SignIns!KeepApart
<1>8. ProfilesStep
  BY <1>2, <1>6, <1>7, ProfileChange DEF SignInInv
<1>9. PICK r : r = [q EXCEPT !.step = "linked"]
  OBVIOUS
<1>10. /\ r \in SignIns!Request /\ r.step = "linked" /\ r.work = "contact"
       /\ r.account = q.account /\ r.user = u
  BY <1>2, <1>3, <1>9 DEF SignIns!Request
<1>11. r.account \in Maxes /\ r.account \in SignIns!Accounts /\ Follows(r.account, u)
  BY <1>2, <1>3, <1>10 DEF RequestFollows, SignIns!Accounts
<1>12. Follows(r.account, u)'
  BY <1>8, <1>11, FollowsStays DEF SignInInv, ProfilesStep
<1>13. RequestFollows(r)'
  BY <1>10, <1>11, <1>12 DEF RequestFollows, Follows
<1>14. request' = [request EXCEPT ![h] = r]
  BY <1>1, <1>9 DEF SignIns!KeepApart, SignIns!Go
<1> QED BY <1>2, <1>8, <1>10, <1>13, <1>14, RequestStep DEF SignInInv

LEMMA RenewSessionStep ==
  ASSUME SignIns!ProfilesAssumption, SignInInv, NEW h \in Handlers, SignIns!RenewSession(h)
  PROVE  SignInInv'
<1>1. PICK q \in SignIns!Request : q = request[h]
  BY DEF SignInInv
<1>2. /\ q.step = "linked" /\ RequestFollows(q) /\ UNCHANGED <<user, identity>>
      /\ request' = [request EXCEPT ![h] = SignIns!Idle]
  BY <1>1 DEF SignInInv, SignIns!RenewSession, SignIns!At, SignIns!Finish, SignIns!Go
<1>3. session' \ session \subseteq {[user |-> q.user, account |-> q.account]}
  BY <1>1 DEF SignIns!RenewSession, SignIns!Without
<1>4. ProfilesStep
  BY <1>2, SameProfiles DEF SignInInv
<1>5. q.account \in SignIns!Accounts /\ Follows(q.account, q.user)
  BY <1>2 DEF RequestFollows, SignIns!Idle
<1>6. /\ session' \subseteq SignIns!Session
      /\ \A s \in session' \ session : Follows(s.account, s.user)'
  BY <1>2, <1>3, <1>5 DEF SignInInv, SignIns!Session, Follows
<1> QED BY <1>2, <1>4, <1>6, IdleStep

(* What happens to a profile outside of these requests.                    *)
LEMMA OneProfileStep ==
  ASSUME SignIns!ProfilesAssumption, SignInInv, NEW u \in People,
         \/ \E a \in Telegrams, phone \in Phones :
              user[u].telegram = a /\ user' = [user EXCEPT ![u].phone = phone]
         \/ user' = [user EXCEPT ![u].pristine = FALSE]
         \/ \E status \in {"active", "blocked"} :
              user[u].status # "none" /\ user' = [user EXCEPT ![u].status = status],
         UNCHANGED <<identity, session, request>>
  PROVE  SignInInv'
<1>1. user[u] \in SignIns!User
  BY DEF SignInInv, ProfilesInv
<1>2. PICK p : /\ user' = [user EXCEPT ![u] = p] /\ p \in SignIns!User
               /\ p.telegram = user[u].telegram /\ p.wallet = user[u].wallet
               /\ (p.status = "none") = (user[u].status = "none")
  <2>1. CASE \E a \in Telegrams, phone \in Phones : user' = [user EXCEPT ![u].phone = phone]
    <3>1. PICK phone \in Phones : user' = [user EXCEPT ![u].phone = phone]
      BY <2>1
    <3> WITNESS [user[u] EXCEPT !.phone = phone]
    <3> QED BY <1>1, <3>1 DEF SignIns!User
  <2>2. CASE user' = [user EXCEPT ![u].pristine = FALSE]
    <3> WITNESS [user[u] EXCEPT !.pristine = FALSE]
    <3> QED BY <1>1, <2>2 DEF SignIns!User
  <2>3. CASE \E status \in {"active", "blocked"} :
               user[u].status # "none" /\ user' = [user EXCEPT ![u].status = status]
    <3>1. PICK status \in {"active", "blocked"} :
            user[u].status # "none" /\ user' = [user EXCEPT ![u].status = status]
      BY <2>3
    <3> WITNESS [user[u] EXCEPT !.status = status]
    <3> QED BY <1>1, <3>1 DEF SignIns!User
  <2> QED BY <2>1, <2>2, <2>3
<1>3. ProfilesStep
  BY <1>2, ProfileChange DEF SignInInv
<1> QED BY <1>3, OthersStay

LEMMA SignInsNext ==
  SignIns!ProfilesAssumption /\ SignInInv /\ [SignIns!Next]_SignIns!vars => SignInInv'
<1> SUFFICES ASSUME SignIns!ProfilesAssumption, SignInInv, [SignIns!Next]_SignIns!vars
             PROVE  SignInInv'
  OBVIOUS
<1>1. ASSUME NEW h \in Handlers, NEW a \in Telegrams,
             SignIns!PostAuthTelegram(h, a) \/ SignIns!UpdateTelegramIdentity(h, a)
      PROVE  SignInInv'
  BY <1>1, UpsertTelegramUserStep DEF SignIns!PostAuthTelegram, SignIns!UpdateTelegramIdentity
<1>2. ASSUME NEW h \in Handlers, NEW a \in Maxes,
             SignIns!PostAuthMax(h, a) \/ SignIns!UpdateMaxIdentity(h, a)
      PROVE  SignInInv'
  BY <1>2, FindMaxUserStep DEF SignIns!PostAuthMax, SignIns!UpdateMaxIdentity
<1>3. ASSUME NEW h \in Handlers, SignIns!Drop(h)
      PROVE  SignInInv'
  BY <1>3, SameProfiles, IdleStep DEF SignInInv, SignIns!Drop, SignIns!Finish, SignIns!Go
<1>4. ASSUME NEW s \in session, SignIns!DestroySession(s)
      PROVE  SignInInv'
  BY <1>4, SameProfiles, OthersStay DEF SignInInv, SignIns!DestroySession
<1>5. ASSUME NEW a \in Telegrams, NEW phone \in Phones, SignIns!SaveTelegramContact(a, phone)
      PROVE  SignInInv'
  BY <1>5, OneProfileStep DEF SignIns!SaveTelegramContact
<1>6. ASSUME NEW u \in People,
             \/ SignIns!LearnCrmPerson(u)
             \/ \E status \in {"active", "blocked"} : SignIns!SetStatus(u, status)
      PROVE  SignInInv'
  BY <1>6, OneProfileStep DEF SignIns!LearnCrmPerson, SignIns!SetStatus
<1>7. CASE UNCHANGED SignIns!vars
  BY <1>7, SameProfiles, OthersStay DEF SignInInv, SignIns!vars
<1> QED BY <1>1, <1>2, <1>3, <1>4, <1>5, <1>6, <1>7, CreateMaxUserStep,
           UpsertMessengerIdentityStep, CreateSessionStep, RequireAuthStep, UpdateProfileStep,
           ReadCandidateStep, LinkStep, KeepApartStep, RenewSessionStep DEF SignIns!Next

LEMMA SignInsAlways ==
  ASSUME SignIns!ProfilesAssumption
  PROVE  SignIns!Spec => []SignInInv
BY SignInsInit, SignInsNext, PTL DEF SignIns!Spec

(* Points nobody can reach are in frozen wallets (me.ts): whatever races to *)
(* make a profile or to move an account, an active wallet is of a profile  *)
(* some messenger account leads to.                                        *)
THEOREM ActiveWalletsAreReachable ==
  ASSUME SignIns!ProfilesAssumption
  PROVE  SignIns!Spec => []ActiveWalletsHaveAWayIn
<1>1. SignInInv => ActiveWalletsHaveAWayIn
  BY DEF SignInInv, ProfilesInv, ActiveWalletsHaveAWayIn
<1> QED BY <1>1, SignInsAlways, PTL

(* A session is of the profile its account leads to, until that profile is *)
(* retired (auth.ts, me.ts).                                               *)
THEOREM SessionsAreOfTheirAccount ==
  ASSUME SignIns!ProfilesAssumption
  PROVE  SignIns!Spec => []SessionsFollowTheirAccount
<1>1. SignInInv => SessionsFollowTheirAccount
  BY DEF SignInInv, Follows, SessionsFollowTheirAccount, SignIns!SessionsFollowTheirAccount
<1> QED BY <1>1, SignInsAlways, PTL
=============================================================================
