------------------------------ MODULE WalletQr ------------------------------
(***************************************************************************)
(* QR sessions and the intents created from them: transfers between        *)
(* participants and the credits and debits of staff (routes/wallet.ts).    *)
(*                                                                         *)
(* Intents and their QR are changed under the programme lock (shared) and  *)
(* the lock of the QR, so each handler's transaction is one step; the      *)
(* exception is POST /wallet/qr, which cancels its user's old QRs under a  *)
(* lock of its own and never looks at their intents.  The bootstrap that   *)
(* precedes each request is left to WalletLedger: users start with their   *)
(* wallet and welcome grant.  Only QRs of purpose "wallet" are modelled.   *)
(***************************************************************************)
EXTENDS Ledger

CONSTANTS QrIds,        \* bound: the QR sessions of a behaviour, 1 .. n
          IntentIds,    \* bound: the intents of a behaviour, 1 .. n
          Keys,         \* Idempotency-Keys of POST /wallet/intents
          Amounts,      \* the amounts proposed
          Staff,        \* the users who may be given access to the fund
          Rules,        \* the settings an operator may choose, [p2p, limit]
          Welcome       \* the welcome grant every user starts with

ASSUME QrAssumption ==
  /\ QrIds \subseteq Nat /\ IntentIds \subseteq Nat
  /\ Amounts \subseteq Nat \ {0}
  /\ Staff \subseteq Users
  /\ Rules \subseteq [p2p : BOOLEAN, limit : Nat \ {0}] /\ Rules # {}
  /\ Welcome \in Nat \ {0}
  /\ Events = {}

VARIABLES qr,           \* qr_sessions
          intent,       \* wallet_intents
          creating,     \* user -> season its POST /wallet/qr read, or 0
          lapsedQr, lapsedIntent,   \* those whose expires_at has passed
          access,       \* point_fund_access: user -> kinds it may initiate
          rules         \* p2p_enabled and max_transaction_amount

(* What the handlers below read and do not write. *)
world == <<lapsedQr, lapsedIntent, access, rules>>

vars == <<ledgerVars, qr, intent, creating, world>>

-----------------------------------------------------------------------------

StaffKinds == {"staff_credit", "staff_debit"}
Kinds == StaffKinds \cup {"p2p_transfer"}

QrStatus == {"active", "claimed", "consumed", "expired", "cancelled"}
(* Bug a run must catch: a consumed QR is cancelled with the others. *)
UnfinishedQr == {"active", "claimed", "consumed"}

LiveQr == {"active", "claimed"}
Awaiting == {"awaiting_initiator", "awaiting_owner"}
IntentStatus == Awaiting \cup {"completed", "rejected", "cancelled", "expired"}

NoQr == [status |-> "none"]
Qr == [status : QrStatus, owner : Users, season : Season]

NoIntent == [status |-> "none"]
Intent ==
  [status : IntentStatus, kind : Kinds, qr : QrIds, key : Keys,
   initiator : Users, owner : Users, confirmer : Users,
   payer : Account, payee : Account, amount : Nat \ {0}, season : Season]

IntentKey(i) == <<"intent", i>>
Key == ({"welcome"} \X Users) \cup ({"intent"} \X IntentIds)

NoBody == <<>>
Body == {NoBody} \cup (Account \X Account \X Nat)

TypeOK ==
  /\ LedgerTypeOK(Key, Body, Users)
  /\ qr \in [QrIds -> {NoQr} \cup Qr]
  /\ intent \in [IntentIds -> {NoIntent} \cup Intent]
  /\ creating \in [Users -> 0 .. MaxSeason]
  /\ lapsedQr \subseteq QrIds /\ lapsedIntent \subseteq IntentIds
  /\ access \in [Users -> SUBSET StaffKinds]
  /\ rules \in Rules

Init ==
  /\ WelcomedInit(Welcome)
  /\ qr = [q \in QrIds |-> NoQr]
  /\ intent = [i \in IntentIds |-> NoIntent]
  /\ creating = [u \in Users |-> 0]
  /\ lapsedQr = {} /\ lapsedIntent = {}
  /\ access = [u \in Users |-> {}]
  /\ rules \in Rules

-----------------------------------------------------------------------------

Exists(q) == qr[q] # NoQr
Created(i) == intent[i] # NoIntent

(* Identifiers are used in order, so that behaviours differ in what they   *)
(* do and not in how rows are named.                                       *)
NextQr(q) == ~Exists(q) /\ \A p \in QrIds : p < q => Exists(p)
NextIntent(i) == ~Created(i) /\ \A j \in IntentIds : j < i => Created(j)

Pending(i) == intent[i].status \in Awaiting

SetQr(q, status) == qr' = [qr EXCEPT ![q].status = status]
SetIntent(i, status) == intent' = [intent EXCEPT ![i].status = status]

(* POST /wallet/qr: the season is read before the programme lock ... *)
BeginQr(u) ==
  /\ creating[u] = 0
  /\ creating' = [creating EXCEPT ![u] = season]
  /\ UNCHANGED <<ledgerVars, qr, intent, world>>

(* ... and compared with the current one under it.  The user's other live  *)
(* QRs are cancelled, their intents stay as they are.                      *)
CreateQr(u, q) ==
  /\ creating[u] = season /\ NextQr(q)
  /\ qr' = [p \in QrIds |->
              IF p = q THEN [status |-> "active", owner |-> u, season |-> season]
              ELSE IF qr[p].status \in LiveQr /\ qr[p].owner = u
                   THEN [qr[p] EXCEPT !.status = "cancelled"]
                   ELSE qr[p]]
  /\ creating' = [creating EXCEPT ![u] = 0]
  /\ UNCHANGED <<ledgerVars, intent, world>>

(* POINT_SEASON_CHANGED. *)
RefuseQr(u) ==
  /\ creating[u] \notin {0, season}
  /\ creating' = [creating EXCEPT ![u] = 0]
  /\ UNCHANGED <<ledgerVars, qr, intent, world>>

(* DELETE /wallet/qr/:id withdraws the QR and its pending intent. *)
CancelQr(u, q) ==
  /\ Exists(q) /\ qr[q].owner = u /\ qr[q].status \in LiveQr
  /\ SetQr(q, "cancelled")
  /\ intent' = [i \in IntentIds |->
                  IF Pending(i) /\ intent[i].qr = q
                  THEN [intent[i] EXCEPT !.status = "cancelled"] ELSE intent[i]]
  /\ UNCHANGED <<ledgerVars, creating, world>>

-----------------------------------------------------------------------------

(* Who pays, who is paid, and who must confirm. *)
Payer(kind, u, owner) ==
  CASE kind = "p2p_transfer" -> <<season, u>>
    [] kind = "staff_credit" -> <<season, "admin">>
    [] kind = "staff_debit" -> <<season, owner>>

Payee(kind, owner) ==
  IF kind = "staff_debit" THEN <<season, "redemption">> ELSE <<season, owner>>

Confirmer(kind, u, owner) == IF kind = "staff_debit" THEN owner ELSE u

FirstStatus(kind) ==
  IF kind = "staff_debit" THEN "awaiting_owner" ELSE "awaiting_initiator"

KeyUsed(u, key) ==
  \E i \in IntentIds : Created(i) /\ intent[i].initiator = u /\ intent[i].key = key

(* UNIQUE (qr_session_id). *)
HasIntent(q) == \E i \in IntentIds : Created(i) /\ intent[i].qr = q

(* The QR was scanned, and is still good. *)
Claimable(u, q) ==
  /\ Exists(q) /\ qr[q].status = "active" /\ q \notin lapsedQr
  /\ qr[q].season = season
  /\ qr[q].owner # u

MayPropose(u, kind, amount) ==
  IF kind = "p2p_transfer"
  THEN rules.p2p /\ balance[<<season, u>>] >= amount
  ELSE kind \in access[u]

(* POST /wallet/intents.  A key that was used is answered with its intent, *)
(* or refused: either way nothing changes.                                 *)
CreateIntent(u, i, q, key, kind, amount) ==
  LET owner == qr[q].owner
      payer == Payer(kind, u, owner)
      payee == Payee(kind, owner)
  IN  /\ NextIntent(i)
      /\ amount <= rules.limit
      /\ ~KeyUsed(u, key)
      /\ Claimable(u, q) /\ ~HasIntent(q)
      /\ MayPropose(u, kind, amount)
      /\ account' = WithAccounts({<<season, u>>, <<season, owner>>, payer, payee})
      /\ intent' = [intent EXCEPT ![i] =
           [status |-> FirstStatus(kind), kind |-> kind, qr |-> q, key |-> key,
            initiator |-> u, owner |-> owner, confirmer |-> Confirmer(kind, u, owner),
            payer |-> payer, payee |-> payee, amount |-> amount, season |-> season]]
      /\ SetQr(q, "claimed")
      /\ UNCHANGED <<season, balance, ledger, creating, world>>

Participates(u, i) == u \in {intent[i].initiator, intent[i].owner}

(* POST /wallet/intents/:id/confirm finds the season changed or the time   *)
(* over.  It looks at this before the status, and relabels both rows.      *)
ExpireOnConfirm(u, i) ==
  /\ Created(i) /\ Participates(u, i) /\ intent[i].status # "completed"
  /\ intent[i].season # season \/ i \in lapsedIntent
  /\ SetIntent(i, "expired")
  /\ SetQr(intent[i].qr, "expired")
  /\ UNCHANGED <<ledgerVars, creating, world>>

(* Bug a run must catch: the status of the intent is not looked at.         *)
MayConfirmAnytime(u, i) == intent[i].confirmer = u

MayConfirm(u, i) == Pending(i) /\ intent[i].confirmer = u

IntentTransaction(u, i) ==
  [key |-> IntentKey(i), body |-> <<intent[i].payer, intent[i].payee, intent[i].amount>>,
   actor |-> u, season |-> season,
   from |-> intent[i].payer, to |-> intent[i].payee, amount |-> intent[i].amount]

(* The points, the intent and the QR change in one transaction; the QR is  *)
(* consumed whatever its status is by now.                                 *)
Confirm(u, i) ==
  /\ Created(i) /\ Participates(u, i)
  /\ intent[i].season = season /\ i \notin lapsedIntent
  /\ MayConfirm(u, i)
  /\ intent[i].amount <= rules.limit
  /\ CanPost(account, IntentTransaction(u, i))
  /\ Post(IntentTransaction(u, i))
  /\ SetIntent(i, "completed")
  /\ SetQr(intent[i].qr, "consumed")
  /\ UNCHANGED <<season, account, creating, world>>

(* Bug a run must catch: the QR is left as it is.                           *)
AfterRejectKept(u, i) == qr[intent[i].qr].status

(* The QR after a rejection: the initiator who takes back a request of its *)
(* own gives the QR back, anything else cancels it.                        *)
AfterReject(u, i) ==
  IF intent[i].status = "awaiting_initiator" /\ u = intent[i].initiator
  THEN IF qr[intent[i].qr].status = "claimed" THEN "active" ELSE qr[intent[i].qr].status
  ELSE "cancelled"

(* POST /wallet/intents/:id/reject. *)
Reject(u, i) ==
  /\ Pending(i) /\ u \in {intent[i].initiator, intent[i].confirmer}
  /\ SetIntent(i, "rejected")
  /\ SetQr(intent[i].qr, AfterReject(u, i))
  /\ UNCHANGED <<ledgerVars, creating, world>>

-----------------------------------------------------------------------------

(* Time passes; the two expiry times are independent of each other.  The   *)
(* step is left out where no handler looks at the time.                    *)
LapseQr(q) ==
  /\ qr[q].status = "active" /\ q \notin lapsedQr
  /\ lapsedQr' = lapsedQr \cup {q}
  /\ UNCHANGED <<ledgerVars, qr, intent, creating, lapsedIntent, access, rules>>

LapseIntent(i) ==
  /\ Created(i) /\ intent[i].status # "completed" /\ i \notin lapsedIntent
  /\ lapsedIntent' = lapsedIntent \cup {i}
  /\ UNCHANGED <<ledgerVars, qr, intent, creating, lapsedQr, access, rules>>

(* PUT and DELETE /admin/wallet/fund-access/:userId. *)
SetAccess(u, kinds) ==
  /\ access[u] # kinds
  /\ access' = [access EXCEPT ![u] = kinds]
  /\ UNCHANGED <<ledgerVars, qr, intent, creating, lapsedQr, lapsedIntent, rules>>

(* PATCH /admin/wallet/settings, as far as intents read it. *)
SetRules(new) ==
  /\ rules' = new
  /\ UNCHANGED <<ledgerVars, qr, intent, creating, lapsedQr, lapsedIntent, access>>

(* The confirmation of a reset, as far as QRs and intents go. *)
Reset ==
  /\ SwitchSeason
  /\ intent' = [i \in IntentIds |->
                  IF Pending(i) /\ intent[i].season = season
                  THEN [intent[i] EXCEPT !.status = "expired"] ELSE intent[i]]
  /\ qr' = [q \in QrIds |->
              IF qr[q].status \in LiveQr /\ qr[q].season = season
              THEN [qr[q] EXCEPT !.status = "expired"] ELSE qr[q]]
  /\ UNCHANGED <<creating, world>>

Next ==
  \/ Reset
  \/ \E new \in Rules \ {rules} : SetRules(new)
  \/ \E q \in QrIds : LapseQr(q)
  \/ \E i \in IntentIds : LapseIntent(i)
  \/ \E u \in Staff, kinds \in SUBSET StaffKinds : SetAccess(u, kinds)
  \/ \E u \in Users :
       \/ BeginQr(u) \/ RefuseQr(u)
       \/ \E q \in QrIds : CreateQr(u, q) \/ CancelQr(u, q)
       \/ \E i \in IntentIds :
            \/ ExpireOnConfirm(u, i) \/ Confirm(u, i) \/ Reject(u, i)
            \/ \E q \in QrIds, key \in Keys, kind \in Kinds, amount \in Amounts :
                 CreateIntent(u, i, q, key, kind, amount)

Spec == Init /\ [][Next]_vars

-----------------------------------------------------------------------------
(* Properties *)

IntentEntries == {t \in ledger : t.key[1] = "intent"}

(* A user never has two live QRs: a new one cancels the others, and giving *)
(* a QR back to its owner does not revive a cancelled one.                 *)
OneLiveQrPerUser ==
  \A p, q \in QrIds :
     qr[p].status \in LiveQr /\ qr[q].status \in LiveQr /\ qr[p].owner = qr[q].owner
       => p = q

(* A claimed QR is held by an intent somebody can still confirm, reject or *)
(* withdraw, a QR is consumed exactly when its intent was paid, and a user *)
(* has one live QR: no order of handlers leaves one claimed for nothing,   *)
(* paid and reusable, or alive beside another.                             *)
QrFollowsItsIntent ==
  /\ OneLiveQrPerUser
  /\ \A q \in QrIds :
        LET has(states) == \E i \in IntentIds :
              Created(i) /\ intent[i].qr = q /\ intent[i].status \in states
        IN  /\ qr[q].status = "claimed" => has(Awaiting)
            /\ qr[q].status = "consumed" <=> has({"completed"})

(* Intents are payments on fixed terms: paid at most once, by the one who  *)
(* had to confirm, exactly as proposed, and never after they were          *)
(* rejected, withdrawn or expired.                                         *)
Offer(i) ==
  CASE ~Created(i) -> [state |-> "none"]
    [] OTHER ->
       [state |-> CASE Pending(i) -> "open"
                    [] intent[i].status = "completed" -> "paid"
                    [] OTHER -> "dropped",
        payer |-> intent[i].payer, payee |-> intent[i].payee,
        amount |-> intent[i].amount, confirmer |-> intent[i].confirmer]

Payments ==
  INSTANCE Payment WITH
    Ids <- IntentIds,
    offer <- [i \in IntentIds |-> Offer(i)],
    paid <- {[id |-> t.key[2], by |-> t.actor, from |-> t.from, to |-> t.to,
              amount |-> t.amount] : t \in IntentEntries}
PaymentSpec == Payments!Spec

=============================================================================
