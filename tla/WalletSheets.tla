---------------------------- MODULE WalletSheets ----------------------------
(***************************************************************************)
(* What the phones of the people do with points (wallet-views.tsx), on a    *)
(* server of which only what a phone can tell is kept: WalletQr and Store   *)
(* have its handlers in full.  One person shows a QR; another scans it and  *)
(* proposes a transfer, which they confirm themselves, or a debit, which    *)
(* the owner of the QR confirms (WalletQrSheet, PendingWalletIntentBanner). *)
(* Or they order a product in the variant they choose (StoreView).          *)
(* Requests and answers may be lost, and requests may arrive late.          *)
(***************************************************************************)
EXTENDS FiniteSets, Naturals

CONSTANTS People,
          Staff,        \* who may propose debits
          QrIds, IntentIds,
          Keys,         \* idempotency keys of proposals and checkouts
          Terms,        \* an amount, a reason and an event; a product and its variant
          Nothing

SheetsAssumption ==
  /\ Staff \subseteq People
  /\ Nothing \notin Terms \cup Keys \cup QrIds \cup IntentIds

VARIABLES qr,           \* qr_sessions
          intent,       \* wallet_intents
          sheet,        \* person -> the sheet of the wallet
          banner,       \* person -> the request the banner shows, or Nothing
          call,         \* person -> the mutation under way, of sheet or banner
          late,         \* requests nobody waits for
          approved,     \* what people pressed confirm on: <<person, terms, intent or QR>>
          order,        \* store_orders, with the wish each came from
          shop,         \* person -> the product the shop shows
          wishes        \* person -> how many products and variants were chosen

serverVars == <<qr, intent, order>>
qrVars == <<qr, intent>>
shopVars == <<shop, wishes>>
phoneVars == <<sheet, banner, call, late, approved, shop, wishes>>
vars == <<serverVars, phoneVars>>

Live == {"active", "claimed"}
Awaiting == {"awaiting_initiator", "awaiting_owner"}
NoQr == [status |-> "none"]
NoIntent == [status |-> "none"]

NoAttempt == [body |-> Nothing, key |-> Nothing]
NoCall == [kind |-> "none"]
Refused == [kind |-> "refused"]

(* A sheet that shows a QR, or scans one.                                  *)
ClosedSheet ==
  [mode |-> "closed", session |-> Nothing, claimed |-> FALSE, pending |-> Nothing,
   closing |-> FALSE, scanned |-> Nothing, kind |-> "p2p_transfer", terms |-> Nothing,
   preview |-> Nothing, attempt |-> NoAttempt, success |-> Nothing]

ClosedShop == [product |-> Nothing, attempt |-> NoAttempt, ordered |-> Nothing]

Init ==
  /\ qr = [q \in QrIds |-> NoQr]
  /\ intent = [i \in IntentIds |-> NoIntent]
  /\ sheet = [p \in People |-> ClosedSheet]
  /\ banner = [p \in People |-> Nothing]
  /\ call = [p \in People |-> NoCall]
  /\ late = {} /\ approved = {} /\ order = {}
  /\ shop = [p \in People |-> ClosedShop]
  /\ wishes = [p \in People |-> 0]

-----------------------------------------------------------------------------
(* Requests *)

(* beginSheetMutation: one mutation at a time, and none while it closes.    *)
Ask(p, request) ==
  /\ call[p] = NoCall
  /\ call' = [call EXCEPT ![p] = request]

Asked == {call[p] : p \in People} \cup late

Answer(request, reply) ==
  \/ /\ call[request.by] = request
     /\ call' = [call EXCEPT ![request.by] = [kind |-> "answered", of |-> request, reply |-> reply]]
     /\ UNCHANGED late
  \/ request \in late /\ late' = late \ {request} /\ UNCHANGED call

Hear(p, kind, reply) ==
  /\ call[p].kind = "answered" /\ call[p].of.kind = kind /\ call[p].reply.kind = reply
  /\ call' = [call EXCEPT ![p] = NoCall]

Refuse(request) ==
  /\ Answer(request, Refused)
  /\ UNCHANGED serverVars

-----------------------------------------------------------------------------
(* The server *)

(* POST /wallet/qr; a sheet that is gone by then withdraws the QR.          *)
CreateQr(request, q) ==
  /\ request.kind = "qr" /\ qr[q] = NoQr
  /\ qr' = [o \in QrIds |->
       IF o = q THEN [status |-> "active", owner |-> request.by]
       ELSE IF qr[o].status \in Live /\ qr[o].owner = request.by
            THEN [qr[o] EXCEPT !.status = "cancelled"] ELSE qr[o]]
  /\ \/ Answer(request, [kind |-> "session", qr |-> q])
     \/ /\ request \in late
        /\ late' = (late \ {request}) \cup {[kind |-> "delete", by |-> request.by, qr |-> q]}
        /\ UNCHANGED call
  /\ UNCHANGED <<intent, order>>

(* DELETE /wallet/qr/:id.                                                  *)
DeleteQr(request) ==
  LET q == request.qr
  IN  /\ request.kind = "delete"
      /\ IF qr[q].status \in Live
         THEN /\ qr' = [qr EXCEPT ![q].status = "cancelled"]
              /\ intent' = [i \in IntentIds |->
                   IF intent[i].status \in Awaiting /\ intent[i].qr = q
                   THEN [intent[i] EXCEPT !.status = "cancelled"] ELSE intent[i]]
         ELSE UNCHANGED qrVars
      /\ Answer(request, [kind |-> "deleted"])
      /\ UNCHANGED order

(* POST /wallet/intents.                                                   *)
CreateIntent(request, i) ==
  LET known == {j \in IntentIds :
                  intent[j] # NoIntent /\ intent[j].by = request.by /\ intent[j].key = request.key}
  IN  /\ request.kind = "propose"
      /\ \/ /\ i \in known
            /\ intent[i].body = request.body
            /\ UNCHANGED qrVars
         \/ /\ known = {} /\ intent[i] = NoIntent
            /\ qr[request.body.qr].status = "active" /\ qr[request.body.qr].owner # request.by
            /\ request.body.kind = "staff_debit" => request.by \in Staff
            /\ intent' = [intent EXCEPT ![i] =
                 [status |-> IF request.body.kind = "staff_debit" THEN "awaiting_owner"
                             ELSE "awaiting_initiator",
                  by |-> request.by, owner |-> qr[request.body.qr].owner, qr |-> request.body.qr,
                  key |-> request.key, body |-> request.body]]
            /\ qr' = [qr EXCEPT ![request.body.qr].status = "claimed"]
      /\ Answer(request, [kind |-> "intent", intent |-> i])
      /\ UNCHANGED order

Confirmer(i) == IF intent[i].body.kind = "staff_debit" THEN intent[i].owner ELSE intent[i].by

(* Bug a run must catch: whoever takes part may confirm.                   *)
AnyParticipant(p, i) == p \in {intent[i].by, intent[i].owner}

MayConfirm(p, i) == p = Confirmer(i)

(* POST /wallet/intents/:id/confirm; who confirms too late makes it expire. *)
ConfirmIntent(request) ==
  LET i == request.intent
  IN  /\ request.kind = "confirm"
      /\ UNCHANGED order
      /\ \/ /\ intent[i].status = "completed"
            /\ UNCHANGED qrVars
            /\ Answer(request, [kind |-> "done"])
         \/ /\ intent[i].status \in Awaiting /\ MayConfirm(request.by, i)
            /\ intent' = [intent EXCEPT ![i].status = "completed"]
            /\ qr' = [qr EXCEPT ![intent[i].qr].status = "consumed"]
            /\ Answer(request, [kind |-> "done"])
         \/ /\ intent[i].status # "completed"
            /\ intent' = [intent EXCEPT ![i].status = "expired"]
            /\ qr' = [qr EXCEPT ![intent[i].qr].status = "expired"]
            /\ Answer(request, Refused)

(* POST /wallet/intents/:id/reject, by the initiator or the confirmer.     *)
RejectIntent(request) ==
  LET i == request.intent
      q == intent[i].qr
      restore == intent[i].status = "awaiting_initiator" /\ request.by = intent[i].by
  IN  /\ request.kind = "reject"
      /\ intent[i].status \in Awaiting /\ request.by \in {intent[i].by, Confirmer(i)}
      /\ intent' = [intent EXCEPT ![i].status = "rejected"]
      /\ qr' = [qr EXCEPT ![q].status =
           IF ~restore THEN "cancelled" ELSE IF @ = "claimed" THEN "active" ELSE @]
      /\ Answer(request, [kind |-> "done"])
      /\ UNCHANGED order

(* POST /store/checkout.                                                   *)
Checkout(request) ==
  LET known == {o \in order : o.by = request.by /\ o.key = request.key}
      made == [by |-> request.by, key |-> request.key, product |-> request.product,
               wish |-> request.wish]
  IN  /\ request.kind = "checkout"
      /\ \/ known = {} /\ order' = order \cup {made}
         \/ (\E o \in known : o.product = request.product) /\ UNCHANGED order
      /\ Answer(request, [kind |-> "ordered"])
      /\ UNCHANGED qrVars

(* GET /wallet/intents/pending: of whoever takes part.                     *)
Pending(p) ==
  {i \in IntentIds : intent[i].status \in Awaiting /\ p \in {intent[i].by, intent[i].owner}}
Debits(p) == {i \in Pending(p) : intent[i].body.kind = "staff_debit"}

-----------------------------------------------------------------------------
(* Showing a QR *)

(* cancelQr, which nobody waits for.                                       *)
Withdrawn(p) ==
  IF sheet[p].session = Nothing \/ sheet[p].claimed THEN late
  ELSE late \cup {[kind |-> "delete", by |-> p, qr |-> sheet[p].session]}

(* createQr, when the sheet opens and when the person wants another QR.    *)
ShowQr(p) ==
  /\ sheet[p].mode \in {"closed", "show"} /\ ~sheet[p].closing
  /\ Ask(p, [kind |-> "qr", by |-> p])
  /\ late' = Withdrawn(p)
  /\ sheet' = [sheet EXCEPT ![p].mode = "show"]
  /\ UNCHANGED <<serverVars, banner, approved, shopVars>>

HearQr(p) ==
  /\ Hear(p, "qr", "session")
  /\ sheet' = [sheet EXCEPT ![p].session = call[p].reply.qr, ![p].claimed = FALSE]
  /\ UNCHANGED <<serverVars, banner, late, approved, shopVars>>

(* The poll of every other second, while the sheet shows a QR: a QR that a  *)
(* debit has claimed must not be withdrawn.                                *)
Poll(p) ==
  /\ sheet[p].mode = "show"
  /\ \/ /\ Debits(p) = {}
        /\ sheet' = [sheet EXCEPT ![p].pending = Nothing]
     \/ \E i \in Debits(p) :
          sheet' = [sheet EXCEPT ![p].pending = i,
                                 ![p].claimed = @ \/ sheet[p].session # Nothing]
  /\ UNCHANGED <<serverVars, banner, call, late, approved, shopVars>>

(* closeSheet asks once more for a debit before it withdraws the QR.        *)
BeginClose(p) ==
  /\ sheet[p].mode # "closed" /\ call[p] = NoCall /\ ~sheet[p].closing
  /\ LET asks == /\ sheet[p].mode = "show" /\ sheet[p].session # Nothing
                 /\ ~sheet[p].claimed /\ sheet[p].success = Nothing
     IN  \/ /\ ~asks \/ Debits(p) = {}
            /\ sheet' = [sheet EXCEPT ![p].closing = TRUE]
         \/ \E i \in Debits(p) :
              asks /\ sheet' = [sheet EXCEPT ![p].pending = i, ![p].claimed = TRUE]
  /\ UNCHANGED <<serverVars, banner, call, late, approved, shopVars>>

EndClose(p) ==
  /\ sheet[p].closing
  /\ late' = Withdrawn(p)
  /\ sheet' = [sheet EXCEPT ![p] = ClosedSheet]
  /\ UNCHANGED <<serverVars, banner, call, approved, shopVars>>

(* The page goes, with a request on its way or without.                    *)
Leave(p) ==
  /\ sheet[p] # ClosedSheet \/ call[p] # NoCall \/ shop[p] # ClosedShop
  /\ late' = Withdrawn(p) \cup (IF call[p].kind \in {"none", "answered"} THEN {} ELSE {call[p]})
  /\ call' = [call EXCEPT ![p] = NoCall]
  /\ sheet' = [sheet EXCEPT ![p] = ClosedSheet]
  /\ banner' = [banner EXCEPT ![p] = Nothing]
  /\ shop' = [shop EXCEPT ![p] = ClosedShop]
  /\ UNCHANGED <<serverVars, approved, wishes>>

-----------------------------------------------------------------------------
(* Scanning one *)

(* POST /wallet/qr/resolve.                                                *)
Scan(p, q) ==
  /\ sheet[p].mode \in {"closed", "scan"} /\ sheet[p].scanned = Nothing
  /\ call[p] = NoCall /\ ~sheet[p].closing
  /\ qr[q].status = "active" /\ qr[q].owner # p
  /\ sheet' = [sheet EXCEPT ![p].mode = "scan", ![p].scanned = q]
  /\ UNCHANGED <<serverVars, banner, call, late, approved, shopVars>>

Editing(p) ==
  /\ sheet[p].scanned # Nothing /\ sheet[p].success = Nothing
  /\ call[p] = NoCall /\ ~sheet[p].closing

Choose(p, kind, terms) ==
  /\ Editing(p) /\ sheet[p].preview = Nothing
  /\ kind = "staff_debit" => p \in Staff
  /\ sheet' = [sheet EXCEPT ![p].kind = kind, ![p].terms = terms]
  /\ UNCHANGED <<serverVars, banner, call, late, approved, shopVars>>

(* resolveIdempotencyAttempt, and the proposal with its key.               *)
Propose(p) ==
  LET body == [qr |-> sheet[p].scanned, kind |-> sheet[p].kind, terms |-> sheet[p].terms]
      fresh == {key \in Keys : \A i \in IntentIds : intent[i] # NoIntent => intent[i].key # key}
               \ {r.key : r \in {s \in Asked : s.kind = "propose"}}
  IN  \E attempt \in IF sheet[p].attempt.body = body THEN {sheet[p].attempt}
                     ELSE [body : {body}, key : fresh] :
        /\ sheet' = [sheet EXCEPT ![p].attempt = attempt]
        /\ Ask(p, [kind |-> "propose", by |-> p, body |-> body, key |-> attempt.key])

(* requestPreview: a debit is proposed at once, anything else is previewed, *)
(* and may be taken back.                                                  *)
RequestDebit(p) ==
  /\ Editing(p) /\ sheet[p].kind = "staff_debit" /\ sheet[p].terms # Nothing
  /\ Propose(p)
  /\ UNCHANGED <<serverVars, banner, late, approved, shopVars>>

Preview(p) ==
  /\ Editing(p) /\ sheet[p].kind # "staff_debit" /\ sheet[p].terms # Nothing
  /\ sheet' = [sheet EXCEPT ![p].preview = IF @ = Nothing THEN sheet[p].terms ELSE Nothing]
  /\ UNCHANGED <<serverVars, banner, call, late, approved, shopVars>>

(* confirmTransfer: two requests, one after the other.                     *)
ConfirmTransfer(p) ==
  /\ Editing(p) /\ sheet[p].preview # Nothing
  /\ Propose(p)
  /\ approved' = approved \cup {<<p, sheet[p].preview, sheet[p].scanned>>}
  /\ UNCHANGED <<serverVars, banner, late, shopVars>>

HearIntent(p) ==
  /\ call[p].kind = "answered" /\ call[p].reply.kind = "intent"
  /\ LET i == call[p].reply.intent
     IN  IF sheet[p].kind = "staff_debit"
         THEN /\ sheet' = [sheet EXCEPT ![p].attempt = NoAttempt,
                                        ![p].success = [says |-> "asked", intent |-> i]]
              /\ call' = [call EXCEPT ![p] = NoCall]
         ELSE /\ call' = [call EXCEPT ![p] = [kind |-> "confirm", by |-> p, intent |-> i,
                                              from |-> "scan"]]
              /\ UNCHANGED sheet
  /\ UNCHANGED <<serverVars, banner, late, approved, shopVars>>

-----------------------------------------------------------------------------
(* The shop *)

(* openProduct, and the choice of a variant, when no order is on its way.   *)
ChooseProduct(p, product) ==
  /\ call[p] = NoCall /\ sheet[p].mode = "closed" /\ shop[p].product # product
  /\ shop' = [shop EXCEPT ![p].product = product, ![p].ordered = Nothing,
                          ![p].attempt = IF shop[p].product = Nothing THEN NoAttempt ELSE @]
  /\ wishes' = [wishes EXCEPT ![p] = @ + 1]
  /\ UNCHANGED <<serverVars, sheet, banner, call, late, approved>>

CloseProduct(p) ==
  /\ call[p] = NoCall /\ shop[p].product # Nothing
  /\ shop' = [shop EXCEPT ![p] = ClosedShop]
  /\ UNCHANGED <<serverVars, sheet, banner, call, late, approved, wishes>>

UsedKeys == {o.key : o \in order} \cup {r.key : r \in {a \in Asked : a.kind = "checkout"}}

PlaceOrder(p) ==
  LET product == shop[p].product
  IN  /\ product # Nothing
      /\ \E attempt \in IF shop[p].attempt.body = product THEN {shop[p].attempt}
                        ELSE [body : {product}, key : Keys \ UsedKeys] :
           /\ shop' = [shop EXCEPT ![p].attempt = attempt]
           /\ Ask(p, [kind |-> "checkout", by |-> p, product |-> product,
                      key |-> attempt.key, wish |-> wishes[p]])
  /\ UNCHANGED <<serverVars, sheet, banner, late, approved, wishes>>

HearOrder(p) ==
  /\ Hear(p, "checkout", "ordered")
  /\ shop' = [shop EXCEPT ![p] = [ClosedShop EXCEPT !.ordered = call[p].of.key]]
  /\ UNCHANGED <<serverVars, sheet, banner, late, approved, wishes>>

-----------------------------------------------------------------------------
(* Decisions *)

(* decideOwnerDebit and decide of the banner.                              *)
Decide(p, i, decision, from) ==
  /\ Ask(p, [kind |-> decision, by |-> p, intent |-> i, from |-> from])
  /\ approved' = IF decision = "confirm" THEN approved \cup {<<p, intent[i].body.terms, i>>}
                 ELSE approved
  /\ UNCHANGED <<serverVars, sheet, banner, late, shopVars>>

DecideOnSheet(p, decision) ==
  /\ sheet[p].pending # Nothing /\ ~sheet[p].closing
  /\ Decide(p, sheet[p].pending, decision, "show")

PollBanner(p) ==
  /\ call[p] = NoCall
  /\ \/ Debits(p) = {} /\ banner' = [banner EXCEPT ![p] = Nothing]
     \/ \E i \in Debits(p) : banner' = [banner EXCEPT ![p] = i]
  /\ UNCHANGED <<serverVars, sheet, call, late, approved, shopVars>>

DecideOnBanner(p, decision) ==
  /\ banner[p] # Nothing /\ sheet[p].mode = "closed"
  /\ Decide(p, banner[p], decision, "banner")

(* What a sheet says of a decision that was heard.                         *)
Said(request) ==
  [says |-> IF request.kind = "confirm" THEN "confirmed" ELSE "rejected",
   intent |-> request.intent]

HearDecision(p) ==
  /\ \E kind \in {"confirm", "reject"} : Hear(p, kind, "done")
  /\ IF call[p].of.from = "banner"
     THEN banner' = [banner EXCEPT ![p] = Nothing] /\ UNCHANGED sheet
     ELSE /\ sheet' = [sheet EXCEPT ![p].pending = Nothing, ![p].attempt = NoAttempt,
                                    ![p].success = Said(call[p].of)]
          /\ UNCHANGED banner
  /\ UNCHANGED <<serverVars, late, approved, shopVars>>

(* The answer is an error, or is lost with the request or without it: the   *)
(* attempt stays for another try.                                          *)
HearError(p) ==
  /\ call[p] # NoCall
  /\ call' = [call EXCEPT ![p] = NoCall]
  /\ \/ call[p].kind = "answered" /\ call[p].reply = Refused /\ UNCHANGED late
     \/ /\ late' \in {late} \cup (IF call[p].kind = "answered" THEN {} ELSE {late \cup {call[p]}})
  /\ UNCHANGED <<serverVars, sheet, banner, approved, shopVars>>

Forget(request) ==
  /\ request \in late /\ late' = late \ {request}
  /\ UNCHANGED <<serverVars, sheet, banner, call, approved, shopVars>>

ServerNext ==
  \E request \in Asked :
    /\ request.kind \notin {"none", "answered"}
    /\ \/ \E q \in QrIds : CreateQr(request, q)
       \/ \E i \in IntentIds : CreateIntent(request, i)
       \/ DeleteQr(request) \/ ConfirmIntent(request) \/ RejectIntent(request)
       \/ Checkout(request) \/ Refuse(request)
    /\ UNCHANGED <<sheet, banner, approved, shopVars>>

Next ==
  \/ ServerNext
  \/ \E p \in People :
       \/ ShowQr(p) \/ HearQr(p) \/ Poll(p) \/ BeginClose(p) \/ EndClose(p) \/ Leave(p)
       \/ RequestDebit(p) \/ Preview(p) \/ ConfirmTransfer(p) \/ HearIntent(p)
       \/ PollBanner(p) \/ HearDecision(p) \/ HearError(p)
       \/ CloseProduct(p) \/ PlaceOrder(p) \/ HearOrder(p)
       \/ \E product \in Terms : ChooseProduct(p, product)
       \/ \E q \in QrIds : Scan(p, q)
       \/ \E kind \in {"p2p_transfer", "staff_debit"}, terms \in Terms : Choose(p, kind, terms)
       \/ \E decision \in {"confirm", "reject"} :
            DecideOnSheet(p, decision) \/ DecideOnBanner(p, decision)
  \/ \E request \in late : Forget(request)

Spec == Init /\ [][Next]_vars

-----------------------------------------------------------------------------
(* Properties *)

(* wallet-views.tsx: points are paid only on terms that the person who had  *)
(* to confirm saw and confirmed, on the preview of the QR they scanned or   *)
(* on a request for a debit of their own, and whatever a sheet says was     *)
(* done was done: a payment it calls confirmed is paid, and one it calls    *)
(* rejected never is; and what the shop says was ordered is an order, and   *)
(* one choice never makes two, however often it had to be sent.            *)
PaidAsShown ==
  /\ \A i \in IntentIds : intent[i].status = "completed" =>
       \E a \in approved :
         /\ a[1] = Confirmer(i) /\ a[2] = intent[i].body.terms
         /\ a[3] \in {i, intent[i].qr}
  /\ \A p \in People : sheet[p].success # Nothing =>
       LET said == sheet[p].success
           status == intent[said.intent].status
       IN  /\ said.says = "confirmed" => status = "completed"
           /\ said.says = "rejected" => status \in {"rejected", "expired"}
           /\ said.says = "asked" => status # "none"
  /\ \A o, other \in order : o.by = other.by /\ o.wish = other.wish => o = other
  /\ \A p \in People : shop[p].ordered # Nothing =>
       \E o \in order : o.by = p /\ o.key = shop[p].ordered
=============================================================================
