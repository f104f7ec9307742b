----------------------------- MODULE MCEveryday -----------------------------
(***************************************************************************)
(* What people do with the bot and the Mini App on an ordinary day, one     *)
(* part in a behaviour: use the desk of an event, send a submission, pay    *)
(* one another, and look after pictures.  The parts share no state here;    *)
(* what is not in focus stays as it began.                                  *)
(***************************************************************************)
EXTENDS Submissions, Naturals, TLC

CONSTANTS Keys,         \* of bookings, requests for help and intents
          Ids,          \* of rows: bookings, versions, QRs, pictures
          Texts,        \* what people write, choose or attach
          Screens,      \* devices at the desk
          People, Staff, IntentIds, MaxItems

VARIABLES booking, answer, help, participant, announced, removed, card, deskCall, deskLate,
          listed, wishes,
          media, expired, issued, stored, cover, completed, handling, sweep, unwanted,
          qr, intent, wallet, banner, walletCall, walletLate, approved, order, shop, chosen,
          focus

Main == CHOOSE d \in Screens : TRUE
OneBody == CHOOSE b \in Bodies : TRUE

OfDesk == INSTANCE Desk
  WITH Devices <- Screens, Bookings <- Ids, Requests <- Ids,
       call <- deskCall, late <- deskLate
deskVars == <<booking, answer, help, participant, announced, removed, card, deskCall,
              deskLate, listed, wishes>>

Pics == INSTANCE Pictures
  WITH Media <- Ids, Covers <- Texts, Handlers <- Keys,
       object <- stored, request <- handling
pictureVars == <<media, expired, issued, stored, cover, completed, handling, sweep, unwanted>>

OfWallets == INSTANCE WalletSheets
  WITH QrIds <- Ids, Terms <- Texts,
       sheet <- wallet, call <- walletCall, late <- walletLate, wishes <- chosen
walletVars == <<qr, intent, wallet, banner, walletCall, walletLate, approved, order, shop,
                chosen>>

ASSUME OfDesk!DeskAssumption
ASSUME Pics!PicturesAssumption
ASSUME SubmissionsAssumption
ASSUME OfWallets!SheetsAssumption

Symmetry == UNION {Permutations(S) : S \in {Keys, Ids, Texts}}

EverydayInit ==
  /\ OfDesk!Init /\ Pics!Init /\ Init /\ OfWallets!Init
  /\ focus \in {"booking", "answer", "help", "media", "cover", "forms", "files",
                "transfer", "debit", "shop"}
  /\ \A d \in Devices : draft[d].key = CHOOSE k \in Drafts : TRUE
-----------------------------------------------------------------------------
(* Two wishes for one thing, one late request, and for answers a second    *)
(* device.                                                                 *)
DeskStep ==
  /\ \/ focus = "booking" /\ OfDesk!BookingNext
     \/ focus = "answer" /\ OfDesk!AnswerNext
     \/ focus = "help" /\ OfDesk!HelpNext
  /\ Cardinality(deskLate') <= 1 /\ wishes' <= 2
  /\ \A d \in Screens : card'[d].wish \in {OneBody, Nothing}
  /\ focus # "answer" => \A d \in Screens \ {Main} :
       card'[d] = OfDesk!EmptyCard /\ deskCall'[d] = OfDesk!NoCall
  /\ UNCHANGED <<pictureVars, vars, walletVars>>

PictureStep ==
  /\ \/ focus = "media" /\ Pics!MediaNext
     \/ focus = "cover" /\ Pics!CoverNext
  /\ UNCHANGED <<deskVars, vars, walletVars>>

(* Forms are edited while one body is sent without cancelling; or one form  *)
(* stays and its files are sent, cancelled and arrive late, the submission  *)
(* before its first file.  What was accepted once ends it.                 *)
SheetStep ==
  /\ \/ /\ focus = "forms" /\ Next
        /\ late' = {} /\ cancelled' = {}
        /\ \A d \in Devices : sheet'[d].step # "init" /\ draft'[d].body \in {OneBody, Nothing}
     \/ /\ focus = "files" /\ SheetNext
        /\ Cardinality(late') <= 1
        /\ \A r \in late' :
             r.kind \in {"init", "abort"} \/ (r.kind = "post" /\ object' = {})
  /\ accepted # {} => sheet' = sheet
  /\ UNCHANGED <<deskVars, pictureVars, walletVars>>

(* One shows and another scans: two QRs and transfers, whose confirmations  *)
(* may come late, or one QR, a debit, which may be proposed late, and the   *)
(* banner.  Or somebody orders one of two variants, three times.           *)
WalletStep ==
  /\ focus \in {"transfer", "debit", "shop"} /\ OfWallets!Next
  /\ Cardinality(walletLate') <= 1
  /\ \A p \in Staff : wallet'[p].mode # "show"
  /\ \A p \in People \ Staff : wallet'[p].mode # "scan"
  /\ focus = "transfer" =>
       /\ \A r \in walletLate' : r.kind \in {"qr", "delete", "confirm"}
       /\ \A p \in People : wallet'[p].kind = "p2p_transfer" /\ banner'[p] = Nothing
  /\ focus = "debit" =>
       /\ \A r \in walletLate' : r.kind \in {"delete", "propose"}
       /\ \A p \in People : wallet'[p].terms # Nothing => wallet'[p].kind = "staff_debit"
       /\ Cardinality({q \in Ids : qr'[q] # OfWallets!NoQr}) <= 1
  /\ IF focus = "shop" THEN UNCHANGED <<qr, wallet>> /\ \A p \in People : chosen'[p] <= 3
     ELSE UNCHANGED <<shop, chosen>>
  /\ focus = "shop" => \A p \in Staff : chosen'[p] = 0
  /\ UNCHANGED <<deskVars, pictureVars, vars>>

EverydayNext ==
  /\ DeskStep \/ PictureStep \/ SheetStep \/ WalletStep
  /\ UNCHANGED focus

EverydaySpec ==
  /\ EverydayInit
  /\ [][EverydayNext]_<<deskVars, pictureVars, vars, walletVars, focus>>

(* See Desk, Pictures and WalletSheets. *)
ShownIsStored == OfDesk!ShownIsStored
OneBookingPerWish == OfDesk!OneBookingPerWish
ShownPicturesHaveObjects == Pics!ShownPicturesHaveObjects
PaidAsShown == OfWallets!PaidAsShown
=============================================================================
