---------------------------- MODULE WalletLocks ----------------------------
(***************************************************************************)
(* The database locks that wallet transactions take, in the order they     *)
(* take them: advisory locks, SELECT ... FOR UPDATE or FOR SHARE, and the  *)
(* FOR KEY SHARE locks that PostgreSQL takes on the rows a foreign key of  *)
(* an inserted row refers to.  All are held until the transaction ends.    *)
(*                                                                         *)
(* WalletLedger and WalletQr take each locked transaction as one step;     *)
(* this module asks whether the locks get there: nobody waits in a circle, *)
(* and a reset has the wallets to itself.                                  *)
(***************************************************************************)
EXTENDS Naturals, FiniteSets, SequencesExt

CONSTANTS Backends,   \* database connections, one transaction each
          Tasks,      \* the transactions a run lets them choose from
          IdOrder     \* the owners of accounts, a sequence in the order of row ids

LocksAssumption ==
  /\ IdOrder \in Seq(ToSet(IdOrder)) /\ IsInjective(IdOrder)
  /\ \A t \in Tasks :
       /\ t.op \in {"open", "register", "adjust", "create-qr", "propose", "confirm", "withdraw",
                   "checkout", "pickup", "reward", "award", "fund", "policy", "reset"}
       /\ t.op \in {"propose", "confirm", "award", "reset"} => IsFiniteSet(t.events)

VARIABLES task,       \* connection -> the transaction it runs
          taken,      \* connection -> how many of its locks it has
          ended       \* connections whose transaction committed or rolled back

vars == <<task, taken, ended>>

-----------------------------------------------------------------------------
(* Locks *)

Program == <<"program">>               \* advisory, wallet-program
ProgramRow == <<"program row">>
Wallet(u) == <<"wallet-user", u>>      \* advisory
QrLock(q) == <<"wallet-qr-session", q>>  \* advisory
QrRow(q) == <<"qr row", q>>
IntentRow(q) == <<"intent row", q>>    \* a QR has one intent at most
EventRow(e) == <<"event row", e>>
AccountRow(o) == <<"account row", o>>

Shared(l) == [lock |-> l, mode |-> "shared"]
Exclusive(l) == [lock |-> l, mode |-> "exclusive"]

Conflict(r, s) == r.lock = s.lock /\ "exclusive" \in {r.mode, s.mode}

(* FOR UPDATE on rows ordered by id. *)
AccountRows(owners) ==
  LET Places == {p \in DOMAIN IdOrder : IdOrder[p] \in owners}
      Nth(n) == CHOOSE p \in Places : Cardinality({q \in Places : q < p}) = n - 1
  IN  [n \in 1 .. Cardinality(Places) |-> Exclusive(AccountRow(IdOrder[Nth(n)]))]

EventRefs(events) ==
  LET Listed == SetToSeq(events)
  IN  [n \in DOMAIN Listed |-> Shared(EventRow(Listed[n]))]

(* ensureUserAccountInTransaction *)
Account(u) == <<Shared(Program), Exclusive(Wallet(u))>>

(* postLedgerTransaction: the key, the accounts, and then what the row of  *)
(* ledger_transactions refers to.                                          *)
Posting(key, owners, events) ==
  <<Shared(Program), Exclusive(<<"wallet-ledger", key>>)>>
    \o AccountRows(owners) \o <<Shared(ProgramRow)>> \o EventRefs(events)

(* lockWalletQrMutation *)
QrMutation(q) == <<Shared(Program), Exclusive(QrLock(q))>>

-----------------------------------------------------------------------------
(* The transactions *)

(* ensureWalletBootstrap, when it grants the welcome amount. *)
Open(t) == Account(t.user) \o Posting(<<"welcome", t.user>>, {"welcome", t.user}, {})

(* Bug a run must catch: the trigger reads the programme without a lock. *)
RegisterUnlocked(t) ==
  <<Exclusive(<<"wallet-ledger", <<"welcome", t.user>>>>), Exclusive(AccountRow("welcome"))>>

(* The trigger on users: the programme row, and the welcome account.  The  *)
(* account it creates nobody else can see.                                 *)
Register(t) ==
  <<Shared(ProgramRow), Exclusive(<<"wallet-ledger", <<"welcome", t.user>>>>),
    Exclusive(AccountRow("welcome"))>>

Adjust(t) ==
  Account(t.user) \o Posting(<<"admin-adjustment", t.user>>, {"admin", t.user}, {})

(* POST /wallet/qr; a user has one live QR at most (WalletQr). *)
CreateQr(t) ==
  <<Shared(Program), Exclusive(<<"wallet-qr", t.user>>), Exclusive(QrRow(t.qr)),
    Shared(ProgramRow)>>

(* POST /wallet/intents; the row it inserts refers to the programme, to    *)
(* both accounts, the payer's first, and to the event.                     *)
Propose(t) ==
  QrMutation(t.qr) \o <<Exclusive(QrRow(t.qr))>>
    \o Account(t.initiator) \o Account(t.owner)
    \o <<Shared(ProgramRow), Shared(AccountRow(t.payer)), Shared(AccountRow(t.payee))>>
    \o EventRefs(t.events)

Confirm(t) ==
  QrMutation(t.qr) \o <<Exclusive(IntentRow(t.qr))>>
    \o Posting(<<"intent", t.qr>>, {t.payer, t.payee}, t.events)
    \o <<Exclusive(QrRow(t.qr))>>

(* DELETE /wallet/qr/:id and POST /wallet/intents/:id/reject. *)
Withdraw(t) ==
  QrMutation(t.qr) \o <<Exclusive(IntentRow(t.qr)), Exclusive(QrRow(t.qr))>>

Checkout(t) ==
  <<Exclusive(<<"product row", t.product>>), Exclusive(<<"inventory row", t.product>>)>>
    \o Account(t.user) \o Posting(<<"store", t.user>>, {"store", t.user}, {})

(* resolve-pickup; the QR belongs to an order. *)
Pickup(t) ==
  <<Exclusive(QrRow(t.qr)), Exclusive(<<"order row", t.qr>>),
    Exclusive(<<"inventory row", t.product>>)>>

(* grantArtifactReward: FOR UPDATE of a join locks the submission, the     *)
(* policy and the event before the programme.                              *)
Reward(t) ==
  <<Exclusive(<<"submission row", t.user>>), Exclusive(<<"policy row", t.event>>),
    Exclusive(EventRow(t.event))>>
    \o Account(t.user) \o Posting(<<"artifact", t.user>>, {t.event, t.user}, {t.event})

(* Bug a run must catch: the programme row is locked before the programme. *)
AwardRowFirst(t) ==
  <<Shared(ProgramRow), Shared(Program)>> \o EventRefs(t.events)
    \o Account(t.user) \o Posting(<<"leader-id", t.user>>, {"leader", t.user}, {})

(* awardOnce of the Leader-ID module. *)
Award(t) ==
  <<Shared(Program), Shared(ProgramRow)>> \o EventRefs(t.events)
    \o Account(t.user) \o Posting(<<"leader-id", t.user>>, {"leader", t.user}, {})

(* PUT reward-policy, the first of the event: the new fund and the new      *)
(* policy refer to the programme and the event.                            *)
Fund(t) == <<Shared(ProgramRow), Shared(EventRow(t.event))>>

(* The next ones find the fund, and update the policy. *)
Policy(t) == <<Exclusive(<<"policy row", t.event>>)>>

(* The confirmation of a reset: the accounts it closes, the events of the  *)
(* funds it creates, the intents and QRs it expires.                       *)
Reset(t) ==
  <<Exclusive(Program), Exclusive(ProgramRow)>> \o AccountRows(ToSet(IdOrder))
    \o EventRefs(t.events)
    \o <<Exclusive(IntentRow(t.qr)), Exclusive(QrRow(t.qr))>>

Script == [t \in Tasks |->
  CASE t.op = "open" -> Open(t)
    [] t.op = "register" -> Register(t)
    [] t.op = "adjust" -> Adjust(t)
    [] t.op = "create-qr" -> CreateQr(t)
    [] t.op = "propose" -> Propose(t)
    [] t.op = "confirm" -> Confirm(t)
    [] t.op = "withdraw" -> Withdraw(t)
    [] t.op = "checkout" -> Checkout(t)
    [] t.op = "pickup" -> Pickup(t)
    [] t.op = "reward" -> Reward(t)
    [] t.op = "award" -> Award(t)
    [] t.op = "fund" -> Fund(t)
    [] t.op = "policy" -> Policy(t)
    [] t.op = "reset" -> Reset(t)]

-----------------------------------------------------------------------------

Init ==
  /\ task \in [Backends -> Tasks]
  /\ taken = [b \in Backends |-> 0]
  /\ ended = {}

Held(b) ==
  LET script == Script[task[b]]
  IN  IF b \in ended THEN {} ELSE {script[n] : n \in 1 .. taken[b]}

Wanting(b) == b \notin ended /\ taken[b] < Len(Script[task[b]])
Wanted(b) == Script[task[b]][taken[b] + 1]

(* b waits for a lock of c. *)
WaitsFor(b, c) ==
  LET wanted == Wanted(b)
  IN  b # c /\ Wanting(b) /\ \E r \in Held(c) : Conflict(r, wanted)

Take(b) ==
  /\ Wanting(b)
  /\ \A c \in Backends : ~WaitsFor(b, c)
  /\ taken' = [taken EXCEPT ![b] = @ + 1]
  /\ UNCHANGED <<task, ended>>

Commit(b) ==
  /\ b \notin ended /\ ~Wanting(b)
  /\ ended' = ended \cup {b}
  /\ UNCHANGED <<task, taken>>

(* An error of the handler, or a lost connection. *)
Rollback(b) ==
  /\ b \notin ended
  /\ ended' = ended \cup {b}
  /\ UNCHANGED <<task, taken>>

Next == \E b \in Backends : Take(b) \/ Commit(b) \/ Rollback(b)

Spec == Init /\ [][Next]_vars

-----------------------------------------------------------------------------
(* Properties *)

TypeOK ==
  /\ task \in [Backends -> Tasks]
  /\ \A b \in Backends : taken[b] \in 0 .. Len(Script[task[b]])
  /\ ended \subseteq Backends

(* docs/wallet.md: accounts are locked in a stable order; the comment in   *)
(* awardOnce: the programme lock first, row locks second.  No set of       *)
(* transactions waits for one another in a circle.                         *)
NoWaitCycle ==
  \A waiters \in (SUBSET Backends) \ {{}} :
     \E b \in waiters : \A c \in waiters : ~WaitsFor(b, c)

Precedes(a, b, order) == \E m, n \in DOMAIN order : m < n /\ order[m] = a /\ order[n] = b

(* Transactions that may run together without a circle, if the users are   *)
(* in some order: no reset with the reward of an artifact, nor a transfer   *)
(* with an event with one; transfers in one direction, by their users and   *)
(* by the ids of their accounts; and orders have QRs of their own.          *)
Orderly(T, order) ==
  /\ order \in Seq(ToSet(order)) /\ IsInjective(order)
  /\ \A t, s \in T : t.op = "reward" =>
       s.op # "reset" /\ (s.op \in {"propose", "confirm"} => s.events = {})
  /\ \A t \in T : t.op = "propose" =>
       Precedes(t.initiator, t.owner, order) /\ Precedes(t.payer, t.payee, IdOrder)
  /\ \A t, s \in T :
       t.op = "pickup" /\ s.op \in {"create-qr", "propose", "confirm", "withdraw", "reset"} =>
         t.qr # s.qr

(* A reset that has the programme has the wallets to itself, registrations *)
(* included: nobody else holds an account or the lock of a user's wallet.  *)
Wallets == {AccountRow(o) : o \in ToSet(IdOrder)} \cup {Wallet(o) : o \in ToSet(IdOrder)}

ResetIsAlone ==
  \A b, c \in Backends :
     /\ b # c
     /\ Exclusive(ProgramRow) \in Held(b)
     => \A r \in Held(c) : r.lock \notin Wallets

=============================================================================
