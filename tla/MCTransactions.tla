--------------------------- MODULE MCTransactions ---------------------------
(***************************************************************************)
(* Requests that meet in the database, one of two kinds in a behaviour:     *)
(* wallet transactions, lock by lock, of two participants a and b, QR q1 of *)
(* b with an intent of a, an order's QR o1, an event e and a product p; and *)
(* sign-ins and links of accounts, statement by statement.                  *)
(***************************************************************************)
EXTENDS Naturals, FiniteSets, TLC

CONSTANTS Backends, Tasks, IdOrder, Telegrams, Maxes, Phones, Handlers, Nobody

VARIABLES task, taken, ended, user, identity, session, request, focus

Locks == INSTANCE WalletLocks
lockVars == <<task, taken, ended>>

(* The backends lend their names to the profiles that are made, so that    *)
(* their permutations serve both.                                          *)
People == Backends
SignIns == INSTANCE Profiles WITH Users <- People
signInVars == <<user, identity, session, request>>

ASSUME Locks!LocksAssumption /\ SignIns!ProfilesAssumption

Symmetry == UNION {Permutations(S) : S \in {Backends, Telegrams, Handlers}}
-----------------------------------------------------------------------------

(* Ids are random; this is one of the orders the rows may come in. *)
PayersFirst == <<"admin", "a", "b", "e", "leader", "store", "welcome">>

Transfer(from, to, qr) ==
  [op |-> "propose", qr |-> qr, initiator |-> from, owner |-> to,
   payer |-> from, payee |-> to, events |-> {}]
Pay(from, to, qr) ==
  [op |-> "confirm", qr |-> qr, payer |-> from, payee |-> to, events |-> {}]

Requests ==
  {[op |-> "open", user |-> "b"], [op |-> "register", user |-> "c"],
   [op |-> "adjust", user |-> "a"], [op |-> "create-qr", user |-> "b", qr |-> "q1"],
   [op |-> "withdraw", qr |-> "q1"], Transfer("a", "b", "q1"), Pay("a", "b", "q1"),
   [op |-> "checkout", user |-> "a", product |-> "p"],
   [op |-> "pickup", qr |-> "o1", product |-> "p"],
   [op |-> "award", user |-> "a", events |-> {"e"}], [op |-> "fund", event |-> "f"],
   [op |-> "policy", event |-> "e"]}

ResetTask == [op |-> "reset", qr |-> "q1", events |-> {"e", "f"}]
RewardTask == [op |-> "reward", user |-> "b", event |-> "e"]

AnyTask == Requests \cup {ResetTask, RewardTask}

(* With either of the two, the requests are in order, the users too.       *)
ASSUME \A t \in {ResetTask, RewardTask} : Locks!Orderly(Requests \cup {t}, <<"a", "b">>)

(* A reset and the reward of an artifact wait for one another: not both.   *)
RewardOrReset == ~\E b, c \in Backends : task[b] = ResetTask /\ task[c] = RewardTask

MeetInit ==
  /\ Locks!Init /\ SignIns!Init
  /\ RewardOrReset
  /\ focus \in {"locks", "sign-ins"}
  /\ focus = "sign-ins" => task = [b \in Backends |-> [op |-> "adjust", user |-> "a"]]

(* Two sessions at a time, and a profile that is blocked or retired.        *)
FewSignIns ==
  /\ Cardinality(session') <= 2
  /\ \A u, v \in People : user'[u].status = "blocked" /\ user'[v].status = "blocked" => u = v

MeetNext ==
  \/ focus = "locks" /\ Locks!Next /\ UNCHANGED <<signInVars, focus>>
  \/ focus = "sign-ins" /\ SignIns!Next /\ FewSignIns /\ UNCHANGED <<lockVars, focus>>

MeetSpec == MeetInit /\ [][MeetNext]_<<lockVars, signInVars, focus>>

(* See WalletLocks and Profiles. *)
NoWaitCycle == Locks!NoWaitCycle
ResetIsAlone == Locks!ResetIsAlone
ActiveWalletsHaveAWayIn == SignIns!ActiveWalletsHaveAWayIn
SessionsFollowTheirAccount == SignIns!SessionsFollowTheirAccount
=============================================================================
