------------------------------- MODULE Ledger -------------------------------
(***************************************************************************)
(* The tables every wallet operation shares (point_seasons,                *)
(* wallet_accounts, ledger_transactions with its entries) and the two      *)
(* things that change them: the posting primitive of wallet-service.ts and *)
(* the season switch of the admin reset.  The module has no Init and no    *)
(* Next: WalletLedger and WalletQr extend it and compose its formulas      *)
(* into the transactions of their handlers.                                *)
(*                                                                         *)
(* A database transaction that takes the locks of the code is one step.    *)
(* There is one programme (the default one), so it has no name here.       *)
(***************************************************************************)
EXTENDS Integers, FiniteSets

CONSTANTS Users,       \* the people: owners of personal accounts
          Events,      \* the events: owners of event funds
          MaxSeason    \* bound: the last season of a behaviour

Season == 1 .. MaxSeason

(* The system accounts a season is opened with. *)
SystemKeys == {"welcome", "admin", "redemption", "store"}

ASSUME SeasonAssumption == MaxSeason \in Nat \ {0}
ASSUME OwnersAreDisjoint ==
  /\ Users \cap Events = {}
  /\ (Users \cup Events) \cap SystemKeys = {}

Owner == Users \cup Events \cup SystemKeys

(* An account belongs to one owner in one season. *)
Account == Season \X Owner

(* Issuance accounts and event funds may go below zero. *)
AllowNegative(a) == a[2] \in Events \cup {"welcome", "admin"}

VARIABLES season,      \* the active season of the programme
          account,     \* account -> "none", "active" or "closed"
          balance,     \* account -> the cached balance
          ledger       \* the sealed transactions

ledgerVars == <<season, account, balance, ledger>>

AccountStatus == {"none", "active", "closed"}

(* A transaction moves amount points from one account to another: every    *)
(* caller of the primitive posts exactly two opposite entries.             *)
Transaction(Key, Body, Actor) ==
  [key : Key, body : Body, actor : Actor, season : Season,
   from : Account, to : Account, amount : Nat \ {0}]

LedgerTypeOK(Key, Body, Actor) ==
  /\ season \in Season
  /\ account \in [Account -> AccountStatus]
  /\ balance \in [Account -> Int]
  /\ ledger \subseteq Transaction(Key, Body, Actor)

-----------------------------------------------------------------------------

(* INSERT ... ON CONFLICT DO NOTHING for the accounts in A. *)
WithAccounts(A) ==
  [a \in Account |-> IF a \in A /\ account[a] = "none" THEN "active"
                                                       ELSE account[a]]

(* Bug a run must catch: the lookup by key also looks at the season. *)
PostedThisSeason(key) == \E t \in ledger : t.key = key /\ t.season = season

Posted(key) == \E t \in ledger : t.key = key

(* Bug a run must catch: the request hash is not compared. *)
ReplaysAnyBody(key, body) == Posted(key)

(* The key was used with the same request body: the call is a replay. *)
Replays(key, body) == \E t \in ledger : t.key = key /\ t.body = body

(* assertContextStillActive: the season a handler read before its locks is *)
(* still the active one.                                                   *)
StillActive(s) == s = season

(* Bug a run must catch: nothing compares the balance with the amount. *)
CanPostUnfunded(accounts, t) ==
  /\ StillActive(t.season) /\ ~Posted(t.key)
  /\ accounts[t.from] = "active" /\ accounts[t.to] = "active"

(* The checks of postLedgerTransaction on a new transaction, after its     *)
(* locks; accounts holds the rows as this database transaction sees them.  *)
CanPost(accounts, t) ==
  /\ StillActive(t.season)
  /\ ~Posted(t.key)
  /\ t.from # t.to
  /\ t.from[1] = t.season /\ accounts[t.from] = "active"
  /\ t.to[1] = t.season /\ accounts[t.to] = "active"
  /\ AllowNegative(t.from) \/ balance[t.from] >= t.amount

Moved(t) ==
  [balance EXCEPT ![t.from] = @ - t.amount, ![t.to] = @ + t.amount]

(* The new transaction, its entries and the two cached balances commit     *)
(* together.                                                               *)
Post(t) ==
  /\ balance' = Moved(t)
  /\ ledger' = ledger \cup {t}

(* The accounts of the season that opens: the four system accounts, and    *)
(* one for every user and event fund that had one in the season that ends. *)
OpeningOwners ==
  SystemKeys \cup {o \in Users \cup Events : account[<<season, o>>] # "none"}

(* Every account of the season that ends is closed. *)
SwitchedAccounts ==
  [a \in Account |->
     CASE a[1] = season /\ account[a] # "none" -> "closed"
       [] a[1] = season + 1 /\ a[2] \in OpeningOwners -> "active"
       [] OTHER -> account[a]]

(* Bugs a run must catch: the reset zeroes the old balances as well, or     *)
(* carries them over.                                                      *)
ZeroedBalances ==
  [a \in Account |-> IF a[1] \in {season, season + 1} THEN 0 ELSE balance[a]]
CarriedBalances ==
  [a \in Account |-> IF a[1] = season + 1 THEN balance[<<season, a[2]>>] ELSE balance[a]]

OpenedBalances ==
  [a \in Account |-> IF a[1] = season + 1 THEN 0 ELSE balance[a]]

SwitchSeason ==
  /\ season < MaxSeason
  /\ season' = season + 1
  /\ account' = SwitchedAccounts
  /\ balance' = OpenedBalances
  /\ UNCHANGED ledger

-----------------------------------------------------------------------------

(* Season 1 as the migration leaves it: system accounts, nothing posted. *)
LedgerInit ==
  /\ season = 1
  /\ account = [a \in Account |-> IF a[1] = 1 /\ a[2] \in SystemKeys
                                  THEN "active" ELSE "none"]
  /\ balance = [a \in Account |-> 0]
  /\ ledger = {}

(* Season 1 after every user registered and nobody did anything else. *)
WelcomeOf(u, amount) ==
  [key |-> <<"welcome", u>>, body |-> <<>>, actor |-> u, season |-> 1,
   from |-> <<1, "welcome">>, to |-> <<1, u>>, amount |-> amount]

WelcomedInit(amount) ==
  /\ season = 1
  /\ account = [a \in Account |-> IF a[1] = 1 /\ a[2] \in Users \cup SystemKeys
                                  THEN "active" ELSE "none"]
  /\ balance = [a \in Account |->
                  CASE a[1] = 1 /\ a[2] \in Users -> amount
                    [] a = <<1, "welcome">> -> -(amount * Cardinality(Users))
                    [] OTHER -> 0]
  /\ ledger = {WelcomeOf(u, amount) : u \in Users}
=============================================================================
