---------------------------- MODULE WalletLedger ----------------------------
(***************************************************************************)
(* Wallets, their journal and the season reset, with the requests that     *)
(* change them running concurrently.                                       *)
(*                                                                         *)
(* A request reads the programme and its season (loadActiveWalletContext)  *)
(* before it holds any lock, and writes under the locks later; the two are *)
(* separate steps here, so that resets, settings changes and other         *)
(* requests fall between them.  What one database transaction does once it *)
(* holds its locks is one step.  A process may die between two steps       *)
(* (Crash), and a client may send any request again.                       *)
(***************************************************************************)
EXTENDS Ledger, Functions

CONSTANTS Handlers,     \* requests in flight at a time
          AdjustKeys,   \* Idempotency-Keys of administrators' adjustments
          Amounts,      \* the signed amounts they adjust by
          Jobs,         \* reset jobs, one per Idempotency-Key of a preview
          Changes,      \* the bodies of settings updates, partial records
          Settings0,    \* the settings of the programme at the start
          Ops           \* the operations a run exercises

SettingName == {"welcome", "leader", "limit"}
Settings == [SettingName -> Nat]

ASSUME AmountsAssumption == Amounts \subseteq Int \ {0}
ASSUME SettingsAssumption ==
  /\ Settings0 \in Settings
  /\ \A change \in Changes : /\ DOMAIN change \subseteq SettingName
                             /\ \A n \in DOMAIN change : change[n] \in Nat
VARIABLES registered,   \* users with a row in the users table
          settings,     \* welcome amount, Leader-ID reward, limit of one operation
          job,          \* wallet_reset_jobs
          request,      \* the requests in flight
          acked         \* the adjustments clients were told are done

vars == <<ledgerVars, registered, settings, job, request, acked>>

-----------------------------------------------------------------------------

WelcomeKey(u) == <<"welcome", u>>
AdjustmentKey(k) == <<"admin-adjustment", k>>

Key == ({"welcome"} \X Users) \cup ({"admin-adjustment"} \X AdjustKeys)

(* What the request hash covers; the registration trigger writes no hash.  *)
NoBody == <<>>
Body == {NoBody} \cup (Users \X Int)

Actor == Users \cup {"staff", "trigger"}

OpenTask == [op : {"open"}, user : Users]
AdjustTask == [op : {"adjust"}, user : Users, key : AdjustKeys, amount : Amounts]
FundTask == [op : {"fund"}, event : Events]
PreviewTask == [op : {"preview"}, job : Jobs]
PatchTask == [op : {"patch"}, change : Changes]

(* The part of the programme row a request carries from its unlocked read. *)
Seen == [season : Season, welcome : Nat]

Idle == [stage |-> "idle"]
InFlight ==
  [stage : {"boot"}, task : OpenTask \cup AdjustTask, seen : Seen]
    \cup [stage : {"booted", "adjust"}, task : AdjustTask, seen : Seen]
    \cup [stage : {"fund"}, task : FundTask, seen : Seen]
    \cup [stage : {"preview"}, task : PreviewTask, seen : Seen]
    \cup [stage : {"patch"}, task : PatchTask, seen : Seen]

NoJob == [status |-> "none", from |-> 0, to |-> 0]
Job == [status : {"none", "previewed", "completed"},
        from : 0 .. MaxSeason, to : 0 .. MaxSeason]

TypeOK ==
  /\ LedgerTypeOK(Key, Body, Actor)
  /\ registered \subseteq Users
  /\ settings \in Settings
  /\ job \in [Jobs -> Job]
  /\ request \in [Handlers -> {Idle} \cup InFlight]
  /\ acked \subseteq Key \X Body

Init ==
  /\ LedgerInit
  /\ registered = {}
  /\ settings = Settings0
  /\ job = [j \in Jobs |-> NoJob]
  /\ request = [h \in Handlers |-> Idle]
  /\ acked = {}

-----------------------------------------------------------------------------

Context == [season |-> season, welcome |-> settings["welcome"]]

At(h, stage) == request[h].stage = stage

Advance(h, stage, task, seen) ==
  request' = [request EXCEPT ![h] = [stage |-> stage, task |-> task, seen |-> seen]]

Finish(h) == request' = [request EXCEPT ![h] = Idle]

(* What a request writes, it writes to the season it read: the locked part *)
(* goes on only if that season is still the active one.                    *)
SeenSeason(h) == request[h].seen.season

WelcomeGrant(s, u, amount, body, actor) ==
  [key |-> WelcomeKey(u), body |-> body, actor |-> actor, season |-> s,
   from |-> <<s, "welcome">>, to |-> <<s, u>>, amount |-> amount]

(* A row of the users table is inserted.  The AFTER INSERT trigger reads    *)
(* the programme FOR SHARE, so the season and the amount are current.      *)
Register(u) ==
  LET grant == WelcomeGrant(season, u, settings["welcome"], NoBody, "trigger")
  IN  /\ u \notin registered
      /\ registered' = registered \cup {u}
      /\ account' = WithAccounts({<<season, u>>})
      /\ IF settings["welcome"] > 0 /\ ~Posted(WelcomeKey(u))
         THEN Post(grant)
         ELSE UNCHANGED <<balance, ledger>>
      /\ UNCHANGED <<season, settings, job, request, acked>>

(* ensureWalletBootstrap reads the context: the first thing that opening   *)
(* the wallet, or any wallet request, does.                                *)
BeginOpen(h, u) ==
  /\ At(h, "idle") /\ "open" \in Ops
  /\ u \in registered
  /\ Advance(h, "boot", [op |-> "open", user |-> u], Context)
  /\ UNCHANGED <<ledgerVars, registered, settings, job, acked>>

(* POST /admin/wallet/adjustments bootstraps the wallet of its target.     *)
BeginAdjust(h, u, k, amount) ==
  /\ At(h, "idle") /\ "adjust" \in Ops
  /\ u \in registered
  /\ Advance(h, "boot",
             [op |-> "adjust", user |-> u, key |-> k, amount |-> amount], Context)
  /\ UNCHANGED <<ledgerVars, registered, settings, job, acked>>

AfterBoot(h) ==
  IF request[h].task.op = "adjust"
  THEN Advance(h, "booted", request[h].task, request[h].seen)
  ELSE Finish(h)

(* The rest of ensureWalletBootstrap: the account of the season, and the   *)
(* welcome grant the user never had, of the amount read at the start.      *)
Bootstrap(h) ==
  LET s == SeenSeason(h)
      u == request[h].task.user
      amount == request[h].seen.welcome
      grant == WelcomeGrant(s, u, amount, <<u, amount>>, u)
  IN  /\ At(h, "boot") /\ StillActive(s)
      /\ IF amount > 0 /\ ~Posted(WelcomeKey(u))
         THEN /\ account' = WithAccounts({<<s, u>>, <<s, "welcome">>})
              /\ CanPost(account', grant)
              /\ Post(grant)
         ELSE /\ account' = WithAccounts({<<s, u>>})
              /\ UNCHANGED <<balance, ledger>>
      /\ AfterBoot(h)
      /\ UNCHANGED <<season, registered, settings, job, acked>>

(* The second transaction of an adjustment reads the context again and     *)
(* checks the amount against the limit it finds.                           *)
LoadAdjust(h) ==
  LET amount == request[h].task.amount
      size == IF amount < 0 THEN -amount ELSE amount
  IN  /\ At(h, "booted")
      /\ IF size <= settings["limit"]
         THEN Advance(h, "adjust", request[h].task, Context)
         ELSE Finish(h)
      /\ UNCHANGED <<ledgerVars, registered, settings, job, acked>>

(* Bug a run must catch: the sign of the adjustment stays on the amount. *)
SignedAdjustment(s, task) ==
  [key |-> AdjustmentKey(task.key), body |-> <<task.user, task.amount>>,
   actor |-> "staff", season |-> s,
   from |-> <<s, task.user>>, to |-> <<s, "redemption">>, amount |-> task.amount]

(* Points come from the staff fund, or go to the redemption account.       *)
Adjustment(s, task) ==
  LET own == <<s, task.user>>
  IN  [key |-> AdjustmentKey(task.key), body |-> <<task.user, task.amount>>,
       actor |-> "staff", season |-> s,
       from |-> IF task.amount > 0 THEN <<s, "admin">> ELSE own,
       to |-> IF task.amount > 0 THEN own ELSE <<s, "redemption">>,
       amount |-> IF task.amount > 0 THEN task.amount ELSE -task.amount]

(* The locked part of an adjustment that answers the client: it posts, or  *)
(* finds its key posted with the same body and answers as before.          *)
Adjust(h) ==
  LET t == Adjustment(SeenSeason(h), request[h].task)
  IN  /\ At(h, "adjust") /\ StillActive(SeenSeason(h))
      /\ account' = WithAccounts({t.from, t.to})
      /\ \/ CanPost(account', t) /\ Post(t)
         \/ Replays(t.key, t.body) /\ UNCHANGED <<balance, ledger>>
      /\ acked' = acked \cup {<<t.key, t.body>>}
      /\ Finish(h)
      /\ UNCHANGED <<season, registered, settings, job>>

(* Everything else ends in an error that rolls the transaction back: the   *)
(* key was used with another body, or the points do not suffice.           *)
RefuseAdjust(h) ==
  LET t == Adjustment(SeenSeason(h), request[h].task)
  IN  /\ At(h, "adjust") /\ StillActive(SeenSeason(h))
      /\ ~CanPost(WithAccounts({t.from, t.to}), t)
      /\ ~Replays(t.key, t.body)
      /\ Finish(h)
      /\ UNCHANGED <<ledgerVars, registered, settings, job, acked>>

(* POINT_SEASON_CHANGED. *)
RefuseStale(h) ==
  /\ At(h, "boot") \/ At(h, "adjust")
  /\ ~StillActive(SeenSeason(h))
  /\ Finish(h)
  /\ UNCHANGED <<ledgerVars, registered, settings, job, acked>>

(* PUT reward-policy: the fund of the event is created in the season read  *)
(* before the transaction, without the programme lock.                     *)
BeginFund(h, e) ==
  /\ At(h, "idle") /\ "fund" \in Ops
  /\ Advance(h, "fund", [op |-> "fund", event |-> e], Context)
  /\ UNCHANGED <<ledgerVars, registered, settings, job, acked>>

EnsureFund(h) ==
  LET r == request[h]
  IN  /\ At(h, "fund")
      /\ account' = WithAccounts({<<r.seen.season, r.task.event>>})
      /\ Finish(h)
      /\ UNCHANGED <<season, balance, ledger, registered, settings, job, acked>>

(* POST /admin/wallet/resets/preview takes no lock at all. *)
BeginPreview(h, j) ==
  /\ At(h, "idle") /\ "preview" \in Ops
  /\ Advance(h, "preview", [op |-> "preview", job |-> j], Context)
  /\ UNCHANGED <<ledgerVars, registered, settings, job, acked>>

Preview(h) ==
  LET j == request[h].task.job
      previewed == [status |-> "previewed", from |-> request[h].seen.season, to |-> 0]
  IN  /\ At(h, "preview")
      /\ job' = IF job[j] = NoJob THEN [job EXCEPT ![j] = previewed] ELSE job
      /\ Finish(h)
      /\ UNCHANGED <<ledgerVars, registered, settings, acked>>

(* The confirmation of a reset, under the exclusive programme lock and the *)
(* lock of the programme row.  A completed job is answered as it is; a     *)
(* preview of another season is RESET_STALE.                               *)
Previewed(j) == job[j].status = "previewed" /\ job[j].from = season

ConfirmReset(j) ==
  /\ Previewed(j)
  /\ SwitchSeason
  /\ job' = [job EXCEPT ![j].status = "completed", ![j].to = season + 1]
  /\ UNCHANGED <<registered, settings, request, acked>>

(* PATCH /admin/wallet/settings checks what the programme will be, as far  *)
(* as the unlocked read tells, and then writes only the fields it was sent. *)
Applied(change) ==
  [n \in SettingName |-> IF n \in DOMAIN change THEN change[n] ELSE settings[n]]

WithinLimit(s) == s["welcome"] <= s["limit"] /\ s["leader"] <= s["limit"]

BeginPatch(h, change) ==
  /\ At(h, "idle") /\ "patch" \in Ops
  /\ WithinLimit(Applied(change))
  /\ Advance(h, "patch", [op |-> "patch", change |-> change], Context)
  /\ UNCHANGED <<ledgerVars, registered, settings, job, acked>>

Patch(h) ==
  /\ At(h, "patch")
  /\ settings' = Applied(request[h].task.change)
  /\ Finish(h)
  /\ UNCHANGED <<ledgerVars, registered, job, acked>>

(* The process dies, or the connection is lost, between two transactions. *)
Crash(h) ==
  /\ ~At(h, "idle")
  /\ Finish(h)
  /\ UNCHANGED <<ledgerVars, registered, settings, job, acked>>

Next ==
  \/ \E u \in Users : Register(u)
  \/ \E j \in Jobs : ConfirmReset(j)
  \/ \E h \in Handlers :
       \/ \E u \in Users :
            \/ BeginOpen(h, u)
            \/ \E k \in AdjustKeys, amount \in Amounts : BeginAdjust(h, u, k, amount)
       \/ \E e \in Events : BeginFund(h, e)
       \/ \E j \in Jobs : BeginPreview(h, j)
       \/ \E change \in Changes : BeginPatch(h, change)
       \/ Bootstrap(h) \/ LoadAdjust(h) \/ Adjust(h) \/ RefuseAdjust(h)
       \/ RefuseStale(h) \/ EnsureFund(h) \/ Preview(h) \/ Patch(h) \/ Crash(h)

Spec == Init /\ [][Next]_vars

-----------------------------------------------------------------------------
(* Properties *)

(* Only issuance accounts and event funds can be overdrawn: no order of    *)
(* adjustments, bootstraps and resets takes a personal, redemption or      *)
(* store account below zero (the check of postLedgerTransaction).          *)
NoOverdraft ==
  \A a \in Account : AllowNegative(a) \/ balance[a] >= 0

(* The cached balance of every account, of closed seasons too, is the sum  *)
(* of its entries in the journal (wallet_accounts.balance against          *)
(* ledger_entries, which the admin dashboard reconciles).                  *)
EntrySum(a) ==
  LET amountOf == [t \in ledger |-> t.amount]
  IN  SumFunctionOnSet(amountOf, {t \in ledger : t.to = a})
        - SumFunctionOnSet(amountOf, {t \in ledger : t.from = a})

CachedBalanceIsEntrySum ==
  \A a \in Account : balance[a] = EntrySum(a)

(* A user is welcomed at most once in the life of the programme, whoever   *)
(* gets there first, the trigger or a bootstrap, before or after a reset.  *)
WelcomedOnce ==
  \A t1, t2 \in ledger :
     t1.from[2] = "welcome" /\ t2.from[2] = "welcome" /\ t1.to[2] = t2.to[2]
       => t1 = t2

(* From the reset that closes a season on, and in that reset itself, no    *)
(* balance of it changes and nothing is posted to it, though requests that *)
(* read it as the active one are still running.                            *)
ClosedSeasonIsFrozen ==
  [][/\ \A a \in Account : a[1] < season' => balance'[a] = balance[a]
     /\ \A t \in ledger' \ ledger : t.season = season'
                                 /\ t.from[1] = season' /\ t.to[1] = season']_vars

(* No personal or system account is open outside the active season, where  *)
(* its owner could not see it; only event funds can be, since PUT          *)
(* reward-policy creates them without the programme lock.                  *)
OnlyFundsOutliveTheirSeason ==
  \A a \in Account :
     account[a] = "active" /\ a[1] # season => a[2] \in Events

(* Every registered user has an open wallet in the active season: a        *)
(* registration that races a reset is wholly before or wholly after it.    *)
EveryUserHasAWallet ==
  \A u \in registered : account[<<season, u>>] = "active"

(* A client that was told its adjustment is done, at first or on a retry,  *)
(* has exactly that adjustment in the journal, once.                       *)
AckedIsPosted ==
  \A answer \in acked :
     /\ \E t \in ledger : t.key = answer[1] /\ t.body = answer[2]
     /\ \A t1, t2 \in ledger : t1.key = answer[1] /\ t2.key = answer[1] => t1 = t2

(* Every season but the active one was closed by the confirmation of one   *)
(* preview, and that preview was of this season (RESET_STALE otherwise).   *)
OneResetPerSeason ==
  \A s \in 1 .. season - 1 :
     Cardinality({j \in Jobs : job[j].status = "completed" /\ job[j].from = s}) = 1

(* The journal is only ever appended to, with fresh keys, in the active    *)
(* season: WalletLedger implements SeasonLedger.                           *)
Journal == INSTANCE SeasonLedger
JournalSpec == Journal!Spec

(* A settings update changes only the fields it was sent: two concurrent   *)
(* updates of different fields both survive.                               *)
UpdatesKeepOtherFields ==
  [][\A n \in SettingName :
       settings'[n] # settings[n] =>
         \E h \in Handlers : At(h, "patch") /\ n \in DOMAIN request[h].task.change]_vars

=============================================================================
