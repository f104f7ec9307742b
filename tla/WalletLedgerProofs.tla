------------------------- MODULE WalletLedgerProofs -------------------------
(***************************************************************************)
(* Theorems about WalletLedger, for any users, events, requests, reset     *)
(* jobs, settings and number of seasons.                                   *)
(***************************************************************************)
EXTENDS WalletLedger, FiniteSetTheorems, Sums, TLAPS

(* The database part of the type invariant, at the types of this module.   *)
Tx == Transaction(Key, Body, Actor)

LEMMA AccountOf ==
  ASSUME NEW s \in Season, NEW o \in Owner
  PROVE  /\ <<s, o>> \in Account
         /\ <<s, o>>[1] = s
         /\ <<s, o>>[2] = o
BY DEF Account

LEMMA OwnerKinds ==
  /\ Users \subseteq Owner /\ Events \subseteq Owner
  /\ {"welcome", "admin", "redemption", "store"} \subseteq Owner
BY DEF Owner, SystemKeys

LEMMA WithAccountsType ==
  ASSUME NEW A, account \in [Account -> AccountStatus]
  PROVE  /\ WithAccounts(A) \in [Account -> AccountStatus]
         /\ \A a \in Account :
              WithAccounts(A)[a] = IF a \in A /\ account[a] = "none" THEN "active"
                                                                    ELSE account[a]
BY DEF WithAccounts, AccountStatus

(* Posting keeps the types, and moves the amount between its two accounts. *)
LEMMA PostType ==
  ASSUME NEW t \in Tx, balance \in [Account -> Int], ledger \subseteq Tx, Post(t)
  PROVE  balance' \in [Account -> Int] /\ ledger' \subseteq Tx
<1>1. t.from \in Account /\ t.to \in Account /\ t.amount \in Int
  BY DEF Tx, Transaction
<1>2. balance' \in [Account -> Int]
  BY <1>1 DEF Post, Moved
<1> QED BY <1>2 DEF Post

LEMMA WelcomeGrantType ==
  ASSUME NEW s \in Season, NEW u \in Users, NEW amount \in Nat \ {0},
         NEW body \in Body, NEW actor \in Actor
  PROVE  WelcomeGrant(s, u, amount, body, actor) \in Tx
<1>1. <<s, "welcome">> \in Account /\ <<s, u>> \in Account
  BY AccountOf, OwnerKinds
<1>2. WelcomeKey(u) \in Key
  BY DEF WelcomeKey, Key
<1> QED BY <1>1, <1>2 DEF WelcomeGrant, Tx, Transaction

LEMMA AdjustmentType ==
  ASSUME NEW s \in Season, NEW task \in AdjustTask
  PROVE  Adjustment(s, task) \in Tx
<1>1. /\ <<s, "admin">> \in Account /\ <<s, "redemption">> \in Account
      /\ <<s, task.user>> \in Account
  BY AccountOf, OwnerKinds DEF AdjustTask
<1>2. AdjustmentKey(task.key) \in Key
  BY DEF AdjustmentKey, Key, AdjustTask
<1>3. task.amount \in Int /\ task.amount # 0
  BY AmountsAssumption DEF AdjustTask
<1>4. <<task.user, task.amount>> \in Body
  BY <1>3 DEF Body, AdjustTask
<1> QED BY <1>1, <1>2, <1>3, <1>4
        DEF Adjustment, Tx, Transaction, Actor, AdjustTask

-----------------------------------------------------------------------------
(* Type correctness *)

(* What a request at a stage carries. *)
LEMMA RequestType ==
  ASSUME TypeOK, NEW h \in Handlers
  PROVE  /\ At(h, "boot") => /\ request[h].task \in OpenTask \cup AdjustTask
                             /\ request[h].seen \in Seen
         /\ At(h, "booted") \/ At(h, "adjust") => /\ request[h].task \in AdjustTask
                                                  /\ request[h].seen \in Seen
         /\ At(h, "fund") => /\ request[h].task \in FundTask
                             /\ request[h].seen \in Seen
         /\ At(h, "preview") => /\ request[h].task \in PreviewTask
                                /\ request[h].seen \in Seen
         /\ At(h, "patch") => request[h].task \in PatchTask
         /\ At(h, "boot") \/ At(h, "adjust") => SeenSeason(h) \in Season
<1>1. request[h] \in {Idle} \cup InFlight
  BY DEF TypeOK
<1> QED BY <1>1 DEF At, Idle, InFlight, SeenSeason, Seen

LEMMA ContextType == TypeOK => Context \in Seen
BY DEF TypeOK, LedgerTypeOK, Context, Seen, Settings, SettingName

LEMMA FinishType ==
  ASSUME TypeOK, NEW h \in Handlers, Finish(h)
  PROVE  request' \in [Handlers -> {Idle} \cup InFlight]
BY DEF TypeOK, Finish

LEMMA AdvanceType ==
  ASSUME TypeOK, NEW h \in Handlers, NEW stage, NEW task, NEW seen,
         [stage |-> stage, task |-> task, seen |-> seen] \in InFlight,
         Advance(h, stage, task, seen)
  PROVE  request' \in [Handlers -> {Idle} \cup InFlight]
BY DEF TypeOK, Advance

LEMMA BodyType ==
  /\ NoBody \in Body
  /\ \A u \in Users, n \in Int : <<u, n>> \in Body
  /\ Users \subseteq Actor /\ "staff" \in Actor /\ "trigger" \in Actor
BY DEF Body, Actor

LEMMA InitType == Init => TypeOK
<1> SUFFICES ASSUME Init PROVE TypeOK
  OBVIOUS
<1>1. LedgerTypeOK(Key, Body, Actor)
  BY SeasonAssumption DEF Init, LedgerInit, LedgerTypeOK, Season, AccountStatus
<1>2. job \in [Jobs -> Job]
  BY SeasonAssumption DEF Init, NoJob, Job
<1>3. settings \in Settings
  BY SettingsAssumption DEF Init
<1> QED BY <1>1, <1>2, <1>3 DEF Init, TypeOK

LEMMA NextType == TypeOK /\ [Next]_vars => TypeOK'
<1> SUFFICES ASSUME TypeOK, [Next]_vars PROVE TypeOK'
  OBVIOUS
<1> USE DEF TypeOK
<1>1. ASSUME NEW u \in Users, Register(u) PROVE TypeOK'
  <2>1. account' \in [Account -> AccountStatus]
    BY <1>1, WithAccountsType DEF Register, LedgerTypeOK
  <2>2. balance' \in [Account -> Int] /\ ledger' \subseteq Tx
    <3>1. CASE settings["welcome"] > 0 /\ ~Posted(WelcomeKey(u))
      <4>1. settings["welcome"] \in Nat \ {0}
        BY <3>1 DEF Settings, SettingName
      <4>2. WelcomeGrant(season, u, settings["welcome"], NoBody, "trigger") \in Tx
        BY <4>1, WelcomeGrantType, BodyType DEF LedgerTypeOK
      <4> QED BY <1>1, <3>1, <4>2, PostType DEF Register, LedgerTypeOK, Tx
    <3>2. CASE ~(settings["welcome"] > 0 /\ ~Posted(WelcomeKey(u)))
      BY <1>1, <3>2 DEF Register, LedgerTypeOK, Tx
    <3> QED BY <3>1, <3>2
  <2> QED BY <1>1, <2>1, <2>2 DEF Register, LedgerTypeOK, Tx
<1>2. ASSUME NEW j \in Jobs, ConfirmReset(j) PROVE TypeOK'
  <2>1. season' \in Season /\ season' \in 0 .. MaxSeason
    BY <1>2, SeasonAssumption DEF ConfirmReset, SwitchSeason, LedgerTypeOK, Season
  <2>2. account' \in [Account -> AccountStatus]
    BY <1>2 DEF ConfirmReset, SwitchSeason, SwitchedAccounts, LedgerTypeOK, AccountStatus
  <2>3. balance' \in [Account -> Int]
    BY <1>2 DEF ConfirmReset, SwitchSeason, OpenedBalances, LedgerTypeOK
  <2>4. job' \in [Jobs -> Job]
    BY <1>2, <2>1 DEF ConfirmReset, SwitchSeason, Job
  <2> QED BY <1>2, <2>1, <2>2, <2>3, <2>4 DEF ConfirmReset, SwitchSeason, LedgerTypeOK
<1>3. ASSUME NEW h \in Handlers, NEW u \in Users, BeginOpen(h, u) PROVE TypeOK'
  <2>1. [stage |-> "boot", task |-> [op |-> "open", user |-> u], seen |-> Context] \in InFlight
    BY ContextType DEF InFlight, OpenTask
  <2> QED BY <1>3, <2>1, AdvanceType DEF BeginOpen, LedgerTypeOK, ledgerVars
<1>4. ASSUME NEW h \in Handlers, NEW u \in Users, NEW k \in AdjustKeys,
             NEW amount \in Amounts, BeginAdjust(h, u, k, amount)
      PROVE  TypeOK'
  <2> DEFINE task == [op |-> "adjust", user |-> u, key |-> k, amount |-> amount]
  <2>1. [stage |-> "boot", task |-> task, seen |-> Context] \in InFlight
    BY ContextType DEF InFlight, AdjustTask
  <2> QED BY <1>4, <2>1, AdvanceType DEF BeginAdjust, LedgerTypeOK, ledgerVars
<1>5. ASSUME NEW h \in Handlers, NEW e \in Events, BeginFund(h, e) PROVE TypeOK'
  <2>1. [stage |-> "fund", task |-> [op |-> "fund", event |-> e], seen |-> Context] \in InFlight
    BY ContextType DEF InFlight, FundTask
  <2> QED BY <1>5, <2>1, AdvanceType DEF BeginFund, LedgerTypeOK, ledgerVars
<1>6. ASSUME NEW h \in Handlers, NEW j \in Jobs, BeginPreview(h, j) PROVE TypeOK'
  <2>1. [stage |-> "preview", task |-> [op |-> "preview", job |-> j], seen |-> Context] \in InFlight
    BY ContextType DEF InFlight, PreviewTask
  <2> QED BY <1>6, <2>1, AdvanceType DEF BeginPreview, LedgerTypeOK, ledgerVars
<1>7. ASSUME NEW h \in Handlers, NEW change \in Changes, BeginPatch(h, change) PROVE TypeOK'
  <2>1. [stage |-> "patch", task |-> [op |-> "patch", change |-> change], seen |-> Context] \in InFlight
    BY ContextType DEF InFlight, PatchTask
  <2> QED BY <1>7, <2>1, AdvanceType DEF BeginPatch, LedgerTypeOK, ledgerVars
<1>8. ASSUME NEW h \in Handlers, Bootstrap(h) PROVE TypeOK'
  <2> DEFINE s == SeenSeason(h)
             u == request[h].task.user
             amount == request[h].seen.welcome
             grant == WelcomeGrant(s, u, amount, <<u, amount>>, u)
  <2>1. u \in Users /\ amount \in Nat /\ s \in Season
    BY <1>8, RequestType DEF Bootstrap, OpenTask, AdjustTask, Seen
  <2>2. account' \in [Account -> AccountStatus]
    BY <1>8, WithAccountsType DEF Bootstrap, LedgerTypeOK
  <2>3. balance' \in [Account -> Int] /\ ledger' \subseteq Tx
    <3>1. CASE amount > 0 /\ ~Posted(WelcomeKey(u))
      <4>1. amount \in Nat \ {0} /\ <<u, amount>> \in Body /\ u \in Actor
        BY <2>1, <3>1, BodyType
      <4>2. grant \in Tx
        BY <2>1, <4>1, WelcomeGrantType
      <4> QED BY <1>8, <3>1, <4>2, PostType DEF Bootstrap, LedgerTypeOK, Tx
    <3>2. CASE ~(amount > 0 /\ ~Posted(WelcomeKey(u)))
      BY <1>8, <3>2 DEF Bootstrap, LedgerTypeOK, Tx
    <3> QED BY <3>1, <3>2
  <2>4. request' \in [Handlers -> {Idle} \cup InFlight]
    <3>1. CASE request[h].task.op = "adjust"
      <4>1. [stage |-> "booted", task |-> request[h].task, seen |-> request[h].seen] \in InFlight
        BY <1>8, <3>1, RequestType DEF Bootstrap, InFlight, OpenTask, AdjustTask
      <4> QED BY <1>8, <3>1, <4>1, AdvanceType DEF Bootstrap, AfterBoot
    <3>2. CASE request[h].task.op # "adjust"
      BY <1>8, <3>2, FinishType DEF Bootstrap, AfterBoot
    <3> QED BY <3>1, <3>2
  <2> QED BY <1>8, <2>2, <2>3, <2>4 DEF Bootstrap, LedgerTypeOK, Tx
<1>9. ASSUME NEW h \in Handlers, LoadAdjust(h) PROVE TypeOK'
  <2>1. [stage |-> "adjust", task |-> request[h].task, seen |-> Context] \in InFlight
    BY <1>9, RequestType, ContextType DEF LoadAdjust, InFlight
  <2>2. request' \in [Handlers -> {Idle} \cup InFlight]
    BY <1>9, <2>1, AdvanceType, FinishType DEF LoadAdjust
  <2> QED BY <1>9, <2>2 DEF LoadAdjust, LedgerTypeOK, ledgerVars
<1>10. ASSUME NEW h \in Handlers, Adjust(h) PROVE TypeOK'
  <2> DEFINE t == Adjustment(SeenSeason(h), request[h].task)
  <2>1. request[h].task \in AdjustTask /\ SeenSeason(h) \in Season
    BY <1>10, RequestType DEF Adjust
  <2>2. t \in Tx
    BY <2>1, AdjustmentType
  <2>3. account' \in [Account -> AccountStatus]
    BY <1>10, WithAccountsType DEF Adjust, LedgerTypeOK
  <2>4. balance' \in [Account -> Int] /\ ledger' \subseteq Tx
    BY <1>10, <2>2, PostType DEF Adjust, LedgerTypeOK, Tx
  <2>5. acked' \subseteq Key \X Body
    BY <1>10, <2>2 DEF Adjust, Tx, Transaction
  <2>6. request' \in [Handlers -> {Idle} \cup InFlight]
    BY <1>10, FinishType DEF Adjust
  <2> QED BY <1>10, <2>3, <2>4, <2>5, <2>6 DEF Adjust, LedgerTypeOK, Tx
<1>11. ASSUME NEW h \in Handlers, RefuseAdjust(h) \/ RefuseStale(h) \/ Crash(h) PROVE TypeOK'
  BY <1>11, FinishType DEF RefuseAdjust, RefuseStale, Crash, LedgerTypeOK, ledgerVars
<1>12. ASSUME NEW h \in Handlers, EnsureFund(h) PROVE TypeOK'
  BY <1>12, FinishType, WithAccountsType DEF EnsureFund, LedgerTypeOK
<1>13. ASSUME NEW h \in Handlers, Preview(h) PROVE TypeOK'
  <2>1. [status |-> "previewed", from |-> request[h].seen.season, to |-> 0] \in Job
    BY <1>13, RequestType, SeasonAssumption DEF Preview, Seen, Season, Job
  <2>2. job' \in [Jobs -> Job]
    BY <1>13, <2>1, RequestType DEF Preview
  <2> QED BY <1>13, <2>2, FinishType DEF Preview, LedgerTypeOK, ledgerVars
<1>14. ASSUME NEW h \in Handlers, Patch(h) PROVE TypeOK'
  <2>1. settings' \in Settings
    BY <1>14, RequestType, SettingsAssumption
       DEF Patch, Applied, PatchTask, Settings
  <2> QED BY <1>14, <2>1, FinishType DEF Patch, LedgerTypeOK, ledgerVars
<1>15. CASE UNCHANGED vars
  BY <1>15 DEF vars, ledgerVars, LedgerTypeOK
<1> QED BY <1>1, <1>2, <1>3, <1>4, <1>5, <1>6, <1>7, <1>8, <1>9, <1>10, <1>11,
           <1>12, <1>13, <1>14, <1>15 DEF Next

(* The state of the wallet tables, of the requests and of the reset jobs   *)
(* has its types, whatever requests, resets and crashes interleave.        *)
THEOREM TypeCorrect == Spec => []TypeOK
BY InitType, NextType, PTL DEF Spec

-----------------------------------------------------------------------------
(* What a step does to the journal *)

(* A transaction whose checks held: in the active season, under a fresh    *)
(* key, with funds; only a welcome grant, under the key of the user it     *)
(* welcomes, draws on the welcome account.                                 *)
Sound(t) ==
  /\ t.season = season /\ t.from[1] = season /\ t.to[1] = season
  /\ \A old \in ledger : old.key # t.key
  /\ t.from # t.to
  /\ AllowNegative(t.from) \/ balance[t.from] >= t.amount
  /\ t.from[2] = "welcome" => t.key = WelcomeKey(t.to[2])

Still == UNCHANGED <<season, balance, ledger>>

PostsSound == \E t \in Tx : Sound(t) /\ Post(t) /\ UNCHANGED season

LEMMA WelcomeGrantSound ==
  ASSUME TypeOK, NEW u \in Users, NEW amount, NEW body, NEW actor,
         ~Posted(WelcomeKey(u))
  PROVE  Sound(WelcomeGrant(season, u, amount, body, actor))
<1>1. <<season, "welcome">> # <<season, u>>
  BY OwnersAreDisjoint DEF SystemKeys
<1> QED BY <1>1 DEF Sound, WelcomeGrant, Posted, AllowNegative

LEMMA AdjustmentSound ==
  ASSUME TypeOK, NEW s \in Season, NEW task \in AdjustTask, NEW accounts,
         CanPost(accounts, Adjustment(s, task))
  PROVE  Sound(Adjustment(s, task))
<1>1. task.user # "welcome"
  BY OwnersAreDisjoint DEF AdjustTask, SystemKeys
<1>2. Adjustment(s, task).from[2] # "welcome"
  BY <1>1 DEF Adjustment
<1> QED BY <1>2 DEF Sound, CanPost, StillActive, Posted

LEMMA JournalStep ==
  TypeOK /\ [Next]_vars => Still \/ PostsSound \/ SwitchSeason
<1> SUFFICES ASSUME TypeOK, [Next]_vars PROVE Still \/ PostsSound \/ SwitchSeason
  OBVIOUS
<1> USE DEF Still
<1>1. ASSUME NEW u \in Users, Register(u) PROVE Still \/ PostsSound
  <2>1. CASE settings["welcome"] > 0 /\ ~Posted(WelcomeKey(u))
    <3> DEFINE grant == WelcomeGrant(season, u, settings["welcome"], NoBody, "trigger")
    <3>1. settings["welcome"] \in Nat \ {0}
      BY <2>1 DEF TypeOK, Settings, SettingName
    <3>2. grant \in Tx
      BY <3>1, WelcomeGrantType, BodyType DEF TypeOK, LedgerTypeOK
    <3>3. Sound(grant)
      BY <2>1, WelcomeGrantSound
    <3>4. Post(grant) /\ UNCHANGED season
      BY <1>1, <2>1 DEF Register
    <3> QED BY <3>2, <3>3, <3>4 DEF PostsSound
  <2>2. CASE ~(settings["welcome"] > 0 /\ ~Posted(WelcomeKey(u)))
    BY <1>1, <2>2 DEF Register
  <2> QED BY <2>1, <2>2
<1>2. ASSUME NEW h \in Handlers, Bootstrap(h) PROVE Still \/ PostsSound
  <2> DEFINE s == SeenSeason(h)
             u == request[h].task.user
             amount == request[h].seen.welcome
             grant == WelcomeGrant(s, u, amount, <<u, amount>>, u)
  <2>1. u \in Users /\ amount \in Nat /\ s \in Season
    BY <1>2, RequestType DEF Bootstrap, OpenTask, AdjustTask, Seen
  <2>2. CASE amount > 0 /\ ~Posted(WelcomeKey(u))
    <3>1. amount \in Nat \ {0} /\ <<u, amount>> \in Body /\ u \in Actor
      BY <2>1, <2>2, BodyType
    <3>2. grant \in Tx
      BY <2>1, <3>1, WelcomeGrantType
    <3>3. Sound(grant)
      <4>1. s = season
        BY <1>2 DEF Bootstrap, StillActive
      <4> QED BY <2>1, <2>2, <4>1, WelcomeGrantSound
    <3>4. Post(grant) /\ UNCHANGED season
      BY <1>2, <2>2 DEF Bootstrap
    <3> QED BY <3>2, <3>3, <3>4 DEF PostsSound
  <2>3. CASE ~(amount > 0 /\ ~Posted(WelcomeKey(u)))
    BY <1>2, <2>3 DEF Bootstrap
  <2> QED BY <2>2, <2>3
<1>3. ASSUME NEW h \in Handlers, Adjust(h) PROVE Still \/ PostsSound
  <2> DEFINE t == Adjustment(SeenSeason(h), request[h].task)
  <2>1. request[h].task \in AdjustTask /\ SeenSeason(h) \in Season
    BY <1>3, RequestType DEF Adjust
  <2>2. t \in Tx
    BY <2>1, AdjustmentType
  <2>3. CASE CanPost(account', t) /\ Post(t)
    BY <1>3, <2>1, <2>2, <2>3, AdjustmentSound DEF Adjust, PostsSound
  <2>4. CASE UNCHANGED <<balance, ledger>>
    BY <1>3, <2>4 DEF Adjust
  <2> QED BY <1>3, <2>3, <2>4 DEF Adjust
<1>4. ASSUME NEW j \in Jobs, ConfirmReset(j) PROVE SwitchSeason
  BY <1>4 DEF ConfirmReset
<1>5. ASSUME NEW h \in Handlers,
             \/ LoadAdjust(h) \/ RefuseAdjust(h) \/ RefuseStale(h) \/ EnsureFund(h)
             \/ Preview(h) \/ Patch(h) \/ Crash(h)
             \/ \E u \in Users : \/ BeginOpen(h, u)
                                 \/ \E k \in AdjustKeys, n \in Amounts : BeginAdjust(h, u, k, n)
             \/ \E e \in Events : BeginFund(h, e)
             \/ \E j \in Jobs : BeginPreview(h, j)
             \/ \E change \in Changes : BeginPatch(h, change)
      PROVE  Still
  BY <1>5 DEF LoadAdjust, RefuseAdjust, RefuseStale, EnsureFund, Preview, Patch, Crash,
              BeginOpen, BeginAdjust, BeginFund, BeginPreview, BeginPatch, ledgerVars
<1>6. CASE UNCHANGED vars
  BY <1>6 DEF vars, ledgerVars
<1> QED BY <1>1, <1>2, <1>3, <1>4, <1>5, <1>6 DEF Next

-----------------------------------------------------------------------------
(* The journal *)

KeysAreUnique ==
  \A t1, t2 \in ledger : t1.key = t2.key => t1 = t2

WelcomesAreKeyed ==
  \A t \in ledger : t.from[2] = "welcome" => t.key = WelcomeKey(t.to[2])

JournalInv == TypeOK /\ KeysAreUnique /\ WelcomesAreKeyed /\ NoOverdraft

LEMMA JournalInvInit == Init => JournalInv
<1> SUFFICES ASSUME Init PROVE JournalInv
  OBVIOUS
<1>1. ledger = {} /\ \A a \in Account : balance[a] = 0
  BY DEF Init, LedgerInit
<1> QED BY <1>1, InitType DEF JournalInv, KeysAreUnique, WelcomesAreKeyed, NoOverdraft

LEMMA JournalInvNext == JournalInv /\ [Next]_vars => JournalInv'
<1> SUFFICES ASSUME JournalInv, [Next]_vars PROVE JournalInv'
  OBVIOUS
<1>1. TypeOK /\ TypeOK'
  BY NextType DEF JournalInv
<1>2. CASE Still
  BY <1>1, <1>2 DEF Still, JournalInv, KeysAreUnique, WelcomesAreKeyed, NoOverdraft
<1>3. CASE PostsSound
  <2>1. PICK t \in Tx : Sound(t) /\ Post(t)
    BY <1>3 DEF PostsSound
  <2>2. ledger' = ledger \cup {t}
    BY <2>1 DEF Post
  <2>3. KeysAreUnique'
    BY <2>1, <2>2 DEF JournalInv, KeysAreUnique, Sound
  <2>4. WelcomesAreKeyed'
    BY <2>1, <2>2 DEF JournalInv, WelcomesAreKeyed, Sound, WelcomeKey
  <2>5. NoOverdraft'
    <3>1. /\ t.from \in Account /\ t.to \in Account /\ t.from # t.to
          /\ t.amount \in Nat
      BY <2>1 DEF Tx, Transaction, Sound
    <3>2. balance \in [Account -> Int]
      BY <1>1 DEF TypeOK, LedgerTypeOK
    <3>3. ASSUME NEW a \in Account, ~AllowNegative(a) PROVE balance'[a] >= 0
      <4>1. balance[a] >= 0 /\ balance[a] \in Int
        BY <3>2, <3>3 DEF JournalInv, NoOverdraft
      <4>2. CASE a = t.from
        <5>1. balance[a] >= t.amount
          BY <2>1, <3>3, <4>2 DEF Sound
        <5>2. balance'[a] = balance[a] - t.amount
          BY <2>1, <3>1, <3>2, <4>2 DEF Post, Moved
        <5> QED BY <3>1, <4>1, <5>1, <5>2
      <4>3. CASE a = t.to
        <5>1. balance'[a] = balance[a] + t.amount
          BY <2>1, <3>1, <3>2, <4>3 DEF Post, Moved
        <5> QED BY <3>1, <4>1, <5>1
      <4>4. CASE a # t.from /\ a # t.to
        BY <2>1, <3>1, <3>2, <4>1, <4>4 DEF Post, Moved
      <4> QED BY <4>2, <4>3, <4>4
    <3> QED BY <3>3 DEF NoOverdraft, AllowNegative
  <2> QED BY <1>1, <2>3, <2>4, <2>5 DEF JournalInv
<1>4. CASE SwitchSeason
  <2>1. ledger' = ledger
    BY <1>4 DEF SwitchSeason
  <2>2. NoOverdraft'
    BY <1>4 DEF SwitchSeason, OpenedBalances, JournalInv, NoOverdraft, AllowNegative
  <2> QED BY <1>1, <2>1, <2>2 DEF JournalInv, KeysAreUnique, WelcomesAreKeyed
<1> QED BY <1>1, <1>2, <1>3, <1>4, JournalStep

LEMMA JournalInvariant == Spec => []JournalInv
BY JournalInvInit, JournalInvNext, PTL DEF Spec

(* No personal, redemption or store account is ever overdrawn, however     *)
(* adjustments, bootstraps, resets and crashes interleave.                 *)
THEOREM NeverOverdrawn == Spec => []NoOverdraft
BY JournalInvariant, PTL DEF JournalInv

(* A user is welcomed once in the life of the programme: the key of the    *)
(* grant names no season, and keys are unique over all seasons.            *)
THEOREM WelcomedOnceInALifetime == Spec => []WelcomedOnce
<1>1. JournalInv => WelcomedOnce
  BY DEF JournalInv, KeysAreUnique, WelcomesAreKeyed, WelcomedOnce
<1> QED BY <1>1, JournalInvariant, PTL

(* A request that still holds the context of an old season cannot write    *)
(* to it: a closed season is read-only.                                    *)
THEOREM ClosedSeasonsAreFrozen == Spec => ClosedSeasonIsFrozen
<1> DEFINE Frozen ==
      /\ \A a \in Account : a[1] < season' => balance'[a] = balance[a]
      /\ \A t \in ledger' \ ledger : t.season = season'
                                  /\ t.from[1] = season' /\ t.to[1] = season'
<1>1. ASSUME TypeOK, [Next]_vars PROVE Frozen
  <2>0. season \in Int /\ balance \in [Account -> Int]
    BY <1>1 DEF TypeOK, LedgerTypeOK, Season
  <2>1. CASE Still
    BY <2>1 DEF Still
  <2>2. CASE PostsSound
    <3>1. PICK t \in Tx : Sound(t) /\ Post(t) /\ UNCHANGED season
      BY <2>2 DEF PostsSound
    <3>2. t.from[1] = season /\ t.to[1] = season /\ t.season = season
      BY <3>1 DEF Sound
    <3>3. ASSUME NEW a \in Account, a[1] < season PROVE balance'[a] = balance[a]
      <4>1. a # t.from /\ a # t.to
        BY <2>0, <3>2, <3>3
      <4> QED BY <2>0, <3>1, <4>1 DEF Post, Moved
    <3> QED BY <3>1, <3>2, <3>3 DEF Post
  <2>3. CASE SwitchSeason
    BY <2>0, <2>3 DEF SwitchSeason, OpenedBalances
  <2> QED BY <1>1, <2>1, <2>2, <2>3, JournalStep
<1>2. TypeOK /\ [Next]_vars => [Frozen]_vars
  BY <1>1
<1> QED BY <1>2, TypeCorrect, PTL DEF Spec, ClosedSeasonIsFrozen

(* The journal of the running system is the abstract one: appended to in   *)
(* the active season with fresh keys, and never rewritten.                 *)
THEOREM ImplementsSeasonLedger == Spec => JournalSpec
<1>1. Init => Journal!Init
  BY DEF Init, LedgerInit, Journal!Init
<1>2. ASSUME TypeOK, [Next]_vars PROVE [Journal!Next]_(Journal!vars)
  <2>1. CASE Still
    BY <2>1 DEF Still, Journal!vars
  <2>2. CASE PostsSound
    <3>1. PICK t \in Tx : Sound(t) /\ Post(t) /\ UNCHANGED season
      BY <2>2 DEF PostsSound
    <3>2. t \in ledger' /\ ledger' = ledger \cup {t}
      BY <3>1 DEF Post
    <3>3. Journal!Append
      BY <3>1, <3>2 DEF Journal!Append, Sound
    <3> QED BY <3>3 DEF Journal!Next
  <2>3. CASE SwitchSeason
    BY <2>3 DEF SwitchSeason, Journal!Next, Journal!NextSeason
  <2> QED BY <1>2, <2>1, <2>2, <2>3, JournalStep
<1> QED BY <1>1, <1>2, TypeCorrect, PTL DEF Spec, JournalSpec, Journal!Spec

-----------------------------------------------------------------------------
(* Cached balances *)

(* The journal is finite, and no entry of it is of a season to come.       *)
EntriesAreFinite ==
  IsFiniteSet(ledger) /\ \A t \in ledger : t.from[1] <= season /\ t.to[1] <= season

SumInv == JournalInv /\ EntriesAreFinite /\ CachedBalanceIsEntrySum

(* A new transaction adds its amount to one sum and takes it from another. *)
LEMMA EntrySumPosts ==
  ASSUME NEW t \in Tx, t \notin ledger, ledger \subseteq Tx, IsFiniteSet(ledger),
         ledger' = ledger \cup {t}, t.from # t.to, NEW a \in Account
  PROVE  /\ EntrySum(a) \in Int
         /\ EntrySum(a)' = CASE a = t.from -> EntrySum(a) - t.amount
                             [] a = t.to -> EntrySum(a) + t.amount
                             [] OTHER -> EntrySum(a)
<1> DEFINE f == [x \in ledger |-> x.amount]
           g == [x \in ledger' |-> x.amount]
           into == {x \in ledger : x.to = a}
           outOf == {x \in ledger : x.from = a}
<1>1. /\ \A x \in ledger : f[x] \in Int /\ g[x] = f[x]
      /\ g[t] = t.amount /\ t.amount \in Int
  BY DEF Tx, Transaction
<1>2. IsFiniteSet(into) /\ IsFiniteSet(outOf)
  BY FS_Subset
<1>3. ASSUME NEW S \in SUBSET ledger, IsFiniteSet(S)
      PROVE  /\ SumFunctionOnSet(f, S) \in Int
             /\ SumFunctionOnSet(g, S) = SumFunctionOnSet(f, S)
             /\ SumFunctionOnSet(g, S \cup {t}) = t.amount + SumFunctionOnSet(f, S)
  <2>1. \A x \in S : g[x] = f[x]
    BY <1>1
  <2> HIDE DEF f, g
  <2>2. SumFunctionOnSet(g, S) = SumFunctionOnSet(f, S)
    BY <1>3, <2>1, SumEqual
  <2>3. /\ SumFunctionOnSet(g, S) \in Int
        /\ SumFunctionOnSet(g, S \cup {t}) = g[t] + SumFunctionOnSet(g, S)
    <3>1. t \notin S /\ \A x \in S \cup {t} : g[x] \in Int
      BY <1>1
    <3> QED BY <1>3, <3>1, SumAdd
  <2> QED BY <1>1, <2>2, <2>3
<1>4. /\ EntrySum(a) = SumFunctionOnSet(f, into) - SumFunctionOnSet(f, outOf)
      /\ EntrySum(a)' = SumFunctionOnSet(g, {x \in ledger' : x.to = a})
                          - SumFunctionOnSet(g, {x \in ledger' : x.from = a})
  BY DEF EntrySum
<1> HIDE DEF f, g
<1>5. /\ SumFunctionOnSet(f, into) \in Int /\ SumFunctionOnSet(f, outOf) \in Int
      /\ SumFunctionOnSet(g, into) = SumFunctionOnSet(f, into)
      /\ SumFunctionOnSet(g, outOf) = SumFunctionOnSet(f, outOf)
      /\ SumFunctionOnSet(g, into \cup {t}) = t.amount + SumFunctionOnSet(f, into)
      /\ SumFunctionOnSet(g, outOf \cup {t}) = t.amount + SumFunctionOnSet(f, outOf)
  <2>1. into \in SUBSET ledger /\ outOf \in SUBSET ledger
    OBVIOUS
  <2> HIDE DEF into, outOf
  <2> QED BY <1>2, <1>3, <2>1
<1> HIDE DEF into, outOf
<1> DEFINE F == SumFunctionOnSet(f, into)
           G == SumFunctionOnSet(f, outOf)
<1>6. F \in Int /\ G \in Int /\ EntrySum(a) = F - G /\ t.amount \in Int
  BY <1>1, <1>4, <1>5
<1>7. CASE a = t.from
  <2>1. /\ {x \in ledger' : x.to = a} = into
        /\ {x \in ledger' : x.from = a} = outOf \cup {t}
    BY <1>7 DEF into, outOf
  <2>2. EntrySum(a)' = F - (t.amount + G)
    BY <1>4, <1>5, <2>1
  <2> HIDE DEF F, G
  <2>3. EntrySum(a)' = EntrySum(a) - t.amount
    BY <1>6, <2>2
  <2> QED BY <1>6, <1>7, <2>3
<1>8. CASE a = t.to
  <2>1. /\ {x \in ledger' : x.to = a} = into \cup {t}
        /\ {x \in ledger' : x.from = a} = outOf
    BY <1>8 DEF into, outOf
  <2>2. EntrySum(a)' = (t.amount + F) - G
    BY <1>4, <1>5, <2>1
  <2> HIDE DEF F, G
  <2>3. EntrySum(a)' = EntrySum(a) + t.amount
    BY <1>6, <2>2
  <2> QED BY <1>6, <1>8, <2>3
<1>9. CASE a # t.from /\ a # t.to
  <2>1. /\ {x \in ledger' : x.to = a} = into
        /\ {x \in ledger' : x.from = a} = outOf
    BY <1>9 DEF into, outOf
  <2>2. EntrySum(a)' = EntrySum(a)
    BY <1>4, <1>5, <2>1
  <2> QED BY <1>6, <1>9, <2>2
<1> QED BY <1>7, <1>8, <1>9

LEMMA EntrySumEmpty ==
  ASSUME NEW a, {t \in ledger : t.to = a} = {}, {t \in ledger : t.from = a} = {}
  PROVE  EntrySum(a) = 0
BY SumEmpty DEF EntrySum

LEMMA SumInvNext == SumInv /\ [Next]_vars => SumInv'
<1> SUFFICES ASSUME SumInv, [Next]_vars PROVE SumInv'
  OBVIOUS
<1>1. TypeOK /\ JournalInv'
  BY JournalInvNext DEF SumInv, JournalInv
<1>2. balance \in [Account -> Int] /\ ledger \subseteq Tx /\ season \in Season
  BY <1>1 DEF TypeOK, LedgerTypeOK, Tx
<1>3. CASE Still
  <2>1. \A a : EntrySum(a)' = EntrySum(a)
    BY <1>3 DEF Still, EntrySum
  <2> QED BY <1>1, <1>3, <2>1 DEF Still, SumInv, EntriesAreFinite, CachedBalanceIsEntrySum
<1>4. CASE PostsSound
  <2>1. PICK t \in Tx : Sound(t) /\ Post(t) /\ UNCHANGED season
    BY <1>4 DEF PostsSound
  <2>2. /\ t.from \in Account /\ t.to \in Account /\ t.from # t.to /\ t.amount \in Int
        /\ t \notin ledger /\ ledger' = ledger \cup {t} /\ balance' = Moved(t)
    BY <2>1 DEF Tx, Transaction, Sound, Post
  <2>3. EntriesAreFinite'
    BY <1>2, <2>1, <2>2, FS_AddElement DEF SumInv, EntriesAreFinite, Sound, Season
  <2>4. ASSUME NEW a \in Account PROVE balance'[a] = EntrySum(a)'
    <3>1. balance[a] = EntrySum(a)
      BY DEF SumInv, CachedBalanceIsEntrySum
    <3>2. EntrySum(a)' = CASE a = t.from -> EntrySum(a) - t.amount
                           [] a = t.to -> EntrySum(a) + t.amount
                           [] OTHER -> EntrySum(a)
      BY <1>2, <2>2, EntrySumPosts DEF SumInv, EntriesAreFinite
    <3> QED BY <1>2, <2>2, <3>1, <3>2 DEF Moved
  <2> QED BY <1>1, <2>3, <2>4 DEF SumInv, CachedBalanceIsEntrySum
<1>5. CASE SwitchSeason
  <2>1. /\ ledger' = ledger /\ season' = season + 1
        /\ \A a \in Account : balance'[a] = IF a[1] = season + 1 THEN 0 ELSE balance[a]
    BY <1>5 DEF SwitchSeason, OpenedBalances
  <2>2. EntriesAreFinite'
    BY <1>2, <2>1 DEF SumInv, EntriesAreFinite, Season, Tx, Transaction, Account
  <2>3. ASSUME NEW a \in Account PROVE balance'[a] = EntrySum(a)'
    <3>1. EntrySum(a)' = EntrySum(a)
      BY <2>1 DEF EntrySum
    <3>2. CASE a[1] = season + 1
      <4>1. {t \in ledger : t.to = a} = {} /\ {t \in ledger : t.from = a} = {}
        BY <1>2, <3>2 DEF SumInv, EntriesAreFinite, Season
      <4> QED BY <2>1, <3>1, <3>2, <4>1, EntrySumEmpty
    <3>3. CASE a[1] # season + 1
      BY <2>1, <3>1, <3>3 DEF SumInv, CachedBalanceIsEntrySum
    <3> QED BY <3>2, <3>3
  <2> QED BY <1>1, <2>2, <2>3 DEF SumInv, CachedBalanceIsEntrySum
<1> QED BY <1>1, <1>3, <1>4, <1>5, JournalStep

(* The cached balance of every account, of closed seasons too, is the sum  *)
(* of its entries in the journal, however many transactions there are      *)
(* (wallet_accounts.balance against ledger_entries).                       *)
THEOREM BalancesAreEntrySums == Spec => []CachedBalanceIsEntrySum
<1>1. Init => SumInv
  <2> SUFFICES ASSUME Init PROVE SumInv
    OBVIOUS
  <2>1. ledger = {} /\ \A a \in Account : balance[a] = 0
    BY DEF Init, LedgerInit
  <2>2. \A a : EntrySum(a) = 0
    BY <2>1, EntrySumEmpty
  <2> QED BY <2>1, <2>2, JournalInvInit, FS_EmptySet
          DEF SumInv, EntriesAreFinite, CachedBalanceIsEntrySum
<1> QED BY <1>1, SumInvNext, PTL DEF Spec, SumInv

-----------------------------------------------------------------------------
(* Accounts *)

(* In the active season and after it nothing is closed, so an account that *)
(* a request finds or creates there is open.                               *)
NothingClosedAhead ==
  \A a \in Account : a[1] >= season => account[a] # "closed"

AccountInv == TypeOK /\ NothingClosedAhead /\ OnlyFundsOutliveTheirSeason /\ EveryUserHasAWallet

(* The accounts change only by creation, of accounts of the active season  *)
(* or of event funds, and by the season switch.                            *)
Opens ==
  /\ UNCHANGED season
  /\ \E A : /\ \A a \in A : a[1] = season \/ a[2] \in Events
            /\ account' = WithAccounts(A)
            /\ \A u \in registered' \ registered : <<season, u>> \in A

LEMMA AccountStep ==
  TypeOK /\ [Next]_vars =>
    \/ UNCHANGED <<season, account, registered>>
    \/ Opens /\ registered' \subseteq Users
    \/ SwitchSeason /\ UNCHANGED registered
<1> SUFFICES ASSUME TypeOK, [Next]_vars
             PROVE  \/ UNCHANGED <<season, account, registered>>
                    \/ Opens /\ registered' \subseteq Users
                    \/ SwitchSeason /\ UNCHANGED registered
  OBVIOUS
<1>0. registered \subseteq Users
  BY DEF TypeOK
<1>1. ASSUME NEW u \in Users, Register(u) PROVE Opens /\ registered' \subseteq Users
  <2> DEFINE A == {<<season, u>>}
  <2>1. \A a \in A : a[1] = season
    OBVIOUS
  <2>2. account' = WithAccounts(A) /\ registered' = registered \cup {u} /\ season' = season
    BY <1>1 DEF Register
  <2>3. \A v \in registered' \ registered : <<season, v>> \in A
    BY <2>2
  <2> QED BY <1>0, <2>1, <2>2, <2>3 DEF Opens
<1>2. ASSUME NEW h \in Handlers, Bootstrap(h) PROVE Opens /\ UNCHANGED registered
  <2> DEFINE own == <<SeenSeason(h), request[h].task.user>>
  <2>0. SeenSeason(h) = season
    BY <1>2 DEF Bootstrap, StillActive
  <2>1. \A a \in {own, <<SeenSeason(h), "welcome">>} : a[1] = season
    BY <2>0
  <2>2. \/ account' = WithAccounts({own, <<SeenSeason(h), "welcome">>})
        \/ account' = WithAccounts({own})
    BY <1>2 DEF Bootstrap
  <2>3. season' = season /\ registered' = registered
    BY <1>2 DEF Bootstrap
  <2> QED BY <2>1, <2>2, <2>3 DEF Opens
<1>3. ASSUME NEW h \in Handlers, Adjust(h) PROVE Opens /\ UNCHANGED registered
  <2> DEFINE t == Adjustment(SeenSeason(h), request[h].task)
  <2>1. t.from[1] = season /\ t.to[1] = season
    BY <1>3 DEF Adjust, Adjustment, StillActive
  <2>2. account' = WithAccounts({t.from, t.to}) /\ season' = season /\ registered' = registered
    BY <1>3 DEF Adjust
  <2> QED BY <2>1, <2>2 DEF Opens
<1>4. ASSUME NEW h \in Handlers, EnsureFund(h) PROVE Opens /\ UNCHANGED registered
  <2> DEFINE A == {<<request[h].seen.season, request[h].task.event>>}
  <2>1. request[h].task.event \in Events
    BY <1>4, RequestType DEF EnsureFund, FundTask
  <2>2. \A a \in A : a[2] \in Events
    BY <2>1
  <2>3. account' = WithAccounts(A) /\ season' = season /\ registered' = registered
    BY <1>4 DEF EnsureFund
  <2> QED BY <2>2, <2>3 DEF Opens
<1>5. ASSUME NEW j \in Jobs, ConfirmReset(j) PROVE SwitchSeason /\ UNCHANGED registered
  BY <1>5 DEF ConfirmReset
<1>6. ASSUME NEW h \in Handlers,
             \/ LoadAdjust(h) \/ RefuseAdjust(h) \/ RefuseStale(h)
             \/ Preview(h) \/ Patch(h) \/ Crash(h)
             \/ \E u \in Users : \/ BeginOpen(h, u)
                                 \/ \E k \in AdjustKeys, n \in Amounts : BeginAdjust(h, u, k, n)
             \/ \E e \in Events : BeginFund(h, e)
             \/ \E j \in Jobs : BeginPreview(h, j)
             \/ \E change \in Changes : BeginPatch(h, change)
      PROVE  UNCHANGED <<season, account, registered>>
  BY <1>6 DEF LoadAdjust, RefuseAdjust, RefuseStale, Preview, Patch, Crash,
              BeginOpen, BeginAdjust, BeginFund, BeginPreview, BeginPatch, ledgerVars
<1>7. CASE UNCHANGED vars
  BY <1>7 DEF vars, ledgerVars
<1> QED BY <1>0, <1>1, <1>2, <1>3, <1>4, <1>5, <1>6, <1>7 DEF Next

LEMMA AccountInvInit == Init => AccountInv
<1> SUFFICES ASSUME Init PROVE AccountInv
  OBVIOUS
<1>1. /\ season = 1 /\ registered = {}
      /\ account = [a \in Account |-> IF a[1] = 1 /\ a[2] \in SystemKeys
                                      THEN "active" ELSE "none"]
  BY DEF Init, LedgerInit
<1> QED BY <1>1, InitType
        DEF AccountInv, NothingClosedAhead, OnlyFundsOutliveTheirSeason, EveryUserHasAWallet

LEMMA AccountInvNext == AccountInv /\ [Next]_vars => AccountInv'
<1> SUFFICES ASSUME AccountInv, [Next]_vars PROVE AccountInv'
  OBVIOUS
<1> USE DEF NothingClosedAhead, OnlyFundsOutliveTheirSeason, EveryUserHasAWallet
<1>1. TypeOK /\ TypeOK'
  BY NextType DEF AccountInv
<1>2. /\ account \in [Account -> AccountStatus] /\ season \in Season /\ season \in Int
      /\ registered \subseteq Users
  BY <1>1 DEF TypeOK, LedgerTypeOK, Season
<1>3. CASE UNCHANGED <<season, account, registered>>
  BY <1>1, <1>3 DEF AccountInv
<1>4. CASE Opens /\ registered' \subseteq Users
  <2>1. PICK A : /\ \A a \in A : a[1] = season \/ a[2] \in Events
                 /\ account' = WithAccounts(A)
                 /\ \A u \in registered' \ registered : <<season, u>> \in A
    BY <1>4 DEF Opens
  <2>2. \A a \in Account :
          account'[a] = IF a \in A /\ account[a] = "none" THEN "active" ELSE account[a]
    BY <1>2, <2>1, WithAccountsType
  <2>3. season' = season
    BY <1>4 DEF Opens
  <2>4. NothingClosedAhead' /\ OnlyFundsOutliveTheirSeason'
    BY <2>1, <2>2, <2>3 DEF AccountInv
  <2>5. ASSUME NEW u \in registered' PROVE account'[<<season, u>>] = "active"
    <3>1. <<season, u>> \in Account /\ <<season, u>>[1] = season
      BY <1>2, <1>4, AccountOf, OwnerKinds
    <3>2. account[<<season, u>>] # "closed"
      BY <1>2, <3>1 DEF AccountInv
    <3>3. account[<<season, u>>] \in {"none", "active"}
      BY <1>2, <3>1, <3>2 DEF AccountStatus
    <3> QED BY <2>1, <2>2, <3>1, <3>3 DEF AccountInv
  <2> QED BY <1>1, <2>3, <2>4, <2>5 DEF AccountInv
<1>5. CASE SwitchSeason /\ UNCHANGED registered
  <2>1. /\ season' = season + 1
        /\ \A a \in Account : account'[a] = SwitchedAccounts[a]
    BY <1>5 DEF SwitchSeason
  <2>2. \A a \in Account : a[1] \in Int
    BY DEF Account, Season
  <2>3. \A a \in Account :
          /\ a[1] = season /\ account[a] # "none" => account'[a] = "closed"
          /\ a[1] = season /\ account[a] = "none" => account'[a] = "none"
          /\ a[1] = season + 1 /\ a[2] \in OpeningOwners => account'[a] = "active"
          /\ a[1] = season + 1 /\ a[2] \notin OpeningOwners => account'[a] = account[a]
          /\ a[1] # season /\ a[1] # season + 1 => account'[a] = account[a]
    BY <1>2, <2>1, <2>2 DEF SwitchedAccounts
  <2>4. NothingClosedAhead'
    BY <1>2, <2>1, <2>2, <2>3 DEF AccountInv
  <2>5. OnlyFundsOutliveTheirSeason'
    BY <1>2, <2>1, <2>2, <2>3 DEF AccountInv
  <2>6. ASSUME NEW u \in registered PROVE account'[<<season', u>>] = "active"
    <3>1. account[<<season, u>>] = "active"
      BY DEF AccountInv
    <3>2. u \in OpeningOwners
      BY <1>2, <3>1 DEF OpeningOwners
    <3>3. season' \in Season /\ u \in Owner
      BY <1>1, <1>2, OwnerKinds DEF TypeOK, LedgerTypeOK
    <3>4. <<season', u>> \in Account
      BY <3>3, AccountOf
    <3> QED BY <2>1, <2>3, <3>2, <3>4
  <2> QED BY <1>1, <1>5, <2>4, <2>5, <2>6 DEF AccountInv
<1> QED BY <1>3, <1>4, <1>5, <1>1, AccountStep

(* Whoever is registered has an open wallet in the active season, and no   *)
(* personal or system account is open in any other.                        *)
THEOREM WalletsFollowTheSeason ==
  Spec => [](EveryUserHasAWallet /\ OnlyFundsOutliveTheirSeason)
BY AccountInvInit, AccountInvNext, PTL DEF Spec, AccountInv

-----------------------------------------------------------------------------
(* Answers, resets and settings *)

AnswersArePosted ==
  \A answer \in acked : \E t \in ledger : t.key = answer[1] /\ t.body = answer[2]

LEMMA JournalGrows == TypeOK /\ [Next]_vars => ledger \subseteq ledger'
BY JournalStep DEF Still, PostsSound, Post, SwitchSeason

LEMMA AnswersNext ==
  TypeOK /\ AnswersArePosted /\ [Next]_vars => AnswersArePosted'
<1> SUFFICES ASSUME TypeOK, AnswersArePosted, [Next]_vars PROVE AnswersArePosted'
  OBVIOUS
<1>1. ledger \subseteq ledger'
  BY JournalGrows
<1>2. ASSUME NEW h \in Handlers, Adjust(h) PROVE AnswersArePosted'
  <2> DEFINE t == Adjustment(SeenSeason(h), request[h].task)
  <2>1. acked' = acked \cup {<<t.key, t.body>>}
    BY <1>2 DEF Adjust
  <2>2. \E x \in ledger' : x.key = t.key /\ x.body = t.body
    BY <1>1, <1>2 DEF Adjust, Post, Replays
  <2> QED BY <1>1, <2>1, <2>2 DEF AnswersArePosted
<1>3. CASE UNCHANGED acked
  BY <1>1, <1>3 DEF AnswersArePosted
<1>4. (\E h \in Handlers : Adjust(h)) \/ UNCHANGED acked
  BY DEF Next, vars, Register, ConfirmReset, BeginOpen, BeginAdjust, BeginFund, BeginPreview,
         BeginPatch, Bootstrap, LoadAdjust, RefuseAdjust, RefuseStale, EnsureFund, Preview,
         Patch, Crash
<1> QED BY <1>2, <1>3, <1>4

(* An adjustment whose client got its answer is in the journal exactly     *)
(* once, with the body the client sent, however often it is retried.       *)
THEOREM AnswersAreTrue == Spec => []AckedIsPosted
<1>1. Init => AnswersArePosted
  BY DEF Init, AnswersArePosted
<1>2. JournalInv /\ AnswersArePosted => AckedIsPosted
  BY DEF JournalInv, KeysAreUnique, AnswersArePosted, AckedIsPosted
<1> QED BY <1>1, <1>2, AnswersNext, TypeCorrect, JournalInvariant, PTL DEF Spec

(* Every completed job closed its own season, which is a past one.         *)
JobsInv ==
  /\ \A j \in Jobs : job[j].status = "completed" => job[j].from < season
  /\ \A s \in 1 .. season - 1 : \E j \in Jobs :
       {i \in Jobs : job[i].status = "completed" /\ job[i].from = s} = {j}

LEMMA JobsInvNext == TypeOK /\ JobsInv /\ [Next]_vars => JobsInv'
<1> SUFFICES ASSUME TypeOK, JobsInv, [Next]_vars PROVE JobsInv'
  OBVIOUS
<1>1. season \in Int /\ job \in [Jobs -> Job]
  BY DEF TypeOK, LedgerTypeOK, Season
<1> DEFINE Closers(s) == {i \in Jobs : job[i].status = "completed" /\ job[i].from = s}
<1>2. ASSUME NEW j \in Jobs, ConfirmReset(j) PROVE JobsInv'
  <2>1. /\ season' = season + 1
        /\ job[j].status = "previewed" /\ job[j].from = season
        /\ job' = [job EXCEPT ![j].status = "completed", ![j].to = season + 1]
    BY <1>2 DEF ConfirmReset, Previewed, SwitchSeason
  <2>2. /\ job'[j].status = "completed" /\ job'[j].from = season
        /\ \A i \in Jobs \ {j} : job'[i] = job[i]
    BY <1>1, <2>1 DEF Job
  <2>3. \A i \in Jobs : job'[i].status = "completed" => job'[i].from < season'
    <3> SUFFICES ASSUME NEW i \in Jobs, job'[i].status = "completed"
                 PROVE  job'[i].from < season'
      OBVIOUS
    <3>1. CASE i = j
      BY <1>1, <2>1, <2>2, <3>1
    <3>2. CASE i # j
      <4>1. job'[i] = job[i] /\ job[i].from < season /\ job[i].from \in Int
        BY <1>1, <2>2, <3>2 DEF JobsInv, Job
      <4> QED BY <1>1, <2>1, <4>1
    <3> QED BY <3>1, <3>2
  <2>4. ASSUME NEW s \in 1 .. season
        PROVE  \E k \in Jobs :
                 {i \in Jobs : job'[i].status = "completed" /\ job'[i].from = s} = {k}
    <3>1. CASE s = season
      <4>1. \A i \in Jobs \ {j} : ~(job'[i].status = "completed" /\ job'[i].from = s)
        BY <1>1, <2>2, <3>1 DEF JobsInv
      <4>2. {i \in Jobs : job'[i].status = "completed" /\ job'[i].from = s} = {j}
        BY <2>2, <3>1, <4>1
      <4> QED BY <4>2
    <3>2. CASE s # season
      <4>1. s \in 1 .. season - 1
        BY <1>1, <3>2
      <4>2. {i \in Jobs : job'[i].status = "completed" /\ job'[i].from = s} = Closers(s)
        BY <2>1, <2>2, <3>2
      <4> QED BY <4>1, <4>2 DEF JobsInv
    <3> QED BY <3>1, <3>2
  <2>5. 1 .. season' - 1 = 1 .. season
    BY <1>1, <2>1
  <2> QED BY <2>3, <2>4, <2>5 DEF JobsInv
<1>3. ASSUME NEW h \in Handlers, Preview(h) PROVE JobsInv'
  <2>1. PICK j \in Jobs : \/ job' = job
                          \/ job[j] = NoJob /\ job'[j].status = "previewed"
                             /\ \A i \in Jobs \ {j} : job'[i] = job[i]
    BY <1>1, <1>3, RequestType DEF Preview, PreviewTask
  <2>2. \A i \in Jobs : job'[i].status = "completed" <=> job[i].status = "completed"
    BY <1>1, <2>1 DEF NoJob
  <2>3. \A i \in Jobs : job'[i].status = "completed" => job'[i] = job[i]
    BY <1>1, <2>1
  <2>4. season' = season
    BY <1>3 DEF Preview, ledgerVars
  <2>5. ASSUME NEW s \in 1 .. season - 1
        PROVE  {i \in Jobs : job'[i].status = "completed" /\ job'[i].from = s} = Closers(s)
    BY <2>2, <2>3
  <2> QED BY <2>2, <2>3, <2>4, <2>5 DEF JobsInv
<1>4. CASE UNCHANGED <<season, job>>
  BY <1>4 DEF JobsInv
<1>5. \/ \E j \in Jobs : ConfirmReset(j)
      \/ \E h \in Handlers : Preview(h)
      \/ UNCHANGED <<season, job>>
  BY DEF Next, vars, ledgerVars, Register, BeginOpen, BeginAdjust, BeginFund, BeginPreview,
         BeginPatch, Bootstrap, LoadAdjust, Adjust, RefuseAdjust, RefuseStale, EnsureFund,
         Patch, Crash
<1> QED BY <1>2, <1>3, <1>4, <1>5

(* However previews and confirmations interleave, each season was closed   *)
(* by the confirmation of exactly one preview, a preview of that season.   *)
THEOREM ResetsAreNotStale == Spec => []OneResetPerSeason
<1>1. Init => JobsInv
  BY DEF Init, LedgerInit, NoJob, JobsInv
<1>2. JobsInv => OneResetPerSeason
  <2> SUFFICES ASSUME JobsInv, NEW s \in 1 .. season - 1
               PROVE  Cardinality({i \in Jobs : job[i].status = "completed"
                                                 /\ job[i].from = s}) = 1
    BY DEF OneResetPerSeason
  <2>1. PICK j \in Jobs :
          {i \in Jobs : job[i].status = "completed" /\ job[i].from = s} = {j}
    BY DEF JobsInv
  <2> QED BY <2>1, FS_Singleton
<1> QED BY <1>1, <1>2, JobsInvNext, TypeCorrect, PTL DEF Spec

(* Concurrent updates of different settings do not undo one another.       *)
THEOREM UpdatesAreMerged == Spec => UpdatesKeepOtherFields
<1> DEFINE Merged ==
      \A n \in SettingName :
        settings'[n] # settings[n] =>
          \E h \in Handlers : At(h, "patch") /\ n \in DOMAIN request[h].task.change
<1>1. ASSUME [Next]_vars PROVE Merged
  <2>1. ASSUME NEW h \in Handlers, Patch(h) PROVE Merged
    BY <2>1 DEF Patch, Applied
  <2>2. (\E h \in Handlers : Patch(h)) \/ UNCHANGED settings
    BY <1>1 DEF Next, vars, Register, ConfirmReset, BeginOpen, BeginAdjust, BeginFund,
                BeginPreview, BeginPatch, Bootstrap, LoadAdjust, Adjust, RefuseAdjust,
                RefuseStale, EnsureFund, Preview, Crash
  <2> QED BY <2>1, <2>2
<1>2. [Next]_vars => [Merged]_vars
  BY <1>1
<1> QED BY <1>2, PTL DEF Spec, UpdatesKeepOtherFields
=============================================================================
