--------------------------- MODULE BackgroundProofs ---------------------------
(***************************************************************************)
(* Theorems about three parts of MCBackground: the exports of an event     *)
(* (EventExports), the rewards of finished artifacts (ArtifactReward) and  *)
(* the start of the Mini App (Startup), for any number of exports,         *)
(* submissions, users, requests, workers, tabs and sessions.               *)
(***************************************************************************)
EXTENDS MCBackground, FiniteSetTheorems, SequenceTheorems, TLAPS

-----------------------------------------------------------------------------
(* Rewards *)

(* A reward in the ledger and a claim are one for the other, and there is  *)
(* one for a user.                                                         *)
Paid(t) == t.actor = "reward"
PaidTo(u) == {t \in ledger : Paid(t) /\ t.to[2] = u}
ClaimsOf(u) == {c \in claim : c.user = u}

RewardInv ==
  /\ \A c \in claim : \E t \in ledger : Paid(t) /\ t.to[2] = c.user /\ t.amount = c.amount
  /\ \A t \in ledger : Paid(t) => \E c \in claim : c.user = t.to[2] /\ c.amount = t.amount
  /\ \A c, d \in claim : c.user = d.user => c = d
  /\ \A t, r \in ledger : Paid(t) /\ Paid(r) /\ t.to[2] = r.to[2] => t = r

LEMMA SameCardinality == \A S : Rewards!Cardinality(S) = Cardinality(S)
BY DEF Rewards!Cardinality, Cardinality

LEMMA InitRewards == "reward" \notin Users /\ Rewards!Init => RewardInv
BY DEF Rewards!Init, Rewards!WelcomedInit, Rewards!WelcomeOf, RewardInv, Paid

LEMMA EvaluateRewards ==
  ASSUME RewardInv, NEW s, NEW manual, Rewards!Evaluate(s, manual)
  PROVE  RewardInv'
<1>1. CASE UNCHANGED <<ledger, claim>>
  BY <1>1 DEF RewardInv, Paid
<1>2. CASE Rewards!Grant(s) /\ ~Rewards!Claimed(Author[s])
  <2> DEFINE t == Rewards!Reward(s)
             c == [user |-> Author[s], submission |-> s, amount |-> policy.amount]
  <2>1. ledger' = ledger \cup {t} /\ claim' = claim \cup {c}
    BY <1>2 DEF Rewards!Grant, Rewards!Post
  <2>2. Paid(t) /\ t.to[2] = c.user /\ t.amount = c.amount
    BY DEF Rewards!Reward, Paid
  <2>3. \A d \in claim : d.user # c.user
    BY <1>2 DEF Rewards!Claimed
  <2>4. \A r \in ledger : Paid(r) => r.to[2] # t.to[2]
    BY <2>2, <2>3 DEF RewardInv
  <2> HIDE DEF t, c
  <2> QED BY <2>1, <2>2, <2>3, <2>4 DEF RewardInv, Paid
<1> QED BY <1>1, <1>2 DEF Rewards!Evaluate, Rewards!ledgerVars

LEMMA NextRewards == RewardInv /\ [Rewards!Next]_(Rewards!rewardVars) => RewardInv'
<1> SUFFICES ASSUME RewardInv, [Rewards!Next]_(Rewards!rewardVars) PROVE RewardInv'
  OBVIOUS
<1>1. CASE UNCHANGED <<ledger, claim>>
  BY <1>1 DEF RewardInv, Paid
<1>2. ASSUME NEW s \in Submissions,
             Rewards!Relay(s) \/ Rewards!EvaluateDirect(s) \/ Rewards!Reconcile(s)
      PROVE  RewardInv'
  BY <1>2, EvaluateRewards DEF Rewards!Relay, Rewards!EvaluateDirect, Rewards!Reconcile
<1>3. UNCHANGED <<ledger, claim>> \/ \E s \in Submissions :
        Rewards!Relay(s) \/ Rewards!EvaluateDirect(s) \/ Rewards!Reconcile(s)
  BY DEF Rewards!Next, Rewards!rewardVars, Rewards!ledgerVars, Rewards!rest,
         Rewards!Tick, Rewards!Reset, Rewards!SwitchSeason, Rewards!SetPolicy,
         Rewards!BecomeReady, Rewards!BecomeReadyAsText, Rewards!Reopen,
         Rewards!RemoveFiles, Rewards!Remove, Rewards!LoseDirect,
         Rewards!BeginReconcile, Rewards!EndReconcile
<1> QED BY <1>1, <1>2, <1>3

(* "Unique for a user and an event, for all time" (docs/wallet.md): over   *)
(* seasons, submissions, amounts and three sources of evaluations, a claim *)
(* and its points go together, once (grantArtifactReward).                 *)
THEOREM RewardsAreUnique ==
  ASSUME "reward" \notin Users
  PROVE  Rewards!Spec => []RewardedOnce
<1>1. ASSUME RewardInv, NEW u \in Users
      PROVE  /\ Cardinality(ClaimsOf(u)) <= 1
             /\ {t.amount : t \in PaidTo(u)} = {c.amount : c \in ClaimsOf(u)}
             /\ Cardinality(PaidTo(u)) = Cardinality(ClaimsOf(u))
  <2>1. {t.amount : t \in PaidTo(u)} = {c.amount : c \in ClaimsOf(u)}
    BY <1>1 DEF RewardInv, Paid, PaidTo, ClaimsOf
  <2>2. CASE ClaimsOf(u) = {}
    <3>1. PaidTo(u) = {}
      BY <1>1, <2>2 DEF RewardInv, Paid, PaidTo, ClaimsOf
    <3> QED BY <2>1, <2>2, <3>1, FS_EmptySet
  <2>3. CASE ClaimsOf(u) # {}
    <3>1. PICK c \in ClaimsOf(u) : TRUE
      BY <2>3
    <3>2. PICK t \in PaidTo(u) : TRUE
      BY <1>1, <3>1 DEF RewardInv, Paid, PaidTo, ClaimsOf
    <3>3. ClaimsOf(u) = {c} /\ PaidTo(u) = {t}
      BY <1>1, <3>1, <3>2 DEF RewardInv, Paid, PaidTo, ClaimsOf
    <3> QED BY <2>1, <3>3, FS_Singleton
  <2> QED BY <2>2, <2>3
<1>2. RewardInv => RewardedOnce
  BY <1>1, SameCardinality DEF RewardedOnce, Rewards!RewardedOnce, PaidTo, ClaimsOf, Paid
<1> QED BY InitRewards, NextRewards, <1>2, PTL DEF Rewards!Spec

(* PointsAreOfThisSeason needs the order of the moments: no submission     *)
(* becomes ready before the season it is compared with has started.        *)
Finished == [status : {"none", "processing", "ready", "deleted"}, at : Nat, filed : BOOLEAN]

PointInv ==
  /\ season \in Rewards!Season
  /\ balance \in [Rewards!Account -> Int]
  /\ now \in Nat /\ opened \in Nat /\ opened <= now
  /\ submission \in [Submissions -> Finished]
  /\ policy \in Policies \cup {Rewards!NoPolicy}
  /\ Rewards!PointsAreOfThisSeason

LEMMA InitPoints ==
  ASSUME Rewards!RewardAssumption, MaxSeason \in Nat \ {0}, IsFiniteSet(Users), Rewards!Init
  PROVE  PointInv
<1>1. season = 1 /\ season \in Rewards!Season
  BY DEF Rewards!Init, Rewards!WelcomedInit, Rewards!Season
<1>2. /\ now = 1 /\ opened = 0 /\ policy = Rewards!NoPolicy
      /\ submission = [s \in Submissions |-> [status |-> "none", at |-> 0, filed |-> FALSE]]
  BY DEF Rewards!Init
<1>3. -(Welcome * Rewards!Cardinality(Users)) \in Int /\ Welcome \in Int
  BY FS_CardinalityType, SameCardinality DEF Rewards!RewardAssumption
<1>4. balance \in [Rewards!Account -> Int]
  <2>1. balance = [a \in Rewards!Account |->
          CASE a[1] = 1 /\ a[2] \in Users -> Welcome
            [] a = <<1, "welcome">> -> -(Welcome * Rewards!Cardinality(Users))
            [] OTHER -> 0]
    BY DEF Rewards!Init, Rewards!WelcomedInit
  <2> DEFINE least == -(Welcome * Rewards!Cardinality(Users))
  <2>2. least \in Int
    BY <1>3
  <2>3. balance = [a \in Rewards!Account |->
          CASE a[1] = 1 /\ a[2] \in Users -> Welcome
            [] a = <<1, "welcome">> -> least
            [] OTHER -> 0]
    BY <2>1
  <2> HIDE DEF least
  <2>4. \A a \in Rewards!Account : balance[a] \in {Welcome, least, 0}
    <3> TAKE a \in Rewards!Account
    <3>1. balance[a] = CASE a[1] = 1 /\ a[2] \in Users -> Welcome
                         [] a = <<1, "welcome">> -> least
                         [] OTHER -> 0
      BY <2>3, Zenon
    <3>2. CASE a[1] = 1 /\ a[2] \in Users
      BY <3>1, <3>2, Zenon
    <3>3. CASE ~(a[1] = 1 /\ a[2] \in Users) /\ a = <<1, "welcome">>
      BY <3>1, <3>3, Zenon
    <3>4. CASE ~(a[1] = 1 /\ a[2] \in Users) /\ a # <<1, "welcome">>
      BY <3>1, <3>4, Zenon
    <3> QED BY <3>2, <3>3, <3>4
  <2> QED BY <1>3, <2>2, <2>3, <2>4
<1> QED BY <1>1, <1>2, <1>4 DEF PointInv, Finished, Rewards!PointsAreOfThisSeason

LEMMA GrantPoints ==
  ASSUME Rewards!RewardAssumption, PointInv, NEW s \in Submissions,
         NEW manual, Rewards!Eligible(s, manual), Rewards!Grant(s), UNCHANGED Rewards!rest
  PROVE  PointInv'
<1> DEFINE amount == policy.amount
           from == <<season, Event>>
           to == <<season, Author[s]>>
<1>1. /\ balance' = [balance EXCEPT ![from] = @ - amount, ![to] = @ + amount]
      /\ season' = season /\ now' = now /\ opened' = opened /\ submission' = submission
      /\ policy' = policy
  BY DEF Rewards!Grant, Rewards!Post, Rewards!Moved, Rewards!Reward, Rewards!rest
<1>2. amount \in Nat \ {0} /\ submission[s].at >= opened /\ Author[s] \in Users
  BY DEF Rewards!Eligible, PointInv, Rewards!RewardAssumption, Rewards!Policy, Rewards!NoPolicy
<1>3. from \in Rewards!Account /\ to \in Rewards!Account
  BY <1>2 DEF PointInv, Rewards!RewardAssumption, Rewards!Account, Rewards!Owner
<1>4. balance' \in [Rewards!Account -> Int]
  BY <1>1, <1>2, <1>3 DEF PointInv
<1>5. ASSUME NEW u \in Users, balance'[<<season, u>>] > 0
      PROVE  u = Author[s] \/ balance[<<season, u>>] > 0
  <2>1. <<season, u>> \in Rewards!Account
    BY DEF PointInv, Rewards!Account, Rewards!Owner
  <2>2. CASE u # Author[s]
    <3>1. <<season, u>> # to
      BY <2>2
    <3> HIDE DEF to, from
    <3> QED BY <1>1, <1>2, <1>3, <1>5, <2>1, <3>1 DEF PointInv
  <2> QED BY <2>2
<1>6. Rewards!PointsAreOfThisSeason'
  BY <1>1, <1>2, <1>5 DEF PointInv, Rewards!PointsAreOfThisSeason
<1> QED BY <1>1, <1>4, <1>6 DEF PointInv

LEMMA EvaluatePoints ==
  ASSUME Rewards!RewardAssumption, PointInv, NEW s \in Submissions, NEW manual,
         Rewards!Evaluate(s, manual), UNCHANGED Rewards!rest
  PROVE  PointInv'
<1>1. CASE UNCHANGED Rewards!ledgerVars
  BY <1>1 DEF Rewards!rest, Rewards!ledgerVars, PointInv, Rewards!PointsAreOfThisSeason
<1> QED BY <1>1, GrantPoints DEF Rewards!Evaluate

LEMMA NextPoints ==
  ASSUME Rewards!RewardAssumption, MaxSeason \in Nat \ {0}, PointInv,
         [Rewards!Next]_(Rewards!rewardVars)
  PROVE  PointInv'
<1>1. CASE UNCHANGED <<season, balance, now, opened, submission, policy>>
  BY <1>1 DEF PointInv, Rewards!PointsAreOfThisSeason
<1>2. CASE Rewards!Tick
  BY <1>2 DEF Rewards!Tick, Rewards!ledgerVars, PointInv, Rewards!PointsAreOfThisSeason
<1>3. CASE Rewards!Reset
  <2>1. /\ season' = season + 1 /\ season' \in Rewards!Season
        /\ balance' = [a \in Rewards!Account |-> IF a[1] = season + 1 THEN 0 ELSE balance[a]]
        /\ opened' = now /\ UNCHANGED <<now, submission, policy>>
    BY <1>3 DEF Rewards!Reset, Rewards!SwitchSeason, Rewards!OpenedBalances, PointInv,
                Rewards!Season
  <2>2. \A u \in Users : balance'[<<season', u>>] = 0
    <3>1. \A u \in Users : <<season', u>> \in Rewards!Account /\ <<season', u>>[1] = season'
      BY <2>1 DEF Rewards!Account, Rewards!Owner
    <3> QED BY <2>1, <3>1
  <2> QED BY <2>1, <2>2 DEF PointInv, Rewards!PointsAreOfThisSeason
<1>4. ASSUME NEW p \in Policies, Rewards!SetPolicy(p)
      PROVE  PointInv'
  BY <1>4 DEF Rewards!SetPolicy, PointInv, Rewards!PointsAreOfThisSeason
<1>5. ASSUME NEW s \in Submissions,
             \/ Rewards!BecomeReady(s) \/ Rewards!BecomeReadyAsText(s) \/ Rewards!Reopen(s)
             \/ Rewards!RemoveFiles(s) \/ Rewards!Remove(s)
      PROVE  PointInv'
  <2>1. /\ submission' \in [Submissions -> Finished]
        /\ \A q \in Submissions : submission'[q].at \in {now, submission[q].at}
    <3>1. submission[s] \in Finished
      BY DEF PointInv
    <3>2. CASE Rewards!BecomeReady(s)
      BY <3>1, <3>2 DEF Rewards!BecomeReady, PointInv, Finished
    <3>3. CASE Rewards!BecomeReadyAsText(s)
      BY <3>1, <3>3 DEF Rewards!BecomeReadyAsText, PointInv, Finished
    <3>4. CASE Rewards!Reopen(s)
      BY <3>1, <3>4 DEF Rewards!Reopen, PointInv, Finished
    <3>5. CASE Rewards!RemoveFiles(s)
      BY <3>1, <3>5 DEF Rewards!RemoveFiles, PointInv, Finished
    <3>6. CASE Rewards!Remove(s)
      BY <3>1, <3>6 DEF Rewards!Remove, PointInv, Finished
    <3> QED BY <1>5, <3>2, <3>3, <3>4, <3>5, <3>6
  <2>2. UNCHANGED <<season, balance, now, opened, policy>>
    BY <1>5 DEF Rewards!BecomeReady, Rewards!BecomeReadyAsText, Rewards!Reopen,
                Rewards!RemoveFiles, Rewards!Remove, Rewards!ledgerVars
  <2>3. \A q \in Submissions : submission[q].at >= opened => submission'[q].at >= opened
    BY <2>1 DEF PointInv
  <2>5. Rewards!PointsAreOfThisSeason'
    BY <2>2, <2>3 DEF PointInv, Rewards!PointsAreOfThisSeason
  <2> QED BY <2>1, <2>2, <2>5 DEF PointInv
<1>6. ASSUME NEW s \in Submissions,
             Rewards!Relay(s) \/ Rewards!EvaluateDirect(s) \/ Rewards!Reconcile(s)
      PROVE  PointInv'
  BY <1>6, EvaluatePoints DEF Rewards!Relay, Rewards!EvaluateDirect, Rewards!Reconcile
<1>7. \/ Rewards!Tick \/ Rewards!Reset \/ \E p \in Policies : Rewards!SetPolicy(p)
      \/ \E s \in Submissions :
           \/ Rewards!BecomeReady(s) \/ Rewards!BecomeReadyAsText(s) \/ Rewards!Reopen(s)
           \/ Rewards!RemoveFiles(s) \/ Rewards!Remove(s)
           \/ Rewards!Relay(s) \/ Rewards!EvaluateDirect(s) \/ Rewards!Reconcile(s)
      \/ UNCHANGED <<season, balance, now, opened, submission, policy>>
  BY DEF Rewards!Next, Rewards!rewardVars, Rewards!rest, Rewards!ledgerVars,
         Rewards!LoseDirect, Rewards!BeginReconcile, Rewards!EndReconcile
<1> QED BY <1>1, <1>2, <1>3, <1>4, <1>5, <1>6, <1>7

(* A reset is a fence: after it, whoever has points has finished something *)
(* since, however late the evaluation of what was finished before comes    *)
(* (grantArtifactReward, the comparison with the start of the season).     *)
THEOREM PointsAreNotCarriedOver ==
  ASSUME Rewards!RewardAssumption, MaxSeason \in Nat \ {0}, IsFiniteSet(Users)
  PROVE  Rewards!Spec => []PointsAreOfThisSeason
<1>1. PointInv => PointsAreOfThisSeason
  BY DEF PointInv, PointsAreOfThisSeason
<1> QED BY InitPoints, NextPoints, <1>1, PTL DEF Rewards!Spec

-----------------------------------------------------------------------------
(* Exports *)

(* What a request that has begun may still have to do.                     *)
Replacing == {"invalidate", "purge", "forget", "create"}
Removing == {"purgeOrFail", "forget", "leave"}

AskingAnew == [todo : Seq(Replacing), kinds : SUBSET Kinds, files : SUBSET Exports]
Asking == AskingAnew \cup [todo : Seq(Removing), files : SUBSET Exports, person : People]

NoAsk == Idle

ExportTypes ==
  /\ export \in [Exports -> {NoExport} \cup Export]
  /\ announced \subseteq Exports
  /\ object \in [Exports -> {Nothing} \cup Contents]
  /\ content \in Contents
  /\ job \in [Exports -> [state : {"none", "waiting", "active", "completed", "failed"},
                            tries : Nat]]
  /\ worker \in [Workers -> {Free} \cup Building]
  /\ request \in [Handlers -> {NoAsk} \cup Asking]

Status(e) == export[e].status
Builds(w, e) == worker[w] # Free /\ worker[w].export = e

(* A job has one build at most, and an export before anything.             *)
OneBuild ==
  /\ \A e \in Exports : job[e].state # "none" \/ e \in announced => Exists(e)
  /\ \A w \in Workers, e \in Exports : Builds(w, e) =>
       job[e].state = "active" /\ \A v \in Workers : Builds(v, e) => v = w

(* What is current, or is to be invalidated with everything else.          *)
Announces(h) == Doing(h, "invalidate") /\ request[h].kinds = Kinds
Current(items) == items \cap Files = content \cap Files \/ \E h \in Handlers : Announces(h)

(* A build goes on with an export that is processing, until it expires.    *)
BuildGoesOn(w) ==
  LET e == worker[w].export
  IN /\ worker[w].stage \in {"started", "loaded", "uploaded"} =>
          Status(e) \in {"processing", "expired"}
     /\ worker[w].stage = "discard" => Status(e) = "expired"
     /\ worker[w].stage \in {"loaded", "uploaded"} /\ Status(e) = "processing" =>
          Current(worker[w].snapshot)
     /\ worker[w].stage = "uploaded" /\ Status(e) = "processing" =>
          object[e] = worker[w].snapshot
BuildsGoOn == \A w \in Workers : worker[w] # Free => BuildGoesOn(w)

(* Requests erase what has expired. *)
ErasedHaveExpired ==
  \A h \in Handlers : request[h] # NoAsk => \A e \in request[h].files : Status(e) = "expired"

ShownIsCurrent ==
  \A e \in Exports : Downloadable(e) =>
    export[e].stored /\ object[e] # Nothing /\ Current(object[e])

ExportInv == ExportTypes /\ OneBuild /\ BuildsGoOn /\ ErasedHaveExpired /\ ShownIsCurrent

LEMMA InitExports ==
  ASSUME EventExportsAssumption, Init
  PROVE  ExportInv
BY DEF EventExportsAssumption, Init, ExportInv, ExportTypes, OneBuild,
       BuildsGoOn, ErasedHaveExpired, ShownIsCurrent, Downloadable, Exists,
       Contents, Items, NoJob, Builds, NoAsk

LEMMA AskOf ==
  ASSUME ExportTypes, NEW h \in Handlers, request[h].todo # <<>>
  PROVE  /\ request[h] \in Asking /\ request[h] # NoAsk
         /\ request[h].files \in SUBSET Exports
         /\ request[h].todo \in Seq(Replacing) \/ request[h].todo \in Seq(Removing)
         /\ Head(request[h].todo) = "leave" => request[h].person \in People
         /\ Head(request[h].todo) \in {"invalidate", "create"} =>
              request[h] \in AskingAnew
         /\ Head(request[h].todo) \in Replacing \cup Removing
<1>1. request[h] \in Asking /\ request[h] # NoAsk
  BY DEF ExportTypes, NoAsk, Idle
<1>2. CASE request[h] \in AskingAnew
  <2>1. Head(request[h].todo) \in Replacing
    BY <1>2, HeadTailProperties DEF AskingAnew
  <2> QED BY <1>1, <1>2, <2>1 DEF Replacing, AskingAnew
<1>3. CASE request[h] \in [todo : Seq(Removing), files : SUBSET Exports, person : People]
  <2>1. Head(request[h].todo) \in Removing
    BY <1>3, HeadTailProperties
  <2> QED BY <1>1, <1>3, <2>1 DEF Removing
<1> QED BY <1>1, <1>2, <1>3 DEF Asking

LEMMA SkipAsk ==
  ASSUME ExportTypes, NEW h \in Handlers, request[h].todo # <<>>, NEW n \in {1, 2},
         Skip(h, n)
  PROVE  /\ request' \in [Handlers -> {NoAsk} \cup Asking]
         /\ request'[h] # NoAsk => request'[h].files = request[h].files
         /\ \A g \in Handlers \ {h} : request'[g] = request[g]
<1> DEFINE rest == SubSeq(request[h].todo, n + 1, Len(request[h].todo))
<1>1. request[h] \in Asking /\ request \in [Handlers -> {NoAsk} \cup Asking]
  BY AskOf DEF ExportTypes
<1>2. \/ request' = [request EXCEPT ![h] = NoAsk]
      \/ request' = [request EXCEPT ![h] = [request[h] EXCEPT !.todo = rest]]
  <2>1. CASE rest = <<>>
    BY <2>1, Zenon DEF Skip, NoAsk
  <2>2. CASE rest # <<>>
    BY <2>2, Zenon DEF Skip, NoAsk
  <2> QED BY <2>1, <2>2
<1>3. [request[h] EXCEPT !.todo = rest] \in Asking
      /\ [request[h] EXCEPT !.todo = rest].files = request[h].files
  <2>1. CASE request[h] \in AskingAnew
    <3>1. rest \in Seq(Replacing)
      BY <2>1, SubSeqProperties, LenProperties DEF AskingAnew
    <3> HIDE DEF rest
    <3> QED BY <2>1, <3>1 DEF Asking, AskingAnew
  <2>2. CASE request[h] \in [todo : Seq(Removing), files : SUBSET Exports, person : People]
    <3>1. rest \in Seq(Removing)
      BY <2>2, SubSeqProperties, LenProperties
    <3> HIDE DEF rest
    <3> QED BY <2>2, <3>1 DEF Asking, AskingAnew
  <2> QED BY <1>1, <2>1, <2>2 DEF Asking, AskingAnew
<1> HIDE DEF rest
<1> QED BY <1>1, <1>2, <1>3

(* A request moves on, and erases what it already was to erase, or nothing. *)
LEMMA RequestStep ==
  ASSUME ExportInv, NEW h \in Handlers,
         UNCHANGED <<export, announced, object, job, worker>>,
         content' \in Contents, content' \cap Files = content \cap Files,
         request' \in [Handlers -> {NoAsk} \cup Asking],
         \A g \in Handlers \ {h} : request'[g] = request[g],
         ~Announces(h) \/ request'[h] = request[h],
         request'[h] # NoAsk =>
           request'[h].files = {} \/ (request[h] # NoAsk /\ request'[h].files = request[h].files)
  PROVE  ExportInv'
<1>1. \A items : Current(items) => Current(items)'
  BY DEF Current, Announces, Doing
<1>2. ExportTypes'
  BY DEF ExportInv, ExportTypes
<1>3. OneBuild'
  BY DEF ExportInv, OneBuild, Builds, Exists
<1>4. ErasedHaveExpired'
  BY DEF ExportInv, ErasedHaveExpired, Status
<1>5. BuildsGoOn'
  BY <1>1 DEF ExportInv, BuildsGoOn, BuildGoesOn, Status
<1>6. ShownIsCurrent'
  BY <1>1 DEF ExportInv, ShownIsCurrent, Downloadable, Exists
<1> QED BY <1>2, <1>3, <1>4, <1>5, <1>6 DEF ExportInv

LEMMA TakeAsk ==
  ASSUME ExportTypes, NEW h \in Handlers, NEW r \in Asking, Take(h, r)
  PROVE  /\ request[h] = NoAsk /\ ~Announces(h)
         /\ request' \in [Handlers -> {NoAsk} \cup Asking] /\ request'[h] = r
         /\ \A g \in Handlers \ {h} : request'[g] = request[g]
BY DEF ExportTypes, Take, NoAsk, Idle, Announces, Doing

LEMMA Todos ==
  /\ <<"invalidate", "purge", "forget">> \in Seq(Replacing)
  /\ <<"invalidate", "purge", "forget", "create">> \in Seq(Replacing)
  /\ <<"purgeOrFail", "forget", "leave">> \in Seq(Removing)
BY DEF Replacing, Removing

LEMMA ChangeStep ==
  ASSUME ExportInv, NEW h \in Handlers, NEW f \in Files, Change(h, f)
  PROVE  ExportInv'
<1> DEFINE r == [todo |-> <<"invalidate", "purge", "forget">>, kinds |-> Kinds,
                 files |-> {}]
<1>1. r \in Asking
  BY Todos DEF Asking, AskingAnew
<1>2. /\ request[h] = NoAsk /\ request' \in [Handlers -> {NoAsk} \cup Asking] /\ request'[h] = r
      /\ \A g \in Handlers \ {h} : request'[g] = request[g]
  BY <1>1, TakeAsk DEF Change, ExportInv
<1>3. /\ UNCHANGED <<export, announced, object, job, worker>>
      /\ content' \in Contents
  BY DEF Change, ExportInv, ExportTypes, Contents, Items
<1>4. \A items : Current(items)'
  <2>1. Announces(h)'
    BY <1>2 DEF Announces, Doing, Kinds
  <2> QED BY <2>1 DEF Current
<1>5. r.files = {}
  OBVIOUS
<1> HIDE DEF r
<1>6. ExportTypes'
  BY <1>2, <1>3 DEF ExportInv, ExportTypes
<1>7. OneBuild'
  BY <1>3 DEF ExportInv, OneBuild, Builds, Exists
<1>8. ErasedHaveExpired'
  BY <1>2, <1>3, <1>5 DEF ExportInv, ErasedHaveExpired, Status
<1>9. BuildsGoOn'
  BY <1>3, <1>4 DEF ExportInv, BuildsGoOn, BuildGoesOn, Status
<1>10. ShownIsCurrent'
  BY <1>3, <1>4 DEF ExportInv, ShownIsCurrent, Downloadable, Exists
<1> QED BY <1>6, <1>7, <1>8, <1>9, <1>10 DEF ExportInv

(* The exports es expire, and a request is to erase them.                  *)
LEMMA ExpireStep ==
  ASSUME ExportInv, NEW h \in Handlers, NEW es \in SUBSET Exports,
         \A e \in es : Exists(e), export' = Expired(es),
         UNCHANGED <<content, announced, object, job, worker>>,
         request' \in [Handlers -> {NoAsk} \cup Asking], request'[h].files = es,
         \A g \in Handlers \ {h} : request'[g] = request[g],
         Announces(h) =>
           \A e \in Exports : Exists(e) => e \in es \/ Status(e) = "expired"
  PROVE  ExportInv'
<1>1. /\ export' \in [Exports -> {NoExport} \cup Export]
      /\ \A e \in Exports \ es : export'[e] = export[e]
      /\ \A e \in es : export'[e].status = "expired" /\ export'[e] # NoExport
  <2>1. \A e \in Exports : export[e] \in {NoExport} \cup Export
    BY DEF ExportInv, ExportTypes
  <2>2. \A x \in Export : LET y == [x EXCEPT !.status = "expired", !.lapsed = TRUE]
                          IN  y \in Export /\ y.status = "expired" /\ y # NoExport
    BY DEF Export, NoExport
  <2>3. \A e \in es : export[e] \in Export
    BY <2>1 DEF Exists
  <2> QED BY <2>1, <2>2, <2>3 DEF Expired
<1>2. \A e \in Exports : /\ Status(e)' # "expired" => export'[e] = export[e]
                         /\ Status(e) = "expired" => Status(e)' = "expired"
                         /\ Exists(e)' <=> Exists(e)
  BY <1>1 DEF Status, Exists
<1>3. ASSUME NEW e \in Exports, Status(e)' # "expired", Exists(e), NEW items,
             Current(items)
      PROVE  Current(items)'
  <2>1. ~Announces(h)
    BY <1>1, <1>2, <1>3 DEF Status
  <2> QED BY <1>3, <2>1 DEF Current, Announces, Doing
<1>4. ExportTypes'
  BY <1>1 DEF ExportInv, ExportTypes
<1>5. OneBuild'
  BY <1>2 DEF ExportInv, OneBuild, Builds
<1>6. ErasedHaveExpired'
  <2> SUFFICES ASSUME NEW g \in Handlers, request'[g] # NoAsk, NEW e \in request'[g].files
               PROVE  Status(e)' = "expired"
    BY DEF ErasedHaveExpired
  <2>1. CASE g = h
    BY <1>1, <2>1 DEF Status
  <2>2. CASE g # h
    <3>1. request[g] \in Asking /\ e \in request[g].files /\ Status(e) = "expired"
      BY <2>2 DEF ExportInv, ErasedHaveExpired, ExportTypes
    <3>2. e \in Exports
      BY <3>1 DEF Asking, AskingAnew
    <3> QED BY <1>2, <3>1, <3>2
  <2> QED BY <2>1, <2>2
<1>7. BuildsGoOn'
  <2> SUFFICES ASSUME NEW w \in Workers, worker[w] # Free
               PROVE  BuildGoesOn(w)'
    BY DEF BuildsGoOn
  <2>1. PICK e \in Exports : e = worker[w].export /\ Exists(e)
    BY DEF ExportInv, ExportTypes, Building, OneBuild, Builds
  <2>2. Status(e)' # "expired" => Status(e)' = Status(e)
    BY <1>2 DEF Status
  <2>3. BuildGoesOn(w)
    BY DEF ExportInv, BuildsGoOn
  <2>4. \A items : Current(items) /\ Status(e)' # "expired" => Current(items)'
    BY <1>3, <2>1
  <2> QED BY <1>2, <2>1, <2>2, <2>3, <2>4 DEF BuildGoesOn, Status
<1>8. ShownIsCurrent'
  <2> SUFFICES ASSUME NEW e \in Exports, Downloadable(e)'
               PROVE  export'[e].stored /\ object'[e] # Nothing /\ Current(object[e])'
    BY DEF ShownIsCurrent
  <2>1. Status(e)' # "expired" /\ export'[e] = export[e] /\ Exists(e)
        /\ Downloadable(e)
    BY <1>2 DEF Downloadable, Status, Exists
  <2> QED BY <1>3, <2>1 DEF ExportInv, ShownIsCurrent
<1> QED BY <1>4, <1>5, <1>6, <1>7, <1>8 DEF ExportInv

(* The exports es change in no way that could be seen; a build that goes   *)
(* on goes on as it was.                                                   *)
LEMMA SettleStep ==
  ASSUME ExportInv, ExportTypes', OneBuild', ErasedHaveExpired',
         \A items : Current(items) => Current(items)',
         \A w \in Workers : worker'[w] # Free => worker'[w] = worker[w],
         NEW es \in SUBSET Exports,
         \A e \in Exports \ es : export'[e] = export[e] /\ object'[e] = object[e],
         \A e \in es : ~Downloadable(e)',
         \A e \in es : \/ Status(e)' = "expired"
                       \/ Status(e)' = Status(e) /\ Status(e) # "processing"
                       \/ \A w \in Workers : ~Builds(w, e)'
  PROVE  ExportInv'
<1>1. BuildsGoOn'
  <2> SUFFICES ASSUME NEW w \in Workers, worker'[w] # Free PROVE BuildGoesOn(w)'
    BY DEF BuildsGoOn
  <2>1. worker'[w] = worker[w] /\ BuildGoesOn(w)
    BY DEF ExportInv, BuildsGoOn
  <2>2. PICK e \in Exports : e = worker[w].export
    BY <2>1 DEF ExportInv, ExportTypes, Building
  <2>3. Builds(w, e)'
    BY <2>1, <2>2 DEF Builds
  <2>4. CASE e \notin es
    BY <2>1, <2>2, <2>4 DEF BuildGoesOn, Status
  <2>5. CASE e \in es /\ Status(e)' = "expired"
    BY <2>1, <2>2, <2>5 DEF BuildGoesOn, Status
  <2>6. CASE e \in es /\ Status(e)' = Status(e) /\ Status(e) # "processing"
    BY <2>1, <2>2, <2>6 DEF BuildGoesOn, Status
  <2> QED BY <2>3, <2>4, <2>5, <2>6
<1>2. ShownIsCurrent'
  <2> SUFFICES ASSUME NEW e \in Exports, Downloadable(e)'
               PROVE  export'[e].stored /\ object'[e] # Nothing /\ Current(object[e])'
    BY DEF ShownIsCurrent
  <2>1. export'[e] = export[e] /\ object'[e] = object[e] /\ Downloadable(e)
    BY DEF Downloadable, Exists
  <2> QED BY <2>1 DEF ExportInv, ShownIsCurrent, Current
<1> QED BY <1>1, <1>2 DEF ExportInv

(* The builder w takes a step with its export e. *)
LEMMA BuildStep ==
  ASSUME ExportInv, ExportTypes', ErasedHaveExpired', UNCHANGED <<content, announced, request>>,
         NEW w \in Workers, NEW e \in Exports, Builds(w, e), Builds(w, e)',
         \A v \in Workers \ {w} : worker'[v] = worker[v],
         \A x \in Exports \ {e} : export'[x] = export[x] /\ object'[x] = object[x],
         job' = job, Exists(e)',
         BuildGoesOn(w)',
         Downloadable(e)' =>
           export'[e].stored /\ object'[e] # Nothing /\ Current(object[e])'
  PROVE  ExportInv'
<1>1. \A items : Current(items)' = Current(items)
  BY DEF Current, Announces, Doing
<1>2. \A v \in Workers, x \in Exports : Builds(v, x)' <=> Builds(v, x)
  BY DEF Builds
<1>3. OneBuild'
  BY <1>2 DEF ExportInv, OneBuild, Exists
<1>4. BuildsGoOn'
  <2> SUFFICES ASSUME NEW v \in Workers \ {w}, worker'[v] # Free
               PROVE  BuildGoesOn(v)'
    BY DEF BuildsGoOn
  <2>1. worker'[v] = worker[v] /\ BuildGoesOn(v)
    BY DEF ExportInv, BuildsGoOn
  <2>2. PICK x \in Exports : x = worker[v].export
    BY <2>1 DEF ExportInv, ExportTypes, Building
  <2>3. x # e
    BY <2>1, <2>2 DEF ExportInv, OneBuild, Builds
  <2> QED BY <1>1, <2>1, <2>2, <2>3 DEF BuildGoesOn, Status
<1>5. ShownIsCurrent'
  <2> SUFFICES ASSUME NEW x \in Exports \ {e}, Downloadable(x)'
               PROVE  export'[x].stored /\ object'[x] # Nothing /\ Current(object[x])'
    BY DEF ShownIsCurrent
  <2>1. export'[x] = export[x] /\ object'[x] = object[x] /\ Downloadable(x)
    BY DEF Downloadable, Exists
  <2> QED BY <1>1, <2>1 DEF ExportInv, ShownIsCurrent, Current
<1> QED BY <1>3, <1>4, <1>5 DEF ExportInv

(* A request takes a step that is none of an invalidation, and changes the *)
(* exports es in no way that could be seen.                                *)
LEMMA WalkStep ==
  ASSUME ExportInv, NEW h \in Handlers, request[h].todo # <<>>, ~Announces(h),
         Skip(h, 1), UNCHANGED <<content, worker>>,
         announced' \subseteq Exports,
         export' \in [Exports -> {NoExport} \cup Export],
         object' \in [Exports -> {Nothing} \cup Contents],
         job' \in [Exports -> [state : {"none", "waiting", "active", "completed", "failed"},
                                 tries : Nat]],
         OneBuild' \/ (/\ UNCHANGED <<announced, job>>
                       /\ \A e \in Exports : Exists(e) => Exists(e)'),
         \A e \in Exports : Status(e) = "expired" => Status(e)' = "expired",
         NEW es \in SUBSET Exports,
         \A e \in Exports \ es : export'[e] = export[e] /\ object'[e] = object[e],
         \A e \in es : ~Downloadable(e)',
         \A e \in es : Status(e)' = "expired" \/ \A w \in Workers : ~Builds(w, e)'
  PROVE  ExportInv'
<1>1. /\ request' \in [Handlers -> {NoAsk} \cup Asking] /\ request[h] \in Asking
      /\ request[h] # NoAsk /\ (request'[h] # NoAsk => request'[h].files = request[h].files)
      /\ \A g \in Handlers \ {h} : request'[g] = request[g]
  BY SkipAsk, AskOf DEF ExportInv
<1>2. \A items : Current(items) => Current(items)'
  BY <1>1 DEF Current, Announces, Doing
<1>3. ExportTypes'
  BY <1>1 DEF ExportInv, ExportTypes
<1>4. OneBuild'
  BY DEF ExportInv, OneBuild, Builds
<1>5. ErasedHaveExpired'
  <2> SUFFICES ASSUME NEW g \in Handlers, request'[g] # NoAsk, NEW e \in request'[g].files
               PROVE  Status(e)' = "expired"
    BY DEF ErasedHaveExpired
  <2>1. request[g] \in Asking /\ request'[g].files = request[g].files /\ request[g] # NoAsk
    BY <1>1 DEF ExportInv, ExportTypes
  <2>2. e \in Exports /\ Status(e) = "expired"
    BY <2>1 DEF ExportInv, ErasedHaveExpired, Asking, AskingAnew
  <2> QED BY <2>2
<1> QED BY <1>2, <1>3, <1>4, <1>5, SettleStep

LEMMA EnqueuedType ==
  ASSUME ExportTypes, NEW e \in Exports
  PROVE  /\ Enqueued(e) \in
              [Exports -> [state : {"none", "waiting", "active", "completed", "failed"},
                           tries : Nat]]
         /\ \A x \in Exports \ {e} : Enqueued(e)[x] = job[x]
         /\ Enqueued(e)[e].state =
              IF job[e].state = "none" THEN "waiting" ELSE job[e].state
BY DEF ExportTypes, Enqueued

(* The requests *)
LEMMA RequestsKeep ==
  ASSUME EventExportsAssumption, ExportInv, NEW h \in Handlers,
         \/ \E f \in Files : Change(h, f)
         \/ \E kind \in Kinds : BeginExport(h, kind)
         \/ \E p \in People : RemovePerson(h, p)
         \/ Invalidate(h) \/ Purge(h) \/ PurgeFails(h)
         \/ Forget(h) \/ Leave(h)
         \/ \E e \in Exports : Create(h, e)
  PROVE  ExportInv'
<1>1. ASSUME NEW kind \in Kinds, BeginExport(h, kind)
      PROVE  ExportInv'
  <2> DEFINE r == [todo |-> <<"invalidate", "purge", "forget", "create">>, kinds |-> {kind},
                   files |-> {}]
  <2>1. r \in Asking /\ r.files = {}
    BY Todos DEF Asking, AskingAnew
  <2>2. /\ request[h] = NoAsk /\ ~Announces(h)
        /\ request' \in [Handlers -> {NoAsk} \cup Asking] /\ request'[h] = r
        /\ \A g \in Handlers \ {h} : request'[g] = request[g]
    BY <1>1, <2>1, TakeAsk DEF BeginExport, ExportInv
  <2> HIDE DEF r
  <2>3. UNCHANGED <<content, export, announced, object, job, worker>>
    BY <1>1 DEF BeginExport
  <2> QED BY <2>1, <2>2, <2>3, RequestStep DEF ExportInv, ExportTypes
<1>2. ASSUME NEW p \in People, RemovePerson(h, p)
      PROVE  ExportInv'
  <2> DEFINE es == {e \in Exports : Exists(e)}
             r == [todo |-> <<"purgeOrFail", "forget", "leave">>, files |-> es, person |-> p]
  <2>1. r \in Asking /\ r.files = es /\ es \in SUBSET Exports
    BY Todos DEF Asking, AskingAnew
  <2>2. Take(h, r) /\ export' = Expired(es)
        /\ UNCHANGED <<content, announced, object, job, worker>>
    BY <1>2 DEF RemovePerson
  <2>3. \A e \in es : Exists(e)
    OBVIOUS
  <2>4. \A e \in Exports : Exists(e) => e \in es
    OBVIOUS
  <2> HIDE DEF r, es
  <2>5. /\ request' \in [Handlers -> {NoAsk} \cup Asking] /\ request'[h] = r
        /\ \A g \in Handlers \ {h} : request'[g] = request[g]
    BY <2>1, <2>2, TakeAsk DEF ExportInv
  <2> QED BY <2>1, <2>2, <2>3, <2>4, <2>5, ExpireStep
<1>3. CASE Invalidate(h)
  <2> DEFINE es == Invalidated(request[h].kinds)
  <2>1. request[h] \in AskingAnew /\ request[h].todo # <<>>
    BY <1>3, AskOf DEF Invalidate, Doing, ExportInv
  <2>2. /\ export' = Expired(es)
        /\ request' = [request EXCEPT ![h].todo = Tail(request[h].todo), ![h].files = es]
        /\ UNCHANGED <<content, announced, object, job, worker>>
    BY <1>3 DEF Invalidate
  <2>3. es \in SUBSET Exports /\ \A e \in es : Exists(e)
    BY DEF Invalidated
  <2>4. request[h].kinds = Kinds =>
          \A e \in Exports : Exists(e) => e \in es \/ Status(e) = "expired"
    BY DEF Invalidated, Kinds, Status
  <2> HIDE DEF es
  <2>5. Tail(request[h].todo) \in Seq(Replacing)
    BY <2>1, HeadTailProperties DEF AskingAnew
  <2>6. /\ request' \in [Handlers -> {NoAsk} \cup Asking] /\ request'[h].files = es
        /\ \A g \in Handlers \ {h} : request'[g] = request[g]
    BY <2>1, <2>2, <2>3, <2>5 DEF ExportInv, ExportTypes, Asking, AskingAnew
  <2> QED BY <2>2, <2>3, <2>4, <2>6, ExpireStep DEF Announces
<1>4. CASE Purge(h)
  <2> DEFINE es == request[h].files
  <2>1. /\ request[h].todo # <<>> /\ ~Announces(h) /\ Skip(h, 1)
        /\ object' = Erased(es)
        /\ UNCHANGED <<content, export, announced, job, worker>>
    BY <1>4 DEF Purge, Doing, Announces
  <2>2. es \in SUBSET Exports /\ \A e \in es : Status(e) = "expired"
    BY <2>1, AskOf DEF ExportInv, ErasedHaveExpired, NoAsk, Idle
  <2>3. object' \in [Exports -> {Nothing} \cup Contents]
    BY <2>1 DEF Erased, ExportInv, ExportTypes
  <2>4. \A e \in Exports \ es : object'[e] = object[e]
    BY <2>1 DEF Erased
  <2> HIDE DEF es
  <2>5. \A e \in es : ~Downloadable(e)'
    BY <2>1, <2>2 DEF Downloadable, Status
  <2>6. /\ \A e \in Exports : Exists(e)' = Exists(e) /\ Status(e)' = Status(e)
        /\ \A e \in Exports \ es : export'[e] = export[e] /\ object'[e] = object[e]
    BY <2>1, <2>4 DEF Exists, Status
  <2>7. /\ announced' \subseteq Exports
        /\ export' \in [Exports -> {NoExport} \cup Export]
        /\ job' \in [Exports -> [state : {"none", "waiting", "active", "completed", "failed"},
                                   tries : Nat]]
    BY <2>1 DEF ExportInv, ExportTypes
  <2> QED BY <2>1, <2>2, <2>3, <2>5, <2>6, <2>7, WalkStep
<1>5. CASE PurgeFails(h)
  <2>1. /\ request[h].todo # <<>> /\ ~Announces(h)
        /\ UNCHANGED <<content, export, announced, object, job, worker>>
        /\ Skip(h, 2) \/ request' = [request EXCEPT ![h] = NoAsk]
    BY <1>5 DEF PurgeFails, Doing, Announces, NoAsk
  <2>2. /\ request' \in [Handlers -> {NoAsk} \cup Asking]
        /\ request'[h] # NoAsk => request'[h].files = request[h].files
        /\ \A g \in Handlers \ {h} : request'[g] = request[g]
    BY <2>1, SkipAsk DEF ExportInv, ExportTypes
  <2>3. request[h] # NoAsk /\ content' \in Contents
    BY <2>1 DEF NoAsk, Idle, ExportInv, ExportTypes
  <2> QED BY <2>1, <2>2, <2>3, RequestStep
<1>6. CASE Forget(h)
  <2> DEFINE es == request[h].files
  <2>1. /\ request[h].todo # <<>> /\ ~Announces(h) /\ Skip(h, 1)
        /\ export' = Forgotten(es)
        /\ UNCHANGED <<content, announced, object, job, worker>>
    BY <1>6 DEF Forget, Doing, Announces
  <2>2. es \in SUBSET Exports /\ \A e \in es : Status(e) = "expired"
    BY <2>1, AskOf DEF ExportInv, ErasedHaveExpired, NoAsk, Idle
  <2>3. \A e \in es : export[e] \in Export
    BY <2>2 DEF ExportInv, ExportTypes, Status, NoExport
  <2>4. /\ export' \in [Exports -> {NoExport} \cup Export]
        /\ \A e \in Exports \ es : export'[e] = export[e]
        /\ \A e \in es : export'[e].status = "expired"
    <3>1. \A e \in es : /\ [export[e] EXCEPT !.stored = FALSE] \in Export
                        /\ [export[e] EXCEPT !.stored = FALSE].status = "expired"
      BY <2>2, <2>3 DEF Export, Status
    <3>2. export \in [Exports -> {NoExport} \cup Export]
      BY DEF ExportInv, ExportTypes
    <3>3. export' = [e \in Exports |-> IF e \in es THEN [export[e] EXCEPT !.stored = FALSE]
                                       ELSE export[e]]
      BY <2>1 DEF Forgotten
    <3> HIDE DEF es
    <3> QED BY <2>2, <3>1, <3>2, <3>3
  <2> HIDE DEF es
  <2>5. \A e \in es : ~Downloadable(e)' /\ Exists(e)' /\ Status(e)' = "expired"
    BY <2>4 DEF Downloadable, Exists, NoExport, Status
  <2>7. \A e \in Exports : Exists(e) => Exists(e)'
    BY <2>4, <2>5 DEF Exists
  <2>12. \A e \in Exports : Status(e) = "expired" => Status(e)' = "expired"
    BY <2>4, <2>5 DEF Status
  <2>8. /\ announced' \subseteq Exports
        /\ object' \in [Exports -> {Nothing} \cup Contents]
        /\ job' \in [Exports -> [state : {"none", "waiting", "active", "completed", "failed"},
                                   tries : Nat]]
    BY <2>1 DEF ExportInv, ExportTypes
  <2>9. \A e \in Exports \ es : export'[e] = export[e] /\ object'[e] = object[e]
    BY <2>1, <2>4
  <2>10. /\ \A e \in es : ~Downloadable(e)'
         /\ \A e \in es : Status(e)' = "expired" \/ \A w \in Workers : ~Builds(w, e)'
    BY <2>5
  <2>11. UNCHANGED <<announced, job>> /\ UNCHANGED <<content, worker>>
    BY <2>1
  <2>13. job' \in [Exports -> [state : {"none", "waiting", "active", "completed", "failed"},
                                 tries : Nat]]
    BY <2>8
  <2> QED BY <2>1, <2>2, <2>4, <2>8, <2>9, <2>10, <2>11, <2>7, <2>12, <2>13, WalkStep
<1>7. CASE Leave(h)
  <2>1. /\ request[h].todo # <<>> /\ ~Announces(h) /\ Skip(h, 1)
        /\ Head(request[h].todo) = "leave" /\ content' = content \ {request[h].person}
        /\ UNCHANGED <<export, announced, object, job, worker>>
    BY <1>7 DEF Leave, Doing, Announces
  <2>2. request[h].person \in People /\ request[h] # NoAsk
    BY <2>1, AskOf DEF ExportInv, NoAsk, Idle
  <2>3. content' \in Contents /\ content' \cap Files = content \cap Files
    BY <2>1, <2>2 DEF ExportInv, ExportTypes, Contents,
       EventExportsAssumption
  <2>4. /\ request' \in [Handlers -> {NoAsk} \cup Asking]
        /\ request'[h] # NoAsk => request'[h].files = request[h].files
        /\ \A g \in Handlers \ {h} : request'[g] = request[g]
    BY <2>1, SkipAsk DEF ExportInv
  <2> QED BY <2>1, <2>2, <2>3, <2>4, RequestStep
<1>8. ASSUME NEW e \in Exports, Create(h, e)
      PROVE  ExportInv'
  <2>1. /\ request[h].todo # <<>> /\ ~Announces(h) /\ Skip(h, 1) /\ ~Exists(e)
        /\ export' = [export EXCEPT ![e] =
                        [status |-> "queued", stored |-> FALSE, lapsed |-> FALSE]]
        /\ announced' = announced \cup {e}
        /\ job' \in {job, Enqueued(e)}
        /\ UNCHANGED <<content, object, worker>>
    BY <1>8 DEF Create, Doing, Announces
  <2>2. /\ export' \in [Exports -> {NoExport} \cup Export]
        /\ \A x \in Exports \ {e} : export'[x] = export[x]
        /\ export'[e].status = "queued" /\ export'[e] # NoExport
    BY <2>1 DEF ExportInv, ExportTypes, Export, NoExport
  <2>3. /\ job' \in [Exports -> [state : {"none", "waiting", "active", "completed", "failed"},
                                   tries : Nat]]
        /\ \A x \in Exports \ {e} : job'[x] = job[x]
    BY <2>1, EnqueuedType DEF ExportInv, ExportTypes
  <2>4. \A w \in Workers : ~Builds(w, e)
    BY <2>1 DEF ExportInv, OneBuild
  <2>5. Status(e) # "expired"
    BY <2>1 DEF Exists, Status, NoExport
  <2>6. \A w \in Workers, x \in Exports : Builds(w, x)' <=> Builds(w, x)
    BY <2>1 DEF Builds
  <2>7. OneBuild'
    BY <2>1, <2>2, <2>3, <2>4, <2>6 DEF ExportInv, OneBuild, Exists
  <2>8. \A x \in Exports : Status(x) = "expired" => Status(x)' = "expired"
    BY <2>2, <2>5 DEF Status
  <2>9. ~Downloadable(e)'
    BY <2>2 DEF Downloadable
  <2>10. announced' \subseteq Exports
    BY <2>1 DEF ExportInv, ExportTypes
  <2>11. object' \in [Exports -> {Nothing} \cup Contents]
    BY <2>1 DEF ExportInv, ExportTypes
  <2> DEFINE es == {e}
  <2>12. /\ es \in SUBSET Exports
         /\ \A x \in Exports \ es : export'[x] = export[x] /\ object'[x] = object[x]
         /\ \A x \in es : ~Downloadable(x)' /\ \A w \in Workers : ~Builds(w, x)'
    BY <2>1, <2>2, <2>4, <2>6, <2>9
  <2> HIDE DEF es
  <2> QED BY <2>1, <2>2, <2>3, <2>7, <2>8, <2>10, <2>11, <2>12, WalkStep
<1> QED BY <1>1, <1>2, <1>3, <1>4, <1>5, <1>6, <1>7, <1>8, ChangeStep

(* Time, the relay and maintenance *)
LEMMA TimeKeeps ==
  ASSUME ExportInv, NEW e \in Exports,
         Relay(e) \/ Lapse(e) \/ Maintain(e)
  PROVE  ExportInv'
<1>1. export[e] \in {NoExport} \cup Export
  BY DEF ExportInv, ExportTypes
<1>2. /\ UNCHANGED <<content, worker, request>>
      /\ \A items : Current(items) => Current(items)'
      /\ \A w \in Workers, x \in Exports : Builds(w, x)' <=> Builds(w, x)
  BY DEF Relay, Lapse, Maintain, Current, Announces,
         Doing, Builds
<1>3. CASE Relay(e)
  <2>1. /\ e \in announced /\ announced' = announced \ {e} /\ job' = Enqueued(e)
        /\ UNCHANGED <<export, object>>
    BY <1>3 DEF Relay
  <2>2. ExportTypes'
    <3>1. job' \in [Exports ->
                       [state : {"none", "waiting", "active", "completed", "failed"},
                        tries : Nat]]
      BY <2>1, EnqueuedType DEF ExportInv
    <3> QED BY <1>2, <2>1, <3>1 DEF ExportInv, ExportTypes
  <2>3. OneBuild'
    <3>1. /\ \A x \in Exports \ {e} : job'[x] = job[x]
          /\ job'[e].state = IF job[e].state = "none" THEN "waiting" ELSE job[e].state
      BY <2>1, EnqueuedType DEF ExportInv
    <3>2. \A x \in Exports : job[x].state = "active" => job'[x].state = "active"
      BY <3>1
    <3>3. \A x \in Exports : job'[x].state # "none" \/ x \in announced' => Exists(x)'
      BY <2>1, <3>1 DEF ExportInv, OneBuild, Exists
    <3> QED BY <1>2, <3>2, <3>3 DEF ExportInv, OneBuild
  <2>4. ErasedHaveExpired'
    BY <1>2, <2>1 DEF ExportInv, ErasedHaveExpired, Status
  <2> DEFINE es == {}
  <2>5. /\ es \in SUBSET Exports /\ \A x \in es : FALSE
        /\ \A x \in Exports \ es : export'[x] = export[x] /\ object'[x] = object[x]
    BY <2>1
  <2> HIDE DEF es
  <2> QED BY <1>2, <2>2, <2>3, <2>4, <2>5, SettleStep
<1>4. CASE Lapse(e) \/ Maintain(e)
  <2>1. /\ Exists(e) /\ UNCHANGED <<announced, job>>
        /\ export[e].status \in {"ready", "expired"}
    BY <1>4 DEF Lapse, Maintain
  <2>2. /\ export' \in [Exports -> {NoExport} \cup Export]
        /\ \A x \in Exports \ {e} : export'[x] = export[x]
        /\ export'[e] # NoExport /\ export'[e].lapsed
        /\ Status(e)' \in {Status(e), "expired"}
    <3>1. export[e] \in Export
      BY <1>1, <2>1 DEF Exists
    <3>2. CASE Lapse(e)
      BY <3>1, <3>2 DEF Lapse, ExportInv, ExportTypes, Export,
                        NoExport, Status
    <3>3. CASE Maintain(e)
      BY <3>1, <3>3 DEF Maintain, ExportInv, ExportTypes, Export,
                        NoExport, Status
    <3> QED BY <1>4, <3>2, <3>3
  <2>3. /\ object' \in [Exports -> {Nothing} \cup Contents]
        /\ \A x \in Exports \ {e} : object'[x] = object[x]
    BY <1>4 DEF Lapse, Maintain, Erased, ExportInv, ExportTypes
  <2>4. ~Downloadable(e)'
    BY <2>2 DEF Downloadable
  <2>5. ExportTypes'
    BY <1>2, <2>1, <2>2, <2>3 DEF ExportInv, ExportTypes
  <2>6. \A x \in Exports : Exists(x) => Exists(x)'
    BY <2>2 DEF Exists
  <2>7. OneBuild'
    BY <1>2, <2>1, <2>6 DEF ExportInv, OneBuild
  <2>8. \A x \in Exports : Status(x) = "expired" => Status(x)' = "expired"
    BY <2>2 DEF Status
  <2>9. ErasedHaveExpired'
    BY <1>2, <2>8 DEF ExportInv, ErasedHaveExpired, ExportTypes, Asking, AskingAnew
  <2> DEFINE es == {e}
  <2>10. /\ es \in SUBSET Exports
         /\ \A x \in Exports \ es : export'[x] = export[x] /\ object'[x] = object[x]
         /\ \A x \in es : ~Downloadable(x)'
    BY <2>2, <2>3, <2>4
  <2>11. \A x \in es : Status(x)' = "expired" \/ (Status(x)' = Status(x) /\ Status(x) # "processing")
    BY <2>1, <2>2 DEF Status
  <2> HIDE DEF es
  <2> QED BY <1>2, <2>5, <2>7, <2>9, <2>10, <2>11, SettleStep
<1> QED BY <1>3, <1>4

-----------------------------------------------------------------------------
(* Builds *)

LEMMA BuildOf ==
  ASSUME ExportInv, NEW w \in Workers, worker[w] # Free
  PROVE  /\ worker[w] \in Building /\ worker[w].export \in Exports
         /\ Builds(w, worker[w].export) /\ Exists(worker[w].export)
         /\ export[worker[w].export] \in Export
         /\ job[worker[w].export].state = "active"
         /\ \A v \in Workers \ {w} : ~Builds(v, worker[w].export)
         /\ BuildGoesOn(w)
<1>1. worker[w] \in Building /\ worker[w].export \in Exports
  BY DEF ExportInv, ExportTypes, Building
<1>2. Builds(w, worker[w].export)
  BY DEF Builds
<1>3. /\ job[worker[w].export].state = "active"
      /\ \A v \in Workers \ {w} : ~Builds(v, worker[w].export)
  BY <1>1, <1>2 DEF ExportInv, OneBuild
<1>4. Exists(worker[w].export)
  BY <1>1, <1>3 DEF ExportInv, OneBuild
<1>5. export[worker[w].export] \in Export
  BY <1>1, <1>4 DEF ExportInv, ExportTypes, Exists
<1> QED BY <1>1, <1>2, <1>3, <1>4, <1>5 DEF ExportInv, BuildsGoOn

(* A build ends, and nothing that can be seen changes. *)
LEMMA ReleaseStep ==
  ASSUME ExportInv, NEW w \in Workers, NEW e \in Exports, worker[w] # Free,
         worker[w].export = e, worker' = [worker EXCEPT ![w] = Free],
         UNCHANGED <<content, announced, request>>,
         job' \in [Exports -> [state : {"none", "waiting", "active", "completed", "failed"},
                                 tries : Nat]],
         \A x \in Exports \ {e} : job'[x] = job[x],
         export' \in [Exports -> {NoExport} \cup Export],
         object' \in [Exports -> {Nothing} \cup Contents],
         \A x \in Exports \ {e} : export'[x] = export[x] /\ object'[x] = object[x],
         Exists(e)', Status(e) = "expired" => Status(e)' = "expired",
         \/ ~Downloadable(e)'
         \/ export'[e].stored /\ object'[e] # Nothing /\ Current(object'[e])
  PROVE  ExportInv'
<1>1. \A items : Current(items)' = Current(items)
  BY DEF Current, Announces, Doing
<1>2. /\ Builds(w, e) /\ \A v \in Workers \ {w} : ~Builds(v, e)
      /\ worker' \in [Workers -> {Free} \cup Building]
      /\ worker'[w] = Free /\ \A v \in Workers \ {w} : worker'[v] = worker[v]
  BY BuildOf DEF ExportInv, ExportTypes
<1>4. ExportTypes'
  BY <1>2 DEF ExportInv, ExportTypes
<1>5. \A v \in Workers, x \in Exports : Builds(v, x)' => x # e /\ v # w /\ Builds(v, x)
  BY <1>2 DEF Builds
<1>6. OneBuild'
  BY <1>5 DEF ExportInv, OneBuild, Exists
<1>7. \A x \in Exports : Status(x) = "expired" => Status(x)' = "expired"
  BY DEF Status
<1>8. ErasedHaveExpired'
  BY <1>7 DEF ExportInv, ErasedHaveExpired, ExportTypes, Asking, AskingAnew
<1>9. BuildsGoOn'
  <2> SUFFICES ASSUME NEW v \in Workers, worker'[v] # Free PROVE BuildGoesOn(v)'
    BY DEF BuildsGoOn
  <2>1. v # w /\ worker'[v] = worker[v] /\ BuildGoesOn(v)
    BY <1>2 DEF ExportInv, BuildsGoOn
  <2>2. PICK x \in Exports : x = worker[v].export
    BY <2>1 DEF ExportInv, ExportTypes, Building
  <2>3. x # e
    BY <1>2, <2>1, <2>2 DEF Builds
  <2> QED BY <1>1, <2>1, <2>2, <2>3 DEF BuildGoesOn, Status
<1>10. ShownIsCurrent'
  <2> SUFFICES ASSUME NEW x \in Exports, Downloadable(x)'
               PROVE  export'[x].stored /\ object'[x] # Nothing /\ Current(object'[x])
    BY <1>1 DEF ShownIsCurrent
  <2>1. CASE x # e
    BY <2>1 DEF ExportInv, ShownIsCurrent, Downloadable, Exists
  <2>2. CASE x = e
    BY <2>2
  <2> QED BY <2>1, <2>2
<1> QED BY <1>4, <1>6, <1>8, <1>9, <1>10 DEF ExportInv

LEMMA ReleasedJobs ==
  ASSUME ExportTypes, NEW e \in Exports,
         job' = [job EXCEPT ![e].state = "completed"] \/ job' = Retried(e)
  PROVE  /\ job' \in [Exports -> [state : {"none", "waiting", "active", "completed", "failed"},
                                    tries : Nat]]
         /\ \A x \in Exports \ {e} : job'[x] = job[x]
BY DEF ExportTypes, Retried

LEMMA TakeJobKeeps ==
  ASSUME ExportInv, NEW w \in Workers, NEW e \in Exports, TakeJob(w, e)
  PROVE  ExportInv'
<1>1. /\ worker[w].stage = "free" /\ job[e].state = "waiting"
      /\ job' = [job EXCEPT ![e].state = "active"]
      /\ worker' = [worker EXCEPT ![w] = [stage |-> "read", export |-> e]]
      /\ UNCHANGED <<content, export, announced, object, request>>
  BY DEF TakeJob, At, Advance
<1>2. \A items : Current(items)' = Current(items)
  BY <1>1 DEF Current, Announces, Doing
<1>3. ExportTypes'
  BY <1>1 DEF ExportInv, ExportTypes, Building
<1>4. worker[w] = Free
  BY <1>1 DEF ExportInv, ExportTypes, Building
<1>5. \A v \in Workers : ~Builds(v, e)
  BY <1>1 DEF ExportInv, OneBuild
<1>6. /\ \A v \in Workers \ {w} : worker'[v] = worker[v]
      /\ worker'[w] = [stage |-> "read", export |-> e]
  BY <1>1 DEF ExportInv, ExportTypes
<1>7. \A v \in Workers, x \in Exports : Builds(v, x)' => Builds(v, x) \/ (v = w /\ x = e)
  BY <1>6 DEF Builds
<1>8. OneBuild'
  <2>1. /\ job'[e].state = "active" /\ \A x \in Exports \ {e} : job'[x] = job[x]
    BY <1>1 DEF ExportInv, ExportTypes
  <2>2. Exists(e)
    BY <1>1 DEF ExportInv, OneBuild
  <2>3. \A x \in Exports : job'[x].state # "none" \/ x \in announced' => Exists(x)'
    BY <1>1, <2>1, <2>2 DEF ExportInv, OneBuild, Exists
  <2>4. \A v \in Workers, x \in Exports : Builds(v, x) => x # e /\ v # w
    BY <1>4, <1>5 DEF Builds
  <2>5. \A v \in Workers, x \in Exports : Builds(v, x)' => job'[x].state = "active"
    BY <1>7, <2>1, <2>4 DEF ExportInv, OneBuild
  <2>6. \A v, u \in Workers, x \in Exports : Builds(v, x)' /\ Builds(u, x)' => u = v
    BY <1>7, <2>4 DEF ExportInv, OneBuild
  <2> QED BY <2>3, <2>5, <2>6 DEF OneBuild
<1>9. ErasedHaveExpired'
  BY <1>1 DEF ExportInv, ErasedHaveExpired, Status
<1>10. BuildsGoOn'
  <2> SUFFICES ASSUME NEW v \in Workers, worker'[v] # Free PROVE BuildGoesOn(v)'
    BY DEF BuildsGoOn
  <2>1. CASE v = w
    BY <1>6, <2>1 DEF BuildGoesOn
  <2>2. CASE v # w
    BY <1>1, <1>2, <1>6, <2>2 DEF ExportInv, BuildsGoOn, BuildGoesOn, Status
  <2> QED BY <2>1, <2>2
<1>11. ShownIsCurrent'
  BY <1>1, <1>2 DEF ExportInv, ShownIsCurrent, Downloadable, Exists
<1> QED BY <1>3, <1>8, <1>9, <1>10, <1>11 DEF ExportInv

(* A build that does not end: its export changes to a status of its own.   *)
LEMMA AdvanceStep ==
  ASSUME ExportInv, NEW w \in Workers, NEW e \in Exports, worker[w] # Free,
         worker[w].export = e, UNCHANGED <<content, announced, request, job>>,
         NEW r \in Building, r.export = e, worker' = [worker EXCEPT ![w] = r],
         export' \in [Exports -> {NoExport} \cup Export],
         object' \in [Exports -> {Nothing} \cup Contents],
         \A x \in Exports \ {e} : export'[x] = export[x] /\ object'[x] = object[x],
         Exists(e)', Status(e) = "expired" => Status(e)' = "expired",
         BuildGoesOn(w)',
         \/ ~Downloadable(e)'
         \/ export'[e] = export[e] /\ object'[e] = object[e]
  PROVE  ExportInv'
<1>1. \A items : Current(items)' = Current(items)
  BY DEF Current, Announces, Doing
<1>2. /\ worker' \in [Workers -> {Free} \cup Building]
      /\ worker'[w] = r /\ \A v \in Workers \ {w} : worker'[v] = worker[v]
  BY DEF ExportInv, ExportTypes
<1>3. ExportTypes'
  BY <1>2 DEF ExportInv, ExportTypes
<1>4. \A x \in Exports : Status(x) = "expired" => Status(x)' = "expired"
  BY DEF Status
<1>5. ErasedHaveExpired'
  BY <1>4 DEF ExportInv, ErasedHaveExpired, ExportTypes, Asking, AskingAnew
<1>6. r # Free
  BY DEF Building, Free
<1>7. Builds(w, e) /\ Builds(w, e)'
  BY <1>2, <1>6 DEF Builds
<1>8. Downloadable(e)' =>
        export'[e].stored /\ object'[e] # Nothing /\ Current(object[e])'
  <2>1. export'[e] = export[e] /\ Downloadable(e)' => Downloadable(e)
    BY DEF Downloadable, Exists
  <2> QED BY <1>1, <2>1 DEF ExportInv, ShownIsCurrent
<1> QED BY <1>2, <1>3, <1>5, <1>7, <1>8, BuildStep

(* The build ends with its export and the object as they are, or unseen.   *)
LEMMA UnseenRelease ==
  ASSUME ExportInv, NEW w \in Workers, NEW e \in Exports, worker[w] # Free,
         worker[w].export = e, worker' = [worker EXCEPT ![w] = Free],
         UNCHANGED <<content, announced, request>>,
         job' = [job EXCEPT ![e].state = "completed"] \/ job' = Retried(e),
         \/ export' = export
         \/ Status(e) = "processing" /\ export' = [export EXCEPT ![e].status = "failed"],
         object' = object \/ (object' = Erased({e}) /\ Status(e) = "expired")
  PROVE  ExportInv'
<1>1. /\ job' \in [Exports -> [state : {"none", "waiting", "active", "completed", "failed"},
                                 tries : Nat]]
      /\ \A x \in Exports \ {e} : job'[x] = job[x]
  BY ReleasedJobs DEF ExportInv
<1>2. Exists(e) /\ export[e] \in Export
  BY BuildOf
<1>3. /\ export' \in [Exports -> {NoExport} \cup Export]
      /\ \A x \in Exports \ {e} : export'[x] = export[x]
      /\ Exists(e)' /\ (Status(e) = "expired" => Status(e)' = "expired")
      /\ export'[e] = export[e] \/ export'[e].status = "failed"
  BY <1>2 DEF ExportInv, ExportTypes, Export, Exists, NoExport,
              Status
<1>4. /\ object' \in [Exports -> {Nothing} \cup Contents]
      /\ \A x \in Exports \ {e} : object'[x] = object[x]
  BY DEF ExportInv, ExportTypes, Erased
<1>5. \/ ~Downloadable(e)'
      \/ export'[e].stored /\ object'[e] # Nothing /\ Current(object'[e])
  <2> SUFFICES ASSUME Downloadable(e)'
               PROVE  export'[e].stored /\ object'[e] # Nothing /\ Current(object'[e])
    OBVIOUS
  <2>1. export'[e] = export[e] /\ Downloadable(e) /\ Status(e) = "ready"
    BY <1>3 DEF Downloadable, Exists, Status
  <2>2. object' = object
    BY <2>1
  <2> QED BY <2>1, <2>2 DEF ExportInv, ShownIsCurrent
<1> QED BY <1>1, <1>3, <1>4, <1>5, ReleaseStep

LEMMA BuildsKeep ==
  ASSUME Nothing \notin SUBSET (Files \cup People), ExportInv, NEW w \in Workers,
         Build(w)
  PROVE  ExportInv'
<1>1. CASE \E e \in Exports : TakeJob(w, e)
  BY <1>1, TakeJobKeeps
<1>2. SUFFICES ASSUME \/ Start(w) \/ Load(w) \/ Upload(w)
                      \/ Finish(w) \/ Discard(w) \/ Fail(w)
                      \/ Crash(w)
               PROVE  ExportInv'
  BY <1>1 DEF Build
<1>3. worker[w] # Free
  BY <1>2 DEF Start, Load, Upload, Finish,
     Discard, Fail, Crash, At, Free
<1>4. PICK e \in Exports : e = worker[w].export
  BY <1>3, BuildOf
<1>5. /\ worker[w] \in Building /\ Exists(e)
      /\ export[e] \in Export /\ BuildGoesOn(w)
  BY <1>3, <1>4, BuildOf
<1>6. /\ export \in [Exports -> {NoExport} \cup Export]
      /\ object \in [Exports -> {Nothing} \cup Contents]
      /\ content \in Contents
  BY DEF ExportInv, ExportTypes
<1>7. CASE Start(w)
  <2>1. /\ worker[w].stage = "read" /\ UNCHANGED <<content, announced, request>>
        /\ \/ export[e].status = "ready" /\ Done(w, e) /\ UNCHANGED <<export, object>>
           \/ /\ export[e].status = "expired" /\ Done(w, e) /\ UNCHANGED export
              /\ object' \in {object, Erased({e})}
           \/ /\ export[e].status # "ready" /\ export[e].status # "expired"
              /\ export' = [export EXCEPT ![e].status = "processing"]
              /\ Advance(w, [stage |-> "started", export |-> e])
              /\ UNCHANGED <<object, job>>
    BY <1>4, <1>7, Zenon DEF Start, At
  <2>2. CASE Done(w, e)
    <3>1. /\ worker' = [worker EXCEPT ![w] = Free]
          /\ job' = [job EXCEPT ![e].state = "completed"]
      BY <2>2 DEF Done, Release
    <3>2. /\ export' = export
          /\ object' = object \/ (object' = Erased({e}) /\ Status(e) = "expired")
      BY <2>1, <3>1, <1>5, <1>6 DEF Advance, Free, Status, ExportInv,
         ExportTypes
    <3> QED BY <1>3, <1>4, <2>1, <3>1, <3>2, UnseenRelease
  <2>3. CASE ~Done(w, e)
    <3> DEFINE r == [stage |-> "started", export |-> e]
    <3>1. r \in Building /\ r.export = e
      BY DEF Building
    <3>2. /\ export' = [export EXCEPT ![e].status = "processing"]
          /\ worker' = [worker EXCEPT ![w] = r] /\ UNCHANGED <<object, job>>
          /\ Status(e) # "expired"
      BY <2>1, <2>3 DEF Advance, Status
    <3>3. /\ export' \in [Exports -> {NoExport} \cup Export]
          /\ \A x \in Exports \ {e} : export'[x] = export[x]
          /\ Exists(e)' /\ ~Downloadable(e)' /\ Status(e)' = "processing"
      BY <1>5, <1>6, <3>2 DEF Export, Exists, NoExport,
         Downloadable, Status
    <3>4. worker'[w] = [stage |-> "started", export |-> e]
      BY <3>2 DEF ExportInv, ExportTypes
    <3>5. BuildGoesOn(w)'
      BY <3>3, <3>4 DEF BuildGoesOn, Status
    <3> HIDE DEF r
    <3> QED BY <1>3, <1>4, <1>6, <2>1, <3>1, <3>2, <3>3, <3>5, AdvanceStep
  <2> QED BY <2>2, <2>3
<1>8. CASE Load(w)
  <2> DEFINE r == [stage |-> "loaded", export |-> e, snapshot |-> content]
  <2>1. /\ worker[w].stage = "started" /\ worker' = [worker EXCEPT ![w] = r]
        /\ UNCHANGED <<content, export, announced, object, job, request>>
    BY <1>4, <1>8 DEF Load, At, Advance
  <2>2. r \in Building /\ r.export = e
    BY <1>6 DEF Building
  <2>3. worker'[w] = [stage |-> "loaded", export |-> e, snapshot |-> content]
    BY <2>1 DEF ExportInv, ExportTypes
  <2>4. BuildGoesOn(w)'
    BY <1>4, <1>5, <2>1, <2>3 DEF BuildGoesOn, Status, Current
  <2>5. Exists(e)' /\ Status(e)' = Status(e)
    BY <1>5, <2>1 DEF Exists, Status
  <2> HIDE DEF r
  <2> QED BY <1>3, <1>4, <1>6, <2>1, <2>2, <2>4, <2>5, AdvanceStep
<1>9. CASE Upload(w)
  <2>1. /\ worker[w].stage = "loaded" /\ object' = [object EXCEPT ![e] = worker[w].snapshot]
        /\ worker' = [worker EXCEPT ![w].stage = "uploaded"]
        /\ UNCHANGED <<content, export, announced, job, request>>
    BY <1>4, <1>9 DEF Upload, At
  <2>2. PICK r \in Building :
          r = [stage |-> "uploaded", export |-> e, snapshot |-> worker[w].snapshot]
    BY <1>4, <1>5, <2>1 DEF Building
  <2>3. worker' = [worker EXCEPT ![w] = r] /\ worker'[w] = r /\ r.export = e
    <3>1. [worker[w] EXCEPT !.stage = "uploaded"] = r
      BY <1>4, <1>5, <2>1, <2>2 DEF Building
    <3>2. worker' = [worker EXCEPT ![w] = [worker[w] EXCEPT !.stage = "uploaded"]]
      BY <2>1
    <3>3. worker' = [worker EXCEPT ![w] = r]
      BY <3>1, <3>2
    <3>4. r.export = e
      BY <2>2
    <3>5. worker'[w] = r
      BY <3>3 DEF ExportInv, ExportTypes
    <3> QED BY <3>3, <3>4, <3>5
  <2>4. /\ object' \in [Exports -> {Nothing} \cup Contents]
        /\ \A x \in Exports \ {e} : object'[x] = object[x]
        /\ object'[e] = r.snapshot
    BY <1>5, <1>6, <2>1, <2>2 DEF Building
  <2>5. /\ Exists(e)' /\ Status(e)' = Status(e) /\ ~Downloadable(e)'
        /\ Status(e) \in {"processing", "expired"}
    BY <1>4, <1>5, <2>1 DEF Exists, Status, BuildGoesOn, Downloadable
  <2>6. BuildGoesOn(w)'
    <3>1. Status(e) = "processing" => Current(r.snapshot)
      BY <1>4, <1>5, <2>1, <2>2 DEF BuildGoesOn
    <3>2. Status(e)' = "processing" => Current(worker[w].snapshot)'
      BY <2>1, <2>2, <2>3, <2>5, <3>1 DEF Current, Announces, Doing
    <3> QED BY <1>4, <2>2, <2>3, <2>4, <2>5, <3>2 DEF BuildGoesOn
  <2>7. /\ UNCHANGED <<content, announced, request, job>>
        /\ export' \in [Exports -> {NoExport} \cup Export]
        /\ \A x \in Exports \ {e} : export'[x] = export[x] /\ object'[x] = object[x]
        /\ Status(e) = "expired" => Status(e)' = "expired"
    BY <1>6, <2>1, <2>4, <2>5
  <2> QED BY <1>3, <1>4, <2>3, <2>4, <2>5, <2>6, <2>7, AdvanceStep
<1>10. CASE Finish(w)
  <2>1. worker[w].stage = "uploaded" /\ UNCHANGED <<content, announced, object, request>>
    BY <1>10 DEF Finish, At
  <2>2. CASE Status(e) = "processing"
    <3>1. /\ export' = [export EXCEPT ![e] =
                          [status |-> "ready", stored |-> TRUE, lapsed |-> FALSE]]
          /\ worker' = [worker EXCEPT ![w] = Free]
          /\ job' = [job EXCEPT ![e].state = "completed"]
      BY <1>4, <1>10, <2>2 DEF Finish, Status, Done, Release
    <3>2. /\ export' \in [Exports -> {NoExport} \cup Export]
          /\ \A x \in Exports \ {e} : export'[x] = export[x]
          /\ Exists(e)' /\ export'[e].stored
      BY <1>6, <3>1 DEF Export, NoExport, Exists
    <3>3. object'[e] = worker[w].snapshot /\ Current(worker[w].snapshot)
      BY <1>4, <1>5, <2>1, <2>2 DEF BuildGoesOn
    <3>4. object'[e] # Nothing
      BY <1>5, <2>1, <3>3 DEF Building, Contents, Items
    <3> QED BY <1>3, <1>4, <1>6, <2>1, <2>2, <3>1, <3>2, <3>3, <3>4, ReleasedJobs, ReleaseStep
               DEF ExportInv
  <2>3. CASE Status(e) # "processing"
    <3>1. Status(e) = "expired"
      BY <1>4, <1>5, <2>1, <2>3 DEF BuildGoesOn
    <3> DEFINE r == [stage |-> "discard", export |-> e]
    <3>2. worker' = [worker EXCEPT ![w] = r] /\ UNCHANGED <<export, job>>
      BY <1>4, <1>10, <2>3 DEF Finish, Status, Advance
    <3>3. r \in Building /\ r.export = e
      BY DEF Building
    <3>4. worker'[w] = [stage |-> "discard", export |-> e]
      BY <3>2 DEF ExportInv, ExportTypes
    <3>5. Exists(e)' /\ Status(e)' = "expired"
      BY <1>5, <3>1, <3>2 DEF Exists, Status
    <3>6. BuildGoesOn(w)'
      BY <3>4, <3>5 DEF BuildGoesOn
    <3> HIDE DEF r
    <3> QED BY <1>3, <1>4, <1>6, <2>1, <3>2, <3>3, <3>5, <3>6, AdvanceStep
  <2> QED BY <2>2, <2>3
<1>11. CASE Discard(w)
  <2>1. /\ worker[w].stage = "discard" /\ object' = Erased({e})
        /\ worker' = [worker EXCEPT ![w] = Free]
        /\ job' = [job EXCEPT ![e].state = "completed"]
        /\ UNCHANGED <<content, export, announced, request>>
    BY <1>4, <1>11 DEF Discard, At, Done, Release
  <2>2. Status(e) = "expired"
    BY <1>4, <1>5, <2>1 DEF BuildGoesOn
  <2> QED BY <1>3, <1>4, <2>1, <2>2, UnseenRelease
<1>12. CASE Fail(w)
  <2>1. /\ \/ export' = export
           \/ Status(e) = "processing" /\ export' = [export EXCEPT ![e].status = "failed"]
        /\ worker' = [worker EXCEPT ![w] = Free] /\ job' = Retried(e)
        /\ UNCHANGED <<content, announced, object, request>>
    BY <1>4, <1>12 DEF Fail, Release, Status
  <2> QED BY <1>3, <1>4, <2>1, UnseenRelease
<1>13. CASE Crash(w)
  <2>1. /\ worker' = [worker EXCEPT ![w] = Free] /\ job' = Retried(e)
        /\ UNCHANGED <<content, export, announced, object, request>>
    BY <1>4, <1>13 DEF Crash, Release
  <2> QED BY <1>3, <1>4, <2>1, UnseenRelease
<1> QED BY <1>2, <1>7, <1>8, <1>9, <1>10, <1>11, <1>12, <1>13

LEMMA NextExports ==
  ASSUME EventExportsAssumption, Nothing \notin SUBSET (Files \cup People),
         ExportInv, [Next]_vars
  PROVE  ExportInv'
<1>1. CASE UNCHANGED vars
  BY <1>1 DEF vars, ExportInv, ExportTypes, OneBuild, Builds, BuildsGoOn, BuildGoesOn,
     ErasedHaveExpired, ShownIsCurrent, Status, Current, Announces, Doing,
     Exists, Downloadable
<1>2. CASE Next
  BY <1>2, RequestsKeep, TimeKeeps, BuildsKeep DEF Next
<1> QED BY <1>1, <1>2

(* An export that can be downloaded has its object, and it holds the files *)
(* as they are or an invalidation is to come (buildExport,                 *)
(* invalidateEventExports and the worker's maintenance, in any order).     *)
THEOREM ExportsAreCurrent ==
  ASSUME EventExportsAssumption, Nothing \notin SUBSET (Files \cup People)
  PROVE  Spec => []ReadyExportIsCurrent
<1>1. ExportInv => ReadyExportIsCurrent
  BY DEF ExportInv, ShownIsCurrent, Current, Announces, ReadyExportIsCurrent,
         Invalidating
<1> QED BY InitExports, NextExports, <1>1, PTL DEF Spec

-----------------------------------------------------------------------------
(* The start of the Mini App *)

(* Sessions that are live were opened for somebody, and what was written    *)
(* was written for the person whose session the page has.                  *)
WebInv ==
  /\ live \subseteq Sessions
  /\ owner \in [Sessions -> Tabs \cup {Nothing}]
  /\ \A s \in live : owner[s] # Nothing
  /\ done \subseteq Tabs \X Tabs
  /\ WritesAreOfTheTab

LEMMA WebSteps == Web!StartupAssumption /\ WebInv /\ [Web!Next]_webVars => WebInv'
<1> SUFFICES ASSUME Web!StartupAssumption, WebInv, [Web!Next]_webVars
             PROVE  WebInv'
  OBVIOUS
<1>0. Nothing \notin Sessions /\ Nothing \notin Tabs
  BY DEF Web!StartupAssumption
<1>1. CASE UNCHANGED <<owner, live, done>>
  BY <1>1 DEF WebInv, WritesAreOfTheTab, Web!WritesAreOfTheTab
<1>2. ASSUME NEW t \in Tabs, Web!CreateSession(t)
      PROVE  WebInv'
  <2>1. PICK s \in Sessions : /\ owner[s] = Nothing
                              /\ owner' = [owner EXCEPT ![s] = t]
                              /\ live' = live \cup {s} /\ done' = done
    BY <1>2 DEF Web!CreateSession
  <2>2. /\ live' \subseteq Sessions /\ owner' \in [Sessions -> Tabs \cup {Nothing}]
        /\ done' \subseteq Tabs \X Tabs
    BY <2>1 DEF WebInv
  <2>3. \A r \in live' : owner'[r] # Nothing
    BY <2>1, <1>0 DEF WebInv
  <2>4. WritesAreOfTheTab'
    BY <2>1 DEF WebInv, WritesAreOfTheTab, Web!WritesAreOfTheTab
  <2> QED BY <2>2, <2>3, <2>4 DEF WebInv
<1>3. ASSUME NEW t \in Tabs, Web!Write(t)
      PROVE  WebInv'
  <2> DEFINE s == token[t]
  <2>1. /\ Web!Identified(t) = s /\ Web!Identified(t) # Nothing
        /\ done' = done \cup {<<owner[s], owner[s]>>} /\ UNCHANGED <<owner, live>>
    BY <1>3 DEF Web!Write, Web!RequireCsrf
  <2>2. s \in live
    BY <2>1 DEF Web!Identified
  <2>3. owner[s] \in Tabs
    BY <2>2 DEF WebInv
  <2>4. done' \subseteq Tabs \X Tabs /\ WritesAreOfTheTab'
    BY <2>1, <2>3 DEF WebInv, WritesAreOfTheTab, Web!WritesAreOfTheTab
  <2> QED BY <2>1, <2>4 DEF WebInv
<1>4. ASSUME NEW s \in Sessions, Web!SessionExpires(s)
      PROVE  WebInv'
  BY <1>4 DEF Web!SessionExpires, WebInv, WritesAreOfTheTab, Web!WritesAreOfTheTab
<1> QED BY <1>1, <1>2, <1>3, <1>4
        DEF Web!Next, webVars, Web!Open, Web!LaunchDataCome, Web!Authenticate, Web!GetSession,
            Web!UseLaunchData, Web!SaveAuthSession, Web!RefreshUser, Web!Fail, Web!Timeout

(* Whoever signs in in whichever tab of a browser, and whatever expires:   *)
(* what a page writes is written for the person whose session it has, and  *)
(* for somebody.                                                           *)
THEOREM WritesAreOfOnePerson ==
  ASSUME Web!StartupAssumption
  PROVE  Web!Spec => [](WritesAreOfTheTab /\ done \subseteq Tabs \X Tabs)
<1>1. Web!Init => WebInv
  BY DEF Web!Init, WebInv, WritesAreOfTheTab, Web!WritesAreOfTheTab
<1>2. WebInv => WritesAreOfTheTab /\ done \subseteq Tabs \X Tabs
  BY DEF WebInv
<1>3. WebInv /\ [Web!Next]_webVars => WebInv'
  BY WebSteps
<1> QED BY <1>1, <1>2, <1>3, PTL DEF Web!Spec, Web!vars, webVars
=============================================================================
