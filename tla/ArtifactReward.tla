---------------------------- MODULE ArtifactReward ----------------------------
(***************************************************************************)
(* The reward of a finished artifact: submissions of one event become      *)
(* ready, are reopened and removed; an evaluation, asked for by the worker *)
(* itself, by a row of the outbox or by an administrator's reconciliation, *)
(* grants it once (grantArtifactReward, worker/verifier.ts,                *)
(* worker/outbox.ts, POST rewards/reconcile), while the policy changes and *)
(* points are reset.                                                       *)
(*                                                                         *)
(* One evaluation is one step: it holds the lock of its user's reward, and *)
(* the rows of its submission, policy and event.  An evaluation that meets *)
(* a reset between its reads and its locks throws; so may any other.       *)
(***************************************************************************)
EXTENDS Ledger

CONSTANTS Event,        \* the event
          Submissions,  \* its submissions
          Author,       \* whose they are
          MaxTime,      \* bound: the last moment of a behaviour
          Welcome,      \* points a user registers with
          Policies      \* the policies administrators may set

Time == 1 .. MaxTime
Policy == [enabled : BOOLEAN, manual : BOOLEAN, amount : Nat \ {0},
           from : Nat, until : Nat]

RewardAssumption ==
  /\ Events = {Event}
  /\ Author \in [Submissions -> Users]
  /\ MaxTime \in Nat \ {0} /\ Welcome \in Nat
  /\ Policies \subseteq Policy

VARIABLES now,         \* the clock
          opened,      \* when the active season started
          submission,  \* the submissions: status, and when they became ready
          policy,      \* the policy of the event
          claim,       \* event_reward_claims
          row,         \* reward.artifact.evaluate rows, one for a submission
          direct,      \* evaluations the worker is about to run itself
          plan         \* what a reconciliation has still to evaluate

rest == <<now, opened, submission, policy>>
rewardVars == <<ledgerVars, rest, claim, row, direct, plan>>

NoPolicy == [enabled |-> FALSE]
NotReconciling == [running |-> FALSE]

(* filed: it has a file that is ready. *)
Submission == [status : {"none", "processing", "ready", "deleted"}, at : 0 .. MaxTime,
               filed : BOOLEAN]
Claim == [user : Users, submission : Submissions, amount : Nat \ {0}]
RewardKey(u) == <<"artifact-reward", u>>
Key == {"welcome", "artifact-reward"} \X Users

TypeOK ==
  /\ LedgerTypeOK(Key, {<<>>} \cup (Users \X Nat), Users \cup {"reward"})
  /\ now \in Time /\ opened \in 0 .. MaxTime
  /\ submission \in [Submissions -> Submission]
  /\ policy \in Policies \cup {NoPolicy}
  /\ claim \subseteq Claim
  /\ row \in [Submissions -> {"none", "waiting", "processed"}]
  /\ direct \subseteq Submissions
  /\ plan \in {NotReconciling} \cup [running : {TRUE}, todo : SUBSET Submissions]

Init ==
  /\ WelcomedInit(Welcome)
  /\ now = 1 /\ opened = 0
  /\ submission = [s \in Submissions |-> [status |-> "none", at |-> 0, filed |-> FALSE]]
  /\ policy = NoPolicy
  /\ claim = {}
  /\ row = [s \in Submissions |-> "none"]
  /\ direct = {}
  /\ plan = NotReconciling

-----------------------------------------------------------------------------
(* Submissions *)

Announced(s) == IF row[s] = "none" THEN [row EXCEPT ![s] = "waiting"] ELSE row

Tick ==
  /\ now < MaxTime
  /\ now' = now + 1
  /\ UNCHANGED <<ledgerVars, opened, submission, policy, claim, row, direct, plan>>

(* The worker commits the last file: a row for the relay, unless one was   *)
(* ever written, and an evaluation of its own to run next.                 *)
BecomeReady(s) ==
  /\ submission[s].status \in {"none", "processing"}
  /\ submission' = [submission EXCEPT ![s] = [status |-> "ready", at |-> now, filed |-> TRUE]]
  /\ row' = Announced(s)
  /\ direct' = direct \cup {s}
  /\ UNCHANGED <<ledgerVars, now, opened, policy, claim, plan>>

(* A submission of text alone is ready at once, and no reward is due.      *)
BecomeReadyAsText(s) ==
  /\ submission[s].status = "none"
  /\ submission' = [submission EXCEPT ![s] = [status |-> "ready", at |-> now, filed |-> FALSE]]
  /\ UNCHANGED <<ledgerVars, now, opened, policy, claim, row, direct, plan>>

(* Another file is uploaded. *)
Reopen(s) ==
  /\ submission[s].status = "ready"
  /\ submission' = [submission EXCEPT ![s].status = "processing"]
  /\ UNCHANGED <<ledgerVars, now, opened, policy, claim, row, direct, plan>>

(* Its files are removed one by one, or it is removed. *)
RemoveFiles(s) ==
  /\ submission[s].filed
  /\ submission' = [submission EXCEPT ![s].filed = FALSE]
  /\ UNCHANGED <<ledgerVars, now, opened, policy, claim, row, direct, plan>>

Remove(s) ==
  /\ submission[s].status \in {"processing", "ready"}
  /\ submission' = [submission EXCEPT ![s].status = "deleted", ![s].filed = FALSE]
  /\ UNCHANGED <<ledgerVars, now, opened, policy, claim, row, direct, plan>>

-----------------------------------------------------------------------------
(* PUT /admin/events/:eventId/reward-policy: the fund is made with it. *)

SetPolicy(p) ==
  /\ policy' = p
  /\ account' = WithAccounts({<<season, Event>>})
  /\ UNCHANGED <<season, balance, ledger, now, opened, submission, claim, row, direct, plan>>

(* POST /admin/wallet/reset *)
Reset ==
  /\ SwitchSeason
  /\ opened' = now
  /\ UNCHANGED <<now, submission, policy, claim, row, direct, plan>>

-----------------------------------------------------------------------------
(* grantArtifactReward *)

Claimed(u) == \E c \in claim : c.user = u

InWindow(s) == submission[s].at >= policy.from /\ submission[s].at <= policy.until

(* Bug a run must catch: the fence of the reset is forgotten. *)
EligibleUnfenced(s, manual) ==
  /\ submission[s].status = "ready" /\ submission[s].filed
  /\ policy.enabled /\ (policy.manual => manual)
  /\ InWindow(s)

(* manual: an administrator asks. *)
Eligible(s, manual) ==
  /\ submission[s].status = "ready" /\ submission[s].filed
  /\ policy.enabled /\ (policy.manual => manual)
  /\ InWindow(s)
  /\ submission[s].at >= opened

Reward(s) ==
  [key |-> RewardKey(Author[s]), body |-> <<Author[s], policy.amount>>, actor |-> "reward",
   season |-> season, from |-> <<season, Event>>, to |-> <<season, Author[s]>>,
   amount |-> policy.amount]

(* The claim, its transaction and the accounts it needs commit together. *)
Grant(s) ==
  LET accounts == WithAccounts({<<season, Event>>, <<season, Author[s]>>})
  IN /\ CanPost(accounts, Reward(s))
     /\ Post(Reward(s))
     /\ account' = accounts
     /\ claim' = claim \cup
          {[user |-> Author[s], submission |-> s, amount |-> policy.amount]}
     /\ UNCHANGED season

(* Bug a run must catch: a reward is for a submission. *)
EvaluateEach(s, manual) ==
  LET reward == [Reward(s) EXCEPT !.key = <<"artifact-reward", s>>]
  IN IF Eligible(s, manual) /\ ~Posted(reward.key)
     THEN /\ Post(reward)
          /\ account' = WithAccounts({<<season, Event>>, <<season, Author[s]>>})
          /\ claim' = claim \cup
               {[user |-> Author[s], submission |-> s, amount |-> policy.amount]}
          /\ UNCHANGED season
     ELSE UNCHANGED <<ledgerVars, claim>>

Evaluate(s, manual) ==
  IF Eligible(s, manual) /\ ~Claimed(Author[s])
  THEN Grant(s) ELSE UNCHANGED <<ledgerVars, claim>>

(* Bug a run must catch: a row whose evaluation throws is given up. *)
RelayOnce(s) ==
  /\ row[s] = "waiting"
  /\ Evaluate(s, FALSE) \/ UNCHANGED <<ledgerVars, claim>>
  /\ row' = [row EXCEPT ![s] = "processed"]
  /\ UNCHANGED <<rest, direct, plan>>

(* The relay processes a row whatever the evaluation answers; if it throws *)
(* the row is tried again.                                                 *)
Relay(s) ==
  /\ row[s] = "waiting"
  /\ Evaluate(s, FALSE)
  /\ row' = [row EXCEPT ![s] = "processed"]
  /\ UNCHANGED <<rest, direct, plan>>

(* The worker's own evaluation may throw, or die with it. *)
EvaluateDirect(s) ==
  /\ s \in direct
  /\ Evaluate(s, FALSE)
  /\ direct' = direct \ {s}
  /\ UNCHANGED <<rest, row, plan>>

LoseDirect(s) ==
  /\ s \in direct
  /\ direct' = direct \ {s}
  /\ UNCHANGED <<ledgerVars, rest, claim, row, plan>>

-----------------------------------------------------------------------------
(* POST /admin/events/:eventId/rewards/reconcile *)

Candidates ==
  {s \in Submissions : /\ submission[s].status = "ready" /\ submission[s].filed
                       /\ ~Claimed(Author[s])}

(* One submission for each user, the earliest by creation. *)
OnePerUser(ss) ==
  {t \in SUBSET ss : /\ {Author[s] : s \in t} = {Author[s] : s \in ss}
                     /\ \A r, s \in t : Author[r] = Author[s] => r = s}

BeginReconcile ==
  /\ policy # NoPolicy /\ plan = NotReconciling
  /\ \E t \in OnePerUser(Candidates) :
       plan' = [running |-> TRUE, todo |-> t]
  /\ UNCHANGED <<ledgerVars, rest, claim, row, direct>>

Reconcile(s) ==
  /\ plan.running /\ s \in plan.todo
  /\ Evaluate(s, TRUE)
  /\ plan' = [plan EXCEPT !.todo = @ \ {s}]
  /\ UNCHANGED <<rest, row, direct>>

(* An evaluation throws, which ends the request, or the list is done. *)
EndReconcile ==
  /\ plan.running
  /\ plan' = NotReconciling
  /\ UNCHANGED <<ledgerVars, rest, claim, row, direct>>

-----------------------------------------------------------------------------

Next ==
  \/ Tick \/ Reset
  \/ \E p \in Policies : SetPolicy(p)
  \/ \E s \in Submissions :
       \/ BecomeReady(s) \/ BecomeReadyAsText(s) \/ Reopen(s) \/ RemoveFiles(s) \/ Remove(s)
       \/ Relay(s) \/ EvaluateDirect(s) \/ LoseDirect(s) \/ Reconcile(s)
  \/ BeginReconcile \/ EndReconcile

Spec == Init /\ [][Next]_rewardVars
(* The relay polls; an evaluation does not throw for ever. *)
Fairness == \A s \in Submissions : WF_rewardVars(Relay(s))
FairSpec == Spec /\ Fairness

-----------------------------------------------------------------------------
(* Properties *)

(* "Unique for a user and an event, for all time" (docs/wallet.md): over   *)
(* seasons, submissions, changed amounts and three sources of evaluations, *)
(* a claim and its points go together, once (wallet-service.ts).           *)
RewardedOnce ==
  \A u \in Users :
    LET paid == {t \in ledger : t.actor = "reward" /\ t.to[2] = u}
        claims == {c \in claim : c.user = u}
    IN /\ Cardinality(claims) <= 1
       /\ {t.amount : t \in paid} = {c.amount : c \in claims}
       /\ Cardinality(paid) = Cardinality(claims)

(* A reset is a fence: after it, whoever has points has finished something *)
(* since (wallet-service.ts, the comparison with the start of the season). *)
PointsAreOfThisSeason ==
  season > 1 => \A u \in Users : balance[<<season, u>>] > 0 =>
    \E s \in Submissions : Author[s] = u /\ submission[s].at >= opened

(* A reward that is due when the relay is asked for it is granted, although *)
(* evaluations throw and the worker's own one is lost, unless it stops      *)
(* being due (outbox.ts).                                                   *)
AnnouncedRewardArrives ==
  \A s \in Submissions :
    row[s] = "waiting" /\ Eligible(s, FALSE) ~> Claimed(Author[s]) \/ ~Eligible(s, FALSE)

===============================================================================
