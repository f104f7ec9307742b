------------------------------- MODULE LeaderId -------------------------------
(***************************************************************************)
(* The binding of users to Leader-ID profiles, and the registration of     *)
(* those profiles for the events of the programme, at a service that knows *)
(* no idempotency key and may lose its answers (leader-id-service.ts,      *)
(* leader-id-production.ts, routes/leader-id.ts).                          *)
(*                                                                         *)
(* A tab is an OAuth authorisation; tabs are numbered in the order of      *)
(* their creation, which orders bindings.  The lease of a user may end at  *)
(* any time while its holder goes on, and a holder may die between any two *)
(* steps: what protects a registration is the claim in its row.  Reads     *)
(* made one after the other without a call in between are one step.        *)
(***************************************************************************)
EXTENDS Naturals, FiniteSets

CONSTANTS Users, Profiles,   \* accounts here, accounts at Leader-ID
          MaxTab,            \* bound: authorisations that are begun
          Events,            \* the events users are registered for
          Externals,         \* identifiers of events at Leader-ID
          External0,         \* which an event has at first
          Remaps,            \* the pairs of them an administrator may replace
          Changes,           \* the switches of an event administrators turn
          Handlers,          \* subscriptions in progress
          MaxAttempts,       \* bound: attempts of a registration
          Nobody

Tabs == 1 .. MaxTab

ASSUME LeaderIdAssumption ==
  /\ External0 \in [Events -> Externals]
  /\ \A e, f \in Events : External0[e] = External0[f] => e = f   \* a unique index
  /\ Remaps \subseteq Externals \X Externals
  /\ Changes \subseteq {"active", "open"}
  /\ MaxTab \in Nat /\ MaxAttempts \in Nat
  /\ Nobody \notin Handlers

VARIABLES tab,           \* OAuth states in Redis
          binding,       \* leader_id_bindings
          event,         \* the Leader-ID columns of events
          registration,  \* leader_id_event_registrations
          granted,       \* users with a row in leader_id_reward_grants
          invited,       \* users with an outbox row for the invitation
          lease,         \* who holds the lease of a user
          handler,       \* subscriptions in progress
          remote,        \* participations at Leader-ID
          accepted       \* participations our own calls made there

local == <<tab, binding, event, registration, granted, invited, lease>>
world == <<remote, accepted>>
vars == <<local, handler, world>>

-----------------------------------------------------------------------------

Moderation == {"wait", "approved", "declined"}
Confirmed == {"REGISTERED"}                    \* and ALREADY_REGISTERED
Qualifying == Confirmed \cup {"PENDING_APPROVAL"}
Status == Qualifying \cup {"FAILED", "BLOCKED"}

(* BLOCKED is REGISTRATION_CLOSED, QUESTIONNAIRE_REQUIRED or               *)
(* EVENT_NOT_AVAILABLE.  unknown: POST_OUTCOME_UNKNOWN.                    *)
NoRow == [attempts |-> 0]
Registered ==
  [profile : Profiles, external : Externals, status : Status, retryable : BOOLEAN,
   unknown : BOOLEAN, attempts : 1 .. MaxAttempts, claim : Handlers \cup {Nobody}]

Unbound == [since |-> 0]
Bound == [profile : Profiles, since : Tabs, tokens : Profiles]

Idle == [stage |-> "idle"]
Stage == {"linked", "leased", "bound", "prepared", "decide", "claimed", "unsure"}

TypeOK ==
  /\ tab \in [Tabs -> [state : {"unborn", "spent"}]
                        \cup [state : {"issued"}, user : Users, profile : Profiles]]
  /\ binding \in [Users -> {Unbound} \cup Bound]
  /\ event \in [Events -> [external : Externals, active : BOOLEAN, open : BOOLEAN]]
  /\ registration \in [Users -> [Events -> {NoRow} \cup Registered]]
  /\ granted \subseteq Users /\ invited \subseteq Users
  /\ lease \in [Users -> Handlers \cup {Nobody}]
  /\ \A h \in Handlers : handler[h] = Idle \/ handler[h].stage \in Stage
  /\ remote \in [Profiles -> [Externals -> Moderation \cup {"none"}]]
  /\ accepted \in [Profiles -> [Externals -> Nat]]

Init ==
  /\ tab = [t \in Tabs |-> [state |-> "unborn"]]
  /\ binding = [u \in Users |-> Unbound]
  /\ event = [e \in Events |-> [external |-> External0[e], active |-> TRUE, open |-> TRUE]]
  /\ registration = [u \in Users |-> [e \in Events |-> NoRow]]
  /\ granted = {} /\ invited = {}
  /\ lease = [u \in Users |-> Nobody]
  /\ handler = [h \in Handlers |-> Idle]
  /\ remote = [p \in Profiles |-> [x \in Externals |-> "none"]]
  /\ accepted = [p \in Profiles |-> [x \in Externals |-> 0]]

-----------------------------------------------------------------------------
(* Linking: POST /catalyst/leader-id/bind and the OAuth callback *)

BeginLink(t, u, p) ==
  /\ tab[t].state = "unborn"
  /\ \A s \in Tabs : s < t => tab[s].state # "unborn"
  /\ tab' = [tab EXCEPT ![t] = [state |-> "issued", user |-> u, profile |-> p]]
  /\ UNCHANGED <<binding, event, registration, granted, invited, lease, handler, world>>

(* The state is spent before anything is known: by an authorisation that   *)
(* fails, or of another profile, by a cancelled one or by its time.        *)
SpendTab(t) ==
  /\ tab[t].state = "issued"
  /\ tab' = [tab EXCEPT ![t] = [state |-> "spent"]]
  /\ UNCHANGED <<binding, event, registration, granted, invited, lease, handler, world>>

IsBound(u) == binding[u] # Unbound
Claims(u) == {e \in Events : registration[u][e] # NoRow /\ registration[u][e].claim # Nobody}

(* Bug a run must catch: the claims of the other profile are not looked at.*)
ReplacesUnfenced(t, u, p) ==
  IsBound(u) => binding[u].since < t

(* upsertVerifiedBinding, under the lock of the user's binding.            *)
Replaces(t, u, p) ==
  IsBound(u) => binding[u].since < t /\ (binding[u].profile = p \/ Claims(u) = {})

CompleteLink(t, h) ==
  LET u == tab[t].user
      p == tab[t].profile
  IN /\ tab[t].state = "issued" /\ handler[h] = Idle
     /\ \A v \in Users \ {u} : IsBound(v) => binding[v].profile # p
     /\ Replaces(t, u, p)
     /\ binding' = [binding EXCEPT ![u] = [profile |-> p, since |-> t, tokens |-> p]]
     /\ tab' = [tab EXCEPT ![t] = [state |-> "spent"]]
     /\ handler' = [handler EXCEPT ![h] = [stage |-> "linked", user |-> u]]
     /\ UNCHANGED <<event, registration, granted, invited, lease, world>>

(* onLinked, and the subscription that follows. *)
Invite(h) ==
  /\ handler[h].stage = "linked"
  /\ invited' = invited \cup {handler[h].user}
  /\ handler' = [handler EXCEPT ![h] = Idle]
  /\ UNCHANGED <<tab, binding, event, registration, granted, lease, world>>

-----------------------------------------------------------------------------
(* Administrators and Leader-ID itself *)

Turn(e, switch) ==
  /\ event' = [event EXCEPT ![e][switch] = ~@]
  /\ UNCHANGED <<tab, binding, registration, granted, invited, lease, handler, world>>

Remap(e, x) ==
  /\ <<event[e].external, x>> \in Remaps
  /\ \A f \in Events : event[f].external # x
  /\ event' = [event EXCEPT ![e].external = x]
  /\ UNCHANGED <<tab, binding, registration, granted, invited, lease, handler, world>>

Moderate(p, x) ==
  /\ remote[p][x] = "wait"
  /\ \E m \in {"approved", "declined"} : remote' = [remote EXCEPT ![p][x] = m]
  /\ UNCHANGED <<local, handler, accepted>>

-----------------------------------------------------------------------------
(* Subscription *)

At(h, stage) == handler[h].stage = stage
Goto(h, r) == handler' = [handler EXCEPT ![h] = r]
Release(u, h) == lease' = [lease EXCEPT ![u] = IF @ = h THEN Nobody ELSE @]

(* The subscription ends, or throws, and gives its lease back. *)
Leave(h) ==
  /\ Goto(h, Idle)
  /\ Release(handler[h].user, h)

BeginSubscribe(h, u) ==
  /\ handler[h] = Idle /\ lease[u] = Nobody
  /\ lease' = [lease EXCEPT ![u] = h]
  /\ Goto(h, [stage |-> "leased", user |-> u])
  /\ UNCHANGED <<tab, binding, event, registration, granted, invited, world>>

(* It is not renewed, or cannot be; its holder goes on. *)
LoseLease(u) ==
  /\ lease[u] # Nobody
  /\ lease' = [lease EXCEPT ![u] = Nobody]
  /\ UNCHANGED <<tab, binding, event, registration, granted, invited, handler, world>>

Crash(h) ==
  /\ handler[h] # Idle
  /\ Goto(h, Idle)
  /\ UNCHANGED <<local, world>>

(* The binding and the events that are registered for. *)
Load(h) ==
  LET u == handler[h].user
      es == {e \in Events : event[e].active}
  IN /\ At(h, "leased")
     /\ IF ~IsBound(u) \/ es = {}
        THEN Leave(h)
        ELSE /\ Goto(h, [stage |-> "bound", user |-> u, binding |-> binding[u],
                         events |-> [e \in es |-> event[e]]])
             /\ UNCHANGED lease
     /\ UNCHANGED <<tab, binding, event, registration, granted, invited, world>>

Generation(b) == <<b.profile, b.since>>
SameBinding(h) ==
  IsBound(handler[h].user) /\ Generation(binding[handler[h].user]) = Generation(handler[h].binding)

(* Bug a run must catch: what the binding has become is not looked at. *)
WithFreshTokensAnyway(h) ==
  binding' = [binding EXCEPT ![handler[h].user].tokens = handler[h].binding.tokens]

WithFreshTokens(h) ==
  /\ SameBinding(h)
  /\ binding' = [binding EXCEPT ![handler[h].user].tokens = handler[h].binding.tokens]

(* refreshTokens: at Leader-ID, then in the row, if it is the same binding;*)
(* otherwise, or when Leader-ID refuses, the subscription throws.          *)
Refresh(h) ==
  /\ At(h, "bound")
  /\ \/ WithFreshTokens(h) /\ UNCHANGED <<handler, lease>>
     \/ Leave(h) /\ UNCHANGED binding
  /\ UNCHANGED <<tab, event, registration, granted, invited, world>>

Prepare(h) ==
  LET u == handler[h].user
      seen == [e \in DOMAIN handler[h].events |-> registration[u][e]]
  IN /\ At(h, "bound")
     /\ Goto(h, [stage |-> "prepared", user |-> u, binding |-> handler[h].binding,
                 events |-> handler[h].events, seen |-> seen])
     /\ UNCHANGED <<local, world>>

Current(h, e, row) ==
  /\ row # NoRow
  /\ row.profile = handler[h].binding.profile
  /\ row.external = handler[h].events[e].external

Known(h, e) == Current(h, e, handler[h].seen[e])
SettledBefore(h, e) == Known(h, e) /\ handler[h].seen[e].status \in Confirmed

Actionable(h) == {e \in DOMAIN handler[h].events : ~SettledBefore(h, e)}

(* The participations of the profile are read, once for all events. *)
Preflight(h) ==
  LET p == handler[h].binding.profile
  IN /\ At(h, "prepared")
     /\ Goto(h, [stage |-> "decide", user |-> handler[h].user, binding |-> handler[h].binding,
                 events |-> handler[h].events, seen |-> handler[h].seen,
                 todo |-> Actionable(h),
                 there |-> [e \in Actionable(h) |-> remote[p][handler[h].events[e].external]],
                 readable |-> TRUE])
     /\ UNCHANGED <<local, world>>

(* They cannot be read: what is stored stays as it is. *)
PreflightFails(h) ==
  /\ At(h, "prepared") /\ Actionable(h) # {}
  /\ Goto(h, [stage |-> "decide", user |-> handler[h].user, binding |-> handler[h].binding,
              events |-> handler[h].events, seen |-> handler[h].seen,
              todo |-> {e \in Actionable(h) : ~Known(h, e)}, there |-> <<>>,
              readable |-> FALSE])
  /\ UNCHANGED <<local, world>>

(* Any call before a claim may end in a throw. *)
GiveUp(h) ==
  /\ handler[h].stage \in {"prepared", "decide"}
  /\ Leave(h)
  /\ UNCHANGED <<tab, binding, event, registration, granted, invited, world>>

-----------------------------------------------------------------------------
(* The rows of registrations *)

Row(h, e) == registration[handler[h].user][e]
Written(h, e, row) ==
  registration' = [registration EXCEPT ![handler[h].user][e] = row]

Fresh(h, e, attempts) ==
  [profile |-> handler[h].binding.profile, external |-> handler[h].events[e].external,
   status |-> "FAILED", retryable |-> TRUE, unknown |-> FALSE,
   attempts |-> attempts, claim |-> Nobody]

WithParticipation(row, moderation) ==
  [row EXCEPT !.status = CASE moderation = "approved" -> "REGISTERED"
                           [] moderation = "wait" -> "PENDING_APPROVAL"
                           [] OTHER -> "FAILED",
              !.retryable = FALSE]

(* The row is still the one the attempt began with. *)
Holds(h, e, claimed) ==
  /\ Row(h, e) # NoRow
  /\ Row(h, e).profile = claimed.profile /\ Row(h, e).external = claimed.external
  /\ Row(h, e).attempts = claimed.attempts
  /\ Row(h, e).claim = claimed.claim
  /\ Row(h, e).unknown

(* completeClaim: otherwise the row that is there stands. *)
CompletedClaim(h, e, claimed, row) ==
  IF Holds(h, e, claimed)
  THEN Written(h, e, [row EXCEPT !.attempts = claimed.attempts, !.claim = Nobody])
  ELSE UNCHANGED registration

(* saveResult: the row is the one that was read. *)
Saved(h, e, row) ==
  LET seen == handler[h].seen[e]
      same == \/ seen = NoRow /\ Row(h, e) = NoRow
              \/ /\ seen # NoRow /\ Row(h, e) # NoRow
                 /\ Row(h, e).profile = seen.profile /\ Row(h, e).external = seen.external
                 /\ Row(h, e).attempts = seen.attempts /\ Row(h, e).claim = seen.claim
  IN /\ seen.attempts < MaxAttempts
     /\ IF same THEN Written(h, e, [row EXCEPT !.attempts = seen.attempts + 1])
                ELSE UNCHANGED registration

(* persistResult: a claim that was read is completed, in another's name.   *)
Persisted(h, e, row) ==
  LET seen == handler[h].seen[e]
  IN IF Known(h, e) /\ seen.claim # Nobody
     THEN CompletedClaim(h, e, seen, row) ELSE Saved(h, e, row)

(* The event is done with, for this subscription. *)
Settle(h, e) ==
  handler' = [handler EXCEPT ![h] =
    [stage |-> "decide", user |-> @.user, binding |-> @.binding, events |-> @.events,
     seen |-> @.seen, todo |-> @.todo \ {e}, there |-> @.there, readable |-> @.readable]]

(* What was written or found is of another profile or event: it throws.    *)
NextEvent(h, e) ==
  IF registration'[handler[h].user][e] # NoRow
       /\ Current(h, e, registration'[handler[h].user][e])
  THEN Settle(h, e) /\ UNCHANGED lease
  ELSE Leave(h)

Keep(h, e) == Settle(h, e) /\ UNCHANGED <<lease, registration>>

Skips(h, e) ==
  LET seen == handler[h].seen[e]
  IN /\ Known(h, e)
     /\ \/ seen.unknown
        \/ seen.status = "FAILED" /\ ~seen.retryable
        \/ seen.status = "PENDING_APPROVAL"
        \/ seen.status = "BLOCKED" /\ ~handler[h].events[e].open

(* One event, with no call to Leader-ID. *)
Decide(h, e) ==
  /\ At(h, "decide") /\ e \in handler[h].todo
  /\ LET there == IF handler[h].readable THEN handler[h].there[e] ELSE "none"
     IN \/ /\ ~handler[h].readable
           /\ \E retry \in BOOLEAN :
                Persisted(h, e, [Fresh(h, e, 1) EXCEPT !.retryable = retry])
           /\ NextEvent(h, e)
        \/ /\ there # "none"
           /\ Persisted(h, e, WithParticipation(Fresh(h, e, 1), there))
           /\ NextEvent(h, e)
        \/ /\ handler[h].readable /\ there = "none" /\ Skips(h, e)
           /\ Keep(h, e)
        \/ /\ handler[h].readable /\ there = "none" /\ ~Skips(h, e)
           /\ ~handler[h].events[e].open
           /\ Persisted(h, e, [Fresh(h, e, 1) EXCEPT !.status = "BLOCKED",
                                                     !.retryable = FALSE])
           /\ NextEvent(h, e)
  /\ UNCHANGED <<tab, binding, event, granted, invited, world>>

-----------------------------------------------------------------------------
(* An attempt: claimed, posted once, and looked up when in doubt *)

(* Bug a run must catch: the attempts are counted, the doubt forgotten. *)
ClaimableDoubtful(h, e) ==
  /\ IsBound(handler[h].user)
  /\ binding[handler[h].user].profile = handler[h].binding.profile
  /\ event[e].active /\ event[e].external = handler[h].events[e].external
  /\ Row(h, e) = NoRow \/ ~Current(h, e, Row(h, e))
       \/ Row(h, e).attempts >= handler[h].seen[e].attempts

(* claimAttempt, under the lock of the user's binding. *)
Claimable(h, e) ==
  /\ IsBound(handler[h].user)
  /\ binding[handler[h].user].profile = handler[h].binding.profile
  /\ event[e].active /\ event[e].external = handler[h].events[e].external
  /\ \/ Row(h, e) = NoRow
     \/ ~Current(h, e, Row(h, e))
     \/ Row(h, e).attempts = handler[h].seen[e].attempts /\ ~Row(h, e).unknown

Claim(h, e) ==
  LET seen == handler[h].seen[e]
      claim == [Fresh(h, e, seen.attempts + 1) EXCEPT !.unknown = TRUE, !.claim = h]
  IN /\ At(h, "decide") /\ e \in handler[h].todo
     /\ handler[h].readable /\ handler[h].there[e] = "none" /\ ~Skips(h, e)
     /\ handler[h].events[e].open
     /\ seen.attempts < MaxAttempts
     /\ IF Claimable(h, e)
        THEN /\ Written(h, e, claim)
             /\ handler' = [handler EXCEPT ![h] =
                  [stage |-> "claimed", user |-> @.user, binding |-> @.binding,
                   events |-> @.events, seen |-> @.seen, todo |-> @.todo, there |-> @.there,
                   readable |-> @.readable, event |-> e, claim |-> claim]]
             /\ UNCHANGED lease
        ELSE UNCHANGED registration /\ NextEvent(h, e)
     /\ UNCHANGED <<tab, binding, event, granted, invited, world>>

Claimed(h) == handler[h].claim
Finished(h, row) ==
  /\ CompletedClaim(h, handler[h].event, Claimed(h), row)
  /\ NextEvent(h, handler[h].event)

Unclaimed(h) == Fresh(h, handler[h].event, 1)

Doubt(h, definite) ==
  handler' = [handler EXCEPT ![h] =
    [stage |-> "unsure", user |-> @.user, binding |-> @.binding, events |-> @.events,
     seen |-> @.seen, todo |-> @.todo, there |-> @.there, readable |-> @.readable,
     event |-> @.event, claim |-> @.claim, definite |-> definite]]

(* POST: a participation is made, or not, and the answer comes, or not.    *)
Post(h) ==
  LET p == handler[h].binding.profile
      x == Claimed(h).external
  IN /\ At(h, "claimed")
     /\ \/ \E moderation \in {"wait", "approved"} :
             /\ remote' = [remote EXCEPT ![p][x] = moderation]
             /\ accepted' = [accepted EXCEPT ![p][x] = @ + 1]
             /\ \/ Finished(h, WithParticipation(Unclaimed(h), moderation))
                \/ /\ Doubt(h, FALSE)
                   /\ UNCHANGED <<registration, lease>>
        \/ /\ \E definite \in BOOLEAN : Doubt(h, definite)
           /\ UNCHANGED <<world, registration, lease>>
     /\ UNCHANGED <<tab, binding, event, granted, invited>>

(* 401: the tokens are refreshed before the one repetition there is, or    *)
(* the attempt has certainly failed.                                       *)
Unauthorised(h) ==
  /\ At(h, "claimed")
  /\ \/ WithFreshTokens(h) /\ UNCHANGED <<handler, registration, lease>>
     \/ Finished(h, Unclaimed(h)) /\ UNCHANGED binding
  /\ UNCHANGED <<tab, event, granted, invited, world>>

(* A lookup follows every failed POST.  If it answers, a participation     *)
(* that is there counts; if nothing is there, or it fails too, a doubt     *)
(* stays in the row; if it asks for a new authorisation, the whole claim.  *)
Failed(h, status, retryable) ==
  [Unclaimed(h) EXCEPT !.status = status, !.retryable = retryable,
                       !.unknown = ~handler[h].definite]

LookUp(h) ==
  LET there == remote[handler[h].binding.profile][Claimed(h).external]
      failures == IF handler[h].definite THEN {"FAILED", "BLOCKED"} ELSE {"FAILED"}
  IN /\ At(h, "unsure")
     /\ \/ there # "none" /\ Finished(h, WithParticipation(Unclaimed(h), there))
        \/ \E status \in failures, retryable \in BOOLEAN :
             Finished(h, Failed(h, status, retryable))
        \/ ~handler[h].definite /\ Leave(h) /\ UNCHANGED registration
     /\ UNCHANGED <<tab, binding, event, granted, invited, world>>

-----------------------------------------------------------------------------
(* The reward: resolveReward and awardOnce, in one transaction *)

(* Bug a run must catch: rows of a profile that was bound before count. *)
QualifiesAnyProfile(u, e) ==
  LET row == registration[u][e]
  IN row # NoRow /\ row.external = event[e].external /\ row.status \in Qualifying

Qualifies(u, e) ==
  LET row == registration[u][e]
  IN /\ row # NoRow
     /\ row.profile = binding[u].profile /\ row.external = event[e].external
     /\ row.status \in Qualifying

Required == {e \in Events : event[e].active}

Award(h) ==
  LET u == handler[h].user
  IN /\ At(h, "decide") /\ handler[h].todo = {}
     /\ granted' = IF IsBound(u) /\ Required # {} /\ \A e \in Required : Qualifies(u, e)
                   THEN granted \cup {u} ELSE granted
     /\ Leave(h)
     /\ UNCHANGED <<tab, binding, event, registration, invited, world>>

-----------------------------------------------------------------------------

Subscribe(h) ==
  \/ Load(h) \/ Refresh(h) \/ Prepare(h) \/ Preflight(h) \/ PreflightFails(h) \/ GiveUp(h)
  \/ \E e \in Events : Decide(h, e) \/ Claim(h, e)
  \/ Post(h) \/ Unauthorised(h) \/ LookUp(h) \/ Award(h)

Next ==
  \/ \E t \in Tabs :
       \/ \E u \in Users, p \in Profiles : BeginLink(t, u, p)
       \/ SpendTab(t)
       \/ \E h \in Handlers : CompleteLink(t, h)
  \/ \E e \in Events : \/ \E switch \in Changes : Turn(e, switch)
                       \/ \E x \in Externals : Remap(e, x)
  \/ \E p \in Profiles, x \in Externals : Moderate(p, x)
  \/ \E u \in Users : LoseLease(u)
  \/ \E h \in Handlers :
       \/ Invite(h) \/ Crash(h) \/ Subscribe(h)
       \/ \E u \in Users : BeginSubscribe(h, u)

Spec == Init /\ [][Next]_vars

-----------------------------------------------------------------------------
(* Properties *)

(* "A failed POST is never repeated": Leader-ID is never asked twice for a *)
(* participation it made when asked first, whoever lost what               *)
(* (leader-id-service.ts, createOnceAndReconcile; claimAttempt).           *)
OneApplication == \A p \in Profiles, x \in Externals : accepted[p][x] <= 1

(* Nobody goes on with a profile or a mapping that was replaced since it   *)
(* was read.                                                               *)
SnapshotsAreCurrent ==
  \A h \in Handlers :
    handler[h].stage \in {"bound", "prepared", "decide", "claimed", "unsure"} =>
      /\ IsBound(handler[h].user)
      /\ binding[handler[h].user].profile = handler[h].binding.profile
      /\ \A e \in DOMAIN handler[h].events : event[e].external = handler[h].events[e].external

(* A claim belongs to the profile its user is bound to: nobody changes     *)
(* profiles in the middle of an attempt (upsertVerifiedBinding).           *)
ClaimsAreOfTheBinding ==
  \A u \in Users : \A e \in Claims(u) :
    IsBound(u) /\ registration[u][e].profile = binding[u].profile

(* One profile for a user and one user for a profile, and the tokens kept  *)
(* are that profile's, although a refresh may outlive its binding          *)
(* (updateEncryptedTokens).                                                *)
TokensAreOfTheProfile ==
  \A u \in Users : IsBound(u) => binding[u].tokens = binding[u].profile

(* The reward is for registrations Leader-ID has, of the profile the user  *)
(* is bound to then, for every event there is (awardOnce).                 *)
RewardIsEarned ==
  [][\A u \in granted' \ granted : \A e \in Required :
       remote[binding[u].profile][event[e].external] # "none"]_vars
===============================================================================
