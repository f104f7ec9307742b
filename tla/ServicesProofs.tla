--------------------------- MODULE ServicesProofs ---------------------------
(***************************************************************************)
(* Theorems about the two services people outside the application meet:    *)
(* the binding to Leader-ID and its registrations, for any users, profiles,*)
(* events, identifiers, authorisations, subscriptions and attempts         *)
(* (LeaderId), and the bot's announcements, for any posts, campaigns,      *)
(* people and workers (Broadcasts, as MCMessages instantiates it).         *)
(***************************************************************************)
EXTENDS LeaderId, MCMessages, FiniteSetTheorems, TLAPS

Rows == {NoRow} \cup Registered

(* What a subscription has in hand at each of its stages.                  *)
Attempting == {"claimed", "unsure"}
Deciding == {"decide"} \cup Attempting
Seeing == {"prepared"} \cup Deciding
Reading == {"bound"} \cup Seeing

In(h, stages) == handler[h].stage \in stages
External(h, e) == handler[h].events[e].external
There(h, e) == remote[handler[h].binding.profile][External(h, e)]

ReadsItsBinding(h) ==
  /\ handler[h].binding \in Bound
  /\ handler[h].binding.tokens = handler[h].binding.profile
  /\ DOMAIN handler[h].events \subseteq Events
  /\ \A e \in DOMAIN handler[h].events : External(h, e) \in Externals

SawRows(h) == \A e \in DOMAIN handler[h].events : handler[h].seen[e] \in Rows

(* What was found at Leader-ID is there for good.                          *)
FoundWhatIsThere(h) ==
  /\ handler[h].todo \subseteq DOMAIN handler[h].events
  /\ handler[h].readable \in BOOLEAN
  /\ handler[h].readable => \A e \in handler[h].todo :
       /\ handler[h].there[e] \in Moderation \cup {"none"}
       /\ handler[h].there[e] # "none" => There(h, e) # "none"

ClaimsItsEvent(h) ==
  /\ handler[h].event \in DOMAIN handler[h].events
  /\ handler[h].claim \in Registered
  /\ handler[h].claim.claim = h /\ handler[h].claim.unknown
  /\ handler[h].claim.profile = handler[h].binding.profile
  /\ handler[h].claim.external = External(h, handler[h].event)

Knows(h) ==
  /\ In(h, {"linked", "leased"} \cup Reading) => handler[h].user \in Users
  /\ In(h, Reading) => ReadsItsBinding(h)
  /\ In(h, Seeing) => SawRows(h)
  /\ In(h, Deciding) => FoundWhatIsThere(h)
  /\ In(h, Attempting) => ClaimsItsEvent(h)
  /\ In(h, {"unsure"}) => handler[h].definite \in BOOLEAN

(* A row that counts for the reward is of a participation that exists.     *)
QualifyingIsThere ==
  \A u \in Users, e \in Events :
    LET reg == registration[u][e]
    IN reg # NoRow /\ reg.status \in Qualifying => remote[reg.profile][reg.external] # "none"

Sound ==
  /\ TypeOK /\ DOMAIN handler = Handlers
  /\ \A h \in Handlers : Knows(h)
  /\ QualifyingIsThere /\ ClaimsAreOfTheBinding /\ TokensAreOfTheProfile

-----------------------------------------------------------------------------
(* What a step leaves alone *)

RemoteGrows ==
  \A p \in Profiles, x \in Externals : remote[p][x] # "none" => remote'[p][x] # "none"

LEMMA StillThere ==
  ASSUME NEW h \in Handlers, ReadsItsBinding(h), FoundWhatIsThere(h), RemoteGrows,
         handler'[h].binding = handler[h].binding, handler'[h].events = handler[h].events,
         handler'[h].there = handler[h].there, handler'[h].readable = handler[h].readable,
         handler'[h].todo \subseteq handler[h].todo
  PROVE  FoundWhatIsThere(h)'
<1>1. /\ handler[h].binding.profile \in Profiles
      /\ \A e \in DOMAIN handler[h].events : External(h, e) \in Externals
  BY DEF ReadsItsBinding, Bound
<1>2. \A e : External(h, e)' = External(h, e)
  BY DEF External
<1>3. \A e \in DOMAIN handler[h].events : There(h, e) # "none" => There(h, e)' # "none"
  BY <1>1, <1>2 DEF There, RemoteGrows
<1> QED BY <1>3 DEF FoundWhatIsThere

LEMMA OthersKnow ==
  ASSUME NEW h \in Handlers, handler'[h] = handler[h], Knows(h), RemoteGrows
  PROVE  Knows(h)'
<1>1. In(h, Deciding) => FoundWhatIsThere(h)'
  <2> SUFFICES ASSUME In(h, Deciding) PROVE FoundWhatIsThere(h)'
    OBVIOUS
  <2>1. ReadsItsBinding(h) /\ FoundWhatIsThere(h)
    BY DEF Knows, In, Reading, Seeing
  <2> QED BY <2>1, StillThere
<1> QED BY <1>1 DEF Knows, In, ReadsItsBinding, SawRows, ClaimsItsEvent, External

(* Nobody's row changes, and who has a claim keeps the profile.            *)
LEMMA RowsStay ==
  ASSUME Sound, RemoteGrows, registration' = registration,
         \A u \in Users : Claims(u) # {} => IsBound(u)' /\ binding'[u].profile = binding[u].profile
  PROVE  QualifyingIsThere' /\ ClaimsAreOfTheBinding'
<1>1. QualifyingIsThere'
  BY DEF Sound, QualifyingIsThere, RemoteGrows, TypeOK, Registered
<1>2. \A u \in Users : Claims(u)' = Claims(u)
  BY DEF Claims
<1>3. ClaimsAreOfTheBinding'
  BY <1>2 DEF Sound, ClaimsAreOfTheBinding
<1> QED BY <1>1, <1>3

LEMMA ClaimsNeedABinding ==
  ASSUME Sound, NEW u \in Users, Claims(u) # {}
  PROVE  IsBound(u)
BY DEF Sound, ClaimsAreOfTheBinding

LEMMA HandlerMoves ==
  ASSUME Sound, NEW h \in Handlers, NEW r, Goto(h, r)
  PROVE  /\ DOMAIN handler' = Handlers
         /\ handler'[h] = r
         /\ \A k \in Handlers \ {h} : handler'[k] = handler[k]
BY DEF Goto, Sound

LEMMA LeaseIsReleased ==
  ASSUME Sound, NEW u, NEW h, Release(u, h)
  PROVE  lease' \in [Users -> Handlers \cup {Nobody}]
BY DEF Sound, TypeOK, Release

LEMMA IdleKnows ==
  ASSUME NEW h, handler'[h] = Idle
  PROVE  Knows(h)'
BY DEF Knows, In, Idle, Reading, Seeing, Deciding, Attempting

LEMMA SubscriptionStep ==
  ASSUME Sound, NEW h \in Handlers, RemoteGrows, TypeOK', DOMAIN handler' = Handlers,
         \A k \in Handlers \ {h} : handler'[k] = handler[k], Knows(h)',
         QualifyingIsThere', ClaimsAreOfTheBinding', TokensAreOfTheProfile'
  PROVE  Sound'
<1>1. \A k \in Handlers \ {h} : Knows(k)'
  BY OthersKnow DEF Sound
<1> QED BY <1>1 DEF Sound

(* The tables and the world stay as they are, or a lease is given up.      *)
LEMMA SubscriptionReads ==
  ASSUME Sound, NEW h \in Handlers, NEW r, Goto(h, r), r = Idle \/ r.stage \in Stage,
         UNCHANGED <<tab, binding, event, registration, granted, invited, world>>,
         lease' \in [Users -> Handlers \cup {Nobody}], Knows(h)'
  PROVE  Sound'
<1>1. RemoteGrows
  BY DEF RemoteGrows, world
<1>2. QualifyingIsThere' /\ ClaimsAreOfTheBinding'
  <2>1. \A u \in Users : Claims(u) # {} => IsBound(u)' /\ binding'[u].profile = binding[u].profile
    BY ClaimsNeedABinding DEF IsBound
  <2> QED BY <1>1, <2>1, RowsStay
<1>3. TokensAreOfTheProfile'
  BY DEF Sound, TokensAreOfTheProfile, IsBound
<1>4. TypeOK'
  <2>1. \A k \in Handlers : handler'[k] = Idle \/ handler'[k].stage \in Stage
    <3>1. \A k \in Handlers : handler[k] = Idle \/ handler[k].stage \in Stage
      BY DEF Sound, TypeOK
    <3> QED BY <3>1, HandlerMoves
  <2>2. remote' = remote /\ accepted' = accepted
    BY DEF world
  <2> QED BY <2>1, <2>2 DEF Sound, TypeOK
<1> QED BY <1>1, <1>2, <1>3, <1>4, HandlerMoves, SubscriptionStep

-----------------------------------------------------------------------------
(* Every step is sound *)

LEMMA InitIsSound ==
  ASSUME Init
  PROVE  Sound
<1>1. TypeOK
  BY LeaderIdAssumption DEF Init, TypeOK, NoRow, Registered
<1>2. \A h \in Handlers : Knows(h)
  BY DEF Init, Knows, In, Idle, Reading, Seeing, Deciding, Attempting
<1>3. QualifyingIsThere /\ ClaimsAreOfTheBinding /\ TokensAreOfTheProfile
  BY DEF Init, QualifyingIsThere, ClaimsAreOfTheBinding, Claims, TokensAreOfTheProfile,
         IsBound
<1> QED BY <1>1, <1>2, <1>3 DEF Sound, Init

LEMMA AuthorisingIsSound ==
  ASSUME Sound, NEW t \in Tabs
  PROVE  /\ \A u \in Users, p \in Profiles : BeginLink(t, u, p) => Sound'
         /\ SpendTab(t) => Sound'
<1>1. ASSUME (\E u \in Users, p \in Profiles : BeginLink(t, u, p)) \/ SpendTab(t)
      PROVE  Sound'
  <2>1. UNCHANGED <<binding, event, registration, granted, invited, lease, handler, world>>
    BY <1>1 DEF BeginLink, SpendTab
  <2>2. tab' \in [Tabs -> [state : {"unborn", "spent"}]
                          \cup [state : {"issued"}, user : Users, profile : Profiles]]
    BY <1>1 DEF BeginLink, SpendTab, Sound, TypeOK
  <2>3. TypeOK'
    BY <2>1, <2>2 DEF world, Sound, TypeOK
  <2>4. RemoteGrows
    BY <2>1 DEF RemoteGrows, world
  <2>5. QualifyingIsThere' /\ ClaimsAreOfTheBinding'
    BY <2>1, <2>4, RowsStay, ClaimsNeedABinding DEF IsBound
  <2>6. TokensAreOfTheProfile'
    BY <2>1 DEF Sound, TokensAreOfTheProfile, IsBound
  <2> QED BY <2>1, <2>3, <2>4, <2>5, <2>6, OthersKnow DEF Sound
<1> QED BY <1>1

LEMMA LinkingIsSound ==
  ASSUME Sound, NEW h \in Handlers
  PROVE  /\ \A t \in Tabs : CompleteLink(t, h) => Sound'
         /\ Invite(h) => Sound'
<1>1. ASSUME NEW t \in Tabs, CompleteLink(t, h) PROVE Sound'
  <2> DEFINE u == tab[t].user
             p == tab[t].profile
  <2>1. u \in Users /\ p \in Profiles
    BY <1>1 DEF CompleteLink, Sound, TypeOK
  <2>2. /\ binding' = [binding EXCEPT ![u] = [profile |-> p, since |-> t, tokens |-> p]]
        /\ Goto(h, [stage |-> "linked", user |-> u])
        /\ Claims(u) # {} => binding[u].profile = p
        /\ UNCHANGED <<event, registration, granted, invited, lease, world>>
    BY <1>1, ClaimsNeedABinding, <2>1 DEF CompleteLink, Goto, Replaces
  <2> HIDE DEF u, p
  <2>3. RemoteGrows
    BY <2>2 DEF RemoteGrows, world
  <2>4. \A v \in Users : binding'[v] = IF v = u THEN [profile |-> p, since |-> t, tokens |-> p]
                                     ELSE binding[v]
    BY <2>2 DEF Sound, TypeOK
  <2>5. TypeOK'
    <3>1. tab' \in [Tabs -> [state : {"unborn", "spent"}]
                            \cup [state : {"issued"}, user : Users, profile : Profiles]]
      BY <1>1 DEF CompleteLink, Sound, TypeOK
    <3>2. binding' \in [Users -> {Unbound} \cup Bound]
      BY <2>1, <2>2 DEF Sound, TypeOK, Bound
    <3> QED BY <2>2, <3>1, <3>2, HandlerMoves DEF world, Sound, TypeOK, Stage
  <2>6. QualifyingIsThere' /\ ClaimsAreOfTheBinding'
    <3>1. \A v \in Users : Claims(v) # {} =>
            IsBound(v)' /\ binding'[v].profile = binding[v].profile
      BY <2>2, <2>4, ClaimsNeedABinding DEF IsBound, Unbound
    <3> QED BY <2>2, <2>3, <3>1, RowsStay
  <2>7. TokensAreOfTheProfile'
    BY <2>4 DEF Sound, TokensAreOfTheProfile, IsBound
  <2>8. Knows(h)'
    BY <2>1, <2>2, HandlerMoves DEF Knows, In, Reading, Seeing, Deciding, Attempting
  <2> QED BY <2>2, <2>3, <2>5, <2>6, <2>7, <2>8, HandlerMoves, SubscriptionStep
<1>2. ASSUME Invite(h) PROVE Sound'
  <2>1. Goto(h, Idle) /\ UNCHANGED <<tab, binding, event, registration, granted, lease, world>>
    BY <1>2 DEF Invite, Goto
  <2>2. invited' \subseteq Users
    BY <1>2 DEF Invite, Sound, TypeOK, Knows, In
  <2>3. RemoteGrows
    BY <2>1 DEF RemoteGrows, world
  <2>4. TypeOK'
    BY <2>1, <2>2, HandlerMoves DEF world, Sound, TypeOK
  <2>5. QualifyingIsThere' /\ ClaimsAreOfTheBinding'
    BY <2>1, <2>3, RowsStay, ClaimsNeedABinding DEF IsBound
  <2>6. TokensAreOfTheProfile'
    BY <2>1 DEF Sound, TokensAreOfTheProfile, IsBound
  <2> QED BY <2>1, <2>3, <2>4, <2>5, <2>6, HandlerMoves, IdleKnows, SubscriptionStep
<1> QED BY <1>1, <1>2

LEMMA TurnsASwitch ==
  ASSUME Sound, NEW e \in Events, NEW switch \in Changes, Turn(e, switch)
  PROVE  /\ event' \in [Events -> [external : Externals, active : BOOLEAN, open : BOOLEAN]]
         /\ \A f \in Events : event'[f].external = event[f].external
<1> DEFINE Columns == [external : Externals, active : BOOLEAN, open : BOOLEAN]
<1>1. switch = "active" \/ switch = "open"
  BY LeaderIdAssumption
<1>2. event \in [Events -> Columns] /\ event' = [event EXCEPT ![e][switch] = ~@]
  BY DEF Turn, Sound, TypeOK
<1>3. /\ [event[e] EXCEPT ![switch] = ~@] \in Columns
      /\ [event[e] EXCEPT ![switch] = ~@].external = event[e].external
  <2>1. event[e] \in Columns
    BY <1>2
  <2>2. CASE switch = "active"
    BY <2>1, <2>2
  <2>3. CASE switch = "open"
    BY <2>1, <2>3
  <2> QED BY <1>1, <2>2, <2>3
<1> HIDE DEF Columns
<1>4. event' = [event EXCEPT ![e] = [event[e] EXCEPT ![switch] = ~@]]
  BY <1>2
<1>5. event' \in [Events -> Columns] /\ \A f \in Events : event'[f].external = event[f].external
  BY <1>2, <1>3, <1>4
<1> QED BY <1>5 DEF Columns

LEMMA OutsideIsSound ==
  ASSUME Sound
  PROVE  /\ \A e \in Events, switch \in Changes : Turn(e, switch) => Sound'
         /\ \A e \in Events, x \in Externals : Remap(e, x) => Sound'
         /\ \A p \in Profiles, x \in Externals : Moderate(p, x) => Sound'
         /\ \A u \in Users : LoseLease(u) => Sound'
         /\ \A h \in Handlers : Crash(h) => Sound'
<1>1. ASSUME RemoteGrows, UNCHANGED <<tab, binding, registration, granted, invited, handler>>,
             event' \in [Events -> [external : Externals, active : BOOLEAN, open : BOOLEAN]],
             lease' \in [Users -> Handlers \cup {Nobody}],
             remote' \in [Profiles -> [Externals -> Moderation \cup {"none"}]],
             accepted' = accepted
      PROVE  Sound'
  <2>1. TypeOK'
    BY <1>1 DEF Sound, TypeOK
  <2>2. QualifyingIsThere' /\ ClaimsAreOfTheBinding'
    BY <1>1, RowsStay, ClaimsNeedABinding DEF IsBound
  <2>3. TokensAreOfTheProfile'
    BY <1>1 DEF Sound, TokensAreOfTheProfile, IsBound
  <2> QED BY <1>1, <2>1, <2>2, <2>3, OthersKnow DEF Sound
<1>2. ASSUME NEW e \in Events, NEW switch \in Changes, Turn(e, switch) PROVE Sound'
  <2>1. event' \in [Events -> [external : Externals, active : BOOLEAN, open : BOOLEAN]]
    BY <1>2, TurnsASwitch
  <2> QED BY <1>1, <1>2, <2>1 DEF Turn, world, RemoteGrows, Sound, TypeOK
<1>3. ASSUME NEW e \in Events, NEW x \in Externals, Remap(e, x) PROVE Sound'
  <2>1. event' \in [Events -> [external : Externals, active : BOOLEAN, open : BOOLEAN]]
    BY <1>3 DEF Remap, Sound, TypeOK
  <2> QED BY <1>1, <1>3, <2>1 DEF Remap, world, RemoteGrows, Sound, TypeOK
<1>4. ASSUME NEW p \in Profiles, NEW x \in Externals, Moderate(p, x) PROVE Sound'
  <2>1. PICK m \in {"approved", "declined"} : remote' = [remote EXCEPT ![p][x] = m]
    BY <1>4 DEF Moderate
  <2>2. /\ RemoteGrows
        /\ remote' \in [Profiles -> [Externals -> Moderation \cup {"none"}]]
    BY <2>1 DEF RemoteGrows, Moderation, Sound, TypeOK
  <2> QED BY <1>1, <1>4, <2>2 DEF Moderate, local, Sound, TypeOK
<1>5. ASSUME NEW u \in Users, LoseLease(u) PROVE Sound'
  BY <1>1, <1>5 DEF LoseLease, world, RemoteGrows, Sound, TypeOK
<1>6. ASSUME NEW h \in Handlers, Crash(h) PROVE Sound'
  <2>1. Goto(h, Idle)
    BY <1>6 DEF Crash
  <2>2. Knows(h)'
    BY <2>1, HandlerMoves, IdleKnows
  <2> QED BY <1>6, <2>1, <2>2, SubscriptionReads DEF Crash, local, Sound, TypeOK
<1> QED BY <1>2, <1>3, <1>4, <1>5, <1>6

LEMMA LeavingIsSound ==
  ASSUME Sound, NEW h \in Handlers, Leave(h),
         UNCHANGED <<tab, binding, event, registration, granted, invited, world>>
  PROVE  Sound'
<1>1. Goto(h, Idle)
  BY DEF Leave
<1>2. lease' \in [Users -> Handlers \cup {Nobody}]
  BY LeaseIsReleased DEF Leave
<1>3. Knows(h)'
  BY <1>1, HandlerMoves, IdleKnows
<1> QED BY <1>1, <1>2, <1>3, SubscriptionReads

(* Fresh tokens are of the binding they are written to.                    *)
LEMMA TokensStay ==
  ASSUME Sound, NEW h \in Handlers, In(h, Reading), WithFreshTokens(h)
  PROVE  /\ binding' \in [Users -> {Unbound} \cup Bound]
         /\ \A u \in Users : (IsBound(u)' <=> IsBound(u))
                            /\ binding'[u].profile = binding[u].profile
         /\ TokensAreOfTheProfile'
<1> DEFINE w == handler[h].user
<1>1. /\ w \in Users /\ binding[w] \in Bound
      /\ handler[h].binding \in Bound
      /\ handler[h].binding.tokens = binding[w].profile
  <2>1. w \in Users /\ ReadsItsBinding(h)
    BY DEF Sound, Knows, In
  <2>2. binding[w] \in Bound /\ binding[w].profile = handler[h].binding.profile
    BY <2>1 DEF WithFreshTokens, SameBinding, IsBound, Generation, Sound, TypeOK
  <2> QED BY <2>1, <2>2 DEF ReadsItsBinding
<1>2. binding' = [binding EXCEPT ![w].tokens = handler[h].binding.tokens]
  BY DEF WithFreshTokens
<1> HIDE DEF w
<1>3. /\ binding'[w] \in Bound
      /\ binding'[w].profile = binding[w].profile
      /\ binding'[w].tokens = binding[w].profile
      /\ \A u \in Users \ {w} : binding'[u] = binding[u]
  BY <1>1, <1>2 DEF Sound, TypeOK, Bound
<1>4. \A b \in Bound : b # Unbound
  BY DEF Bound, Unbound
<1> QED BY <1>1, <1>2, <1>3, <1>4 DEF IsBound, Sound, TypeOK, TokensAreOfTheProfile

LEMMA TokensAreKept ==
  ASSUME Sound, NEW h \in Handlers, In(h, Reading), WithFreshTokens(h),
         UNCHANGED <<tab, event, registration, granted, invited, lease, handler, world>>
  PROVE  Sound'
<1>1. RemoteGrows
  BY DEF RemoteGrows, world
<1>2. QualifyingIsThere' /\ ClaimsAreOfTheBinding'
  BY <1>1, TokensStay, RowsStay, ClaimsNeedABinding
<1>3. TypeOK'
  BY TokensStay DEF Sound, TypeOK, world
<1> QED BY <1>1, <1>2, <1>3, TokensStay, OthersKnow DEF Sound

LEMMA ReadingIsSound ==
  ASSUME Sound, NEW h \in Handlers
  PROVE  /\ \A u \in Users : BeginSubscribe(h, u) => Sound'
         /\ Load(h) => Sound'
         /\ Refresh(h) => Sound'
         /\ Prepare(h) => Sound'
         /\ Preflight(h) => Sound'
         /\ PreflightFails(h) => Sound'
         /\ GiveUp(h) => Sound'
<1> USE DEF Stage
<1>1. ASSUME NEW u \in Users, BeginSubscribe(h, u) PROVE Sound'
  <2>1. Goto(h, [stage |-> "leased", user |-> u])
        /\ lease' \in [Users -> Handlers \cup {Nobody}]
    BY <1>1 DEF BeginSubscribe, Sound, TypeOK
  <2>2. Knows(h)'
    BY <2>1, HandlerMoves DEF Knows, In, Reading, Seeing, Deciding, Attempting
  <2> QED BY <1>1, <2>1, <2>2, SubscriptionReads DEF BeginSubscribe
<1>2. ASSUME Load(h) PROVE Sound'
  <2> DEFINE u == handler[h].user
             es == {e \in Events : event[e].active}
             r == [stage |-> "bound", user |-> u, binding |-> binding[u],
                   events |-> [e \in es |-> event[e]]]
  <2>1. CASE Leave(h)
    BY <1>2, <2>1, LeavingIsSound DEF Load
  <2>2. CASE IsBound(u) /\ Goto(h, r) /\ UNCHANGED lease
    <3>1. u \in Users
      BY <1>2 DEF Load, At, Sound, Knows, In
    <3>2. binding[u] \in Bound /\ binding[u].tokens = binding[u].profile
      BY <2>2, <3>1 DEF IsBound, Sound, TypeOK, TokensAreOfTheProfile
    <3>3. \A e \in es : event[e].external \in Externals
      BY DEF Sound, TypeOK
    <3>4. Knows(h)'
      <4>1. handler'[h] = r
        BY <2>2, HandlerMoves
      <4> QED BY <4>1, <3>1, <3>2, <3>3
           DEF Knows, In, Reading, Seeing, Deciding, Attempting, ReadsItsBinding, External
    <3> QED BY <1>2, <2>2, <3>4, SubscriptionReads DEF Load, Sound, TypeOK
  <2> QED BY <1>2, <2>1, <2>2 DEF Load
<1>3. ASSUME Refresh(h) PROVE Sound'
  <2>1. CASE WithFreshTokens(h) /\ UNCHANGED <<handler, lease>>
    BY <1>3, <2>1, TokensAreKept DEF Refresh, At, In, Reading
  <2>2. CASE Leave(h) /\ UNCHANGED binding
    BY <1>3, <2>2, LeavingIsSound DEF Refresh
  <2> QED BY <1>3, <2>1, <2>2 DEF Refresh
<1>4. ASSUME In(h, Reading) PROVE ReadsItsBinding(h) /\ handler[h].user \in Users
  BY <1>4 DEF Sound, Knows, In
<1>5. ASSUME Prepare(h) PROVE Sound'
  <2> DEFINE u == handler[h].user
             seen == [e \in DOMAIN handler[h].events |-> registration[u][e]]
             r == [stage |-> "prepared", user |-> u, binding |-> handler[h].binding,
                   events |-> handler[h].events, seen |-> seen]
  <2>1. Goto(h, r) /\ UNCHANGED <<local, world>>
    BY <1>5 DEF Prepare
  <2>2. ReadsItsBinding(h) /\ u \in Users
    BY <1>4, <1>5 DEF Prepare, At, In, Reading
  <2>3. \A e \in DOMAIN handler[h].events : seen[e] \in Rows
    BY <2>2 DEF Sound, TypeOK, Rows, ReadsItsBinding
  <2> HIDE DEF seen
  <2>4. handler'[h] = r
    BY <2>1, HandlerMoves
  <2>5. Knows(h)'
    BY <2>2, <2>3, <2>4 DEF Knows, In, Reading, Seeing, Deciding, Attempting,
                            ReadsItsBinding, External, SawRows
  <2> QED BY <2>1, <2>5, SubscriptionReads DEF local, Sound, TypeOK
<1>6. ASSUME Preflight(h) PROVE Sound'
  <2> DEFINE p == handler[h].binding.profile
             todo == Actionable(h)
             there == [e \in todo |-> remote[p][handler[h].events[e].external]]
             r == [stage |-> "decide", user |-> handler[h].user,
                   binding |-> handler[h].binding, events |-> handler[h].events,
                   seen |-> handler[h].seen, todo |-> todo, there |-> there,
                   readable |-> TRUE]
  <2>1. Goto(h, r) /\ UNCHANGED <<local, world>>
    BY <1>6 DEF Preflight
  <2>2. ReadsItsBinding(h) /\ handler[h].user \in Users /\ SawRows(h)
    BY <1>4, <1>6 DEF Preflight, At, In, Reading, Seeing, Sound, Knows
  <2>3. /\ todo \subseteq DOMAIN handler[h].events
        /\ \A e \in todo : /\ there[e] \in Moderation \cup {"none"}
                           /\ there[e] = There(h, e)
    <3>1. \A e \in todo : e \in DOMAIN handler[h].events /\ there[e] = There(h, e)
      BY DEF Actionable, There, External
    <3>2. p \in Profiles /\ \A e \in DOMAIN handler[h].events : External(h, e) \in Externals
      BY <2>2 DEF ReadsItsBinding, Bound
    <3>3. \A x \in Externals : remote[p][x] \in Moderation \cup {"none"}
      BY <3>2 DEF Sound, TypeOK
    <3> HIDE DEF todo, there
    <3> QED BY <3>1, <3>2, <3>3 DEF There
  <2> HIDE DEF todo, there
  <2>4. handler'[h] = r
    BY <2>1, HandlerMoves
  <2>5. ReadsItsBinding(h)' /\ SawRows(h)'
    BY <2>2, <2>4 DEF ReadsItsBinding, SawRows, External
  <2>6. FoundWhatIsThere(h)'
    <3>1. remote' = remote
      BY <2>1 DEF world
    <3> QED BY <2>3, <2>4, <3>1 DEF FoundWhatIsThere, There, External
  <2>7. Knows(h)'
    BY <2>2, <2>4, <2>5, <2>6 DEF Knows, In, Reading, Seeing, Deciding, Attempting
  <2> QED BY <2>1, <2>7, SubscriptionReads DEF local, Sound, TypeOK
<1>7. ASSUME PreflightFails(h) PROVE Sound'
  <2> DEFINE todo == {e \in Actionable(h) : ~Known(h, e)}
             r == [stage |-> "decide", user |-> handler[h].user,
                   binding |-> handler[h].binding, events |-> handler[h].events,
                   seen |-> handler[h].seen, todo |-> todo, there |-> <<>>,
                   readable |-> FALSE]
  <2>1. Goto(h, r) /\ UNCHANGED <<local, world>>
    BY <1>7 DEF PreflightFails
  <2>2. ReadsItsBinding(h) /\ handler[h].user \in Users /\ SawRows(h)
    BY <1>4, <1>7 DEF PreflightFails, At, In, Reading, Seeing, Sound, Knows
  <2>3. todo \subseteq DOMAIN handler[h].events
    BY DEF Actionable
  <2> HIDE DEF todo
  <2>4. handler'[h] = r
    BY <2>1, HandlerMoves
  <2>5. Knows(h)'
    BY <2>2, <2>3, <2>4 DEF Knows, In, Reading, Seeing, Deciding, Attempting,
                   ReadsItsBinding, External, SawRows, FoundWhatIsThere
  <2> QED BY <2>1, <2>5, SubscriptionReads DEF local, Sound, TypeOK
<1>8. ASSUME GiveUp(h) PROVE Sound'
  BY <1>8, LeavingIsSound DEF GiveUp
<1> QED BY <1>1, <1>2, <1>3, <1>5, <1>6, <1>7, <1>8

-----------------------------------------------------------------------------
(* Rows that are written *)

(* What a subscription writes of an event, before its attempts are counted.*)
Draft(h, e) ==
  [profile : {handler[h].binding.profile}, external : {External(h, e)}, status : Status,
   retryable : BOOLEAN, unknown : BOOLEAN, attempts : Nat, claim : {Nobody}]

Numbered(reg, n) == [reg EXCEPT !.attempts = n, !.claim = Nobody]

LEMMA DraftRow ==
  ASSUME Sound, NEW h \in Handlers, In(h, Reading), NEW e \in DOMAIN handler[h].events,
         NEW reg \in Draft(h, e), NEW n \in 1 .. MaxAttempts
  PROVE  /\ Numbered(reg, n) \in Registered
         /\ Numbered(reg, n).profile = handler[h].binding.profile
         /\ Numbered(reg, n).external = External(h, e)
         /\ Numbered(reg, n).status = reg.status
         /\ Numbered(reg, n).unknown = reg.unknown
         /\ Numbered(reg, n).attempts = n
         /\ Numbered(reg, n).claim = Nobody
<1>1. ReadsItsBinding(h)
  BY DEF Sound, Knows, In
<1>2. handler[h].binding.profile \in Profiles /\ External(h, e) \in Externals
  BY <1>1 DEF ReadsItsBinding, Bound
<1> QED BY <1>2 DEF Draft, Numbered, Registered

LEMMA FreshRow ==
  ASSUME NEW h, NEW e, NEW n \in Nat
  PROVE  /\ Fresh(h, e, n) = [profile |-> handler[h].binding.profile,
                              external |-> External(h, e), status |-> "FAILED",
                              retryable |-> TRUE, unknown |-> FALSE, attempts |-> n,
                              claim |-> Nobody]
         /\ Fresh(h, e, n) \in Draft(h, e)
         /\ Fresh(h, e, n).status \notin Qualifying
         /\ ~Fresh(h, e, n).unknown
         /\ \A retry \in BOOLEAN :
              /\ [Fresh(h, e, n) EXCEPT !.retryable = retry] \in Draft(h, e)
              /\ [Fresh(h, e, n) EXCEPT !.retryable = retry].status \notin Qualifying
              /\ ~[Fresh(h, e, n) EXCEPT !.retryable = retry].unknown
         /\ [Fresh(h, e, n) EXCEPT !.status = "BLOCKED", !.retryable = FALSE] \in Draft(h, e)
         /\ [Fresh(h, e, n) EXCEPT !.status = "BLOCKED", !.retryable = FALSE].status
              \notin Qualifying
         /\ ~[Fresh(h, e, n) EXCEPT !.status = "BLOCKED", !.retryable = FALSE].unknown
         /\ \A m \in Moderation :
              /\ WithParticipation(Fresh(h, e, n), m) \in Draft(h, e)
              /\ ~WithParticipation(Fresh(h, e, n), m).unknown
BY DEF Fresh, Draft, External, Status, Qualifying, Confirmed, WithParticipation

LEMMA PersistedRow ==
  ASSUME Sound, NEW h \in Handlers, In(h, Deciding), NEW e \in DOMAIN handler[h].events,
         NEW reg \in Draft(h, e), Persisted(h, e, reg)
  PROVE  \/ registration' = registration
         \/ \E n \in 1 .. MaxAttempts : Written(h, e, Numbered(reg, n))
<1> DEFINE seen == handler[h].seen[e]
<1>1. seen \in Rows
  BY DEF Sound, Knows, In, Seeing, SawRows, Deciding
<1>2. CASE CompletedClaim(h, e, seen, reg) /\ seen # NoRow
  BY <1>1, <1>2 DEF CompletedClaim, Rows, Registered, Numbered
<1>3. CASE Saved(h, e, reg)
  <2>1. seen.attempts + 1 \in 1 .. MaxAttempts
    BY <1>1, <1>3, LeaderIdAssumption DEF Saved, Rows, Registered, NoRow
  <2>2. [reg EXCEPT !.attempts = seen.attempts + 1] = Numbered(reg, seen.attempts + 1)
    BY <2>1 DEF Draft, Numbered
  <2> QED BY <1>3, <2>1, <2>2 DEF Saved
<1> QED BY <1>2, <1>3 DEF Persisted, Known, Current

LEMMA CompletedRow ==
  ASSUME Sound, NEW h \in Handlers, In(h, Attempting),
         NEW reg, CompletedClaim(h, handler[h].event, Claimed(h), reg)
  PROVE  \/ registration' = registration
         \/ \E n \in 1 .. MaxAttempts : Written(h, handler[h].event, Numbered(reg, n))
BY DEF CompletedClaim, Claimed, Sound, Knows, ClaimsItsEvent, Registered, Numbered

LEMMA RowIsWritten ==
  ASSUME Sound, RemoteGrows, NEW u \in Users, NEW e \in Events, NEW reg \in Registered,
         registration' = [registration EXCEPT ![u][e] = reg],
         \A v \in Users : Claims(v) # {} => IsBound(v)' /\ binding'[v].profile = binding[v].profile,
         reg.status \in Qualifying => remote'[reg.profile][reg.external] # "none",
         reg.claim # Nobody => IsBound(u)' /\ reg.profile = binding'[u].profile
  PROVE  /\ registration' \in [Users -> [Events -> Rows]]
         /\ QualifyingIsThere' /\ ClaimsAreOfTheBinding'
<1>1. \A v \in Users, f \in Events :
        registration'[v][f] = IF v = u /\ f = e THEN reg ELSE registration[v][f]
  BY DEF Sound, TypeOK
<1>2. registration' \in [Users -> [Events -> Rows]]
  BY DEF Sound, TypeOK, Rows
<1>3. QualifyingIsThere'
  BY <1>1 DEF Sound, TypeOK, Registered, QualifyingIsThere, RemoteGrows
<1>4. ClaimsAreOfTheBinding'
  <2> SUFFICES ASSUME NEW v \in Users, NEW f \in Claims(v)'
               PROVE  IsBound(v)' /\ registration'[v][f].profile = binding'[v].profile
    BY DEF ClaimsAreOfTheBinding
  <2>1. f \in Events /\ registration'[v][f].claim # Nobody /\ registration'[v][f] # NoRow
    BY DEF Claims
  <2>2. CASE v = u /\ f = e
    BY <1>1, <2>1, <2>2
  <2>3. CASE ~(v = u /\ f = e)
    <3>1. f \in Claims(v)
      BY <1>1, <2>1, <2>3 DEF Claims
    <3> QED BY <1>1, <2>1, <2>3, <3>1 DEF Sound, ClaimsAreOfTheBinding
  <2> QED BY <2>2, <2>3
<1> QED BY <1>2, <1>3, <1>4

LEMMA Settling ==
  ASSUME Sound, RemoteGrows, NEW h \in Handlers, In(h, Deciding), NEW e,
         NextEvent(h, e) \/ (Settle(h, e) /\ UNCHANGED lease)
  PROVE  /\ DOMAIN handler' = Handlers
         /\ \A k \in Handlers \ {h} : handler'[k] = handler[k]
         /\ handler'[h] = Idle \/ handler'[h].stage \in Stage
         /\ lease' \in [Users -> Handlers \cup {Nobody}]
         /\ Knows(h)'
<1>1. CASE Leave(h)
  BY <1>1, HandlerMoves, LeaseIsReleased, IdleKnows DEF Leave
<1>2. CASE Settle(h, e) /\ UNCHANGED lease
  <2> DEFINE r == [stage |-> "decide", user |-> handler[h].user,
                   binding |-> handler[h].binding, events |-> handler[h].events,
                   seen |-> handler[h].seen, todo |-> handler[h].todo \ {e},
                   there |-> handler[h].there, readable |-> handler[h].readable]
  <2>1. Goto(h, r)
    BY <1>2 DEF Settle, Goto, Sound
  <2>2. /\ ReadsItsBinding(h) /\ handler[h].user \in Users
        /\ SawRows(h) /\ FoundWhatIsThere(h)
    BY DEF Sound, Knows, In, Reading, Seeing
  <2>3. handler'[h] = r
    BY <2>1, HandlerMoves
  <2>4. Knows(h)'
    <3>1. ReadsItsBinding(h)' /\ SawRows(h)'
      BY <2>2, <2>3 DEF ReadsItsBinding, SawRows, External
    <3>2. FoundWhatIsThere(h)'
      BY <2>2, <2>3, StillThere
    <3> QED BY <2>2, <2>3, <3>1, <3>2 DEF Knows, In, Attempting
  <2> QED BY <1>2, <2>1, <2>3, <2>4, HandlerMoves DEF Stage, Sound, TypeOK
<1> QED BY <1>1, <1>2 DEF NextEvent

(* An event is done with, and its row may be written.                      *)
LEMMA EventIsDone ==
  ASSUME Sound, RemoteGrows, NEW h \in Handlers, In(h, Deciding),
         NEW e \in DOMAIN handler[h].events, NEW reg \in Draft(h, e),
         \/ registration' = registration
         \/ \E n \in 1 .. MaxAttempts : Written(h, e, Numbered(reg, n)),
         NextEvent(h, e),
         reg.status \in Qualifying =>
           remote'[handler[h].binding.profile][External(h, e)] # "none",
         remote' \in [Profiles -> [Externals -> Moderation \cup {"none"}]],
         accepted' \in [Profiles -> [Externals -> Nat]],
         UNCHANGED <<tab, binding, event, granted, invited>>
  PROVE  Sound'
<1>1. In(h, Reading) /\ handler[h].user \in Users /\ e \in Events
  BY DEF In, Reading, Seeing, Sound, Knows, ReadsItsBinding
<1>2. \A v \in Users : Claims(v) # {} =>
        IsBound(v)' /\ binding'[v].profile = binding[v].profile
  BY ClaimsNeedABinding DEF IsBound
<1>3. /\ registration' \in [Users -> [Events -> Rows]]
      /\ QualifyingIsThere' /\ ClaimsAreOfTheBinding'
  <2>1. CASE registration' = registration
    BY <1>2, <2>1, RowsStay DEF Sound, TypeOK, Rows
  <2>2. CASE \E n \in 1 .. MaxAttempts : Written(h, e, Numbered(reg, n))
    <3>1. PICK n \in 1 .. MaxAttempts : Written(h, e, Numbered(reg, n))
      BY <2>2
    <3>2. /\ Numbered(reg, n) \in Registered
          /\ Numbered(reg, n).profile = handler[h].binding.profile
          /\ Numbered(reg, n).external = External(h, e)
          /\ Numbered(reg, n).status = reg.status
          /\ Numbered(reg, n).claim = Nobody
      BY <1>1, DraftRow
    <3> QED BY <1>1, <1>2, <3>1, <3>2, RowIsWritten DEF Written
  <2> QED BY <2>1, <2>2
<1>4. TokensAreOfTheProfile'
  BY DEF Sound, TokensAreOfTheProfile, IsBound
<1>5. TypeOK'
  BY <1>3, Settling DEF Sound, TypeOK, Rows
<1> QED BY <1>3, <1>4, <1>5, Settling, SubscriptionStep

LEMMA DecidingIsSound ==
  ASSUME Sound, NEW h \in Handlers, NEW e \in Events
  PROVE  /\ Decide(h, e) => Sound'
         /\ Claim(h, e) => Sound'
<1>1. ASSUME At(h, "decide"), UNCHANGED world
      PROVE  /\ In(h, Deciding) /\ In(h, Reading) /\ RemoteGrows
             /\ FoundWhatIsThere(h) /\ ReadsItsBinding(h) /\ SawRows(h)
             /\ handler[h].user \in Users
             /\ remote' \in [Profiles -> [Externals -> Moderation \cup {"none"}]]
             /\ accepted' \in [Profiles -> [Externals -> Nat]]
             /\ remote' = remote
  BY <1>1 DEF At, In, Deciding, Reading, Seeing, RemoteGrows, world, Sound, TypeOK, Knows
<1>2. ASSUME Decide(h, e) PROVE Sound'
  <2> DEFINE there == IF handler[h].readable THEN handler[h].there[e] ELSE "none"
  <2>1. /\ At(h, "decide") /\ e \in handler[h].todo
        /\ UNCHANGED <<tab, binding, event, granted, invited, world>>
    BY <1>2 DEF Decide
  <2>2. e \in DOMAIN handler[h].events
    BY <1>1, <2>1 DEF FoundWhatIsThere
  <2>3. CASE \E retry \in BOOLEAN :
               /\ Persisted(h, e, [Fresh(h, e, 1) EXCEPT !.retryable = retry])
               /\ NextEvent(h, e)
    <3>1. PICK retry \in BOOLEAN :
               /\ Persisted(h, e, [Fresh(h, e, 1) EXCEPT !.retryable = retry])
               /\ NextEvent(h, e)
      BY <2>3
    <3> DEFINE reg == [Fresh(h, e, 1) EXCEPT !.retryable = retry]
    <3>2. reg \in Draft(h, e) /\ reg.status \notin Qualifying
      BY FreshRow
    <3> HIDE DEF reg
    <3> QED BY <1>1, <2>1, <2>2, <3>1, <3>2, PersistedRow, EventIsDone DEF reg
  <2>4. CASE there # "none" /\ NextEvent(h, e)
               /\ Persisted(h, e, WithParticipation(Fresh(h, e, 1), there))
    <3>1. there \in Moderation /\ There(h, e) # "none"
      BY <1>1, <2>1, <2>4 DEF FoundWhatIsThere
    <3>2. WithParticipation(Fresh(h, e, 1), there) \in Draft(h, e)
      BY <3>1, FreshRow
    <3> QED BY <1>1, <2>1, <2>2, <2>4, <3>1, <3>2, PersistedRow, EventIsDone DEF There
  <2>5. CASE Keep(h, e)
    <3>1. QualifyingIsThere' /\ ClaimsAreOfTheBinding' /\ TokensAreOfTheProfile'
      BY <1>1, <2>1, <2>5, RowsStay, ClaimsNeedABinding
         DEF Keep, Sound, TokensAreOfTheProfile, IsBound
    <3>2. TypeOK'
      BY <1>1, <2>1, <2>5, Settling DEF Keep, Sound, TypeOK
    <3> QED BY <1>1, <2>1, <2>5, <3>1, <3>2, Settling, SubscriptionStep DEF Keep
  <2>6. CASE NextEvent(h, e)
             /\ Persisted(h, e, [Fresh(h, e, 1) EXCEPT !.status = "BLOCKED",
                                                       !.retryable = FALSE])
    <3> DEFINE reg == [Fresh(h, e, 1) EXCEPT !.status = "BLOCKED", !.retryable = FALSE]
    <3>1. reg \in Draft(h, e) /\ reg.status \notin Qualifying
      BY FreshRow
    <3> HIDE DEF reg
    <3> QED BY <1>1, <2>1, <2>2, <2>6, <3>1, PersistedRow, EventIsDone DEF reg
  <2> QED BY <1>2, <2>3, <2>4, <2>5, <2>6 DEF Decide
<1>3. ASSUME Claim(h, e) PROVE Sound'
  <2> DEFINE seen == handler[h].seen[e]
             claim == [Fresh(h, e, seen.attempts + 1) EXCEPT !.unknown = TRUE, !.claim = h]
             r == [stage |-> "claimed", user |-> handler[h].user,
                   binding |-> handler[h].binding, events |-> handler[h].events,
                   seen |-> handler[h].seen, todo |-> handler[h].todo,
                   there |-> handler[h].there, readable |-> handler[h].readable,
                   event |-> e, claim |-> claim]
  <2>1. /\ At(h, "decide") /\ e \in handler[h].todo /\ seen.attempts < MaxAttempts
        /\ UNCHANGED <<tab, binding, event, granted, invited, world>>
    BY <1>3 DEF Claim
  <2>2. e \in DOMAIN handler[h].events /\ seen \in Rows
    BY <1>1, <2>1 DEF FoundWhatIsThere, SawRows
  <2>3. CASE registration' = registration /\ NextEvent(h, e)
    BY <1>1, <2>1, <2>2, <2>3, FreshRow, EventIsDone
  <2>4. CASE Claimable(h, e) /\ Written(h, e, claim) /\ Goto(h, r) /\ UNCHANGED lease
    <3>1. /\ claim \in Registered /\ claim.claim = h /\ claim.unknown
          /\ claim.profile = handler[h].binding.profile
          /\ claim.external = External(h, e)
          /\ claim.status = "FAILED"
      <4>1. seen.attempts + 1 \in 1 .. MaxAttempts
        BY <2>1, <2>2, LeaderIdAssumption DEF Rows, Registered, NoRow
      <4> QED BY <1>1, <2>1, <2>2, <4>1
              DEF Fresh, External, Registered, Status, ReadsItsBinding, Bound
    <3> HIDE DEF claim
    <3>2. handler'[h] = r
      BY <2>4, HandlerMoves
    <3>3. /\ registration' \in [Users -> [Events -> Rows]]
          /\ QualifyingIsThere' /\ ClaimsAreOfTheBinding'
      <4>1. \A v \in Users : Claims(v) # {} =>
              IsBound(v)' /\ binding'[v].profile = binding[v].profile
        BY <2>1, ClaimsNeedABinding DEF IsBound
      <4>2. claim.status \notin Qualifying
        BY <3>1 DEF Qualifying, Confirmed
      <4>3. PICK u \in Users : u = handler[h].user
        BY <1>1, <2>1
      <4>4. IsBound(u)' /\ claim.profile = binding'[u].profile
        BY <2>1, <2>4, <3>1, <4>3 DEF Claimable, IsBound
      <4>5. registration' = [registration EXCEPT ![u][e] = claim]
        BY <2>4, <4>3 DEF Written
      <4> QED BY <1>1, <2>1, <3>1, <4>1, <4>2, <4>4, <4>5, RowIsWritten
    <3>4. Knows(h)'
      <4>1. ReadsItsBinding(h)' /\ SawRows(h)'
        BY <1>1, <2>1, <3>2 DEF ReadsItsBinding, SawRows, External
      <4>2. FoundWhatIsThere(h)'
        BY <1>1, <2>1, <3>2, StillThere
      <4>3. ClaimsItsEvent(h)'
        BY <2>2, <3>1, <3>2 DEF ClaimsItsEvent, External
      <4> QED BY <1>1, <2>1, <3>2, <4>1, <4>2, <4>3 DEF Knows, In
    <3>5. TypeOK'
      <4>1. \A k \in Handlers : handler'[k] = Idle \/ handler'[k].stage \in Stage
        BY <2>4, <3>2, HandlerMoves DEF Sound, TypeOK, Stage
      <4> QED BY <1>1, <2>1, <2>4, <3>3, <4>1 DEF Sound, TypeOK, Rows
    <3>6. TokensAreOfTheProfile'
      BY <2>1 DEF Sound, TokensAreOfTheProfile, IsBound
    <3>7. \A k \in Handlers \ {h} : handler'[k] = handler[k]
      BY <2>4, HandlerMoves
    <3>8. DOMAIN handler' = Handlers
      BY <2>4, HandlerMoves
    <3> QED BY <1>1, <2>1, <3>3, <3>4, <3>5, <3>6, <3>7, <3>8, SubscriptionStep
  <2> QED BY <1>3, <2>3, <2>4 DEF Claim, Goto
<1> QED BY <1>2, <1>3

LEMMA Doubting ==
  ASSUME Sound, RemoteGrows, NEW h \in Handlers, At(h, "claimed"), NEW definite \in BOOLEAN,
         Doubt(h, definite)
  PROVE  /\ DOMAIN handler' = Handlers
         /\ \A k \in Handlers \ {h} : handler'[k] = handler[k]
         /\ handler'[h] = Idle \/ handler'[h].stage \in Stage
         /\ Knows(h)'
<1> DEFINE r == [stage |-> "unsure", user |-> handler[h].user,
                 binding |-> handler[h].binding, events |-> handler[h].events,
                 seen |-> handler[h].seen, todo |-> handler[h].todo,
                 there |-> handler[h].there, readable |-> handler[h].readable,
                 event |-> handler[h].event, claim |-> handler[h].claim,
                 definite |-> definite]
<1>1. Goto(h, r)
  BY DEF Doubt, Goto, Sound
<1>2. handler'[h] = r
  BY <1>1, HandlerMoves
<1>3. /\ ReadsItsBinding(h) /\ handler[h].user \in Users
      /\ SawRows(h) /\ FoundWhatIsThere(h) /\ ClaimsItsEvent(h)
  BY DEF At, Sound, Knows, In, Reading, Seeing, Deciding, Attempting
<1>4. ReadsItsBinding(h)' /\ SawRows(h)' /\ ClaimsItsEvent(h)'
  BY <1>2, <1>3 DEF ReadsItsBinding, SawRows, ClaimsItsEvent, External
<1>5. FoundWhatIsThere(h)'
  BY <1>2, <1>3, StillThere
<1>6. Knows(h)'
  BY <1>2, <1>3, <1>4, <1>5 DEF Knows, In
<1> QED BY <1>1, <1>2, <1>6, HandlerMoves DEF Stage

(* The answer did not come: the rows stay.                                 *)
LEMMA DoubtIsSound ==
  ASSUME Sound, RemoteGrows, NEW h \in Handlers, At(h, "claimed"), NEW definite \in BOOLEAN,
         Doubt(h, definite),
         remote' \in [Profiles -> [Externals -> Moderation \cup {"none"}]],
         accepted' \in [Profiles -> [Externals -> Nat]],
         UNCHANGED <<tab, binding, event, registration, granted, invited, lease>>
  PROVE  Sound'
<1>1. QualifyingIsThere' /\ ClaimsAreOfTheBinding'
  BY RowsStay, ClaimsNeedABinding DEF IsBound
<1>2. TokensAreOfTheProfile'
  BY DEF Sound, TokensAreOfTheProfile, IsBound
<1>3. TypeOK'
  BY Doubting DEF Sound, TypeOK
<1> QED BY <1>1, <1>2, <1>3, Doubting, SubscriptionStep

(* An attempt at its end: the claim is completed, or stands.               *)
LEMMA FinishIsSound ==
  ASSUME Sound, RemoteGrows, NEW h \in Handlers, In(h, Attempting),
         NEW reg \in Draft(h, handler[h].event), Finished(h, reg),
         reg.status \in Qualifying =>
           remote'[handler[h].binding.profile][Claimed(h).external] # "none",
         remote' \in [Profiles -> [Externals -> Moderation \cup {"none"}]],
         accepted' \in [Profiles -> [Externals -> Nat]],
         UNCHANGED <<tab, binding, event, granted, invited>>
  PROVE  Sound'
<1>1. In(h, Deciding) /\ ClaimsItsEvent(h)
  BY DEF Sound, Knows, In, Deciding
<1> QED BY <1>1, CompletedRow, EventIsDone DEF Finished, ClaimsItsEvent, Claimed

LEMMA AttemptingIsSound ==
  ASSUME Sound, NEW h \in Handlers
  PROVE  /\ Post(h) => Sound'
         /\ Unauthorised(h) => Sound'
         /\ LookUp(h) => Sound'
         /\ Award(h) => Sound'
<1>1. ASSUME In(h, Attempting)
      PROVE  /\ ReadsItsBinding(h) /\ ClaimsItsEvent(h) /\ In(h, Reading)
             /\ handler[h].binding.profile \in Profiles
             /\ Claimed(h).external \in Externals
  BY <1>1 DEF Sound, Knows, In, Reading, Seeing, Deciding, ReadsItsBinding, ClaimsItsEvent,
              Claimed, Registered, Bound
<1>2. ASSUME Post(h) PROVE Sound'
  <2> DEFINE p == handler[h].binding.profile
             x == Claimed(h).external
  <2>1. /\ At(h, "claimed") /\ In(h, Attempting)
        /\ UNCHANGED <<tab, binding, event, granted, invited>>
    BY <1>2 DEF Post, At, In, Attempting
  <2>2. ASSUME NEW moderation \in {"wait", "approved"},
               remote' = [remote EXCEPT ![p][x] = moderation],
               accepted' = [accepted EXCEPT ![p][x] = @ + 1],
               \/ Finished(h, WithParticipation(Unclaimed(h), moderation))
               \/ Doubt(h, FALSE) /\ UNCHANGED <<registration, lease>>
        PROVE  Sound'
    <3>1. p \in Profiles /\ x \in Externals
      BY <1>1, <2>1
    <3> HIDE DEF p, x
    <3>2. /\ RemoteGrows /\ remote'[p][x] # "none"
          /\ remote' \in [Profiles -> [Externals -> Moderation \cup {"none"}]]
      BY <2>2, <3>1 DEF RemoteGrows, Moderation, Sound, TypeOK
    <3>3. accepted' \in [Profiles -> [Externals -> Nat]]
      BY <2>2, <3>1 DEF Sound, TypeOK
    <3>4. WithParticipation(Unclaimed(h), moderation) \in Draft(h, handler[h].event)
      BY FreshRow DEF Unclaimed, Moderation
    <3>5. CASE Doubt(h, FALSE) /\ UNCHANGED <<registration, lease>>
      BY <2>1, <3>2, <3>3, <3>5, DoubtIsSound
    <3>6. CASE Finished(h, WithParticipation(Unclaimed(h), moderation))
      BY <2>1, <3>2, <3>3, <3>4, <3>6, FinishIsSound DEF p, x
    <3> QED BY <2>2, <3>5, <3>6
  <2>3. ASSUME NEW definite \in BOOLEAN, Doubt(h, definite),
               UNCHANGED <<world, registration, lease>>
        PROVE  Sound'
    BY <2>1, <2>3, DoubtIsSound DEF world, RemoteGrows, Sound, TypeOK
  <2> QED BY <1>2, <2>2, <2>3 DEF Post
<1>3. ASSUME Unauthorised(h) PROVE Sound'
  <2>1. /\ At(h, "claimed") /\ In(h, Attempting)
        /\ UNCHANGED <<tab, event, granted, invited, world>>
    BY <1>3 DEF Unauthorised, At, In, Attempting
  <2>2. CASE WithFreshTokens(h) /\ UNCHANGED <<handler, registration, lease>>
    BY <1>1, <2>1, <2>2, TokensAreKept
  <2>3. CASE Finished(h, Unclaimed(h)) /\ UNCHANGED binding
    BY <2>1, <2>3, FreshRow, FinishIsSound DEF Unclaimed, world, RemoteGrows, Sound, TypeOK
  <2> QED BY <1>3, <2>2, <2>3 DEF Unauthorised
<1>4. ASSUME LookUp(h) PROVE Sound'
  <2> DEFINE there == remote[handler[h].binding.profile][Claimed(h).external]
  <2>1. /\ In(h, Attempting) /\ handler[h].definite \in BOOLEAN
        /\ UNCHANGED <<tab, binding, event, granted, invited, world>>
        /\ RemoteGrows
        /\ remote' \in [Profiles -> [Externals -> Moderation \cup {"none"}]]
        /\ accepted' \in [Profiles -> [Externals -> Nat]]
    BY <1>4 DEF LookUp, At, In, Attempting, Sound, Knows, TypeOK, world, RemoteGrows
  <2>2. CASE there # "none" /\ Finished(h, WithParticipation(Unclaimed(h), there))
    <3>1. there \in Moderation
      BY <1>1, <2>1, <2>2 DEF Sound, TypeOK
    <3>2. WithParticipation(Unclaimed(h), there) \in Draft(h, handler[h].event)
      BY <3>1, FreshRow DEF Unclaimed
    <3> QED BY <2>1, <2>2, <3>2, FinishIsSound DEF world
  <2>3. ASSUME NEW s \in {"FAILED", "BLOCKED"}, NEW retry \in BOOLEAN,
               Finished(h, Failed(h, s, retry))
        PROVE  Sound'
    <3>1. /\ Failed(h, s, retry) \in Draft(h, handler[h].event)
          /\ Failed(h, s, retry).status \notin Qualifying
      BY <2>1 DEF Failed, Unclaimed, Fresh, External, Draft, Status, Qualifying, Confirmed
    <3> QED BY <2>1, <2>3, <3>1, FinishIsSound
  <2>4. CASE Leave(h) /\ UNCHANGED registration
    BY <2>1, <2>4, LeavingIsSound
  <2>5. \/ there # "none" /\ Finished(h, WithParticipation(Unclaimed(h), there))
        \/ \E s \in {"FAILED", "BLOCKED"}, retry \in BOOLEAN : Finished(h, Failed(h, s, retry))
        \/ Leave(h) /\ UNCHANGED registration
    BY <1>4 DEF LookUp
  <2> QED BY <2>2, <2>3, <2>4, <2>5
<1>5. ASSUME Award(h) PROVE Sound'
  <2> DEFINE u == handler[h].user
  <2>1. /\ Leave(h) /\ UNCHANGED <<tab, binding, event, registration, invited, world>>
        /\ granted' \subseteq Users
    BY <1>5 DEF Award, Sound, TypeOK, Knows, At, In, Reading, Seeing, Deciding
  <2>2. Goto(h, Idle) /\ Knows(h)' /\ lease' \in [Users -> Handlers \cup {Nobody}]
    BY <2>1, LeaseIsReleased, HandlerMoves, IdleKnows DEF Leave
  <2>3. RemoteGrows
    BY <2>1 DEF RemoteGrows, world
  <2>4. QualifyingIsThere' /\ ClaimsAreOfTheBinding' /\ TokensAreOfTheProfile'
    BY <2>1, <2>3, RowsStay, ClaimsNeedABinding DEF Sound, TokensAreOfTheProfile, IsBound
  <2>5. TypeOK'
    BY <2>1, <2>2, HandlerMoves DEF Sound, TypeOK, world
  <2> QED BY <2>2, <2>3, <2>4, <2>5, HandlerMoves, SubscriptionStep
<1> QED BY <1>2, <1>3, <1>4, <1>5

-----------------------------------------------------------------------------
(* What holds in every behaviour *)

LEMMA SoundSteps ==
  ASSUME Sound, [Next]_vars
  PROVE  Sound'
<1>1. CASE UNCHANGED vars
  <2>1. RemoteGrows /\ UNCHANGED <<tab, binding, event, registration, granted, invited,
                                   lease, handler, remote, accepted>>
    BY <1>1 DEF vars, local, world, RemoteGrows
  <2>2. TypeOK'
    BY <2>1 DEF Sound, TypeOK
  <2>3. QualifyingIsThere' /\ ClaimsAreOfTheBinding' /\ TokensAreOfTheProfile'
    BY <2>1, RowsStay, ClaimsNeedABinding DEF Sound, TokensAreOfTheProfile, IsBound
  <2> QED BY <2>1, <2>2, <2>3, OthersKnow DEF Sound
<1>2. CASE Next
  <2>1. ASSUME NEW h \in Handlers, Invite(h) \/ \E t \in Tabs : CompleteLink(t, h)
        PROVE  Sound'
    BY <2>1, LinkingIsSound
  <2>2. ASSUME NEW t \in Tabs, SpendTab(t) \/ \E u \in Users, p \in Profiles : BeginLink(t, u, p)
        PROVE  Sound'
    BY <2>2, AuthorisingIsSound
  <2>3. ASSUME NEW h \in Handlers, Subscribe(h)
        PROVE  Sound'
    BY <2>3, ReadingIsSound, DecidingIsSound, AttemptingIsSound DEF Subscribe
  <2>4. ASSUME NEW h \in Handlers, NEW u \in Users, BeginSubscribe(h, u)
        PROVE  Sound'
    BY <2>4, ReadingIsSound
  <2> QED BY <1>2, <2>1, <2>2, <2>3, <2>4, OutsideIsSound DEF Next
<1> QED BY <1>1, <1>2

LEMMA AlwaysSound == Spec => []Sound
BY InitIsSound, SoundSteps, PTL DEF Spec

(* Every variable keeps its type (schema.ts, and the rows of               *)
(* leader-id-production.ts).                                               *)
THEOREM LeaderIdTypeCorrect == Spec => []TypeOK
<1>1. Sound => TypeOK
  BY DEF Sound
<1> QED BY <1>1, AlwaysSound, PTL

(* The tokens of a binding are of its profile, whatever a refresh outlived *)
(* (updateEncryptedTokens).                                                *)
THEOREM TokensFollowTheProfile == Spec => []TokensAreOfTheProfile
<1>1. Sound => TokensAreOfTheProfile
  BY DEF Sound
<1> QED BY <1>1, AlwaysSound, PTL

(* Nobody changes profiles in the middle of an attempt                     *)
(* (upsertVerifiedBinding, claimAttempt).                                  *)
THEOREM ClaimsFollowTheBinding == Spec => []ClaimsAreOfTheBinding
<1>1. Sound => ClaimsAreOfTheBinding
  BY DEF Sound
<1> QED BY <1>1, AlwaysSound, PTL

LEMMA OnlyAwardGrants ==
  ASSUME [Next]_vars, granted' # granted
  PROVE  \E h \in Handlers : Award(h)
<1>1. ASSUME NEW h \in Handlers, Subscribe(h) PROVE Award(h)
  BY <1>1 DEF Subscribe, Load, Refresh, Prepare, Preflight, PreflightFails, GiveUp, Decide,
              Claim, Post, Unauthorised, LookUp, local
<1>2. CASE UNCHANGED vars
  BY <1>2 DEF vars, local
<1>3. CASE Next
  BY <1>1, <1>3 DEF Next, BeginLink, SpendTab, CompleteLink, Turn, Remap, Moderate, LoseLease,
                    Invite, Crash, BeginSubscribe, local
<1> QED BY <1>2, <1>3

(* The reward is for registrations Leader-ID has (awardOnce).              *)
THEOREM RewardsAreEarned == Spec => RewardIsEarned
<1>1. ASSUME Sound, [Next]_vars
      PROVE  [\A u \in granted' \ granted : \A e \in Required :
                remote[binding[u].profile][event[e].external] # "none"]_vars
  <2> SUFFICES ASSUME NEW u \in granted' \ granted, NEW e \in Required
               PROVE  remote[binding[u].profile][event[e].external] # "none"
    OBVIOUS
  <2>1. PICK h \in Handlers : Award(h)
    BY <1>1, OnlyAwardGrants
  <2>2. u \in Users /\ Qualifies(u, e)
    BY <1>1, <2>1 DEF Award, Sound, Knows, At, In, Reading, Seeing, Deciding
  <2> QED BY <1>1, <2>2 DEF Qualifies, Sound, QualifyingIsThere, Required
<1> QED BY <1>1, AlwaysSound, PTL DEF Spec, RewardIsEarned

-----------------------------------------------------------------------------
(* One application: what is read of a row, and what becomes of the row *)

OneUserPerProfile ==
  \A u, v \in Users :
    IsBound(u) /\ IsBound(v) /\ binding[u].profile = binding[v].profile => u = v

OneEventPerExternal == \A e, f \in Events : event[e].external = event[f].external => e = f

AcceptedIsThere ==
  \A p \in Profiles, x \in Externals : accepted[p][x] > 0 <=> remote[p][x] # "none"

(* Of the rows of an event, as a subscription knows it, b comes after a:   *)
(* attempts are counted, and a doubt is not forgotten.                     *)
Older(h, e, a, b) ==
  \/ a = b
  \/ /\ Current(h, e, b)
     /\ \/ a.attempts < b.attempts
        \/ a.attempts = b.attempts /\ Current(h, e, a) /\ (b.unknown => a.unknown)

SawOlderRows(h) ==
  \A e \in DOMAIN handler[h].events : Older(h, e, handler[h].seen[e], Row(h, e))

UnreadableAreUnknown(h) ==
  ~handler[h].readable => \A e \in handler[h].todo : ~Known(h, e)

Accepted(h, e) == accepted[handler[h].binding.profile][External(h, e)]

(* The events it may still apply for, and what keeps it from doing so for  *)
(* one that was applied for.                                               *)
Open(h) == IF At(h, "decide") THEN handler[h].todo ELSE handler[h].todo \ {handler[h].event}

Barred(h, e) ==
  \/ Known(h, e) /\ handler[h].seen[e].unknown
  \/ Current(h, e, Row(h, e)) /\ handler[h].seen[e].attempts < Row(h, e).attempts

AppliedAreBarred(h) ==
  \A e \in Open(h) :
    handler[h].readable /\ handler[h].there[e] = "none" /\ Accepted(h, e) > 0 => Barred(h, e)

(* Until it has asked, the claim is in the row and nobody else asks.       *)
ClaimStands(h) ==
  Row(h, handler[h].event) = handler[h].claim /\ Accepted(h, handler[h].event) = 0

Careful(h) ==
  /\ In(h, Seeing) => SawOlderRows(h)
  /\ In(h, Deciding) => UnreadableAreUnknown(h) /\ AppliedAreBarred(h)
  /\ At(h, "claimed") => ClaimStands(h)

Applied ==
  /\ OneUserPerProfile /\ OneEventPerExternal /\ AcceptedIsThere /\ OneApplication
  /\ \A h \in Handlers : Careful(h)

LEMMA OlderIsTransitive ==
  ASSUME NEW h, NEW e, NEW a \in Rows, NEW b \in Rows, NEW c \in Rows,
         Older(h, e, a, b), Older(h, e, b, c)
  PROVE  Older(h, e, a, c)
BY DEF Older, Rows, Registered, NoRow

(* Two subscriptions of one user read one binding and one mapping.         *)
LEMMA SameSnapshot ==
  ASSUME SnapshotsAreCurrent, NEW h \in Handlers, NEW k \in Handlers,
         In(h, Reading), In(k, Reading), handler[h].user = handler[k].user,
         NEW e, e \in DOMAIN handler[h].events, e \in DOMAIN handler[k].events
  PROVE  /\ handler[h].binding.profile = handler[k].binding.profile
         /\ External(h, e) = External(k, e)
         /\ \A reg : Current(h, e, reg) <=> Current(k, e, reg)
BY DEF SnapshotsAreCurrent, Current, In, Reading, Seeing, Deciding, Attempting, External

(* One participation is of one user and of one event.                      *)
LEMMA OneParticipation ==
  ASSUME Sound, SnapshotsAreCurrent, OneUserPerProfile, OneEventPerExternal,
         NEW h \in Handlers, NEW k \in Handlers, In(h, Reading), In(k, Reading),
         handler[h].binding.profile = handler[k].binding.profile,
         NEW e \in DOMAIN handler[h].events, NEW f \in DOMAIN handler[k].events,
         External(h, e) = External(k, f)
  PROVE  handler[h].user = handler[k].user /\ e = f
<1>1. /\ handler[h].user \in Users /\ handler[k].user \in Users
      /\ e \in Events /\ f \in Events
  BY DEF Sound, Knows, ReadsItsBinding, In
<1>2. \A l \in {h, k} :
        /\ IsBound(handler[l].user)
        /\ binding[handler[l].user].profile = handler[l].binding.profile
        /\ \A g \in DOMAIN handler[l].events : event[g].external = External(l, g)
  BY DEF SnapshotsAreCurrent, In, Reading, Seeing, Deciding, Attempting, External
<1>3. handler[h].user = handler[k].user
  BY <1>1, <1>2 DEF OneUserPerProfile
<1>4. e = f
  BY <1>1, <1>2 DEF OneEventPerExternal
<1> QED BY <1>3, <1>4

LEMMA RowsOf ==
  ASSUME Sound, NEW h \in Handlers, In(h, Reading), NEW e \in DOMAIN handler[h].events
  PROVE  /\ handler[h].user \in Users /\ e \in Events /\ Row(h, e) \in Rows
         /\ handler[h].binding.profile \in Profiles /\ External(h, e) \in Externals
         /\ accepted[handler[h].binding.profile][External(h, e)] \in Nat
         /\ In(h, Seeing) => handler[h].seen[e] \in Rows
<1>1. handler[h].user \in Users /\ ReadsItsBinding(h) /\ (In(h, Seeing) => SawRows(h))
  BY DEF Sound, Knows, In
<1>2. /\ e \in Events /\ handler[h].binding.profile \in Profiles
      /\ External(h, e) \in Externals
  BY <1>1 DEF ReadsItsBinding, Bound
<1>3. Row(h, e) \in Rows
  BY <1>1, <1>2 DEF Sound, TypeOK, Row, Rows
<1>4. accepted[handler[h].binding.profile][External(h, e)] \in Nat
  BY <1>2 DEF Sound, TypeOK
<1> QED BY <1>1, <1>2, <1>3, <1>4 DEF SawRows

-----------------------------------------------------------------------------
(* One application: what a step does to the others *)

(* Rows as somebody reads them only go on.                                 *)
RowsAdvance ==
  \A k \in Handlers : In(k, Seeing) => \A e \in DOMAIN handler[k].events :
    Older(k, e, Row(k, e), registration'[handler[k].user][e])

(* The claim of somebody who has not asked yet is left alone, and so is    *)
(* the participation it is for.                                            *)
ClaimStays(k) ==
  At(k, "claimed") =>
    LET e == handler[k].event
        p == handler[k].binding.profile
        x == External(k, e)
    IN /\ registration'[handler[k].user][e] = Row(k, e)
       /\ accepted'[p][x] = accepted[p][x]

(* What is applied for has a row that says so.                             *)
ApplicationsAreRecorded(k) ==
  In(k, Deciding) => \A e \in DOMAIN handler[k].events :
    LET p == handler[k].binding.profile
        x == External(k, e)
    IN accepted'[p][x] > 0 /\ ~(accepted[p][x] > 0) =>
         Current(k, e, Row(k, e)) /\ Row(k, e).unknown

RowsTyped == registration' \in [Users -> [Events -> Rows]]

LEMMA OthersAreCareful ==
  ASSUME Sound, Applied, RowsTyped, RowsAdvance, NEW k \in Handlers, ClaimStays(k),
         ApplicationsAreRecorded(k), handler'[k] = handler[k]
  PROVE  Careful(k)'
<1>1. Careful(k)
  BY DEF Applied
<1>2. \A e : Row(k, e)' = registration'[handler[k].user][e]
  BY DEF Row
<1>3. ASSUME In(k, Seeing), NEW e \in DOMAIN handler[k].events
      PROVE  /\ Row(k, e) \in Rows /\ Row(k, e)' \in Rows /\ handler[k].seen[e] \in Rows
             /\ Older(k, e, Row(k, e), Row(k, e)')
  <2>1. In(k, Reading)
    BY <1>3 DEF In, Reading
  <2> QED BY <1>2, <1>3, <2>1, RowsOf DEF RowsAdvance, RowsTyped
<1>4. ASSUME In(k, Seeing) PROVE SawOlderRows(k)'
  <2> SUFFICES ASSUME NEW e \in DOMAIN handler[k].events
               PROVE  Older(k, e, handler[k].seen[e], Row(k, e)')
    BY DEF SawOlderRows, Older, Current
  <2>1. Older(k, e, handler[k].seen[e], Row(k, e))
    BY <1>1, <1>4 DEF Careful, SawOlderRows
  <2> QED BY <1>3, <1>4, <2>1, OlderIsTransitive
<1>5. ASSUME In(k, Deciding) PROVE UnreadableAreUnknown(k)' /\ AppliedAreBarred(k)'
  <2>1. UnreadableAreUnknown(k)'
    BY <1>1, <1>5 DEF Careful, UnreadableAreUnknown, Known, Current
  <2>2. In(k, Seeing) /\ Open(k) \subseteq DOMAIN handler[k].events
    BY <1>5 DEF In, Seeing, Open, Sound, Knows, FoundWhatIsThere
  <2>3. ASSUME NEW e \in Open(k), handler[k].readable, handler[k].there[e] = "none",
               Accepted(k, e)' > 0
        PROVE  Barred(k, e)'
    <3> DEFINE seen == handler[k].seen[e]
    <3>1. e \in DOMAIN handler[k].events /\ Older(k, e, seen, Row(k, e))
      BY <1>1, <2>2 DEF Careful, SawOlderRows
    <3>2. Barred(k, e)
      <4>1. CASE Accepted(k, e) > 0
        BY <1>1, <1>5, <2>3, <4>1 DEF Careful, AppliedAreBarred
      <4>2. CASE ~(Accepted(k, e) > 0)
        <5>1. Current(k, e, Row(k, e)) /\ Row(k, e).unknown
          BY <1>5, <2>3, <3>1, <4>2 DEF ApplicationsAreRecorded, Accepted, External
        <5> QED BY <3>1, <5>1 DEF Older, Barred, Known
      <4> QED BY <4>1, <4>2
    <3>3. /\ Row(k, e) \in Rows /\ Row(k, e)' \in Rows /\ seen \in Rows
          /\ Older(k, e, Row(k, e), Row(k, e)')
      BY <1>3, <2>2, <3>1
    <3>4. \/ Known(k, e) /\ seen.unknown
          \/ Current(k, e, Row(k, e)') /\ seen.attempts < Row(k, e)'.attempts
      BY <3>2, <3>3 DEF Barred, Older, Rows, Registered, NoRow
    <3> QED BY <3>4 DEF Barred, Known, Current
  <2>4. AppliedAreBarred(k)'
    BY <2>3 DEF AppliedAreBarred, Open, At
  <2> QED BY <2>1, <2>4
<1>6. ASSUME At(k, "claimed") PROVE ClaimStands(k)'
  BY <1>1, <1>2, <1>6 DEF Careful, ClaimStands, ClaimStays, Accepted, External
<1> QED BY <1>4, <1>5, <1>6 DEF Careful, In, At

LEMMA NothingIsWritten ==
  ASSUME Sound, registration' = registration, accepted' = accepted
  PROVE  /\ RowsTyped /\ RowsAdvance
         /\ \A k \in Handlers : ClaimStays(k) /\ ApplicationsAreRecorded(k)
BY DEF RowsTyped, RowsAdvance, Older, Row, ClaimStays, ApplicationsAreRecorded, Sound,
       TypeOK, Rows

LEMMA WriteAdvances ==
  ASSUME Sound, SnapshotsAreCurrent, NEW h \in Handlers, In(h, Reading),
         NEW e \in DOMAIN handler[h].events, NEW reg \in Rows,
         Written(h, e, reg), Older(h, e, Row(h, e), reg)
  PROVE  RowsTyped /\ RowsAdvance
<1>1. handler[h].user \in Users /\ e \in Events
  BY RowsOf
<1>2. RowsTyped
  BY <1>1 DEF RowsTyped, Written, Sound, TypeOK, Rows
<1>3. ASSUME NEW k \in Handlers, In(k, Seeing), NEW f \in DOMAIN handler[k].events
      PROVE  Older(k, f, Row(k, f), registration'[handler[k].user][f])
  <2>1. In(k, Reading)
    BY <1>3 DEF In, Reading
  <2>2. handler[k].user \in Users /\ f \in Events
    BY <1>3, <2>1, RowsOf
  <2>3. CASE handler[k].user = handler[h].user /\ f = e
    <3>1. Row(k, f) = Row(h, e) /\ registration'[handler[k].user][f] = reg
      BY <1>1, <2>2, <2>3 DEF Row, Written, Sound, TypeOK
    <3>2. \A r : Current(h, e, r) <=> Current(k, e, r)
      BY <1>3, <2>1, <2>3, SameSnapshot
    <3> QED BY <2>3, <3>1, <3>2 DEF Older
  <2>4. CASE ~(handler[k].user = handler[h].user /\ f = e)
    BY <1>1, <2>2, <2>4 DEF Row, Written, Older, Sound, TypeOK
  <2> QED BY <2>3, <2>4
<1> QED BY <1>2, <1>3 DEF RowsAdvance

LEMMA CompletionAdvances ==
  ASSUME Sound, SnapshotsAreCurrent, NEW h \in Handlers, In(h, Seeing),
         NEW e \in DOMAIN handler[h].events, NEW reg \in Draft(h, e),
         NEW claimed \in Registered, Current(h, e, claimed),
         CompletedClaim(h, e, claimed, reg)
  PROVE  RowsTyped /\ RowsAdvance
<1>1. In(h, Reading) /\ Row(h, e) \in Rows
  BY RowsOf DEF In, Reading
<1>2. CASE Holds(h, e, claimed)
  <2> DEFINE new == Numbered(reg, claimed.attempts)
  <2>1. Written(h, e, new)
    BY <1>2 DEF CompletedClaim, Numbered
  <2>2. /\ new \in Registered /\ new.attempts = claimed.attempts
        /\ new.profile = handler[h].binding.profile /\ new.external = External(h, e)
    <3>1. claimed.attempts \in 1 .. MaxAttempts
      BY DEF Registered
    <3> QED BY <1>1, <3>1, DraftRow
  <2>3. \A r \in Registered : r # NoRow
    BY LeaderIdAssumption DEF Registered, NoRow
  <2> HIDE DEF new
  <2>4. Older(h, e, Row(h, e), new)
    BY <1>2, <2>2, <2>3 DEF Holds, Older, Current, External
  <2> QED BY <1>1, <2>1, <2>2, <2>4, WriteAdvances DEF Rows
<1>3. CASE ~Holds(h, e, claimed)
  BY <1>3 DEF CompletedClaim, RowsTyped, RowsAdvance, Older, Row, Sound, TypeOK, Rows
<1> QED BY <1>2, <1>3

LEMMA SavingAdvances ==
  ASSUME Sound, SnapshotsAreCurrent, NEW h \in Handlers, In(h, Seeing),
         NEW e \in DOMAIN handler[h].events, NEW reg \in Draft(h, e), Saved(h, e, reg)
  PROVE  RowsTyped /\ RowsAdvance
<1> DEFINE seen == handler[h].seen[e]
           n == seen.attempts + 1
<1>1. In(h, Reading) /\ Row(h, e) \in Rows /\ seen \in Rows
  BY RowsOf DEF In, Reading
<1>2. n \in 1 .. MaxAttempts
  BY <1>1, LeaderIdAssumption DEF Saved, Rows, Registered, NoRow
<1>3. CASE UNCHANGED registration
  BY <1>3 DEF RowsTyped, RowsAdvance, Older, Row, Sound, TypeOK, Rows
<1>4. CASE Written(h, e, [reg EXCEPT !.attempts = n]) /\ seen.attempts = Row(h, e).attempts
  <2> DEFINE new == Numbered(reg, n)
  <2>1. [reg EXCEPT !.attempts = n] = new
    BY DEF Draft, Numbered
  <2>2. /\ new \in Registered /\ new.attempts = n
        /\ new.profile = handler[h].binding.profile /\ new.external = External(h, e)
    BY <1>1, <1>2, DraftRow
  <2>3. new # NoRow
    BY <2>2 DEF Registered, NoRow
  <2>4. Row(h, e).attempts < new.attempts
    BY <1>1, <1>4, <2>2 DEF Rows, Registered, NoRow
  <2> HIDE DEF new
  <2>5. Older(h, e, Row(h, e), new)
    BY <2>2, <2>3, <2>4 DEF Older, Current, External
  <2> QED BY <1>1, <1>4, <2>1, <2>2, <2>5, WriteAdvances DEF Rows
<1> QED BY <1>3, <1>4 DEF Saved, NoRow

(* What is persisted of an event that is not in doubt.                     *)
LEMMA PersistedAdvances ==
  ASSUME Sound, SnapshotsAreCurrent, NEW h \in Handlers, In(h, Seeing),
         NEW e \in DOMAIN handler[h].events, NEW reg \in Draft(h, e), Persisted(h, e, reg)
  PROVE  RowsTyped /\ RowsAdvance
<1>1. handler[h].seen[e] \in Rows
  BY RowsOf DEF In, Reading
<1>2. CASE Known(h, e) /\ CompletedClaim(h, e, handler[h].seen[e], reg)
  BY <1>1, <1>2, CompletionAdvances DEF Known, Current, Rows
<1>3. CASE Saved(h, e, reg)
  BY <1>3, SavingAdvances
<1> QED BY <1>2, <1>3 DEF Persisted

(* The claim of another is completed by those only who found what it asked *)
(* for, or forgot the doubt.                                               *)
LEMMA PersistedLeavesClaims ==
  ASSUME Sound, Applied, SnapshotsAreCurrent, NEW h \in Handlers, At(h, "decide"),
         NEW e \in DOMAIN handler[h].events, NEW reg \in Draft(h, e), Persisted(h, e, reg),
         accepted' = accepted,
         Known(h, e) /\ handler[h].seen[e].unknown => Accepted(h, e) > 0
  PROVE  \A k \in Handlers \ {h} : ClaimStays(k)
<1> SUFFICES ASSUME NEW k \in Handlers \ {h}, At(k, "claimed")
             PROVE  registration'[handler[k].user][handler[k].event] = Row(k, handler[k].event)
  BY DEF ClaimStays
<1> DEFINE f == handler[k].event
           seen == handler[h].seen[e]
<1>1. In(h, Reading) /\ In(h, Seeing) /\ In(k, Reading) /\ ClaimsItsEvent(k) /\ ClaimStands(k)
  BY DEF At, In, Reading, Seeing, Deciding, Attempting, Sound, Knows, Applied, Careful
<1>2. f \in DOMAIN handler[k].events
  BY <1>1 DEF ClaimsItsEvent
<1>3. /\ handler[h].user \in Users /\ handler[k].user \in Users /\ e \in Events /\ f \in Events
      /\ seen \in Rows
  BY <1>1, <1>2, RowsOf
<1>4. CASE handler[k].user # handler[h].user \/ f # e
  BY <1>3, <1>4 DEF Persisted, Saved, CompletedClaim, Written, Row, Sound, TypeOK
<1>5. CASE handler[k].user = handler[h].user /\ f = e
  <2>1. /\ Row(h, e) = handler[k].claim /\ Row(h, e) \in Registered
        /\ Row(h, e).claim = k /\ Row(h, e).unknown
    BY <1>1, <1>5 DEF ClaimStands, ClaimsItsEvent, Row
  <2>2. Accepted(h, e) = 0
    BY <1>1, <1>2, <1>5, SameSnapshot DEF ClaimStands, Accepted
  <2>3. ~(Known(h, e) /\ seen.unknown)
    BY <2>2
  <2>4. Current(h, e, Row(h, e))
    <3>1. Current(k, e, Row(h, e))
      BY <1>1, <1>5, <2>1, LeaderIdAssumption DEF ClaimsItsEvent, Current, External, Registered, NoRow
    <3> QED BY <1>1, <1>2, <1>5, <3>1, SameSnapshot
  <2>5. Older(h, e, seen, Row(h, e))
    BY <1>1 DEF Applied, Careful, SawOlderRows
  <2>6. seen # Row(h, e) /\ seen.attempts # Row(h, e).attempts
    <3>1. seen # Row(h, e)
      BY <2>1, <2>3, <2>4 DEF Known
    <3>2. seen.attempts < Row(h, e).attempts
      BY <2>1, <2>3, <2>5, <3>1 DEF Older, Known
    <3> QED BY <1>3, <2>1, <3>1, <3>2 DEF Rows, Registered, NoRow
  <2>7. UNCHANGED registration
    BY <2>6, <2>1 DEF Persisted, Saved, CompletedClaim, Holds
  <2> QED BY <2>7 DEF Row
<1> QED BY <1>4, <1>5

(* A finished attempt leaves the claims of others alone.                   *)
LEMMA FinishAdvances ==
  ASSUME Sound, Applied, SnapshotsAreCurrent, NEW h \in Handlers, In(h, Attempting),
         NEW reg \in Draft(h, handler[h].event), Finished(h, reg)
  PROVE  /\ RowsTyped /\ RowsAdvance
         /\ \A k \in Handlers \ {h} : At(k, "claimed") =>
              registration'[handler[k].user][handler[k].event] = Row(k, handler[k].event)
<1> DEFINE e == handler[h].event
           claim == handler[h].claim
<1>1. In(h, Reading) /\ In(h, Seeing) /\ ClaimsItsEvent(h)
  BY DEF In, Reading, Seeing, Deciding, Sound, Knows
<1>2. CompletedClaim(h, e, claim, reg)
  BY DEF Finished, Claimed
<1>3. RowsTyped /\ RowsAdvance
  <2>1. claim \in Registered /\ Current(h, e, claim)
    BY <1>1, LeaderIdAssumption DEF ClaimsItsEvent, Current, External, Registered, NoRow
  <2>2. e \in DOMAIN handler[h].events
    BY <1>1 DEF ClaimsItsEvent
  <2> QED BY <1>1, <1>2, <2>1, <2>2, CompletionAdvances
<1>4. ASSUME NEW k \in Handlers \ {h}, At(k, "claimed")
      PROVE  registration'[handler[k].user][handler[k].event] = Row(k, handler[k].event)
  <2>1. In(k, Reading) /\ ClaimsItsEvent(k) /\ ClaimStands(k)
    BY <1>4 DEF At, In, Reading, Seeing, Deciding, Attempting, Sound, Knows, Applied, Careful
  <2>2. CASE handler[k].user = handler[h].user /\ handler[k].event = e
    <3>1. Row(h, e).claim = k /\ claim.claim = h
      BY <1>1, <2>1, <2>2 DEF ClaimsItsEvent, ClaimStands, Row
    <3>2. registration' = registration
      BY <1>2, <3>1 DEF CompletedClaim, Holds
    <3> QED BY <3>2 DEF Row
  <2>3. CASE ~(handler[k].user = handler[h].user /\ handler[k].event = e)
    <3>1. /\ handler[h].user \in Users /\ handler[k].user \in Users
          /\ e \in Events /\ handler[k].event \in Events
      BY <1>1, <2>1, RowsOf DEF ClaimsItsEvent
    <3>2. registration' = registration \/ \E new : Written(h, e, new)
      BY <1>2 DEF CompletedClaim
    <3>3. registration \in [Users -> [Events -> Rows]]
      BY DEF Sound, TypeOK, Rows
    <3>4. ASSUME NEW new, Written(h, e, new)
          PROVE  registration'[handler[k].user][handler[k].event]
                   = registration[handler[k].user][handler[k].event]
      BY <2>3, <3>1, <3>3, <3>4 DEF Written
    <3> QED BY <3>2, <3>4 DEF Row
  <2> QED BY <2>2, <2>3
<1> QED BY <1>3, <1>4

(* Whoever goes on with an attempt or to the next event.                   *)
LEMMA DeciderIsCareful ==
  ASSUME Sound, Applied, RowsTyped, RowsAdvance, NEW h \in Handlers, In(h, Deciding),
         In(h, Deciding)', At(h, "claimed")' => ClaimStands(h)',
         handler'[h].user = handler[h].user, handler'[h].binding = handler[h].binding,
         handler'[h].events = handler[h].events, handler'[h].seen = handler[h].seen,
         handler'[h].there = handler[h].there, handler'[h].readable = handler[h].readable,
         handler'[h].todo \subseteq handler[h].todo, Open(h)' \subseteq Open(h),
         \A e \in Open(h)' : accepted'[handler[h].binding.profile][External(h, e)] > 0 =>
                                Accepted(h, e) > 0
  PROVE  Careful(h)'
<1>1. Careful(h) /\ In(h, Seeing) /\ In(h, Reading)
  BY DEF Applied, In, Seeing, Reading
<1>2. \A e : Row(h, e)' = registration'[handler[h].user][e]
  BY DEF Row
<1>3. ASSUME NEW e \in DOMAIN handler[h].events
      PROVE  /\ Row(h, e) \in Rows /\ Row(h, e)' \in Rows /\ handler[h].seen[e] \in Rows
             /\ Older(h, e, Row(h, e), Row(h, e)')
  BY <1>1, <1>2, RowsOf DEF RowsAdvance, RowsTyped
<1>4. \A e, r : Current(h, e, r)' <=> Current(h, e, r')
  BY DEF Current
<1>5. SawOlderRows(h)'
  <2> SUFFICES ASSUME NEW e \in DOMAIN handler[h].events
               PROVE  Older(h, e, handler[h].seen[e], Row(h, e)')
    BY DEF SawOlderRows, Older, Current
  <2>1. Older(h, e, handler[h].seen[e], Row(h, e))
    BY <1>1 DEF Careful, SawOlderRows
  <2> QED BY <1>3, <2>1, OlderIsTransitive
<1>6. UnreadableAreUnknown(h)'
  BY <1>1 DEF Careful, UnreadableAreUnknown, Known, Current
<1>7. AppliedAreBarred(h)'
  <2> SUFFICES ASSUME NEW e \in Open(h)', handler[h].readable, handler[h].there[e] = "none",
                      Accepted(h, e)' > 0
               PROVE  Barred(h, e)'
    BY DEF AppliedAreBarred
  <2> DEFINE seen == handler[h].seen[e]
  <2>1. e \in Open(h) /\ e \in DOMAIN handler[h].events
    BY DEF Open, Sound, Knows, FoundWhatIsThere
  <2>2. Accepted(h, e) > 0
    BY DEF Accepted, External
  <2>3. Barred(h, e)
    BY <1>1, <2>1, <2>2 DEF Careful, AppliedAreBarred
  <2>4. /\ Row(h, e) \in Rows /\ Row(h, e)' \in Rows /\ seen \in Rows
        /\ Older(h, e, Row(h, e), Row(h, e)')
    BY <1>3, <2>1
  <2>5. \/ Known(h, e) /\ seen.unknown
        \/ Current(h, e, Row(h, e)') /\ seen.attempts < Row(h, e)'.attempts
    BY <2>3, <2>4 DEF Barred, Older, Rows, Registered, NoRow
  <2> QED BY <2>5 DEF Barred, Known, Current
<1> QED BY <1>5, <1>6, <1>7 DEF Careful, In, At

LEMMA IdleIsCareful ==
  ASSUME NEW h, handler'[h].stage \in {"idle", "linked", "leased", "bound"}
  PROVE  Careful(h)'
BY DEF Careful, In, At, Seeing, Deciding, Attempting

-----------------------------------------------------------------------------
(* One application: every step *)

(* Nobody's profile changes, and neither does a mapping or Leader-ID.      *)
LEMMA WorldStays ==
  ASSUME Applied, UNCHANGED <<event, world>>,
         \A u \in Users : (IsBound(u)' <=> IsBound(u)) /\ binding'[u].profile = binding[u].profile
  PROVE  OneUserPerProfile' /\ OneEventPerExternal' /\ AcceptedIsThere' /\ OneApplication'
BY DEF Applied, OneUserPerProfile, OneEventPerExternal, AcceptedIsThere, OneApplication, world

(* A step that writes no registration, and begins or ends subscriptions.   *)
LEMMA QuietStep ==
  ASSUME Sound, Applied, registration' = registration, accepted' = accepted,
         \A k \in Handlers : \/ handler'[k] = handler[k]
                             \/ handler'[k].stage \in {"idle", "linked", "leased", "bound"},
         OneUserPerProfile', OneEventPerExternal', AcceptedIsThere', OneApplication'
  PROVE  Applied'
<1>1. \A k \in Handlers : Careful(k)'
  BY NothingIsWritten, OthersAreCareful, IdleIsCareful
<1> QED BY <1>1 DEF Applied

(* A step of one subscription, which the others do not notice.             *)
LEMMA CarefulStep ==
  ASSUME Sound, Applied, NEW h \in Handlers, RowsTyped, RowsAdvance,
         \A k \in Handlers \ {h} : /\ handler'[k] = handler[k]
                                   /\ ClaimStays(k) /\ ApplicationsAreRecorded(k),
         Careful(h)',
         OneUserPerProfile', OneEventPerExternal', AcceptedIsThere', OneApplication'
  PROVE  Applied'
<1>1. \A k \in Handlers : Careful(k)'
  BY OthersAreCareful
<1> QED BY <1>1 DEF Applied

LEMMA LinkingIsCareful ==
  ASSUME Sound, Applied
  PROVE  /\ \A t \in Tabs, u \in Users, p \in Profiles : BeginLink(t, u, p) => Applied'
         /\ \A t \in Tabs : SpendTab(t) => Applied'
         /\ \A t \in Tabs, h \in Handlers : CompleteLink(t, h) => Applied'
         /\ \A h \in Handlers : Invite(h) => Applied'
<1>1. ASSUME UNCHANGED <<binding, event, registration, handler, world>> PROVE Applied'
  BY <1>1, WorldStays, QuietStep DEF IsBound, world
<1>2. ASSUME NEW t \in Tabs, NEW h \in Handlers, CompleteLink(t, h) PROVE Applied'
  <2> DEFINE u == tab[t].user
             p == tab[t].profile
  <2>1. /\ u \in Users
        /\ \A v \in Users \ {u} : IsBound(v) => binding[v].profile # p
        /\ binding' = [binding EXCEPT ![u] = [profile |-> p, since |-> t, tokens |-> p]]
        /\ Goto(h, [stage |-> "linked", user |-> u])
        /\ UNCHANGED <<event, registration, world>>
    BY <1>2 DEF CompleteLink, Goto, Sound, TypeOK
  <2> HIDE DEF u, p
  <2>2. OneUserPerProfile'
    <3>1. \A v \in Users : binding'[v] = IF v = u THEN [profile |-> p, since |-> t, tokens |-> p]
                                       ELSE binding[v]
      BY <2>1 DEF Sound, TypeOK
    <3> QED BY <2>1, <3>1 DEF Applied, OneUserPerProfile, IsBound
  <2>3. OneEventPerExternal' /\ AcceptedIsThere' /\ OneApplication'
    BY <2>1 DEF Applied, OneEventPerExternal, AcceptedIsThere, OneApplication, world
  <2> QED BY <2>1, <2>2, <2>3, HandlerMoves, QuietStep DEF world
<1>3. ASSUME NEW h \in Handlers, Invite(h) PROVE Applied'
  <2>1. Goto(h, Idle) /\ UNCHANGED <<binding, event, registration, world>>
    BY <1>3 DEF Invite, Goto
  <2> QED BY <2>1, WorldStays, HandlerMoves, QuietStep DEF IsBound, Idle, world
<1> QED BY <1>1, <1>2, <1>3 DEF BeginLink, SpendTab

LEMMA OutsideIsCareful ==
  ASSUME Sound, Applied
  PROVE  /\ \A e \in Events, switch \in Changes : Turn(e, switch) => Applied'
         /\ \A e \in Events, x \in Externals : Remap(e, x) => Applied'
         /\ \A p \in Profiles, x \in Externals : Moderate(p, x) => Applied'
         /\ \A u \in Users : LoseLease(u) => Applied'
         /\ \A h \in Handlers : Crash(h) => Applied'
<1>1. ASSUME UNCHANGED <<binding, registration, handler, accepted>>,
             OneEventPerExternal', AcceptedIsThere'
      PROVE  Applied'
  <2>1. OneUserPerProfile' /\ OneApplication'
    BY <1>1 DEF Applied, OneUserPerProfile, OneApplication, IsBound
  <2> QED BY <1>1, <2>1, QuietStep
<1>2. ASSUME NEW e \in Events, NEW switch \in Changes, Turn(e, switch) PROVE Applied'
  <2>1. \A f \in Events : event'[f].external = event[f].external
    BY <1>2, TurnsASwitch
  <2> QED BY <1>1, <1>2, <2>1 DEF Turn, world, Applied, OneEventPerExternal, AcceptedIsThere
<1>3. ASSUME NEW e \in Events, NEW x \in Externals, Remap(e, x) PROVE Applied'
  <2>1. \A f \in Events : event'[f].external = IF f = e THEN x ELSE event[f].external
    BY <1>3 DEF Remap, Sound, TypeOK
  <2> QED BY <1>1, <1>3, <2>1 DEF Remap, world, Applied, OneEventPerExternal, AcceptedIsThere
<1>4. ASSUME NEW p \in Profiles, NEW x \in Externals, Moderate(p, x) PROVE Applied'
  <2>1. \A q \in Profiles, y \in Externals : remote'[q][y] = "none" <=> remote[q][y] = "none"
    BY <1>4 DEF Moderate, Sound, TypeOK
  <2> QED BY <1>1, <1>4, <2>1 DEF Moderate, local, Applied, OneEventPerExternal, AcceptedIsThere
<1>5. ASSUME NEW u \in Users, LoseLease(u) PROVE Applied'
  BY <1>1, <1>5 DEF LoseLease, world, Applied, OneEventPerExternal, AcceptedIsThere
<1>6. ASSUME NEW h \in Handlers, Crash(h) PROVE Applied'
  <2>1. Goto(h, Idle) /\ UNCHANGED <<binding, event, registration, world>>
    BY <1>6 DEF Crash, local
  <2> QED BY <2>1, WorldStays, HandlerMoves, QuietStep DEF IsBound, Idle, world
<1> QED BY <1>2, <1>3, <1>4, <1>5, <1>6

LEMMA LeavingIsCareful ==
  ASSUME Sound, Applied, NEW h \in Handlers, Leave(h),
         UNCHANGED <<binding, event, registration, world>>
  PROVE  Applied'
<1>1. Goto(h, Idle)
  BY DEF Leave
<1> QED BY <1>1, WorldStays, HandlerMoves, QuietStep DEF IsBound, Idle, world

LEMMA FreshTokensAreCareful ==
  ASSUME Sound, Applied, NEW h \in Handlers, In(h, Reading), WithFreshTokens(h),
         UNCHANGED <<event, registration, handler, world>>
  PROVE  Applied'
BY TokensStay, WorldStays, QuietStep DEF world

LEMMA ReadingIsCareful ==
  ASSUME Sound, Applied, NEW h \in Handlers
  PROVE  /\ \A u \in Users : BeginSubscribe(h, u) => Applied'
         /\ Load(h) => Applied'
         /\ Refresh(h) => Applied'
         /\ Prepare(h) => Applied'
         /\ Preflight(h) => Applied'
         /\ PreflightFails(h) => Applied'
         /\ GiveUp(h) => Applied'
<1>1. ASSUME NEW r, r.stage \in {"leased", "bound"}, Goto(h, r),
             UNCHANGED <<binding, event, registration, world>>
      PROVE  Applied'
  BY <1>1, WorldStays, HandlerMoves, QuietStep DEF IsBound, world
<1>2. ASSUME NEW u \in Users, BeginSubscribe(h, u) PROVE Applied'
  BY <1>1, <1>2 DEF BeginSubscribe
<1>3. ASSUME Load(h) PROVE Applied'
  BY <1>1, <1>3, LeavingIsCareful DEF Load
<1>4. ASSUME Refresh(h) PROVE Applied'
  <2>1. CASE WithFreshTokens(h) /\ UNCHANGED <<handler, lease>>
    BY <1>4, <2>1, FreshTokensAreCareful DEF Refresh, At, In, Reading
  <2>2. CASE Leave(h) /\ UNCHANGED binding
    BY <1>4, <2>2, LeavingIsCareful DEF Refresh
  <2> QED BY <1>4, <2>1, <2>2 DEF Refresh
<1>5. ASSUME NEW r, Goto(h, r), UNCHANGED <<local, world>>, Careful(h)' PROVE Applied'
  <2>1. UNCHANGED <<binding, event, registration, accepted>>
    BY <1>5 DEF local, world
  <2>2. /\ RowsTyped /\ RowsAdvance
        /\ \A k \in Handlers : ClaimStays(k) /\ ApplicationsAreRecorded(k)
    BY <2>1, NothingIsWritten
  <2>3. OneUserPerProfile' /\ OneEventPerExternal' /\ AcceptedIsThere' /\ OneApplication'
    BY <1>5, <2>1, WorldStays DEF IsBound
  <2> QED BY <1>5, <2>2, <2>3, HandlerMoves, CarefulStep
<1>6. ASSUME Prepare(h) PROVE Applied'
  <2> DEFINE r == [stage |-> "prepared", user |-> handler[h].user,
                   binding |-> handler[h].binding, events |-> handler[h].events,
                   seen |-> [e \in DOMAIN handler[h].events |->
                               registration[handler[h].user][e]]]
  <2>1. Goto(h, r) /\ UNCHANGED <<local, world>>
    BY <1>6 DEF Prepare
  <2>2. handler'[h] = r /\ registration' = registration
    BY <2>1, HandlerMoves DEF local
  <2>3. Careful(h)'
    BY <2>2 DEF Careful, SawOlderRows, Older, Row, In, Deciding, Attempting, At
  <2> QED BY <1>5, <2>1, <2>3
<1>7. ASSUME NEW r, handler'[h] = r, r.stage = "decide", In(h, Seeing), r.user = handler[h].user,
             r.binding = handler[h].binding, r.events = handler[h].events,
             r.seen = handler[h].seen, UNCHANGED <<local, world>>,
             UnreadableAreUnknown(h)', AppliedAreBarred(h)'
      PROVE  Careful(h)'
  <2>1. registration' = registration
    BY <1>7 DEF local
  <2>2. SawOlderRows(h)
    BY <1>7 DEF Applied, Careful
  <2>3. SawOlderRows(h)'
    BY <1>7, <2>1, <2>2 DEF SawOlderRows, Older, Row, Current, External
  <2> QED BY <1>7, <2>3 DEF Careful, In, At
<1>8. ASSUME Preflight(h) PROVE Applied'
  <2> DEFINE p == handler[h].binding.profile
             there == [e \in Actionable(h) |-> remote[p][handler[h].events[e].external]]
             r == [stage |-> "decide", user |-> handler[h].user,
                   binding |-> handler[h].binding, events |-> handler[h].events,
                   seen |-> handler[h].seen, todo |-> Actionable(h), there |-> there,
                   readable |-> TRUE]
  <2>1. Goto(h, r) /\ UNCHANGED <<local, world>> /\ In(h, Seeing) /\ In(h, Reading)
    BY <1>8 DEF Preflight, At, In, Seeing, Reading
  <2>2. handler'[h] = r /\ accepted' = accepted
    BY <2>1, HandlerMoves DEF world
  <2>3. ASSUME NEW e \in Actionable(h), there[e] = "none"
        PROVE  ~(accepted[p][External(h, e)] > 0)
    <3>1. e \in DOMAIN handler[h].events /\ remote[p][External(h, e)] = "none"
      BY <2>3 DEF Actionable, External
    <3>2. p \in Profiles /\ External(h, e) \in Externals
      BY <2>1, <3>1, RowsOf
    <3> QED BY <3>1, <3>2 DEF Applied, AcceptedIsThere
  <2> HIDE DEF there
  <2>4. AppliedAreBarred(h)'
    <3> SUFFICES ASSUME NEW e \in Open(h)', handler'[h].there[e] = "none", Accepted(h, e)' > 0
                 PROVE  FALSE
      BY DEF AppliedAreBarred
    <3>1. e \in Actionable(h) /\ there[e] = "none"
      BY <2>2 DEF Open, At
    <3>2. accepted[p][External(h, e)] > 0
      BY <2>2 DEF Accepted, External
    <3> QED BY <2>3, <3>1, <3>2
  <2>5. UnreadableAreUnknown(h)'
    BY <2>2 DEF UnreadableAreUnknown
  <2>6. Careful(h)'
    <3> HIDE DEF p
    <3> QED BY <1>7, <2>1, <2>2, <2>4, <2>5
  <2> QED BY <1>5, <2>1, <2>6
<1>9. ASSUME PreflightFails(h) PROVE Applied'
  <2> DEFINE r == [stage |-> "decide", user |-> handler[h].user,
                   binding |-> handler[h].binding, events |-> handler[h].events,
                   seen |-> handler[h].seen,
                   todo |-> {e \in Actionable(h) : ~Known(h, e)}, there |-> <<>>,
                   readable |-> FALSE]
  <2>1. Goto(h, r) /\ UNCHANGED <<local, world>> /\ In(h, Seeing)
    BY <1>9 DEF PreflightFails, At, In, Seeing
  <2>2. handler'[h] = r
    BY <2>1, HandlerMoves
  <2>3. UnreadableAreUnknown(h)' /\ AppliedAreBarred(h)'
    BY <2>2 DEF UnreadableAreUnknown, AppliedAreBarred, Known, Current
  <2>4. Careful(h)'
    BY <1>7, <2>1, <2>2, <2>3
  <2> QED BY <1>5, <2>1, <2>4
<1>10. ASSUME GiveUp(h) PROVE Applied'
  BY <1>10, LeavingIsCareful DEF GiveUp
<1> QED BY <1>2, <1>3, <1>4, <1>6, <1>8, <1>9, <1>10

LEMMA GoingOnIsCareful ==
  ASSUME Sound, Applied, RowsTyped, RowsAdvance, NEW h \in Handlers, In(h, Deciding), NEW e,
         In(h, Attempting) => e = handler[h].event,
         NextEvent(h, e) \/ (Settle(h, e) /\ UNCHANGED lease),
         \A f \in DOMAIN handler[h].events : f # e =>
           accepted'[handler[h].binding.profile][External(h, f)] = Accepted(h, f)
  PROVE  /\ Careful(h)'
         /\ \A k \in Handlers \ {h} : handler'[k] = handler[k]
<1>1. CASE Leave(h)
  BY <1>1, HandlerMoves, IdleIsCareful DEF Leave, Idle
<1>2. CASE Settle(h, e)
  <2> DEFINE r == [stage |-> "decide", user |-> handler[h].user,
                   binding |-> handler[h].binding, events |-> handler[h].events,
                   seen |-> handler[h].seen, todo |-> handler[h].todo \ {e},
                   there |-> handler[h].there, readable |-> handler[h].readable]
  <2>1. Goto(h, r)
    BY <1>2 DEF Settle, Goto, Sound
  <2>2. handler'[h] = r
    BY <2>1, HandlerMoves
  <2>3. Open(h)' = handler[h].todo \ {e}
    BY <2>2 DEF Open, At
  <2>4. Open(h)' \subseteq Open(h)
    BY <2>3 DEF Open, At, In, Deciding
  <2>5. Open(h)' \subseteq DOMAIN handler[h].events
    BY <2>3 DEF Sound, Knows, FoundWhatIsThere
  <2>6. In(h, Deciding)' /\ ~At(h, "claimed")'
    BY <2>2 DEF In, Deciding, At
  <2>7. Careful(h)'
    BY <2>2, <2>3, <2>4, <2>5, <2>6, DeciderIsCareful
  <2> QED BY <2>1, <2>7, HandlerMoves
<1> QED BY <1>1, <1>2 DEF NextEvent

(* An event is done with, and nothing was asked of Leader-ID.              *)
LEMMA DoneIsCareful ==
  ASSUME Sound, Applied, RowsTyped, RowsAdvance, NEW h \in Handlers, In(h, Deciding), NEW e,
         In(h, Attempting) => e = handler[h].event,
         NextEvent(h, e) \/ (Settle(h, e) /\ UNCHANGED lease),
         \A k \in Handlers \ {h} : ClaimStays(k),
         UNCHANGED <<binding, event, world>>
  PROVE  Applied'
<1>1. accepted' = accepted
  BY DEF world
<1>2. /\ Careful(h)'
      /\ \A k \in Handlers \ {h} : handler'[k] = handler[k]
  BY <1>1, GoingOnIsCareful DEF Accepted
<1>3. \A k \in Handlers : ApplicationsAreRecorded(k)
  BY <1>1 DEF ApplicationsAreRecorded
<1>4. OneUserPerProfile' /\ OneEventPerExternal' /\ AcceptedIsThere' /\ OneApplication'
  BY WorldStays DEF IsBound
<1> QED BY <1>2, <1>3, <1>4, CarefulStep

LEMMA DecidingIsCareful ==
  ASSUME Sound, Applied, SnapshotsAreCurrent, NEW h \in Handlers, NEW e \in Events, Decide(h, e)
  PROVE  Applied'
<1> DEFINE there == IF handler[h].readable THEN handler[h].there[e] ELSE "none"
<1>1. /\ At(h, "decide") /\ e \in handler[h].todo
      /\ UNCHANGED <<binding, event, world>>
  BY DEF Decide
<1>2. /\ In(h, Deciding) /\ In(h, Seeing) /\ In(h, Reading) /\ ~In(h, Attempting)
      /\ FoundWhatIsThere(h) /\ Careful(h) /\ accepted' = accepted
  BY <1>1 DEF At, In, Deciding, Attempting, Reading, Seeing, Sound, Knows, Applied, world
<1>3. e \in DOMAIN handler[h].events
  BY <1>1, <1>2 DEF FoundWhatIsThere
<1>4. ASSUME NEW reg \in Draft(h, e), Persisted(h, e, reg), NextEvent(h, e),
             Known(h, e) /\ handler[h].seen[e].unknown => Accepted(h, e) > 0
      PROVE  Applied'
  <2>1. RowsTyped /\ RowsAdvance
    BY <1>2, <1>3, <1>4, PersistedAdvances
  <2>2. \A k \in Handlers \ {h} : ClaimStays(k)
    BY <1>1, <1>2, <1>3, <1>4, PersistedLeavesClaims
  <2> QED BY <1>1, <1>2, <1>4, <2>1, <2>2, DoneIsCareful
<1>5. CASE /\ ~handler[h].readable
           /\ \E retry \in BOOLEAN :
                Persisted(h, e, [Fresh(h, e, 1) EXCEPT !.retryable = retry])
           /\ NextEvent(h, e)
  <2>1. PICK retry \in BOOLEAN : Persisted(h, e, [Fresh(h, e, 1) EXCEPT !.retryable = retry])
    BY <1>5
  <2> DEFINE reg == [Fresh(h, e, 1) EXCEPT !.retryable = retry]
  <2>2. reg \in Draft(h, e)
    BY FreshRow
  <2>3. ~Known(h, e)
    BY <1>1, <1>2, <1>5 DEF Careful, UnreadableAreUnknown
  <2> HIDE DEF reg
  <2> QED BY <1>4, <1>5, <2>1, <2>2, <2>3 DEF reg
<1>6. CASE /\ there # "none" /\ NextEvent(h, e)
           /\ Persisted(h, e, WithParticipation(Fresh(h, e, 1), there))
  <2>1. there \in Moderation /\ There(h, e) # "none"
    BY <1>1, <1>2, <1>6 DEF FoundWhatIsThere
  <2>2. WithParticipation(Fresh(h, e, 1), there) \in Draft(h, e)
    BY <2>1, FreshRow
  <2>3. Accepted(h, e) > 0
    BY <1>2, <1>3, <2>1, RowsOf DEF Applied, AcceptedIsThere, There, Accepted
  <2> QED BY <1>4, <1>6, <2>2, <2>3
<1>7. CASE Keep(h, e)
  <2>1. registration' = registration
    BY <1>7 DEF Keep
  <2>2. RowsTyped /\ RowsAdvance /\ \A k \in Handlers : ClaimStays(k)
    BY <1>2, <2>1, NothingIsWritten
  <2> QED BY <1>1, <1>2, <1>7, <2>2, DoneIsCareful DEF Keep
<1>8. CASE /\ ~Skips(h, e) /\ NextEvent(h, e)
           /\ Persisted(h, e, [Fresh(h, e, 1) EXCEPT !.status = "BLOCKED",
                                                     !.retryable = FALSE])
  <2> DEFINE reg == [Fresh(h, e, 1) EXCEPT !.status = "BLOCKED", !.retryable = FALSE]
  <2>1. reg \in Draft(h, e)
    BY FreshRow
  <2>2. ~(Known(h, e) /\ handler[h].seen[e].unknown)
    BY <1>8 DEF Skips
  <2> HIDE DEF reg
  <2> QED BY <1>4, <1>8, <2>1, <2>2 DEF reg
<1> QED BY <1>5, <1>6, <1>7, <1>8 DEF Decide

(* A claim comes after all that was read of its row, and nobody has asked. *)
LEMMA ClaimableIsFree ==
  ASSUME Sound, Applied, SnapshotsAreCurrent, NEW h \in Handlers, At(h, "decide"),
         NEW e \in handler[h].todo, handler[h].readable, handler[h].there[e] = "none",
         ~Skips(h, e), Claimable(h, e),
         NEW claim \in Registered, Current(h, e, claim),
         claim.attempts = handler[h].seen[e].attempts + 1
  PROVE  /\ Older(h, e, Row(h, e), claim)
         /\ Accepted(h, e) = 0
         /\ \A k \in Handlers \ {h} : At(k, "claimed") =>
              ~(handler[k].user = handler[h].user /\ handler[k].event = e)
<1> DEFINE seen == handler[h].seen[e]
<1>1. /\ In(h, Deciding) /\ In(h, Seeing) /\ In(h, Reading)
      /\ FoundWhatIsThere(h) /\ Careful(h)
  BY DEF At, In, Deciding, Reading, Seeing, Sound, Knows, Applied
<1>2. e \in DOMAIN handler[h].events
  BY <1>1 DEF FoundWhatIsThere
<1>3. Row(h, e) \in Rows /\ seen \in Rows /\ Accepted(h, e) \in Nat
  BY <1>1, <1>2, RowsOf DEF Accepted
<1>4. Older(h, e, seen, Row(h, e))
  BY <1>1, <1>2 DEF Careful, SawOlderRows
<1>5. Older(h, e, Row(h, e), claim)
  <2>1. Row(h, e).attempts < claim.attempts
    BY <1>3, <1>4 DEF Claimable, Older, Rows, Registered, NoRow
  <2> QED BY <2>1 DEF Older
<1>6. Accepted(h, e) = 0
  <2>1. ~Barred(h, e)
    <3>1. ~(Known(h, e) /\ seen.unknown)
      BY DEF Skips
    <3>2. ~(Current(h, e, Row(h, e)) /\ seen.attempts < Row(h, e).attempts)
      BY <1>3 DEF Claimable, Current, Rows, Registered, NoRow
    <3> QED BY <3>1, <3>2 DEF Barred
  <2>2. ~(Accepted(h, e) > 0)
    BY <1>1, <2>1 DEF Careful, AppliedAreBarred, Open
  <2> QED BY <1>3, <2>2
<1>7. ASSUME NEW k \in Handlers \ {h}, At(k, "claimed"),
             handler[k].user = handler[h].user, handler[k].event = e
      PROVE  FALSE
  <2>1. In(k, Reading) /\ ClaimsItsEvent(k) /\ ClaimStands(k)
    BY <1>7 DEF At, In, Reading, Seeing, Deciding, Attempting, Sound, Knows, Applied, Careful
  <2>2. Row(h, e) = handler[k].claim /\ Row(h, e) \in Registered /\ Row(h, e).unknown
    BY <1>7, <2>1 DEF ClaimStands, ClaimsItsEvent, Row
  <2>3. Row(h, e) # NoRow
    BY <2>2 DEF Registered, NoRow
  <2>4. e \in DOMAIN handler[k].events /\ Current(k, e, Row(h, e))
    BY <1>7, <2>1, <2>2, <2>3 DEF ClaimsItsEvent, Current, External
  <2>5. Current(h, e, Row(h, e))
    BY <1>1, <1>2, <1>7, <2>1, <2>4, SameSnapshot
  <2> QED BY <2>2, <2>3, <2>5 DEF Claimable
<1> QED BY <1>5, <1>6, <1>7

LEMMA ClaimingIsCareful ==
  ASSUME Sound, Applied, SnapshotsAreCurrent, NEW h \in Handlers, NEW e \in Events, Claim(h, e)
  PROVE  Applied'
<1> DEFINE seen == handler[h].seen[e]
           claim == [Fresh(h, e, seen.attempts + 1) EXCEPT !.unknown = TRUE, !.claim = h]
           r == [stage |-> "claimed", user |-> handler[h].user,
                 binding |-> handler[h].binding, events |-> handler[h].events,
                 seen |-> handler[h].seen, todo |-> handler[h].todo,
                 there |-> handler[h].there, readable |-> handler[h].readable,
                 event |-> e, claim |-> claim]
<1>1. /\ At(h, "decide") /\ e \in handler[h].todo /\ seen.attempts < MaxAttempts
      /\ handler[h].readable /\ handler[h].there[e] = "none" /\ ~Skips(h, e)
      /\ UNCHANGED <<binding, event, world>>
  BY DEF Claim
<1>2. /\ In(h, Deciding) /\ In(h, Seeing) /\ In(h, Reading) /\ ~In(h, Attempting)
      /\ FoundWhatIsThere(h) /\ Careful(h) /\ ReadsItsBinding(h) /\ SawRows(h)
      /\ accepted' = accepted
  BY <1>1 DEF At, In, Deciding, Attempting, Reading, Seeing, Sound, Knows, Applied, world
<1>3. e \in DOMAIN handler[h].events /\ seen \in Rows
  BY <1>1, <1>2 DEF FoundWhatIsThere, SawRows
<1>4. CASE registration' = registration /\ NextEvent(h, e)
  BY <1>1, <1>2, <1>4, NothingIsWritten, DoneIsCareful
<1>5. CASE Claimable(h, e) /\ Written(h, e, claim) /\ Goto(h, r)
  <2>1. /\ claim \in Registered /\ claim.claim = h /\ claim.unknown
        /\ claim.profile = handler[h].binding.profile /\ claim.external = External(h, e)
        /\ claim.attempts = seen.attempts + 1
    <3>1. seen.attempts + 1 \in 1 .. MaxAttempts
      BY <1>1, <1>3, LeaderIdAssumption DEF Rows, Registered, NoRow
    <3> QED BY <1>2, <1>3, <3>1
            DEF Fresh, External, Registered, Status, ReadsItsBinding, Bound
  <2> HIDE DEF claim
  <2>2. Current(h, e, claim) /\ claim \in Rows
    BY <2>1 DEF Current, External, Rows, Registered, NoRow
  <2>3. /\ Older(h, e, Row(h, e), claim) /\ Accepted(h, e) = 0
        /\ \A k \in Handlers \ {h} : At(k, "claimed") =>
             ~(handler[k].user = handler[h].user /\ handler[k].event = e)
    BY <1>1, <1>5, <2>1, <2>2, ClaimableIsFree
  <2>4. RowsTyped /\ RowsAdvance
    BY <1>2, <1>3, <1>5, <2>2, <2>3, WriteAdvances
  <2>5. handler'[h] = r /\ \A k \in Handlers \ {h} : handler'[k] = handler[k]
    BY <1>5, HandlerMoves
  <2>6. ASSUME NEW k \in Handlers \ {h}
        PROVE  ClaimStays(k) /\ ApplicationsAreRecorded(k)
    <3>1. ApplicationsAreRecorded(k)
      BY <1>2 DEF ApplicationsAreRecorded
    <3>2. ASSUME At(k, "claimed")
          PROVE  registration'[handler[k].user][handler[k].event] = Row(k, handler[k].event)
      <4>1. ClaimsItsEvent(k) /\ In(k, Reading)
        BY <3>2 DEF At, In, Reading, Seeing, Deciding, Attempting, Sound, Knows
      <4>2. /\ handler[k].user \in Users /\ handler[k].event \in Events
            /\ handler[h].user \in Users
        BY <1>2, <1>3, <4>1, RowsOf DEF ClaimsItsEvent
      <4> QED BY <1>5, <2>3, <3>2, <4>2 DEF Written, Row, Sound, TypeOK
    <3> QED BY <1>2, <3>1, <3>2 DEF ClaimStays
  <2>7. Careful(h)'
    <3>1. handler[h].user \in Users
      BY <1>2, <1>3, RowsOf
    <3>2. ClaimStands(h)'
      <4>1. Row(h, e)' = claim
        BY <1>5, <2>5, <3>1 DEF Written, Row, Sound, TypeOK
      <4>2. Accepted(h, e)' = 0
        BY <1>2, <2>3, <2>5 DEF Accepted, External
      <4> QED BY <2>5, <4>1, <4>2 DEF ClaimStands
    <3>3. In(h, Deciding)' /\ Open(h)' \subseteq Open(h) /\ Open(h)' \subseteq DOMAIN handler[h].events
      BY <1>1, <1>2, <2>5 DEF In, Deciding, Attempting, Open, At, FoundWhatIsThere
    <3>4. \A f \in Open(h)' : accepted'[handler[h].binding.profile][External(h, f)] > 0 =>
                                Accepted(h, f) > 0
      BY <1>2 DEF Accepted
    <3> QED BY <1>2, <2>4, <2>5, <3>2, <3>3, <3>4, DeciderIsCareful
  <2>8. OneUserPerProfile' /\ OneEventPerExternal' /\ AcceptedIsThere' /\ OneApplication'
    BY <1>1, WorldStays DEF IsBound
  <2> QED BY <2>4, <2>5, <2>6, <2>7, <2>8, CarefulStep
<1> QED BY <1>4, <1>5 DEF Claim, Goto, Sound

LEMMA DoubtingIsCareful ==
  ASSUME Sound, Applied, NEW h \in Handlers, At(h, "claimed"), NEW definite \in BOOLEAN,
         Doubt(h, definite), registration' = registration,
         \A f \in Open(h) :
           accepted'[handler[h].binding.profile][External(h, f)] = Accepted(h, f)
  PROVE  Careful(h)' /\ \A k \in Handlers \ {h} : handler'[k] = handler[k]
<1> DEFINE r == [stage |-> "unsure", user |-> handler[h].user,
                 binding |-> handler[h].binding, events |-> handler[h].events,
                 seen |-> handler[h].seen, todo |-> handler[h].todo,
                 there |-> handler[h].there, readable |-> handler[h].readable,
                 event |-> handler[h].event, claim |-> handler[h].claim,
                 definite |-> definite]
<1>1. Goto(h, r)
  BY DEF Doubt, Goto, Sound
<1>2. handler'[h] = r /\ \A k \in Handlers \ {h} : handler'[k] = handler[k]
  BY <1>1, HandlerMoves
<1>3. RowsTyped /\ RowsAdvance
  BY DEF RowsTyped, RowsAdvance, Older, Row, Sound, TypeOK, Rows
<1>4. Open(h)' = Open(h) /\ In(h, Deciding)' /\ ~At(h, "claimed")' /\ In(h, Deciding)
  BY <1>2 DEF Open, At, In, Deciding, Attempting
<1>5. Careful(h)'
  BY <1>2, <1>3, <1>4, DeciderIsCareful
<1> QED BY <1>2, <1>5

(* The participation that is made is of the claim, and of no other.        *)
LEMMA ApplicationIsRecorded ==
  ASSUME Sound, Applied, SnapshotsAreCurrent, NEW h \in Handlers, At(h, "claimed"),
         accepted' = [accepted EXCEPT ![handler[h].binding.profile][Claimed(h).external] = @ + 1],
         NEW k \in Handlers, In(k, Deciding), NEW f \in DOMAIN handler[k].events,
         accepted'[handler[k].binding.profile][External(k, f)] # Accepted(k, f)
  PROVE  /\ handler[k].user = handler[h].user /\ f = handler[h].event
         /\ Current(k, f, Row(k, f)) /\ Row(k, f).unknown
<1> DEFINE p == handler[h].binding.profile
           e == handler[h].event
<1>1. In(h, Reading) /\ ClaimsItsEvent(h) /\ ClaimStands(h) /\ In(k, Reading)
  BY DEF At, In, Reading, Seeing, Deciding, Attempting, Sound, Knows, Applied, Careful
<1>2. e \in DOMAIN handler[h].events /\ Claimed(h).external = External(h, e)
  BY <1>1 DEF ClaimsItsEvent, Claimed
<1>3. /\ p \in Profiles /\ External(h, e) \in Externals
      /\ handler[k].binding.profile \in Profiles /\ External(k, f) \in Externals
  BY <1>1, <1>2, RowsOf
<1>4. handler[k].binding.profile = p /\ External(k, f) = External(h, e)
  BY <1>2, <1>3 DEF Accepted, Sound, TypeOK
<1>5. handler[k].user = handler[h].user /\ f = e
  BY <1>1, <1>2, <1>4, OneParticipation DEF Applied
<1>6. /\ Row(k, f) = handler[h].claim /\ Row(k, f).unknown
      /\ Row(k, f).profile = p /\ Row(k, f).external = External(h, e) /\ Row(k, f) # NoRow
  <2>1. Row(k, f) = handler[h].claim
    BY <1>1, <1>5 DEF ClaimStands, Row
  <2>2. handler[h].claim # NoRow
    BY <1>1 DEF ClaimsItsEvent, Registered, NoRow
  <2> QED BY <1>1, <2>1, <2>2 DEF ClaimsItsEvent
<1>7. Current(k, f, Row(k, f))
  BY <1>4, <1>6 DEF Current, External
<1> QED BY <1>5, <1>6, <1>7

LEMMA ApplyingIsCareful ==
  ASSUME Sound, Applied, SnapshotsAreCurrent, NEW h \in Handlers, At(h, "claimed"),
         NEW moderation \in {"wait", "approved"},
         remote' = [remote EXCEPT ![handler[h].binding.profile][Claimed(h).external] = moderation],
         accepted' = [accepted EXCEPT ![handler[h].binding.profile][Claimed(h).external] = @ + 1],
         UNCHANGED <<binding, event>>,
         \/ Finished(h, WithParticipation(Unclaimed(h), moderation))
         \/ Doubt(h, FALSE) /\ UNCHANGED <<registration, lease>>
  PROVE  Applied'
<1> DEFINE p == handler[h].binding.profile
           e == handler[h].event
           x == Claimed(h).external
<1>1. /\ In(h, Attempting) /\ In(h, Deciding) /\ In(h, Seeing) /\ In(h, Reading)
      /\ FoundWhatIsThere(h) /\ ClaimsItsEvent(h) /\ ClaimStands(h) /\ Careful(h)
  BY DEF At, In, Reading, Seeing, Deciding, Attempting, Sound, Knows, Applied, Careful
<1>2. e \in DOMAIN handler[h].events /\ x = External(h, e)
  BY <1>1 DEF ClaimsItsEvent, Claimed
<1>3. p \in Profiles /\ x \in Externals /\ accepted[p][x] = 0
  BY <1>1, <1>2, RowsOf DEF ClaimStands, Accepted
<1>4. AcceptedIsThere' /\ OneApplication' /\ OneUserPerProfile' /\ OneEventPerExternal'
  <2> HIDE DEF p, x
  <2>1. \A q \in Profiles, y \in Externals :
          /\ accepted'[q][y] = IF q = p /\ y = x THEN 1 ELSE accepted[q][y]
          /\ remote'[q][y] = IF q = p /\ y = x THEN moderation ELSE remote[q][y]
    BY <1>3 DEF Sound, TypeOK, p, x
  <2>2. AcceptedIsThere'
    BY <2>1 DEF Applied, AcceptedIsThere
  <2>3. OneApplication'
    BY <2>1 DEF Applied, OneApplication
  <2>4. OneUserPerProfile' /\ OneEventPerExternal'
    BY DEF Applied, OneUserPerProfile, OneEventPerExternal, IsBound
  <2> QED BY <2>2, <2>3, <2>4
<1>5. ASSUME RowsTyped, RowsAdvance,
             \A k \in Handlers \ {h} : At(k, "claimed") =>
               registration'[handler[k].user][handler[k].event] = Row(k, handler[k].event),
             Careful(h)', \A k \in Handlers \ {h} : handler'[k] = handler[k]
      PROVE  Applied'
  <2>1. ASSUME NEW k \in Handlers \ {h} PROVE ApplicationsAreRecorded(k)
    BY ApplicationIsRecorded DEF ApplicationsAreRecorded, Accepted
  <2>2. ASSUME NEW k \in Handlers \ {h}, At(k, "claimed"),
               accepted'[handler[k].binding.profile][External(k, handler[k].event)]
                 # Accepted(k, handler[k].event)
        PROVE  FALSE
    <3>1. In(k, Deciding) /\ ClaimsItsEvent(k) /\ ClaimStands(k)
      BY <2>2 DEF At, In, Deciding, Attempting, Reading, Seeing, Sound, Knows, Applied, Careful
    <3>2. handler[k].user = handler[h].user /\ handler[k].event = e
      BY <2>2, <3>1, ApplicationIsRecorded DEF ClaimsItsEvent
    <3> QED BY <1>1, <3>1, <3>2 DEF ClaimsItsEvent, ClaimStands, Row
  <2>3. \A k \in Handlers \ {h} : ClaimStays(k)
    BY <1>5, <2>2 DEF ClaimStays, Accepted
  <2> QED BY <1>4, <1>5, <2>1, <2>3, CarefulStep
<1>6. \A f \in DOMAIN handler[h].events : f # e =>
        accepted'[handler[h].binding.profile][External(h, f)] = Accepted(h, f)
  BY <1>1, ApplicationIsRecorded
<1>7. CASE Finished(h, WithParticipation(Unclaimed(h), moderation))
  <2>1. WithParticipation(Unclaimed(h), moderation) \in Draft(h, e)
    BY FreshRow DEF Unclaimed, Moderation
  <2>2. /\ RowsTyped /\ RowsAdvance
        /\ \A k \in Handlers \ {h} : At(k, "claimed") =>
             registration'[handler[k].user][handler[k].event] = Row(k, handler[k].event)
    BY <1>1, <1>7, <2>1, FinishAdvances
  <2>3. NextEvent(h, e)
    BY <1>7 DEF Finished
  <2> QED BY <1>1, <1>5, <1>6, <2>2, <2>3, GoingOnIsCareful
<1>8. CASE Doubt(h, FALSE) /\ registration' = registration
  <2>1. RowsTyped /\ RowsAdvance
    BY <1>8 DEF RowsTyped, RowsAdvance, Older, Row, Sound, TypeOK, Rows
  <2>2. \A f \in Open(h) : f \in DOMAIN handler[h].events /\ f # e
    BY <1>1 DEF Open, At, FoundWhatIsThere
  <2>3. Careful(h)' /\ \A k \in Handlers \ {h} : handler'[k] = handler[k]
    BY <1>6, <1>8, <2>2, DoubtingIsCareful
  <2> QED BY <1>5, <1>8, <2>1, <2>3 DEF Row
<1> QED BY <1>7, <1>8

LEMMA AttemptingIsCareful ==
  ASSUME Sound, Applied, SnapshotsAreCurrent, NEW h \in Handlers
  PROVE  /\ Post(h) => Applied'
         /\ Unauthorised(h) => Applied'
         /\ LookUp(h) => Applied'
         /\ Award(h) => Applied'
<1>1. ASSUME In(h, Attempting), NEW reg \in Draft(h, handler[h].event), Finished(h, reg),
             UNCHANGED <<binding, event, world>>
      PROVE  Applied'
  <2>1. /\ RowsTyped /\ RowsAdvance
        /\ \A k \in Handlers \ {h} : At(k, "claimed") =>
             registration'[handler[k].user][handler[k].event] = Row(k, handler[k].event)
    BY <1>1, FinishAdvances
  <2>2. \A k \in Handlers \ {h} : ClaimStays(k)
    BY <1>1, <2>1 DEF ClaimStays, world
  <2>3. NextEvent(h, handler[h].event) /\ In(h, Deciding)
    BY <1>1 DEF Finished, In, Deciding
  <2> QED BY <1>1, <2>1, <2>2, <2>3, DoneIsCareful
<1>2. ASSUME Post(h) PROVE Applied'
  <2>1. At(h, "claimed") /\ UNCHANGED <<binding, event>>
    BY <1>2 DEF Post
  <2>2. ASSUME NEW definite \in BOOLEAN, Doubt(h, definite), UNCHANGED <<world, registration>>
        PROVE  Applied'
    <3>1. accepted' = accepted
      BY <2>2 DEF world
    <3>2. Careful(h)' /\ \A k \in Handlers \ {h} : handler'[k] = handler[k]
      BY <2>1, <2>2, <3>1, DoubtingIsCareful DEF Accepted
    <3>3. OneUserPerProfile' /\ OneEventPerExternal' /\ AcceptedIsThere' /\ OneApplication'
      BY <2>1, <2>2, WorldStays DEF IsBound
    <3> QED BY <2>2, <3>1, <3>2, <3>3, NothingIsWritten, CarefulStep
  <2> QED BY <1>2, <2>1, <2>2, ApplyingIsCareful DEF Post
<1>3. ASSUME Unauthorised(h) PROVE Applied'
  <2>1. /\ In(h, Reading) /\ In(h, Attempting) /\ UNCHANGED <<event, world>>
    BY <1>3 DEF Unauthorised, At, In, Reading, Seeing, Deciding, Attempting
  <2>2. Unclaimed(h) \in Draft(h, handler[h].event)
    BY FreshRow DEF Unclaimed
  <2> QED BY <1>1, <1>3, <2>1, <2>2, FreshTokensAreCareful DEF Unauthorised
<1>4. ASSUME LookUp(h) PROVE Applied'
  <2> DEFINE there == remote[handler[h].binding.profile][Claimed(h).external]
  <2>1. /\ In(h, Attempting) /\ handler[h].definite \in BOOLEAN
        /\ UNCHANGED <<binding, event, world>>
        /\ ReadsItsBinding(h) /\ ClaimsItsEvent(h)
    BY <1>4 DEF LookUp, At, In, Attempting, Deciding, Seeing, Reading, Sound, Knows
  <2>2. CASE there # "none" /\ Finished(h, WithParticipation(Unclaimed(h), there))
    <3>1. there \in Moderation
      BY <2>1, <2>2 DEF ReadsItsBinding, ClaimsItsEvent, Claimed, Bound, Sound, TypeOK
    <3>2. WithParticipation(Unclaimed(h), there) \in Draft(h, handler[h].event)
      BY <3>1, FreshRow DEF Unclaimed
    <3> QED BY <1>1, <2>1, <2>2, <3>2
  <2>3. ASSUME NEW s \in {"FAILED", "BLOCKED"}, NEW retry \in BOOLEAN,
               Finished(h, Failed(h, s, retry))
        PROVE  Applied'
    <3>1. Failed(h, s, retry) \in Draft(h, handler[h].event)
      BY <2>1 DEF Failed, Unclaimed, Fresh, External, Draft, Status, Qualifying, Confirmed
    <3> QED BY <1>1, <2>1, <2>3, <3>1
  <2>4. CASE Leave(h) /\ UNCHANGED registration
    BY <2>1, <2>4, LeavingIsCareful
  <2>5. \/ there # "none" /\ Finished(h, WithParticipation(Unclaimed(h), there))
        \/ \E s \in {"FAILED", "BLOCKED"}, retry \in BOOLEAN : Finished(h, Failed(h, s, retry))
        \/ Leave(h) /\ UNCHANGED registration
    BY <1>4 DEF LookUp
  <2> QED BY <2>2, <2>3, <2>4, <2>5
<1>5. ASSUME Award(h) PROVE Applied'
  BY <1>5, LeavingIsCareful DEF Award
<1> QED BY <1>2, <1>3, <1>4, <1>5

LEMMA InitIsApplied ==
  ASSUME Init
  PROVE  Applied
<1>1. OneUserPerProfile /\ AcceptedIsThere /\ OneApplication
  BY DEF Init, OneUserPerProfile, IsBound, AcceptedIsThere, OneApplication
<1>2. OneEventPerExternal
  BY LeaderIdAssumption DEF Init, OneEventPerExternal
<1>3. \A h \in Handlers : Careful(h)
  BY DEF Init, Careful, In, At, Idle, Seeing, Deciding, Attempting
<1> QED BY <1>1, <1>2, <1>3 DEF Applied

LEMMA AppliedSteps ==
  ASSUME Sound, Applied, SnapshotsAreCurrent, [Next]_vars
  PROVE  Applied'
<1>1. CASE UNCHANGED vars
  <2>1. UNCHANGED <<binding, event, registration, handler, world>>
    BY <1>1 DEF vars, local
  <2> QED BY <2>1, WorldStays, QuietStep DEF IsBound, world
<1>2. CASE Next
  <2>1. ASSUME NEW h \in Handlers, Subscribe(h)
        PROVE  Applied'
    BY <2>1, ReadingIsCareful, DecidingIsCareful, ClaimingIsCareful, AttemptingIsCareful
       DEF Subscribe
  <2>2. ASSUME NEW h \in Handlers, NEW u \in Users, BeginSubscribe(h, u)
        PROVE  Applied'
    BY <2>2, ReadingIsCareful
  <2> QED BY <1>2, <2>1, <2>2, LinkingIsCareful, OutsideIsCareful DEF Next
<1> QED BY <1>1, <1>2

(* While nobody goes on with a binding or a mapping that was replaced,     *)
(* Leader-ID is never asked twice for a participation it made when asked   *)
(* first (createOnceAndReconcile, claimAttempt).                           *)
THEOREM AppliesOnceIfCurrent ==
  Spec /\ []SnapshotsAreCurrent => []OneApplication
<1>1. Applied => OneApplication
  BY DEF Applied
<1> QED BY <1>1, AlwaysSound, InitIsApplied, AppliedSteps, PTL DEF Spec
-----------------------------------------------------------------------------

Announcements == Posts \cup Campaigns

AnnouncementJob ==
  [status : Bot!JobStatus, tries : Nat, stalled : BOOLEAN, worker : BotWorkers \cup {Nothing}]

RunsTyped ==
  /\ postJob \in [Announcements -> AnnouncementJob]
  /\ run \in [BotWorkers -> Bot!Run]
  /\ delivered \in [Announcements -> SUBSET People]
  /\ audience \in [Announcements -> SUBSET People]
  /\ refused \in [Announcements -> SUBSET People]
  /\ told \in [Announcements -> [People -> Nat]]
  /\ reachable \subseteq People /\ breaks \in Nat

(* Whose lock a job is under is running it.                                *)
OwnersRun ==
  \A r \in Announcements : postJob[r].worker # Nothing =>
    postJob[r].status = "active" /\ run[postJob[r].worker].row = r

RunsAreOfAJob ==
  \A w \in BotWorkers :
    /\ run[w].row = Nothing => run[w].todo = {}
    /\ run[w].sent # Nothing => run[w].sent \in run[w].todo

(* Whom the owner of a job has not come to, or failed with, or told.       *)
OwnersMissNobody ==
  \A r \in Announcements :
    LET w == postJob[r].worker
    IN  w # Nothing /\ ~run[w].failed =>
          audience[r] \subseteq delivered[r] \cup refused[r] \cup run[w].todo

(* Who may still send r to p without looking whether somebody did.         *)
Trying(r, p) == {w \in BotWorkers : run[w].row = r /\ p \in run[w].todo /\ run[w].sent # p}

OwnTurn(r, p) ==
  IF postJob[r].worker # Nothing /\ p \in run[postJob[r].worker].todo THEN 1 ELSE 0

(* Every message that arrived and was not recorded, and every run but the  *)
(* owner's that may still send one, has cost a failure or an interruption. *)
SendsAreCounted ==
  \A r \in Announcements, p \in People :
    /\ told[r][p] <= 1 + breaks
    /\ p \notin delivered[r] => told[r][p] + Cardinality(Trying(r, p)) <= breaks + OwnTurn(r, p)

BotInv ==
  /\ RunsTyped /\ OwnersRun /\ RunsAreOfAJob /\ OwnersMissNobody
  /\ Bot!CompletedMeansTold /\ SendsAreCounted
-----------------------------------------------------------------------------

BotAssumptions == Bot!OutboxAssumption /\ Bot!BroadcastsAssumption

LEMMA BotConstants ==
  ASSUME BotAssumptions
  PROVE  /\ IsFiniteSet(BotWorkers) /\ Nothing \notin BotWorkers
         /\ Nothing \notin Announcements /\ Nothing \notin People /\ Legacy \subseteq People
<1>1. \A S : Bot!IsFiniteSet(S) = IsFiniteSet(S)
  BY DEF Bot!IsFiniteSet, IsFiniteSet
<1> QED BY <1>1 DEF BotAssumptions, Bot!OutboxAssumption, Bot!BroadcastsAssumption, Announcements

LEMMA TryingCount ==
  ASSUME BotAssumptions, NEW r, NEW p
  PROVE  IsFiniteSet(Trying(r, p)) /\ Cardinality(Trying(r, p)) \in Nat
<1>1. Trying(r, p) \subseteq BotWorkers
  BY DEF Trying
<1> QED BY <1>1, BotConstants, FS_Subset, FS_CardinalityType

LEMMA FewerElements ==
  ASSUME NEW S, NEW T, IsFiniteSet(T), S \subseteq T
  PROVE  Cardinality(S) \in Nat /\ Cardinality(T) \in Nat /\ Cardinality(S) <= Cardinality(T)
BY FS_Subset, FS_CardinalityType

LEMMA OneMoreElement ==
  ASSUME NEW T, IsFiniteSet(T), NEW x
  PROVE  IsFiniteSet(T \cup {x}) /\ Cardinality(T \cup {x}) <= Cardinality(T) + 1
<1>1. Cardinality(T) \in Nat
  BY FS_CardinalityType
<1>2. CASE x \in T
  <2>1. T \cup {x} = T
    BY <1>2
  <2> QED BY <1>1, <2>1
<1>3. CASE x \notin T
  BY <1>1, <1>3, FS_AddElement
<1> QED BY <1>2, <1>3

(* A job put back or given up is a job, and under nobody's lock.           *)
LEMMA ThrownJob ==
  ASSUME RunsTyped, NEW r \in Announcements, NEW tries \in Nat, NEW status \in Bot!JobStatus,
         postJob' = [postJob EXCEPT ![r].tries = tries, ![r].worker = Nothing, ![r].status = status]
  PROVE  /\ postJob' \in [Announcements -> AnnouncementJob]
         /\ \A q \in Announcements \ {r} : postJob'[q] = postJob[q]
         /\ postJob'[r].worker = Nothing /\ postJob'[r].status = status
<1>1. postJob \in [Announcements -> AnnouncementJob]
  BY DEF RunsTyped
<1>2. postJob'[r].worker = Nothing /\ postJob'[r].status = status
  BY <1>1 DEF AnnouncementJob
<1>3. postJob'[r] \in AnnouncementJob
  BY <1>1 DEF AnnouncementJob
<1> QED BY <1>1, <1>2, <1>3

LEMMA BotInit == BotAssumptions /\ Bot!Init => BotInv
<1> SUFFICES ASSUME BotAssumptions, Bot!Init PROVE BotInv
  OBVIOUS
<1>0. Nothing \notin Announcements
  BY BotConstants
<1>1. RunsTyped
  <2>1. Bot!NoJob \in AnnouncementJob /\ Bot!Resting0 \in Bot!Run
    BY DEF Bot!NoJob, AnnouncementJob, Bot!JobStatus, Bot!Resting0, Bot!Run
  <2> QED BY <2>1 DEF Bot!Init, Bot!OutboxInit, RunsTyped, Announcements
<1>2. \A r \in Announcements : postJob[r].worker = Nothing /\ postJob[r].status = "none"
  BY DEF Bot!Init, Bot!OutboxInit, Bot!NoJob, Announcements
<1>3. \A w \in BotWorkers : run[w].row = Nothing /\ run[w].todo = {} /\ run[w].sent = Nothing
  BY DEF Bot!Init, Bot!Resting0
<1>4. SendsAreCounted
  <2>1. ASSUME NEW r \in Announcements, NEW p \in People
        PROVE  told[r][p] = 0 /\ breaks = 0 /\ Cardinality(Trying(r, p)) = 0 /\ OwnTurn(r, p) = 0
    <3>1. Trying(r, p) = {}
      BY <1>3 DEF Trying
    <3>2. told[r][p] = 0 /\ breaks = 0 /\ OwnTurn(r, p) = 0
      BY <1>2 DEF Bot!Init, OwnTurn, Announcements
    <3> QED BY <3>1, <3>2, FS_EmptySet
  <2> QED BY <2>1 DEF SendsAreCounted
<1> QED BY <1>1, <1>2, <1>3, <1>4
        DEF BotInv, OwnersRun, RunsAreOfAJob, OwnersMissNobody, Bot!CompletedMeansTold, Announcements

(* Rows, relays, content and the clock: nothing the runs look at.          *)
LEMMA RunsStay ==
  ASSUME BotAssumptions, BotInv, postJob' \in [Announcements -> AnnouncementJob],
         UNCHANGED <<run, delivered, audience, refused, told, breaks>>, reachable' \subseteq People,
         \A r \in Announcements :
           /\ postJob'[r].worker = postJob[r].worker
           /\ postJob[r].worker # Nothing => postJob'[r].status = postJob[r].status
           /\ postJob'[r].status = "completed" => postJob[r].status = "completed"
  PROVE  BotInv'
<1>1. RunsTyped' /\ RunsAreOfAJob'
  BY DEF BotInv, RunsTyped, RunsAreOfAJob
<1>2. OwnersRun'
  BY DEF BotInv, OwnersRun
<1>3. OwnersMissNobody'
  BY DEF BotInv, OwnersMissNobody
<1>4. Bot!CompletedMeansTold'
  BY DEF BotInv, Bot!CompletedMeansTold, Announcements
<1>5. \A r \in Announcements, p \in People :
        Trying(r, p)' = Trying(r, p) /\ OwnTurn(r, p)' = OwnTurn(r, p)
  BY DEF Trying, OwnTurn
<1>6. SendsAreCounted'
  BY <1>5 DEF BotInv, SendsAreCounted
<1> QED BY <1>1, <1>2, <1>3, <1>4, <1>6 DEF BotInv

LEMMA WorldStep ==
  ASSUME BotAssumptions, BotInv,
         \/ Bot!Tick \/ Bot!Schedule \/ Bot!RelayStep
         \/ \E c \in Posts : \/ \E public \in BOOLEAN, from \in 0 .. MaxTime : Bot!EditPost(c, public, from)
                             \/ \E k \in Campaigns : Bot!Announce(k, c)
         \/ \E r \in Announcements : Bot!BecomesDue(r) \/ (Bot!Forget(r) /\ UNCHANGED Bot!own)
         \/ \E p \in People : Bot!Returns(p)
  PROVE  BotInv'
<1>0. postJob \in [Announcements -> AnnouncementJob] /\ reachable \subseteq People
  BY DEF BotInv, RunsTyped
<1>1. /\ UNCHANGED <<run, delivered, audience, refused, told, breaks>>
      /\ reachable' \subseteq People
  BY <1>0 DEF Bot!Tick, Bot!Schedule, Bot!RelayStep, Bot!EditPost, Bot!Announce, Bot!BecomesDue,
              Bot!Returns, Bot!own
<1>2. \/ postJob' = postJob
      \/ \E r \in Announcements : /\ postJob[r].status = "none"
                                  /\ postJob' = [postJob EXCEPT ![r].status = "waiting"]
      \/ \E r \in Announcements : /\ postJob[r].status \in {"completed", "failed"}
                                  /\ postJob' = [postJob EXCEPT ![r] = Bot!NoJob]
  <2>1. CASE Bot!RelayStep
    <3>1. \A p, r : Bot!AddJob(p, r) => postJob' = Bot!Added(r)
      BY DEF Bot!AddJob
    <3>2. \A p, r : Bot!RelayFails(p, r) \/ Bot!ReadRows(p) \/ Bot!MarkRow(p) => postJob' = postJob
      BY DEF Bot!RelayFails, Bot!ReadRows, Bot!MarkRow
    <3> QED BY <2>1, <3>1, <3>2 DEF Bot!RelayStep, Bot!Added, Announcements
  <2>2. CASE \E r \in Announcements : Bot!Forget(r)
    BY <2>2 DEF Bot!Forget
  <2>3. CASE ~Bot!RelayStep /\ ~(\E r \in Announcements : Bot!Forget(r))
    BY <2>3 DEF Bot!Tick, Bot!Schedule, Bot!EditPost, Bot!Announce, Bot!BecomesDue, Bot!Ripen,
                Bot!Returns, Bot!outboxVars
  <2> QED BY <2>1, <2>2, <2>3
<1>3. Bot!NoJob \in AnnouncementJob /\ Bot!NoJob.worker = Nothing /\ Bot!NoJob.status = "none"
  BY DEF Bot!NoJob, AnnouncementJob, Bot!JobStatus
<1>4. \A r \in Announcements : postJob[r].worker # Nothing => postJob[r].status = "active"
  BY DEF BotInv, OwnersRun
<1>5. /\ postJob' \in [Announcements -> AnnouncementJob]
      /\ \A r \in Announcements :
           /\ postJob'[r].worker = postJob[r].worker
           /\ postJob[r].worker # Nothing => postJob'[r].status = postJob[r].status
           /\ postJob'[r].status = "completed" => postJob[r].status = "completed"
  <2>1. ASSUME NEW r \in Announcements, postJob[r].status = "none",
               postJob' = [postJob EXCEPT ![r].status = "waiting"]
        PROVE  <1>5!:
    <3>1. [postJob[r] EXCEPT !.status = "waiting"] \in AnnouncementJob
      BY <1>0 DEF AnnouncementJob, Bot!JobStatus
    <3>2. postJob' = [postJob EXCEPT ![r] = [postJob[r] EXCEPT !.status = "waiting"]]
      BY <2>1
    <3>3. postJob[r] \in AnnouncementJob
      BY <1>0
    <3>4. /\ postJob'[r].worker = postJob[r].worker /\ postJob'[r].status = "waiting"
          /\ \A q \in Announcements \ {r} : postJob'[q] = postJob[q]
      BY <1>0, <3>2, <3>3 DEF AnnouncementJob
    <3>5. postJob' \in [Announcements -> AnnouncementJob]
      BY <1>0, <3>1, <3>2
    <3> QED BY <2>1, <3>4, <3>5, <1>4
  <2>2. ASSUME NEW r \in Announcements, postJob[r].status \in {"completed", "failed"},
               postJob' = [postJob EXCEPT ![r] = Bot!NoJob]
        PROVE  <1>5!:
    BY <2>2, <1>0, <1>3, <1>4
  <2> QED BY <2>1, <2>2, <1>0, <1>2
<1> QED BY <1>1, <1>5, RunsStay

LEMMA TakeJobStep ==
  ASSUME BotAssumptions, BotInv, NEW w \in BotWorkers, NEW r \in Announcements, Bot!TakeJob(w, r)
  PROVE  BotInv'
<1> DEFINE readers == IF Bot!Live(Bot!Announced(r)) THEN Bot!Endpoints ELSE {}
<1>0. RunsTyped /\ OwnersRun /\ r # Nothing /\ readers \subseteq People
  BY BotConstants DEF BotInv, RunsTyped, Bot!Endpoints
<1> HIDE DEF readers
<1>1. /\ run[w].row = Nothing /\ run[w].todo = {} /\ postJob[r].status = "waiting"
      /\ postJob' = [postJob EXCEPT ![r].status = "active", ![r].worker = w]
      /\ run' = [run EXCEPT ![w] = [row |-> r, todo |-> readers, failed |-> FALSE, sent |-> Nothing]]
      /\ audience' = [audience EXCEPT ![r] = readers]
      /\ UNCHANGED <<delivered, refused, told, breaks, reachable>>
  BY DEF Bot!TakeJob, Bot!Resting0, Bot!SetRun, Bot!Started, readers
<1>2. postJob[r].worker = Nothing
  BY <1>0, <1>1 DEF OwnersRun
<1>3. /\ postJob' \in [Announcements -> AnnouncementJob] /\ postJob'[r].worker = w
      /\ postJob'[r].status = "active" /\ \A q \in Announcements \ {r} : postJob'[q] = postJob[q]
  <2>1. postJob \in [Announcements -> AnnouncementJob] /\ postJob[r] \in AnnouncementJob
    BY <1>0 DEF RunsTyped
  <2>2. postJob'[r].worker = w /\ postJob'[r].status = "active"
    BY <1>1, <2>1 DEF AnnouncementJob
  <2>3. postJob'[r] \in AnnouncementJob
    BY <1>1, <2>1 DEF AnnouncementJob, Bot!JobStatus
  <2>4. /\ DOMAIN postJob' = Announcements /\ \A q \in Announcements \ {r} : postJob'[q] = postJob[q]
        /\ postJob' = [q \in Announcements |-> postJob'[q]]
    BY <1>1, <2>1
  <2> QED BY <2>1, <2>2, <2>3, <2>4
<1>4. /\ run' \in [BotWorkers -> Bot!Run] /\ run'[w].row = r /\ run'[w].todo = readers
      /\ run'[w].sent = Nothing /\ run'[w].failed = FALSE
      /\ \A v \in BotWorkers \ {w} : run'[v] = run[v]
  BY <1>0, <1>1 DEF RunsTyped, Bot!Run, Announcements
<1>5. RunsTyped'
  BY <1>0, <1>1, <1>3, <1>4 DEF RunsTyped
<1>6. \A q \in Announcements \ {r} : postJob[q].worker # Nothing =>
        postJob[q].worker \in BotWorkers \ {w}
  BY <1>0, <1>1, BotConstants DEF RunsTyped, OwnersRun, AnnouncementJob
<1>7. OwnersRun'
  BY <1>0, <1>3, <1>4, <1>6 DEF OwnersRun
<1>8. RunsAreOfAJob'
  BY <1>0, <1>4 DEF BotInv, RunsAreOfAJob
<1>9. OwnersMissNobody'
  BY <1>0, <1>1, <1>3, <1>4, <1>6 DEF BotInv, RunsTyped, OwnersMissNobody
<1>10. Bot!CompletedMeansTold'
  BY <1>0, <1>1, <1>3 DEF BotInv, RunsTyped, Bot!CompletedMeansTold, Announcements
<1>11. SendsAreCounted'
  <2>1. ASSUME NEW q \in Announcements, NEW p \in People, q # r \/ p \notin readers
        PROVE  Trying(q, p)' = Trying(q, p) /\ OwnTurn(q, p)' = OwnTurn(q, p)
    <3>1. Trying(q, p)' = Trying(q, p)
      BY <2>1, <1>1, <1>4 DEF Trying
    <3>2. OwnTurn(q, p)' = OwnTurn(q, p)
      BY <2>1, <1>2, <1>3, <1>4, <1>6 DEF OwnTurn
    <3> QED BY <3>1, <3>2
  <2>2. ASSUME NEW p \in readers
        PROVE  /\ Cardinality(Trying(r, p))' <= Cardinality(Trying(r, p)) + 1
               /\ Cardinality(Trying(r, p))' \in Nat
               /\ OwnTurn(r, p)' = 1 /\ OwnTurn(r, p) = 0
    <3>1. OwnTurn(r, p)' = 1 /\ OwnTurn(r, p) = 0
      BY <1>2, <1>3, <1>4, BotConstants DEF OwnTurn
    <3>2. Trying(r, p)' \subseteq Trying(r, p) \cup {w}
      BY <1>4 DEF Trying
    <3>3. /\ IsFiniteSet(Trying(r, p) \cup {w})
          /\ Cardinality(Trying(r, p) \cup {w}) <= Cardinality(Trying(r, p)) + 1
      BY TryingCount, OneMoreElement
    <3> QED BY <3>1, <3>2, <3>3, TryingCount, FewerElements
  <2>3. \A q \in Announcements, p \in People : told[q][p] \in Nat /\ breaks \in Nat
    BY <1>0 DEF RunsTyped
  <2>4. ASSUME NEW q \in Announcements, NEW p \in People
        PROVE  /\ told[q][p]' <= 1 + breaks'
               /\ p \notin delivered[q]' =>
                    told[q][p]' + Cardinality(Trying(q, p))' <= breaks' + OwnTurn(q, p)'
    <3>1. CASE q # r \/ p \notin readers
      BY <3>1, <2>1, <1>1 DEF BotInv, SendsAreCounted
    <3>2. CASE q = r /\ p \in readers
      BY <3>2, <2>2, <2>3, <1>1, TryingCount DEF BotInv, SendsAreCounted
    <3> QED BY <3>1, <3>2
  <2> QED BY <2>4 DEF SendsAreCounted
<1> QED BY <1>5, <1>7, <1>8, <1>9, <1>10, <1>11 DEF BotInv

-----------------------------------------------------------------------------
(* A run that comes to one recipient                                       *)

(* What it does to its own record, and to what is known of the recipient.  *)
ComesTo(w, p, x) ==
  /\ run' = [run EXCEPT ![w] = x] /\ x \in Bot!Run
  /\ x.row = run[w].row /\ x.row # Nothing /\ p \in run[w].todo
  /\ x.todo \in {run[w].todo, run[w].todo \ {p}}
  /\ run[w].sent \in {Nothing, p} /\ x.sent \in {Nothing, p}
  /\ x.sent = p => p \in x.todo
  /\ UNCHANGED <<postJob, audience>>

Tells(w, p, x) ==
  LET r == run[w].row
  IN  /\ delivered' \in [Announcements -> SUBSET People]
      /\ refused' \in [Announcements -> SUBSET People]
      /\ told' \in [Announcements -> [People -> Nat]] /\ breaks' \in Nat /\ breaks <= breaks'
      /\ reachable' \subseteq People
      /\ \A q \in Announcements : delivered[q] \subseteq delivered'[q] /\ refused[q] \subseteq refused'[q]
      /\ ~x.failed => ~run[w].failed /\ (p \in x.todo \cup delivered'[r] \cup refused'[r])
      /\ \A q \in Announcements, o \in People : ~(q = r /\ o = p) => told'[q][o] = told[q][o]

LEMMA OthersAreNotCounted ==
  ASSUME BotAssumptions, BotInv, NEW w \in BotWorkers, NEW p \in People, NEW x, ComesTo(w, p, x),
         NEW q \in Announcements, NEW o \in People, ~(q = run[w].row /\ o = p)
  PROVE  Trying(q, o)' = Trying(q, o) /\ OwnTurn(q, o)' = OwnTurn(q, o)
<1>0. \A v \in BotWorkers \ {w} : run'[v] = run[v]
  BY DEF BotInv, RunsTyped, ComesTo
<1>1. /\ run'[w].row = run[w].row /\ run'[w].sent \in {Nothing, p} /\ run[w].sent \in {Nothing, p}
      /\ \A a : a # p => (a \in run'[w].todo <=> a \in run[w].todo)
  BY DEF BotInv, RunsTyped, ComesTo
<1>2. o # Nothing
  BY BotConstants
<1>3. Trying(q, o)' = Trying(q, o)
  <2>1. \A v \in BotWorkers :
          (run'[v].row = q /\ o \in run'[v].todo /\ run'[v].sent # o)
            <=> (run[v].row = q /\ o \in run[v].todo /\ run[v].sent # o)
    BY <1>0, <1>1, <1>2
  <2> QED BY <2>1 DEF Trying
<1>4. OwnTurn(q, o)' = OwnTurn(q, o)
  <2>1. postJob'[q] = postJob[q]
    BY DEF ComesTo
  <2>2. postJob[q].worker # Nothing =>
          postJob[q].worker \in BotWorkers /\ run[postJob[q].worker].row = q
    BY DEF BotInv, RunsTyped, OwnersRun, AnnouncementJob
  <2> QED BY <2>1, <2>2, <1>0, <1>1 DEF OwnTurn
<1> QED BY <1>3, <1>4

(* What it does to the numbers of this recipient.                          *)
LEMMA OneIsCounted ==
  ASSUME BotAssumptions, BotInv, NEW w \in BotWorkers, NEW p \in People, NEW x, ComesTo(w, p, x),
         NEW r, r = run[w].row, run[w].sent = Nothing, x.todo = run[w].todo \ {p} \/ x.sent = p
  PROVE  /\ Cardinality(Trying(r, p))' = Cardinality(Trying(r, p)) - 1
         /\ Cardinality(Trying(r, p))' \in Nat /\ Cardinality(Trying(r, p)) \in Nat
         /\ OwnTurn(r, p) \in {0, 1} /\ OwnTurn(r, p)' \in {0, 1}
         /\ x.todo = run[w].todo => OwnTurn(r, p)' = OwnTurn(r, p)
<1>0. \A v \in BotWorkers \ {w} : run'[v] = run[v]
  BY DEF BotInv, RunsTyped, ComesTo
<1>1. run'[w] = x
  BY DEF BotInv, RunsTyped, ComesTo
<1>2. p # Nothing
  BY BotConstants
<1>3. w \in Trying(r, p)
  BY <1>2 DEF Trying, ComesTo
<1>4. Trying(r, p)' = Trying(r, p) \ {w}
  BY <1>0, <1>1 DEF Trying
<1>5. /\ Cardinality(Trying(r, p) \ {w}) = Cardinality(Trying(r, p)) - 1
      /\ Cardinality(Trying(r, p) \ {w}) \in Nat
  BY <1>3, TryingCount, FS_RemoveElement, FewerElements
<1>6. OwnTurn(r, p) \in {0, 1} /\ OwnTurn(r, p)' \in {0, 1}
  BY DEF OwnTurn
<1>7. x.todo = run[w].todo => OwnTurn(r, p)' = OwnTurn(r, p)
  <2>1. postJob' = postJob
    BY DEF ComesTo
  <2>2. r \in Announcements
    BY DEF ComesTo, Bot!Run, Announcements
  <2>3. postJob[r].worker # Nothing => postJob[r].worker \in BotWorkers
    BY <2>2 DEF BotInv, RunsTyped, AnnouncementJob
  <2> QED BY <2>1, <2>3, <1>0, <1>1 DEF OwnTurn
<1> QED BY <1>4, <1>5, <1>6, <1>7, TryingCount

LEMMA RecipientStep ==
  ASSUME BotAssumptions, BotInv, NEW w \in BotWorkers, NEW p \in People, NEW x,
         ComesTo(w, p, x), Tells(w, p, x), NEW r, r = run[w].row,
         told'[r][p] <= 1 + breaks',
         p \notin delivered'[r] =>
           told'[r][p] + Cardinality(Trying(r, p))' <= breaks' + OwnTurn(r, p)'
  PROVE  BotInv'
<1>0. RunsTyped /\ OwnersRun /\ r \in Announcements
  BY DEF BotInv, ComesTo, Bot!Run, Announcements
<1>1. run'[w] = x /\ \A v \in BotWorkers \ {w} : run'[v] = run[v]
  BY <1>0 DEF RunsTyped, ComesTo
<1>2. RunsTyped'
  BY <1>0 DEF RunsTyped, ComesTo, Tells
<1>3. OwnersRun'
  BY <1>0, <1>1 DEF RunsTyped, OwnersRun, ComesTo, AnnouncementJob
<1>4. RunsAreOfAJob'
  BY <1>1 DEF BotInv, RunsAreOfAJob, ComesTo
<1>5. OwnersMissNobody'
  <2>1. ASSUME NEW q \in Announcements, postJob[q].worker # Nothing,
               ~run'[postJob[q].worker].failed
        PROVE  audience[q] \subseteq delivered'[q] \cup refused'[q] \cup run'[postJob[q].worker].todo
    <3>1. postJob[q].worker \in BotWorkers /\ run[postJob[q].worker].row = q
      BY <2>1, <1>0 DEF RunsTyped, OwnersRun, AnnouncementJob
    <3>2. CASE postJob[q].worker = w
      <4>1. q = r /\ ~x.failed /\ ~run[w].failed
        BY <3>1, <3>2, <2>1, <1>1 DEF Tells
      <4>2. audience[q] \subseteq delivered[q] \cup refused[q] \cup run[w].todo
        BY <4>1, <3>2, <2>1 DEF BotInv, OwnersMissNobody
      <4>3. /\ delivered[q] \subseteq delivered'[q] /\ refused[q] \subseteq refused'[q]
            /\ p \in x.todo \cup delivered'[q] \cup refused'[q]
        BY <4>1 DEF Tells
      <4>4. run[w].todo \subseteq x.todo \cup {p}
        BY DEF ComesTo
      <4> QED BY <4>2, <4>3, <4>4, <3>2, <1>1
    <3>3. CASE postJob[q].worker # w
      <4>1. run'[postJob[q].worker] = run[postJob[q].worker]
        BY <3>1, <3>3, <1>1
      <4> QED BY <4>1, <2>1 DEF BotInv, OwnersMissNobody, Tells
    <3> QED BY <3>2, <3>3
  <2> QED BY <2>1 DEF OwnersMissNobody, ComesTo
<1>6. Bot!CompletedMeansTold'
  BY DEF BotInv, Bot!CompletedMeansTold, ComesTo, Tells, Announcements
<1>7. SendsAreCounted'
  <2>1. ASSUME NEW q \in Announcements, NEW o \in People
        PROVE  /\ told'[q][o] <= 1 + breaks'
               /\ o \notin delivered'[q] =>
                    told'[q][o] + Cardinality(Trying(q, o))' <= breaks' + OwnTurn(q, o)'
    <3>1. CASE q = r /\ o = p
      BY <3>1
    <3>2. CASE ~(q = r /\ o = p)
      <4>1. Trying(q, o)' = Trying(q, o) /\ OwnTurn(q, o)' = OwnTurn(q, o)
        BY <3>2, OthersAreNotCounted
      <4>2. /\ told'[q][o] = told[q][o] /\ breaks \in Nat /\ breaks' \in Nat /\ breaks <= breaks'
            /\ delivered[q] \subseteq delivered'[q] /\ told[q][o] \in Nat
        BY <3>2, <1>0 DEF RunsTyped, Tells
      <4>3. OwnTurn(q, o) \in {0, 1} /\ Cardinality(Trying(q, o)) \in Nat
        BY TryingCount DEF OwnTurn
      <4>4. /\ told[q][o] <= 1 + breaks
            /\ o \notin delivered[q] =>
                 told[q][o] + Cardinality(Trying(q, o)) <= breaks + OwnTurn(q, o)
        BY DEF BotInv, SendsAreCounted
      <4> QED BY <4>1, <4>2, <4>3, <4>4
    <3> QED BY <3>1, <3>2
  <2> QED BY <2>1 DEF SendsAreCounted
<1> QED BY <1>2, <1>3, <1>4, <1>5, <1>6, <1>7 DEF BotInv

LEMMA SkipStep ==
  ASSUME BotAssumptions, BotInv, NEW w \in BotWorkers, NEW p \in People, Bot!Skip(w, p)
  PROVE  BotInv'
<1>1. PICK x : x = [run[w] EXCEPT !.todo = @ \ {p}]
  OBVIOUS
<1>2. PICK r : r = run[w].row
  OBVIOUS
<1>3. /\ run[w].sent = Nothing /\ p \in run[w].todo /\ p \in delivered[r] /\ run' = [run EXCEPT ![w] = x]
      /\ UNCHANGED <<postJob, reachable, delivered, told, breaks, audience, refused>>
  BY <1>1, <1>2 DEF Bot!Skip, Bot!InTurn, Bot!AlreadyDelivered, Bot!SetRun, Bot!outboxVars
<1>4. run[w] \in Bot!Run /\ r # Nothing
  BY <1>2, <1>3 DEF BotInv, RunsTyped, RunsAreOfAJob
<1>5. /\ x \in Bot!Run /\ x.row = r /\ x.todo = run[w].todo \ {p} /\ x.sent = Nothing
      /\ x.failed = run[w].failed
  BY <1>1, <1>2, <1>3, <1>4 DEF Bot!Run
<1>6. ComesTo(w, p, x) /\ r \in Announcements
  BY <1>2, <1>3, <1>4, <1>5, BotConstants DEF ComesTo, Bot!Run, Announcements
<1>7. Tells(w, p, x)
  BY <1>2, <1>3, <1>5 DEF Tells, BotInv, RunsTyped
<1>8. told'[r][p] <= 1 + breaks' /\ p \in delivered'[r]
  BY <1>3, <1>6 DEF BotInv, SendsAreCounted
<1> QED BY <1>2, <1>6, <1>7, <1>8, RecipientStep

LEMMA SendStep ==
  ASSUME BotAssumptions, BotInv, NEW w \in BotWorkers, NEW p \in People, Bot!Send(w, p)
  PROVE  BotInv'
<1>1. PICK x : x = [run[w] EXCEPT !.sent = p]
  OBVIOUS
<1>2. PICK r : r = run[w].row
  OBVIOUS
<1>3. /\ run[w].sent = Nothing /\ p \in run[w].todo /\ p \notin delivered[r]
      /\ run' = [run EXCEPT ![w] = x] /\ told' = [told EXCEPT ![r][p] = @ + 1]
      /\ UNCHANGED <<postJob, reachable, delivered, breaks, audience, refused>>
  BY <1>1, <1>2 DEF Bot!Send, Bot!InTurn, Bot!AlreadyDelivered, Bot!SetRun, Bot!Arrives, Bot!outboxVars
<1>4. run[w] \in Bot!Run /\ r # Nothing
  BY <1>2, <1>3 DEF BotInv, RunsTyped, RunsAreOfAJob
<1>5. /\ x \in Bot!Run /\ x.row = r /\ x.todo = run[w].todo /\ x.sent = p
      /\ x.failed = run[w].failed
  BY <1>1, <1>2, <1>3, <1>4 DEF Bot!Run
<1>6. ComesTo(w, p, x) /\ r \in Announcements
  BY <1>2, <1>3, <1>4, <1>5, BotConstants DEF ComesTo, Bot!Run, Announcements
<1>7. /\ told' \in [Announcements -> [People -> Nat]] /\ told'[r][p] = told[r][p] + 1
      /\ \A q \in Announcements, o \in People : ~(q = r /\ o = p) => told'[q][o] = told[q][o]
      /\ told[r][p] \in Nat /\ breaks \in Nat
  BY <1>3, <1>6 DEF BotInv, RunsTyped
<1>8. Tells(w, p, x)
  BY <1>2, <1>3, <1>5, <1>7 DEF Tells, BotInv, RunsTyped
<1>9. /\ Cardinality(Trying(r, p))' = Cardinality(Trying(r, p)) - 1
      /\ Cardinality(Trying(r, p))' \in Nat /\ Cardinality(Trying(r, p)) \in Nat
      /\ OwnTurn(r, p) \in {0, 1} /\ OwnTurn(r, p)' = OwnTurn(r, p)
  BY <1>2, <1>3, <1>5, <1>6, OneIsCounted
<1>10. told[r][p] + Cardinality(Trying(r, p)) <= breaks + OwnTurn(r, p)
  BY <1>3, <1>6 DEF BotInv, SendsAreCounted
<1>11. /\ told'[r][p] <= 1 + breaks'
       /\ told'[r][p] + Cardinality(Trying(r, p))' <= breaks' + OwnTurn(r, p)'
  BY <1>3, <1>7, <1>9, <1>10
<1> QED BY <1>2, <1>6, <1>8, <1>11, RecipientStep

LEMMA RecordDeliveryStep ==
  ASSUME BotAssumptions, BotInv, NEW w \in BotWorkers, Bot!RecordDelivery(w)
  PROVE  BotInv'
<1>0. run[w] \in Bot!Run
  BY DEF BotInv, RunsTyped
<1>1. PICK p \in People : p = run[w].sent
  BY <1>0 DEF Bot!RecordDelivery, Bot!Run
<1>2. PICK r : r = run[w].row
  OBVIOUS
<1>3. PICK x : x = [run[w] EXCEPT !.todo = @ \ {p}, !.sent = Nothing]
  OBVIOUS
<1>4. /\ run[w].sent # Nothing /\ delivered' = [delivered EXCEPT ![r] = @ \cup {p}]
      /\ run' = [run EXCEPT ![w] = x]
      /\ UNCHANGED <<postJob, reachable, told, breaks, audience, refused>>
  BY <1>1, <1>2, <1>3 DEF Bot!RecordDelivery, Bot!SetRun, Bot!outboxVars
<1>5. p \in run[w].todo /\ r # Nothing
  BY <1>1, <1>2, <1>4 DEF BotInv, RunsAreOfAJob
<1>6. /\ x \in Bot!Run /\ x.row = r /\ x.todo = run[w].todo \ {p} /\ x.sent = Nothing
      /\ x.failed = run[w].failed
  BY <1>0, <1>2, <1>3 DEF Bot!Run
<1>7. ComesTo(w, p, x) /\ r \in Announcements
  BY <1>0, <1>1, <1>2, <1>4, <1>5, <1>6, BotConstants DEF ComesTo, Bot!Run, Announcements
<1>8. /\ delivered' \in [Announcements -> SUBSET People] /\ p \in delivered'[r]
      /\ \A q \in Announcements : delivered[q] \subseteq delivered'[q]
  BY <1>4, <1>7 DEF BotInv, RunsTyped
<1>9. Tells(w, p, x)
  BY <1>2, <1>4, <1>6, <1>8 DEF Tells, BotInv, RunsTyped
<1>10. told'[r][p] <= 1 + breaks'
  BY <1>4, <1>7 DEF BotInv, SendsAreCounted
<1> QED BY <1>2, <1>7, <1>8, <1>9, <1>10, RecipientStep

LEMMA RefusedStep ==
  ASSUME BotAssumptions, BotInv, NEW w \in BotWorkers, NEW p \in People, Bot!RefusedForGood(w, p)
  PROVE  BotInv'
<1>1. PICK x : x = [run[w] EXCEPT !.todo = @ \ {p}]
  OBVIOUS
<1>2. PICK r : r = run[w].row
  OBVIOUS
<1>3. /\ run[w].sent = Nothing /\ p \in run[w].todo /\ p \notin delivered[r]
      /\ run' = [run EXCEPT ![w] = x] /\ refused' = [refused EXCEPT ![r] = @ \cup {p}]
      /\ reachable' = reachable \ {p}
      /\ UNCHANGED <<postJob, delivered, told, breaks, audience>>
  BY <1>1, <1>2 DEF Bot!RefusedForGood, Bot!InTurn, Bot!AlreadyDelivered, Bot!SetRun, Bot!outboxVars
<1>4. run[w] \in Bot!Run /\ r # Nothing
  BY <1>2, <1>3 DEF BotInv, RunsTyped, RunsAreOfAJob
<1>5. /\ x \in Bot!Run /\ x.row = r /\ x.todo = run[w].todo \ {p} /\ x.sent = Nothing
      /\ x.failed = run[w].failed
  BY <1>1, <1>2, <1>3, <1>4 DEF Bot!Run
<1>6. ComesTo(w, p, x) /\ r \in Announcements
  BY <1>2, <1>3, <1>4, <1>5, BotConstants DEF ComesTo, Bot!Run, Announcements
<1>7. /\ refused' \in [Announcements -> SUBSET People] /\ p \in refused'[r]
      /\ \A q \in Announcements : refused[q] \subseteq refused'[q]
  BY <1>3, <1>6 DEF BotInv, RunsTyped
<1>8. Tells(w, p, x)
  BY <1>2, <1>3, <1>5, <1>7 DEF Tells, BotInv, RunsTyped
<1>9. /\ Cardinality(Trying(r, p))' = Cardinality(Trying(r, p)) - 1
      /\ Cardinality(Trying(r, p))' \in Nat /\ Cardinality(Trying(r, p)) \in Nat
      /\ OwnTurn(r, p) \in {0, 1} /\ OwnTurn(r, p)' \in {0, 1}
  BY <1>2, <1>3, <1>5, <1>6, OneIsCounted
<1>10. /\ told[r][p] + Cardinality(Trying(r, p)) <= breaks + OwnTurn(r, p)
       /\ told[r][p] <= 1 + breaks /\ told[r][p] \in Nat /\ breaks \in Nat
  BY <1>3, <1>6 DEF BotInv, RunsTyped, SendsAreCounted
<1>11. /\ told'[r][p] <= 1 + breaks'
       /\ told'[r][p] + Cardinality(Trying(r, p))' <= breaks' + OwnTurn(r, p)'
  BY <1>3, <1>9, <1>10
<1> QED BY <1>2, <1>6, <1>8, <1>11, RecipientStep

LEMMA SendFailsStep ==
  ASSUME BotAssumptions, BotInv, NEW w \in BotWorkers, NEW p \in People, Bot!SendFails(w, p)
  PROVE  BotInv'
<1>1. PICK x : x = [run[w] EXCEPT !.todo = @ \ {p}, !.failed = TRUE]
  OBVIOUS
<1>2. PICK r : r = run[w].row
  OBVIOUS
<1>3. /\ run[w].sent = Nothing /\ p \in run[w].todo /\ p \notin delivered[r]
      /\ run' = [run EXCEPT ![w] = x] /\ breaks' = breaks + 1
      /\ told' = [told EXCEPT ![r][p] = @ + 1] \/ told' = told
      /\ UNCHANGED <<postJob, reachable, delivered, audience, refused>>
  BY <1>1, <1>2 DEF Bot!SendFails, Bot!InTurn, Bot!AlreadyDelivered, Bot!SetRun, Bot!FailedFor,
     Bot!Arrives, Bot!Break, Bot!outboxVars
<1>4. run[w] \in Bot!Run /\ r # Nothing
  BY <1>2, <1>3 DEF BotInv, RunsTyped, RunsAreOfAJob
<1>5. /\ x \in Bot!Run /\ x.row = r /\ x.todo = run[w].todo \ {p} /\ x.sent = Nothing
      /\ x.failed = TRUE
  BY <1>1, <1>2, <1>3, <1>4 DEF Bot!Run
<1>6. ComesTo(w, p, x) /\ r \in Announcements
  BY <1>2, <1>3, <1>4, <1>5, BotConstants DEF ComesTo, Bot!Run, Announcements
<1>7. /\ told' \in [Announcements -> [People -> Nat]] /\ told'[r][p] <= told[r][p] + 1
      /\ \A q \in Announcements, o \in People : ~(q = r /\ o = p) => told'[q][o] = told[q][o]
      /\ told[r][p] \in Nat /\ told'[r][p] \in Nat /\ breaks \in Nat
  BY <1>3, <1>6 DEF BotInv, RunsTyped
<1>8. Tells(w, p, x)
  BY <1>2, <1>3, <1>5, <1>7 DEF Tells, BotInv, RunsTyped
<1>9. /\ Cardinality(Trying(r, p))' = Cardinality(Trying(r, p)) - 1
      /\ Cardinality(Trying(r, p))' \in Nat /\ Cardinality(Trying(r, p)) \in Nat
      /\ OwnTurn(r, p) \in {0, 1} /\ OwnTurn(r, p)' \in {0, 1}
  BY <1>2, <1>3, <1>5, <1>6, OneIsCounted
<1>10. /\ told[r][p] + Cardinality(Trying(r, p)) <= breaks + OwnTurn(r, p)
       /\ told[r][p] <= 1 + breaks
  BY <1>3, <1>6 DEF BotInv, SendsAreCounted
<1>11. /\ told'[r][p] <= 1 + breaks'
       /\ told'[r][p] + Cardinality(Trying(r, p))' <= breaks' + OwnTurn(r, p)'
  BY <1>3, <1>7, <1>9, <1>10
<1> QED BY <1>2, <1>6, <1>8, <1>11, RecipientStep

-----------------------------------------------------------------------------
(* The end of a run                                                        *)

LEMMA ConcludeStep ==
  ASSUME BotAssumptions, BotInv, NEW w \in BotWorkers, Bot!Conclude(w)
  PROVE  BotInv'
<1>1. PICK r : r = run[w].row
  OBVIOUS
<1>2. /\ r # Nothing /\ run[w].todo = {} /\ run[w].sent = Nothing
      /\ postJob' = IF run[w].failed THEN Bot!Thrown(r, w) ELSE Bot!Completed(r, w)
      /\ run' = [run EXCEPT ![w] = Bot!Resting0]
      /\ UNCHANGED <<reachable, delivered, told, breaks, audience, refused>>
  BY <1>1 DEF Bot!Conclude, Bot!SetRun
<1>3. RunsTyped /\ OwnersRun /\ r \in Announcements
  BY <1>1, <1>2 DEF BotInv, RunsTyped, Bot!Run, Announcements
<1>4. /\ run' \in [BotWorkers -> Bot!Run] /\ run'[w] = Bot!Resting0
      /\ \A v \in BotWorkers \ {w} : run'[v] = run[v]
      /\ Bot!Resting0.row = Nothing /\ Bot!Resting0.todo = {} /\ Bot!Resting0.sent = Nothing
  BY <1>2, <1>3 DEF RunsTyped, Bot!Run, Bot!Resting0
<1>5. \A q \in Announcements : postJob[q] \in AnnouncementJob
  BY <1>3 DEF RunsTyped
<1>6. /\ postJob' \in [Announcements -> AnnouncementJob]
      /\ \A q \in Announcements : postJob'[q] = postJob[q] \/ (q = r /\ postJob[r].worker = w)
      /\ postJob[r].worker = w =>
           postJob'[r].worker = Nothing /\ (postJob'[r].status = "completed" => ~run[w].failed)
  <2>1. CASE postJob[r].worker # w
    BY <2>1, <1>2, <1>3 DEF RunsTyped, Bot!Thrown, Bot!Completed
  <2>2. CASE postJob[r].worker = w /\ run[w].failed
    <3>1. PICK status \in {"waiting", "failed"} :
            status = IF postJob[r].tries + 1 < BotTries THEN "waiting" ELSE "failed"
      OBVIOUS
    <3>2. PICK tries \in Nat : tries = postJob[r].tries + 1
      BY <1>3, <1>5 DEF AnnouncementJob
    <3>3. postJob' = [postJob EXCEPT ![r].tries = tries, ![r].worker = Nothing, ![r].status = status]
      BY <2>2, <3>1, <3>2, <1>2 DEF Bot!Thrown
    <3>4. status \in Bot!JobStatus /\ status # "completed"
      BY DEF Bot!JobStatus
    <3>5. /\ postJob' \in [Announcements -> AnnouncementJob]
          /\ \A q \in Announcements \ {r} : postJob'[q] = postJob[q]
          /\ postJob'[r].worker = Nothing /\ postJob'[r].status = status
      BY <3>2, <3>3, <3>4, <1>3, ThrownJob
    <3> QED BY <3>4, <3>5, <2>2
  <2>3. CASE postJob[r].worker = w /\ ~run[w].failed
    <3>1. postJob' = [postJob EXCEPT ![r].status = "completed", ![r].worker = Nothing]
      BY <2>3, <1>2 DEF Bot!Completed
    <3> QED BY <3>1, <2>3, <1>3, <1>5 DEF RunsTyped, AnnouncementJob, Bot!JobStatus
  <2> QED BY <2>1, <2>2, <2>3
<1>7. RunsTyped'
  BY <1>2, <1>3, <1>4, <1>6 DEF RunsTyped
<1>8. \A q \in Announcements : postJob'[q].worker # Nothing =>
        /\ postJob'[q] = postJob[q]
        /\ postJob[q].worker \in BotWorkers \ {w} /\ run[postJob[q].worker].row = q
  BY <1>1, <1>3, <1>5, <1>6 DEF OwnersRun, AnnouncementJob
<1>9. OwnersRun'
  BY <1>3, <1>4, <1>8 DEF OwnersRun
<1>10. RunsAreOfAJob'
  BY <1>4 DEF BotInv, RunsAreOfAJob
<1>11. OwnersMissNobody'
  BY <1>2, <1>4, <1>8 DEF BotInv, OwnersMissNobody
<1>12. Bot!CompletedMeansTold'
  <2>1. ASSUME NEW q \in Announcements, postJob'[q].status = "completed"
        PROVE  audience[q] \subseteq delivered[q] \cup refused[q]
    <3>1. CASE postJob'[q] = postJob[q]
      BY <2>1, <3>1 DEF BotInv, Bot!CompletedMeansTold, Announcements
    <3>2. CASE q = r /\ postJob[r].worker = w
      <4>1. ~run[w].failed /\ w # Nothing
        BY <2>1, <3>2, <1>6, BotConstants
      <4> QED BY <4>1, <3>2, <1>2, <1>3 DEF BotInv, OwnersMissNobody
    <3> QED BY <3>1, <3>2, <1>6
  <2> QED BY <2>1, <1>2 DEF Bot!CompletedMeansTold, Announcements
<1>13. SendsAreCounted'
  <2>1. ASSUME NEW q \in Announcements, NEW p \in People
        PROVE  Trying(q, p)' = Trying(q, p) /\ OwnTurn(q, p)' = OwnTurn(q, p)
    <3>1. Trying(q, p)' = Trying(q, p)
      BY <1>2, <1>4 DEF Trying
    <3>2. OwnTurn(q, p)' = OwnTurn(q, p)
      BY <1>2, <1>4, <1>6, <1>8 DEF OwnTurn
    <3> QED BY <3>1, <3>2
  <2> QED BY <2>1, <1>2 DEF BotInv, SendsAreCounted
<1> QED BY <1>7, <1>9, <1>10, <1>11, <1>12, <1>13 DEF BotInv

LEMMA InterruptedStep ==
  ASSUME BotAssumptions, BotInv, NEW w \in BotWorkers, Bot!Interrupted(w)
  PROVE  BotInv'
<1>1. PICK r : r = run[w].row
  OBVIOUS
<1>2. /\ r # Nothing /\ postJob[r].worker = w /\ breaks' = breaks + 1
      /\ postJob' = Bot!Stalled({r}) /\ run' \in {run, [run EXCEPT ![w] = Bot!Resting0]}
      /\ UNCHANGED <<reachable, delivered, told, audience, refused>>
  BY <1>1 DEF Bot!Interrupted, Bot!Break, Bot!SetRun
<1>3. RunsTyped /\ OwnersRun /\ r \in Announcements /\ w # Nothing
  BY <1>1, <1>2, BotConstants DEF BotInv, RunsTyped, Bot!Run, Announcements
<1>4. /\ run' \in [BotWorkers -> Bot!Run] /\ run'[w] \in {run[w], Bot!Resting0}
      /\ \A v \in BotWorkers \ {w} : run'[v] = run[v]
      /\ Bot!Resting0.row = Nothing /\ Bot!Resting0.todo = {} /\ Bot!Resting0.sent = Nothing
  <2>1. Bot!Resting0 \in Bot!Run
    BY DEF Bot!Run, Bot!Resting0
  <2>2. run' = run \/ run' = [run EXCEPT ![w] = Bot!Resting0]
    BY <1>2
  <2> QED BY <2>1, <2>2, <1>3 DEF RunsTyped, Bot!Resting0
<1>5. \A q \in Announcements : postJob[q] \in AnnouncementJob
  BY <1>3 DEF RunsTyped
<1>6. /\ postJob' \in [Announcements -> AnnouncementJob]
      /\ \A q \in Announcements \ {r} : postJob'[q] = postJob[q]
      /\ postJob'[r].worker = Nothing /\ postJob'[r].status \in {"failed", "waiting"}
  <2>1. postJob[r].status = "active"
    BY <1>2, <1>3 DEF OwnersRun
  <2>2. [postJob[r] EXCEPT !.stalled = TRUE, !.worker = Nothing,
           !.status = IF postJob[r].stalled THEN "failed" ELSE "waiting"] \in AnnouncementJob
    BY <1>3, <1>5 DEF AnnouncementJob, Bot!JobStatus
  <2>3. postJob' = [q \in Announcements |->
          IF q # r THEN postJob[q]
          ELSE [postJob[r] EXCEPT !.stalled = TRUE, !.worker = Nothing,
                  !.status = IF postJob[r].stalled THEN "failed" ELSE "waiting"]]
    BY <2>1, <1>2, <1>3 DEF Bot!Stalled, Announcements
  <2> QED BY <2>2, <2>3, <1>3, <1>5 DEF AnnouncementJob
<1>7. RunsTyped'
  <2>1. breaks' \in Nat /\ UNCHANGED <<reachable, delivered, told, audience, refused>>
    BY <1>2, <1>3 DEF RunsTyped
  <2> QED BY <2>1, <1>3, <1>4, <1>6 DEF RunsTyped
<1>8. \A q \in Announcements : postJob'[q].worker # Nothing =>
        /\ q # r /\ postJob'[q] = postJob[q]
        /\ postJob[q].worker \in BotWorkers \ {w} /\ run[postJob[q].worker].row = q
  BY <1>1, <1>3, <1>5, <1>6 DEF OwnersRun, AnnouncementJob
<1>9. OwnersRun'
  BY <1>3, <1>4, <1>8 DEF OwnersRun
<1>10. RunsAreOfAJob'
  BY <1>4 DEF BotInv, RunsAreOfAJob
<1>11. OwnersMissNobody'
  <2>1. UNCHANGED <<audience, delivered, refused>>
    BY <1>2
  <2> QED BY <2>1, <1>4, <1>8 DEF BotInv, OwnersMissNobody
<1>12. Bot!CompletedMeansTold'
  BY <1>2, <1>6 DEF BotInv, Bot!CompletedMeansTold, Announcements
<1>13. SendsAreCounted'
  <2>1. ASSUME NEW q \in Announcements, NEW p \in People
        PROVE  /\ Cardinality(Trying(q, p))' <= Cardinality(Trying(q, p))
               /\ Cardinality(Trying(q, p))' \in Nat /\ Cardinality(Trying(q, p)) \in Nat
               /\ OwnTurn(q, p) \in {0, 1} /\ OwnTurn(q, p)' \in {0, 1}
               /\ q # r => OwnTurn(q, p)' = OwnTurn(q, p)
    <3>1. Trying(q, p)' \subseteq Trying(q, p)
      BY <1>4 DEF Trying
    <3>2. OwnTurn(q, p) \in {0, 1} /\ OwnTurn(q, p)' \in {0, 1}
      BY DEF OwnTurn
    <3>3. q # r => OwnTurn(q, p)' = OwnTurn(q, p)
      BY <1>4, <1>6, <1>8 DEF OwnTurn
    <3> QED BY <3>1, <3>2, <3>3, TryingCount, FewerElements
  <2>2. ASSUME NEW q \in Announcements, NEW p \in People
        PROVE  /\ told'[q][p] <= 1 + breaks'
               /\ p \notin delivered'[q] =>
                    told'[q][p] + Cardinality(Trying(q, p))' <= breaks' + OwnTurn(q, p)'
    <3>1. told[q][p] \in Nat /\ breaks \in Nat
      BY <1>3 DEF RunsTyped
    <3>2. /\ told[q][p] <= 1 + breaks
          /\ p \notin delivered[q] => told[q][p] + Cardinality(Trying(q, p)) <= breaks + OwnTurn(q, p)
      BY DEF BotInv, SendsAreCounted
    <3> QED BY <3>1, <3>2, <2>1, <1>2
  <2> QED BY <2>2 DEF SendsAreCounted
<1> QED BY <1>7, <1>9, <1>10, <1>11, <1>12, <1>13 DEF BotInv

LEMMA BotNext == BotAssumptions /\ BotInv /\ [Bot!Next]_Bot!vars => BotInv'
<1> SUFFICES ASSUME BotAssumptions, BotInv, [Bot!Next]_Bot!vars PROVE BotInv'
  OBVIOUS
<1>1. CASE UNCHANGED Bot!vars
  <2>1. /\ UNCHANGED <<postJob, run, delivered, audience, refused, told, breaks>>
        /\ reachable' = reachable
    BY <1>1 DEF Bot!vars, Bot!outboxVars, Bot!own
  <2> QED BY <2>1, RunsStay DEF BotInv, RunsTyped
<1>2. CASE Bot!Next
  <2>1. \/ \E r \in Announcements : \E w \in BotWorkers : Bot!TakeJob(w, r)
        \/ \E w \in BotWorkers :
             \/ \E p \in People : \/ Bot!Skip(w, p) \/ Bot!Send(w, p)
                                  \/ Bot!RefusedForGood(w, p) \/ Bot!SendFails(w, p)
             \/ Bot!RecordDelivery(w) \/ Bot!Conclude(w) \/ Bot!Interrupted(w)
        \/ \/ Bot!Tick \/ Bot!Schedule \/ Bot!RelayStep
           \/ \E c \in Posts :
                \/ \E public \in BOOLEAN, from \in 0 .. MaxTime : Bot!EditPost(c, public, from)
                \/ \E k \in Campaigns : Bot!Announce(k, c)
           \/ \E r \in Announcements : Bot!BecomesDue(r) \/ (Bot!Forget(r) /\ UNCHANGED Bot!own)
           \/ \E p \in People : Bot!Returns(p)
    BY <1>2 DEF Bot!Next, Announcements
  <2> QED BY <2>1, WorldStep, TakeJobStep, SkipStep, SendStep, RefusedStep, SendFailsStep,
             RecordDeliveryStep, ConcludeStep, InterruptedStep
<1> QED BY <1>1, <1>2

LEMMA BotAlways ==
  ASSUME BotAssumptions
  PROVE  Bot!Spec => []BotInv
BY BotInit, BotNext, PTL DEF Bot!Spec

(* bot/src/index.ts: a job ends well only after every recipient it read    *)
(* has the message or refused for good, whatever was retried, stalled or   *)
(* queued twice.                                                           *)
THEOREM BroadcastsReachTheirAudience ==
  ASSUME BotAssumptions
  PROVE  Bot!Spec => []CompletedMeansTold
<1>1. BotInv => CompletedMeansTold
  BY DEF BotInv, CompletedMeansTold
<1> QED BY <1>1, BotAlways, PTL

(* One message for everyone, and one more for each send whose outcome was  *)
(* lost and each run that was interrupted.                                 *)
THEOREM BroadcastsAreNotRepeated ==
  ASSUME BotAssumptions
  PROVE  Bot!Spec => []ToldOnce
<1>1. BotInv => ToldOnce
  BY DEF BotInv, SendsAreCounted, ToldOnce, Bot!ToldOnce, Announcements
<1> QED BY <1>1, BotAlways, PTL
=============================================================================
