------------------------------ MODULE Profiles ------------------------------
(***************************************************************************)
(* Who is who: the profiles of people, the Telegram and MAX accounts that  *)
(* lead to them, and the sessions opened from those (routes/auth.ts,       *)
(* me.ts, auth.ts, and what the bot does when somebody writes to it).      *)
(*                                                                         *)
(* A MAX account gets a profile of its own, until the phone number MAX     *)
(* vouches for shows that the person has one from Telegram: then the MAX   *)
(* account moves there and the profile it had is retired.                  *)
(***************************************************************************)
EXTENDS FiniteSets

CONSTANTS Telegrams, Maxes,   \* messenger accounts
          Users,        \* the ids of profiles that may be created
          Phones,
          Handlers,     \* requests and updates in flight at a time
          Nobody

ProfilesAssumption ==
  /\ Telegrams \cap Maxes = {}
  /\ Nobody \notin Telegrams \cup Maxes \cup Users \cup Phones

VARIABLES user,         \* id -> the profile and its wallet
          identity,     \* messenger account -> the profile it leads to
          session,      \* the sessions of Redis: a profile and the account it was opened from
          request       \* handler -> how far it is, and what it read

vars == <<user, identity, session, request>>

Accounts == Telegrams \cup Maxes

User == [status : {"none", "active", "blocked"},
         telegram : Telegrams \cup {Nobody},
         phone : Phones \cup {Nobody},
         pristine : BOOLEAN,   \* made for a MAX account, no name, consent or person of the CRM
         wallet : {"none", "active", "frozen"}]

Identity == Users \cup {Nobody}

Session == [user : Users, account : Accounts]

Works == {"nothing", "enter", "write", "profile", "contact"}
Request == [work : Works,
            step : {"idle", "new", "resolved", "identified", "admitted", "read", "linked"},
            account : Accounts \cup {Nobody},
            user : Users \cup {Nobody},
            phone : Phones \cup {Nobody},
            candidate : Users \cup {Nobody}]

NoUser == [status |-> "none", telegram |-> Nobody, phone |-> Nobody,
           pristine |-> FALSE, wallet |-> "none"]
Idle == [work |-> "nothing", step |-> "idle", account |-> Nobody, user |-> Nobody,
         phone |-> Nobody, candidate |-> Nobody]

TypeOK ==
  /\ user \in [Users -> User]
  /\ identity \in [Accounts -> Identity]
  /\ session \subseteq Session
  /\ request \in [Handlers -> Request]

Init ==
  /\ user = [u \in Users |-> NoUser]
  /\ identity = [a \in Accounts |-> Nobody]
  /\ session = {}
  /\ request = [h \in Handlers |-> Idle]

-----------------------------------------------------------------------------

(* A trigger gives every new profile its wallet.                           *)
NewUser(telegram) ==
  [status |-> "active", telegram |-> telegram, phone |-> Nobody,
   pristine |-> telegram = Nobody, wallet |-> "active"]

At(h, works, step) == request[h].work \in works /\ request[h].step = step
Go(h, values) == request' = [request EXCEPT ![h] = values]
Finish(h) == Go(h, Idle)

Resolved(work, account, u) ==
  [Idle EXCEPT !.work = work, !.step = "resolved", !.account = account, !.user = u]

(* POST /auth/telegram, and any message to the Telegram bot: the profile   *)
(* of a Telegram account is found or made by one statement.                *)
UpsertTelegramUser(h, work, a) ==
  /\ request[h] = Idle
  /\ \E u \in Users :
       /\ Go(h, Resolved(work, a, u))
       /\ \/ user[u].telegram = a /\ UNCHANGED user
          \/ /\ \A v \in Users : user[v].telegram # a
             /\ user[u] = NoUser
             /\ user' = [user EXCEPT ![u] = NewUser(a)]
  /\ UNCHANGED <<identity, session>>

(* POST /auth/max, and any message to the MAX bot, look the account up ... *)
FindMaxUser(h, work, a) ==
  /\ request[h] = Idle
  /\ IF identity[a] = Nobody
     THEN Go(h, [Resolved(work, a, Nobody) EXCEPT !.step = "new"])
     ELSE Go(h, Resolved(work, a, identity[a]))
  /\ UNCHANGED <<user, identity, session>>

(* Bug a run must catch: the loser of a race keeps the profile it made.    *)
CreateMaxUserAnyway(h) ==
  LET a == request[h].account
  IN  /\ At(h, {"enter", "write"}, "new")
      /\ \E u \in Users :
           /\ user[u] = NoUser
           /\ user' = [user EXCEPT ![u] = NewUser(Nobody)]
           /\ identity' = [identity EXCEPT ![a] = IF @ = Nobody THEN u ELSE @]
           /\ Go(h, Resolved(request[h].work, a, identity'[a]))
      /\ UNCHANGED session

(* ... and make a profile, with the account, in one transaction; the one   *)
(* who finds the account taken by then drops the profile it made.          *)
CreateMaxUser(h) ==
  LET a == request[h].account
  IN  /\ At(h, {"enter", "write"}, "new")
      /\ \/ /\ identity[a] # Nobody
            /\ Go(h, Resolved(request[h].work, a, identity[a]))
            /\ UNCHANGED <<user, identity>>
         \/ \E u \in Users :
              /\ identity[a] = Nobody /\ user[u] = NoUser
              /\ user' = [user EXCEPT ![u] = NewUser(Nobody)]
              /\ identity' = [identity EXCEPT ![a] = u]
              /\ Go(h, Resolved(request[h].work, a, u))
      /\ UNCHANGED session

(* The account is recorded; one that is there keeps its profile.           *)
UpsertMessengerIdentity(h) ==
  LET a == request[h].account
  IN  /\ At(h, {"enter", "write"}, "resolved")
      /\ identity' = [identity EXCEPT ![a] = IF @ = Nobody THEN request[h].user ELSE @]
      /\ IF request[h].work = "write" THEN Finish(h)
         ELSE Go(h, [request[h] EXCEPT !.step = "identified"])
      /\ UNCHANGED <<user, session>>

(* Sessions are opened for the profile found at the beginning.             *)
CreateSession(h) ==
  /\ At(h, {"enter"}, "identified")
  /\ session' = session \cup {[user |-> request[h].user, account |-> request[h].account]}
  /\ Finish(h)
  /\ UNCHANGED <<user, identity>>

(* A Mini App that opens, and a message to a bot, begin the same way; the   *)
(* bots need no session.                                                   *)
PostAuthTelegram(h, a) == UpsertTelegramUser(h, "enter", a)
PostAuthMax(h, a) == FindMaxUser(h, "enter", a)
UpdateTelegramIdentity(h, a) == UpsertTelegramUser(h, "write", a)
UpdateMaxIdentity(h, a) == FindMaxUser(h, "write", a)

(* A session ends by logout or by itself; the same person may have another *)
(* one like it.                                                            *)
Without(s) == {session, session \ {s}}

DestroySession(s) ==
  /\ s \in session
  /\ session' = session \ {s}
  /\ UNCHANGED <<user, identity, request>>

(* requireAuth: the guard of every other handler.                          *)
RequireAuth(h, work, s) ==
  /\ request[h] = Idle
  /\ s \in session /\ user[s.user].status = "active"
  /\ work = "contact" => s.account \in Maxes
  /\ Go(h, [Idle EXCEPT !.work = work, !.step = "admitted",
                        !.account = s.account, !.user = s.user])
  /\ UNCHANGED <<user, identity, session>>

(* PATCH /me: name and consent, and a number nobody vouches for.           *)
UpdateProfile(h, phone) ==
  /\ At(h, {"profile"}, "admitted")
  /\ user' = [user EXCEPT ![request[h].user].pristine = FALSE,
                          ![request[h].user].phone = phone]
  /\ Finish(h)
  /\ UNCHANGED <<identity, session>>

(* A contact sent to the Telegram bot.                                     *)
SaveTelegramContact(a, phone) ==
  /\ \E u \in Users :
       /\ user[u].telegram = a
       /\ user' = [user EXCEPT ![u].phone = phone]
  /\ UNCHANGED <<identity, session, request>>

(* The CRM answered for the profile: it has a person there.                *)
LearnCrmPerson(u) ==
  /\ user[u].pristine
  /\ user' = [user EXCEPT ![u].pristine = FALSE]
  /\ UNCHANGED <<identity, session, request>>

-----------------------------------------------------------------------------
(* POST /me/max-contact *)

Candidates(u, phone) ==
  {c \in Users \ {u} :
     user[c].status = "active" /\ user[c].telegram # Nobody /\ user[c].phone = phone}

HasMax(u) == \E m \in Maxes : identity[m] = u

(* Read without a lock: the only other person with that number, if there   *)
(* is one without a MAX account and the own profile is as it was made.     *)
ReadCandidate(h, phone) ==
  LET u == request[h].user
      linkable == {c \in Candidates(u, phone) :
                     Candidates(u, phone) = {c} /\ user[u].pristine /\ ~HasMax(c)}
  IN  /\ At(h, {"contact"}, "admitted")
      /\ \E c \in linkable \cup {Nobody} :
           /\ c = Nobody <=> linkable = {}
           /\ Go(h, [request[h] EXCEPT !.step = "read", !.phone = phone, !.candidate = c])
      /\ UNCHANGED <<user, identity, session>>

Linked(h) == Go(h, [request[h] EXCEPT !.step = "linked", !.user = request[h].candidate])

Moves(h) ==
  /\ At(h, {"contact"}, "read") /\ request[h].candidate # Nobody
  /\ ~HasMax(request[h].candidate)
  /\ identity' = [identity EXCEPT ![request[h].account] = request[h].candidate]

(* Bugs a run must catch: the account moves whoever has it; the wallet of  *)
(* the retired profile stays as it was.                                    *)
MayMoveAnyway(h) == TRUE
RetiredUnfrozen(profile) == [profile EXCEPT !.status = "blocked"]

(* The account must still lead to the own profile.                         *)
MayMove(h) == identity[request[h].account] = request[h].user

Retired(profile) ==
  [profile EXCEPT !.status = "blocked",
                  !.wallet = IF @ = "active" THEN "frozen" ELSE @]

(* One transaction; if the candidate got a MAX account, or the own account *)
(* moved, since they were read, it fails.                                  *)
Link(h) ==
  LET own == request[h].user
      candidate == request[h].candidate
  IN  /\ Moves(h) /\ MayMove(h)
      /\ user' = [user EXCEPT ![candidate].phone = request[h].phone, ![own] = Retired(@)]
      /\ Linked(h)
      /\ UNCHANGED session

KeepApart(h) ==
  /\ At(h, {"contact"}, "read") /\ request[h].candidate = Nobody
  /\ user' = [user EXCEPT ![request[h].user].phone = request[h].phone]
  /\ Go(h, [request[h] EXCEPT !.step = "linked"])
  /\ UNCHANGED <<identity, session>>

(* The session is replaced by one of the profile the account leads to.     *)
RenewSession(h) ==
  /\ At(h, {"contact"}, "linked")
  /\ \E s \in Session :
       /\ s.account = request[h].account
       /\ \E rest \in Without(s) :
            session' = rest \cup {[user |-> request[h].user, account |-> request[h].account]}
  /\ Finish(h)
  /\ UNCHANGED <<user, identity>>

-----------------------------------------------------------------------------

(* PATCH /admin/users/:id/status.                                          *)
SetStatus(u, status) ==
  /\ user[u].status \notin {"none", status}
  /\ user' = [user EXCEPT ![u].status = status]
  /\ UNCHANGED <<identity, session, request>>

(* An error, a lost connection, the end of the process.                    *)
Drop(h) ==
  /\ request[h] # Idle
  /\ Finish(h)
  /\ UNCHANGED <<user, identity, session>>

Next ==
  \/ \E h \in Handlers :
       \/ \E a \in Telegrams : PostAuthTelegram(h, a) \/ UpdateTelegramIdentity(h, a)
       \/ \E a \in Maxes : PostAuthMax(h, a) \/ UpdateMaxIdentity(h, a)
       \/ CreateMaxUser(h) \/ UpsertMessengerIdentity(h) \/ CreateSession(h)
       \/ \E work \in {"profile", "contact"}, s \in session : RequireAuth(h, work, s)
       \/ \E phone \in Phones \cup {Nobody} : UpdateProfile(h, phone)
       \/ \E phone \in Phones : ReadCandidate(h, phone)
       \/ Link(h) \/ KeepApart(h) \/ RenewSession(h) \/ Drop(h)
  \/ \E s \in session : DestroySession(s)
  \/ \E a \in Telegrams, phone \in Phones : SaveTelegramContact(a, phone)
  \/ \E u \in Users :
       \/ LearnCrmPerson(u)
       \/ \E status \in {"active", "blocked"} : SetStatus(u, status)

Spec == Init /\ [][Next]_vars

-----------------------------------------------------------------------------
(* Properties *)

(* me.ts: a freshly created messenger profile already owns a wallet; the   *)
(* retired one stays for reconciliation.  Points nobody can reach are in   *)
(* frozen wallets: an active one is of a profile some messenger account    *)
(* leads to, whatever races to make or to move that account.               *)
ActiveWalletsHaveAWayIn ==
  \A u \in Users :
     user[u].wallet = "active" =>
       user[u].telegram # Nobody \/ \E a \in Accounts : identity[a] = u

(* A session was opened from a messenger account; unless its profile was   *)
(* retired since, it is the profile that account leads to.                 *)
SessionsFollowTheirAccount ==
  \A s \in session :
     user[s.user].wallet = "active" => identity[s.account] = s.user
=============================================================================
