------------------------------- MODULE Startup -------------------------------
(***************************************************************************)
(* How a tab of the Mini App signs in (lib/api.ts, session-provider.tsx)   *)
(* and how the server knows whose request it gets (auth.ts).  The tabs of  *)
(* a browser share one cookie, a tab keeps the token of its own session,   *)
(* and each may have been opened by another messenger account.             *)
(***************************************************************************)
EXTENDS FiniteSets

CONSTANTS Tabs,         \* each opened by a messenger account of its own
          Sessions, Nothing

StartupAssumption == Nothing \notin Tabs \cup Sessions

VARIABLES owner,        \* session -> the account it was opened for
          live,         \* the sessions Redis still holds
          cookie,       \* the session of the cookie
          token,        \* tab -> the session whose tokens it saved
          page,         \* tab -> the state of the page
          done          \* what was written: for whom the tab had signed in, and for whom

vars == <<owner, live, cookie, token, page, done>>

Steps == {"start", "asking", "opening", "waiting", "signing", "loading", "end"}

NoPage == [screen |-> "none", step |-> "end", aborted |-> FALSE,
           launch |-> FALSE, reply |-> Nothing]
Opened(launch) == [screen |-> "loading", step |-> "start", aborted |-> FALSE,
                   launch |-> launch, reply |-> Nothing]

Init ==
  /\ owner = [s \in Sessions |-> Nothing]
  /\ live = {}
  /\ cookie = Nothing
  /\ token = [t \in Tabs |-> Nothing]
  /\ page = [t \in Tabs |-> NoPage]
  /\ done = {}

At(t, step) == page[t].step = step
Set(t, changes) == page' = [page EXCEPT ![t] = changes]
Step(t, step) == [page[t] EXCEPT !.step = step, !.reply = Nothing]
Ended(t, screen) == [NoPage EXCEPT !.screen = screen, !.aborted = page[t].aborted]

-----------------------------------------------------------------------------
(* The server *)

(* requireAuth: the cookie goes before the token.                          *)
Identified(t) ==
  LET id == IF cookie # Nothing THEN cookie ELSE token[t]
  IN  IF id \in live THEN id ELSE Nothing

(* Bug a run must catch: nobody looks whether the page and the session that *)
(* was found belong together.                                              *)
NoCsrf(t) == TRUE

(* requireCsrf: the token of the page must be that of the session.         *)
RequireCsrf(t) == Identified(t) = token[t]

(* createSession; the browser sees the cookie when the answer comes.       *)
CreateSession(t) ==
  /\ At(t, "signing") /\ page[t].reply = Nothing
  /\ \E s \in Sessions :
       /\ owner[s] = Nothing
       /\ owner' = [owner EXCEPT ![s] = t]
       /\ live' = live \cup {s}
       /\ Set(t, [page[t] EXCEPT !.reply = s])
  /\ UNCHANGED <<cookie, token, done>>

SessionExpires(s) ==
  /\ s \in live
  /\ live' = live \ {s}
  /\ UNCHANGED <<owner, cookie, token, page, done>>

-----------------------------------------------------------------------------
(* The page *)

(* Opened or loaded again, with the launch data of the messenger at hand or *)
(* not.                                                                    *)
Open(t) ==
  /\ page[t].screen # "loading"
  /\ \E launch \in BOOLEAN : Set(t, Opened(launch))
  /\ UNCHANGED <<owner, live, cookie, token, done>>

(* The SDK brings the launch data late.                                    *)
LaunchDataCome(t) ==
  /\ page[t].step # "end" /\ ~page[t].launch
  /\ Set(t, [page[t] EXCEPT !.launch = TRUE])
  /\ UNCHANGED <<owner, live, cookie, token, done>>

(* authenticate: launch data that are there go before a session that is.   *)
Authenticate(t) ==
  /\ At(t, "start")
  /\ Set(t, Step(t, IF page[t].launch THEN "signing" ELSE "asking"))
  /\ UNCHANGED <<owner, live, cookie, token, done>>

(* GET /auth/session.                                                      *)
GetSession(t) ==
  /\ At(t, "asking")
  /\ Set(t, IF Identified(t) = Nothing THEN Step(t, "waiting")
            ELSE [page[t] EXCEPT !.step = "opening", !.reply = Identified(t)])
  /\ UNCHANGED <<owner, live, cookie, token, done>>

(* waitForMessengerLaunchData: what comes within three seconds is used.     *)
UseLaunchData(t) ==
  /\ At(t, "waiting") /\ page[t].launch
  /\ Set(t, Step(t, "signing"))
  /\ UNCHANGED <<owner, live, cookie, token, done>>

(* An answer to a cancelled request is not used.                           *)
Wanted(t) == ~page[t].aborted

(* saveAuthSession; the browser keeps the cookie in any case.              *)
SaveAuthSession(t) ==
  /\ page[t].step \in {"opening", "signing"} /\ page[t].reply # Nothing
  /\ cookie' = IF At(t, "signing") THEN page[t].reply ELSE cookie
  /\ IF Wanted(t)
     THEN token' = [token EXCEPT ![t] = page[t].reply] /\ Set(t, Step(t, "loading"))
     ELSE UNCHANGED token /\ Set(t, Ended(t, "error"))
  /\ UNCHANGED <<owner, live, done>>

(* GET /me.                                                                *)
RefreshUser(t) ==
  /\ At(t, "loading")
  /\ Set(t, IF Identified(t) = Nothing \/ ~Wanted(t) THEN Ended(t, "error")
            ELSE Ended(t, "ready"))
  /\ UNCHANGED <<owner, live, cookie, token, done>>

(* An answer that is an error, or no answer: the page says so, unless it    *)
(* has given up before.                                                    *)
Fail(t) ==
  /\ page[t].step \notin {"start", "end"}
  /\ Set(t, Ended(t, "error"))
  /\ UNCHANGED <<owner, live, cookie, token, done>>

(* Bug a run must catch: the time is that of signing in only.              *)
TimeoutOfSigningIn(t) == page[t].step \in Steps \ {"loading", "end"}

(* One time of fifteen seconds for all of it.                              *)
TimeoutRuns(t) == page[t].step # "end"

Timeout(t) ==
  /\ page[t].screen = "loading" /\ TimeoutRuns(t)
  /\ Set(t, [page[t] EXCEPT !.aborted = TRUE, !.screen = "error"])
  /\ UNCHANGED <<owner, live, cookie, token, done>>

(* Any request of a page that changes something.                           *)
Write(t) ==
  /\ page[t].screen = "ready" /\ Identified(t) # Nothing /\ RequireCsrf(t)
  /\ done' = done \cup {<<owner[token[t]], owner[Identified(t)]>>}
  /\ UNCHANGED <<owner, live, cookie, token, page>>

Next ==
  \/ \E t \in Tabs :
       \/ Open(t) \/ LaunchDataCome(t) \/ Authenticate(t) \/ GetSession(t)
       \/ UseLaunchData(t) \/ CreateSession(t) \/ SaveAuthSession(t)
       \/ RefreshUser(t) \/ Fail(t) \/ Timeout(t) \/ Write(t)
  \/ \E s \in Sessions : SessionExpires(s)

(* The timer of the page fires; nothing is asked of the network.           *)
Fairness == \A t \in Tabs : WF_vars(Timeout(t))

Spec == Init /\ [][Next]_vars
FairSpec == Spec /\ Fairness

-----------------------------------------------------------------------------
(* Properties *)

(* auth.ts: the cookie may be the one another account left in the browser.  *)
(* Whoever signs in in whichever tab, and whatever expires, what a page     *)
(* writes is written for the person whose session the page has.            *)
WritesAreOfTheTab == \A write \in done : write[1] = write[2]

(* session-provider.tsx bounds the entire startup: whatever does not answer, *)
(* the page stops loading.                                                 *)
StartupEnds == \A t \in Tabs : page[t].screen = "loading" ~> page[t].screen # "loading"
=============================================================================
