----------------------------- MODULE Broadcasts -----------------------------
(***************************************************************************)
(* Announcements of content to everyone: scheduled by the worker for what  *)
(* is to be published later (worker/content-broadcasts.ts), or asked for   *)
(* by an administrator (routes/admin-broadcasts.ts), relayed by Outbox and *)
(* sent by the bot, recipient by recipient (bot/src/index.ts).             *)
(*                                                                         *)
(* Content is a feed post, and products and events alike: whether it is    *)
(* public, and from when.  The messenger is external: it accepts a message,*)
(* refuses its recipient for good, or fails, perhaps after it delivered.   *)
(***************************************************************************)
EXTENDS Outbox

CONSTANTS Posts,        \* content; the row of its scheduled announcement
          Campaigns,    \* the Idempotency-Keys of POST /admin/broadcasts
          People,       \* active users; a user with two messengers is two
          Legacy,       \* those written to through users.telegram_user_id
          MaxTime,      \* bound: the clock runs from 0 to MaxTime
          MaxEdits,     \* bound: edits of content
          MaxBreaks     \* bound: failed sends, crashes and stalls

BroadcastsAssumption ==
  /\ Rows = Posts \cup Campaigns /\ Posts \cap Campaigns = {}
  /\ Nobody \notin People \cup Posts /\ Legacy \subseteq People
  /\ IsFiniteSet(Workers)

VARIABLES now,
          post,         \* post -> is it public, and from when
          campaign,     \* campaign -> the post it announces
          availableAt,  \* row -> when it may be relayed
          reachable,    \* user_messenger_identities.can_message
          delivered,    \* row -> those with delivered_at
          run,          \* bot worker -> the job it is executing
          edits, breaks,
          told,         \* ghost: row -> recipient -> messages that arrived
          audience,     \* ghost: row -> whom the last run read
          refused       \* ghost: row -> whom the messenger refused

own == <<now, post, campaign, availableAt, reachable, delivered, run, edits, breaks,
         told, audience, refused>>
vars == <<outboxVars, own>>

Resting0 == [row |-> Nobody, todo |-> {}, failed |-> FALSE, sent |-> Nobody]
Run == [row : Rows \cup {Nobody}, todo : SUBSET People, failed : BOOLEAN,
        sent : People \cup {Nobody}]

TypeOK ==
  /\ OutboxTypeOK
  /\ now \in 0 .. MaxTime
  /\ post \in [Posts -> [public : BOOLEAN, from : 0 .. MaxTime]]
  /\ campaign \in [Campaigns -> Posts \cup {Nobody}]
  /\ availableAt \in [Rows -> 0 .. MaxTime]
  /\ reachable \subseteq People
  /\ delivered \in [Rows -> SUBSET People]
  /\ run \in [Workers -> Run]
  /\ edits \in 0 .. MaxEdits /\ breaks \in 0 .. MaxBreaks
  /\ told \in [Rows -> [People -> 0 .. MaxBreaks + 1]]
  /\ audience \in [Rows -> SUBSET People] /\ refused \in [Rows -> SUBSET People]

Init ==
  /\ OutboxInit
  /\ now = 0
  /\ post = [c \in Posts |-> [public |-> FALSE, from |-> 0]]
  /\ campaign = [k \in Campaigns |-> Nobody]
  /\ availableAt = [r \in Rows |-> 0]
  /\ reachable = People
  /\ delivered = [r \in Rows |-> {}]
  /\ run = [w \in Workers |-> Resting0]
  /\ edits = 0 /\ breaks = 0
  /\ told = [r \in Rows |-> [p \in People |-> 0]]
  /\ audience = [r \in Rows |-> {}] /\ refused = [r \in Rows |-> {}]

-----------------------------------------------------------------------------

Live(c) == post[c].public /\ post[c].from <= now

Tick ==
  /\ now < MaxTime
  /\ now' = now + 1
  /\ UNCHANGED <<outboxVars, post, campaign, availableAt, reachable, delivered, run, edits,
                 breaks, told, audience, refused>>

(* PATCH and POST of posts, products and events; none of them touches the  *)
(* outbox.                                                                 *)
EditPost(c, public, from) ==
  /\ edits < MaxEdits /\ post[c] # [public |-> public, from |-> from]
  /\ post' = [post EXCEPT ![c] = [public |-> public, from |-> from]]
  /\ edits' = edits + 1
  /\ UNCHANGED <<outboxVars, now, campaign, availableAt, reachable, delivered, run, breaks,
                 told, audience, refused>>

(* reconcileContentBroadcastSchedules, every five minutes: what is to be   *)
(* published later gets a row, once; a row that is there is left alone.    *)
Scheduled == {c \in Posts : post[c].public /\ post[c].from > now}

Schedule ==
  LET fresh == {c \in Scheduled : row[c] = "none"}
  IN  /\ fresh # {}
      /\ row' = Inserted(fresh, "later")
      /\ availableAt' = [r \in Rows |-> IF r \in fresh THEN post[r].from ELSE availableAt[r]]
      /\ UNCHANGED <<job, relay, now, post, campaign, reachable, delivered, run, edits, breaks,
                     told, audience, refused>>

(* POST /admin/broadcasts: content that is public now, a row per key.  The *)
(* key names post and administrator too, so that it means one post; used   *)
(* again before its row is relayed, it only resets the delay.              *)
Announce(k, c) ==
  /\ Live(c) /\ campaign[k] \in {Nobody, c}
  /\ row' = [row EXCEPT ![k] = IF @ = "processed" THEN @ ELSE "due"]
  /\ availableAt' = [availableAt EXCEPT ![k] = IF row[k] = "processed" THEN @ ELSE now]
  /\ campaign' = [campaign EXCEPT ![k] = c]
  /\ UNCHANGED <<job, relay, now, post, reachable, delivered, run, edits, breaks,
                 told, audience, refused>>

(* A row becomes available at its time, or after the delay of a failure.   *)
BecomesDue(r) == availableAt[r] <= now /\ Ripen(r) /\ UNCHANGED own

RelayStep ==
  /\ \E p \in Relays :
       \/ ReadRows(p) \/ MarkRow(p)
       \/ \E r \in Rows : AddJob(p, r) \/ RelayFails(p, r)
  /\ UNCHANGED own

-----------------------------------------------------------------------------
(* The bot *)

Announced(r) == IF r \in Posts THEN r ELSE campaign[r]

(* deliveryEndpoints: identities that may be messaged, or the old column.  *)
Endpoints == reachable \cup Legacy

SetRun(w, record) == run' = [run EXCEPT ![w] = record]

(* The job reads the content, which may have changed, and its recipients.  *)
TakeJob(w, r) ==
  LET readers == IF Live(Announced(r)) THEN Endpoints ELSE {}
  IN  /\ run[w] = Resting0 /\ job[r].status = "waiting"
      /\ job' = Started(r, w)
      /\ SetRun(w, [row |-> r, todo |-> readers, failed |-> FALSE, sent |-> Nobody])
      /\ audience' = [audience EXCEPT ![r] = readers]
      /\ UNCHANGED <<row, relay, now, post, campaign, availableAt, reachable, delivered, edits,
                     breaks, told, refused>>

InTurn(w, p) == run[w].sent = Nobody /\ p \in run[w].todo

(* Bug a run must catch: delivered_at is not looked at. *)
NeverDelivered(r, p) == FALSE

AlreadyDelivered(r, p) == p \in delivered[r]

Skip(w, p) ==
  /\ InTurn(w, p) /\ AlreadyDelivered(run[w].row, p)
  /\ SetRun(w, [run[w] EXCEPT !.todo = @ \ {p}])
  /\ UNCHANGED <<outboxVars, now, post, campaign, availableAt, reachable, delivered, edits,
                 breaks, told, audience, refused>>

Arrives(r, p) == told' = [told EXCEPT ![r][p] = @ + 1]

Send(w, p) ==
  /\ InTurn(w, p) /\ ~AlreadyDelivered(run[w].row, p)
  /\ Arrives(run[w].row, p)
  /\ SetRun(w, [run[w] EXCEPT !.sent = p])
  /\ UNCHANGED <<outboxVars, now, post, campaign, availableAt, reachable, delivered, edits,
                 breaks, audience, refused>>

RecordDelivery(w) ==
  LET p == run[w].sent
      r == run[w].row
  IN  /\ p # Nobody
      /\ delivered' = [delivered EXCEPT ![r] = @ \cup {p}]
      /\ SetRun(w, [run[w] EXCEPT !.todo = @ \ {p}, !.sent = Nobody])
      /\ UNCHANGED <<outboxVars, now, post, campaign, availableAt, reachable, edits, breaks,
                     told, audience, refused>>

(* The recipient blocked the bot: not written to again, not counted.       *)
RefusedForGood(w, p) ==
  /\ InTurn(w, p) /\ ~AlreadyDelivered(run[w].row, p)
  /\ reachable' = reachable \ {p}
  /\ refused' = [refused EXCEPT ![run[w].row] = @ \cup {p}]
  /\ SetRun(w, [run[w] EXCEPT !.todo = @ \ {p}])
  /\ UNCHANGED <<outboxVars, now, post, campaign, availableAt, delivered, edits, breaks,
                 told, audience>>

(* The recipient writes to the bot again (identities are upserted).        *)
Returns(p) ==
  /\ p \notin reachable
  /\ reachable' = reachable \cup {p}
  /\ UNCHANGED <<outboxVars, now, post, campaign, availableAt, delivered, run, edits, breaks,
                 told, audience, refused>>

Break == breaks < MaxBreaks /\ breaks' = breaks + 1

(* Bug a run must catch: a failure that may pass is not counted. *)
ForgottenFailure(w, p) == [run[w] EXCEPT !.todo = @ \ {p}]

FailedFor(w, p) == [run[w] EXCEPT !.todo = @ \ {p}, !.failed = TRUE]

(* Any other error; the message may have arrived all the same.             *)
SendFails(w, p) ==
  /\ InTurn(w, p) /\ ~AlreadyDelivered(run[w].row, p)
  /\ Break
  /\ Arrives(run[w].row, p) \/ UNCHANGED told
  /\ SetRun(w, FailedFor(w, p))
  /\ UNCHANGED <<outboxVars, now, post, campaign, availableAt, reachable, delivered, edits,
                 audience, refused>>

(* After the last recipient the job succeeds, or fails and is retried.     *)
Conclude(w) ==
  LET r == run[w].row
  IN  /\ r # Nobody /\ run[w].todo = {} /\ run[w].sent = Nobody
      /\ job' = IF run[w].failed THEN Thrown(r, w) ELSE Completed(r, w)
      /\ SetRun(w, Resting0)
      /\ UNCHANGED <<row, relay, now, post, campaign, availableAt, reachable, delivered, edits,
                     breaks, told, audience, refused>>

(* The bot dies, or is so late that the queue takes its job away; then the *)
(* run goes on, and ends without effect on the job.                        *)
Interrupted(w) ==
  LET r == run[w].row
  IN  /\ r # Nobody /\ job[r].worker = w
      /\ Break
      /\ job' = Stalled({r})
      /\ SetRun(w, Resting0) \/ UNCHANGED run
      /\ UNCHANGED <<row, relay, now, post, campaign, availableAt, reachable, delivered, edits,
                     told, audience, refused>>

Next ==
  \/ Tick \/ Schedule
  \/ \E c \in Posts :
       \/ \E public \in BOOLEAN, from \in 0 .. MaxTime : EditPost(c, public, from)
       \/ \E k \in Campaigns : Announce(k, c)
  \/ RelayStep
  \/ \E r \in Rows : BecomesDue(r) \/ (Forget(r) /\ UNCHANGED own)
  \/ \E p \in People : Returns(p)
  \/ \E w \in Workers :
       \/ \E r \in Rows : TakeJob(w, r)
       \/ \E p \in People :
            Skip(w, p) \/ Send(w, p) \/ RefusedForGood(w, p) \/ SendFails(w, p)
       \/ RecordDelivery(w) \/ Conclude(w) \/ Interrupted(w)

Spec == Init /\ [][Next]_vars

-----------------------------------------------------------------------------
(* Properties *)

(* A job that completes has told everyone it read, except those whom the   *)
(* messenger refused for good: no retry, no overlap of two runs of a job   *)
(* that stalled, and no row queued twice leaves a recipient out.           *)
CompletedMeansTold ==
  \A r \in Rows :
     job[r].status = "completed" =>
       audience[r] \subseteq delivered[r] \cup refused[r]

(* Nobody gets an announcement twice, but for sends whose outcome was lost *)
(* and runs that were interrupted, one message for each.                   *)
ToldOnce == \A r \in Rows, p \in People : told[r][p] <= 1 + breaks
=============================================================================
