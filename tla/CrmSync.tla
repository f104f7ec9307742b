------------------------------ MODULE CrmSync ------------------------------
(***************************************************************************)
(* What a user does that the CRM has to learn (worker/crm-sync.ts): the    *)
(* profile, the participations, and the submissions that became ready,     *)
(* sent by jobs, by the reconciliation of every five minutes and by the    *)
(* backfill of a starting worker.                                          *)
(*                                                                         *)
(* A call of the CRM is three steps: what the database said is read, the   *)
(* CRM receives it and answers, the answer is recorded.  The CRM is        *)
(* external; it may answer 2xx, 202 (a person has to look), a 4xx that no  *)
(* retry heals, or fail with or without having received the call.          *)
(***************************************************************************)
EXTENDS Outbox

CONSTANTS Profile,      \* the row of the user, crm.user.sync
          Participations,  \* the events the user may join
          Submissions,  \* the submissions of the user
          Handlers,     \* requests that edit the profile
          Answers,      \* what the CRM may answer, besides failing
          MaxEdits,     \* bound: profile edits and joins, together
          MaxReadied,   \* bound: submissions that become ready or fail
          MaxOutages,   \* bound: calls that fail
          MaxCrashes    \* bound: deaths of the worker process or of a request

Documents == {Profile} \cup Participations

CrmAssumption ==
  /\ Rows = Documents \cup Submissions
  /\ Profile \notin Participations /\ Documents \cap Submissions = {}
  /\ Answers \subseteq {"done", "review", "rejected"}

VARIABLES version,      \* document -> its last edit; 0: there is none
          submission,   \* submission -> its state and what the CRM said
          editing,      \* request -> how far its edit of the profile is
          call,         \* worker -> the call of the CRM it is making
          sweep,        \* what the reconciliation still has to look at
          known,        \* CRM: document -> the edit it knows
          accepted,     \* CRM: the submissions it has an artifact of
          spent         \* what the bounds count

own == <<version, submission, editing, call, sweep, known, accepted, spent>>
vars == <<outboxVars, own>>

(* The reconciliation calls the CRM by itself, one row after another.      *)
Reconciler == "reconciliation"
Callers == Workers \cup {Reconciler}

Status == {"processing", "ready", "failed"}
Submission == [status : Status, synced : BOOLEAN, review : BOOLEAN, error : BOOLEAN]

Quiet == [row |-> Nobody, saw |-> 0, answer |-> "none"]
Call == [row : Rows \cup {Nobody}, saw : 0 .. MaxEdits,
         answer : {"none", "failed"} \cup Answers]

Steps == {"idle", "edited", "armed", "selected", "rearmed"}

TypeOK ==
  /\ OutboxTypeOK
  /\ version \in [Documents -> 0 .. MaxEdits]
  /\ submission \in [Submissions -> Submission]
  /\ editing \in [Handlers -> [step : Steps, pending : SUBSET Submissions]]
  /\ call \in [Callers -> Call]
  /\ sweep \subseteq Rows
  /\ known \in [Documents -> 0 .. MaxEdits]
  /\ accepted \subseteq Submissions
  /\ spent \in [edits : 0 .. MaxEdits, readied : 0 .. MaxReadied,
                outages : 0 .. MaxOutages, crashes : 0 .. MaxCrashes]

Unsent == [status |-> "processing", synced |-> FALSE, review |-> FALSE, error |-> FALSE]
Idle == [step |-> "idle", pending |-> {}]

Init ==
  /\ OutboxInit
  /\ version = [d \in Documents |-> 0]
  /\ submission = [s \in Submissions |-> Unsent]
  /\ editing = [h \in Handlers |-> Idle]
  /\ call = [w \in Callers |-> Quiet]
  /\ sweep = {}
  /\ known = [d \in Documents |-> 0]
  /\ accepted = {}
  /\ spent = [edits |-> 0, readied |-> 0, outages |-> 0, crashes |-> 0]

-----------------------------------------------------------------------------
(* The API and the bot *)

Spend(what, limit) ==
  /\ spent[what] < limit
  /\ spent' = [spent EXCEPT ![what] = @ + 1]

Step(h, step, pending) == editing' = [editing EXCEPT ![h] = [step |-> step, pending |-> pending]]

(* PATCH /me and POST /me/max-contact change the user ...                  *)
EditProfile(h) ==
  /\ editing[h] = Idle
  /\ Spend("edits", MaxEdits)
  /\ version' = [version EXCEPT ![Profile] = @ + 1]
  /\ Step(h, "edited", {})
  /\ UNCHANGED <<outboxVars, submission, call, sweep, known, accepted>>

(* ... and then, a statement each: arm the row of the user, ...            *)
ArmProfile(h) ==
  /\ editing[h].step = "edited"
  /\ row' = Rearmed({Profile})
  /\ Step(h, "armed", {})
  /\ UNCHANGED <<job, relay, version, submission, call, sweep, known, accepted, spent>>

(* ... select the submissions the CRM does not have, ...                   *)
SelectPending(h) ==
  LET pending == {s \in Submissions : submission[s].status = "ready" /\ ~submission[s].synced}
  IN  /\ editing[h].step = "armed"
      /\ IF pending = {} THEN Step(h, "idle", {}) ELSE Step(h, "selected", pending)
      /\ UNCHANGED <<outboxVars, version, submission, call, sweep, known, accepted, spent>>

(* ... arm their rows, ...                                                 *)
ArmPending(h) ==
  /\ editing[h].step = "selected"
  /\ row' = Rearmed(editing[h].pending)
  /\ Step(h, "rearmed", {})
  /\ UNCHANGED <<job, relay, version, submission, call, sweep, known, accepted, spent>>

(* ... and forget why the CRM refused them.                                *)
ClearErrors(h) ==
  /\ editing[h].step = "rearmed"
  /\ submission' = [s \in Submissions |->
       IF submission[s].synced THEN submission[s] ELSE [submission[s] EXCEPT !.error = FALSE]]
  /\ Step(h, "idle", {})
  /\ UNCHANGED <<outboxVars, version, call, sweep, known, accepted, spent>>

(* The request dies, or a statement fails.                                 *)
EditFails(h) ==
  /\ editing[h].step # "idle"
  /\ Spend("crashes", MaxCrashes)
  /\ Step(h, "idle", {})
  /\ UNCHANGED <<outboxVars, version, submission, call, sweep, known, accepted>>

(* POST /events/:id/participate and the quick answer that joins, in one    *)
(* transaction; a participant who was removed may join again.              *)
Join(d) ==
  /\ version[d] = 0
  /\ Spend("edits", MaxEdits)
  /\ version' = [version EXCEPT ![d] = known[d] + 1]
  /\ row' = Rearmed({d})
  /\ UNCHANGED <<job, relay, submission, editing, call, sweep, known, accepted>>

(* DELETE /admin/events/:id/participants/:userId, which the CRM is not told. *)
Leave(d) ==
  /\ version[d] # 0
  /\ version' = [version EXCEPT ![d] = 0]
  /\ UNCHANGED <<outboxVars, submission, editing, call, sweep, known, accepted, spent>>

(* The last file of a submission is verified, or a text is sent: the row   *)
(* is inserted once and for all.                                           *)
BecomesReady(s) ==
  /\ submission[s].status # "ready"
  /\ Spend("readied", MaxReadied)
  /\ submission' = [submission EXCEPT ![s].status = "ready"]
  /\ row' = Inserted({s}, "due")
  /\ UNCHANGED <<job, relay, version, editing, call, sweep, known, accepted>>

(* An earlier verification of one of its files fails after all.            *)
BecomesFailed(s) ==
  /\ submission[s].status = "ready"
  /\ submission' = [submission EXCEPT ![s].status = "failed"]
  /\ UNCHANGED <<outboxVars, version, editing, call, sweep, known, accepted, spent>>

(* POST /admin/event-requests/:id/retry-crm.                               *)
RetryCrm(s) ==
  /\ submission[s].status = "ready"
  /\ Spend("edits", MaxEdits)
  /\ submission' = [submission EXCEPT ![s].review = FALSE, ![s].error = FALSE]
  /\ row' = Rearmed({s})
  /\ UNCHANGED <<job, relay, version, editing, call, sweep, known, accepted>>

-----------------------------------------------------------------------------
(* The worker *)

(* What a call of the CRM for a row needs to be made at all.               *)
Sendable(r) ==
  IF r \in Documents THEN version[r] # 0
  ELSE submission[r].status = "ready" /\ ~submission[r].synced

Seen(r) == IF r \in Documents THEN version[r] ELSE 0

Begin(w, r) == call' = [call EXCEPT ![w] = [row |-> r, saw |-> Seen(r), answer |-> "none"]]

TakeJob(w, r) ==
  /\ call[w] = Quiet /\ job[r].status = "waiting"
  /\ IF Sendable(r)
     THEN job' = Started(r, w) /\ Begin(w, r)
     ELSE job' = [job EXCEPT ![r].status = "completed"] /\ UNCHANGED call
  /\ UNCHANGED <<row, relay, version, submission, editing, sweep, known, accepted, spent>>

(* Bug a run must catch: what was refused is what the reconciliation takes. *)
UnsettledRefused(s) ==
  /\ submission[s].status = "ready" /\ ~submission[s].synced
  /\ ~submission[s].review /\ submission[s].error

Unsettled(s) ==
  /\ submission[s].status = "ready" /\ ~submission[s].synced
  /\ ~submission[s].review /\ ~submission[s].error

StartSweep ==
  /\ sweep = {} /\ call[Reconciler] = Quiet
  /\ \E s \in Submissions : Unsettled(s)
  /\ sweep' = {s \in Submissions : Unsettled(s)}
  /\ UNCHANGED <<outboxVars, version, submission, editing, call, known, accepted, spent>>

(* Each row is read again before it is sent.                               *)
SweepOne(r) ==
  /\ r \in sweep /\ call[Reconciler] = Quiet
  /\ sweep' = sweep \ {r}
  /\ IF Sendable(r) THEN Begin(Reconciler, r) ELSE UNCHANGED call
  /\ UNCHANGED <<outboxVars, version, submission, editing, known, accepted, spent>>

(* The CRM gets the call and answers; it never unlearns a submission.      *)
Receives(w) ==
  LET r == call[w].row
  IN  IF r \in Documents
      THEN known' = [known EXCEPT ![r] = call[w].saw] /\ UNCHANGED accepted
      ELSE accepted' = accepted \cup {r} /\ UNCHANGED known

Calling(w) == call[w].row # Nobody /\ call[w].answer = "none"
Answered(w, answer) == call' = [call EXCEPT ![w].answer = answer]

Answer(w, answer) ==
  /\ Calling(w)
  /\ call[w].row \in accepted => answer = "done"
  /\ call[w].row \in Documents => answer # "review"
  /\ IF answer = "done" THEN Receives(w) ELSE UNCHANGED <<known, accepted>>
  /\ Answered(w, answer)
  /\ UNCHANGED <<outboxVars, version, submission, editing, sweep, spent>>

(* 5xx, 408, 429, a timeout: whether the CRM acted on the call is unknown. *)
AnswerLost(w) ==
  /\ Calling(w)
  /\ Spend("outages", MaxOutages)
  /\ Receives(w) \/ UNCHANGED <<known, accepted>>
  /\ Answered(w, "failed")
  /\ UNCHANGED <<outboxVars, version, submission, editing, sweep>>

(* Of documents nothing is recorded but the person, whom the models leave  *)
(* out.  The state of the submission is not looked at again.               *)
Recorded(s, answer) ==
  CASE answer = "done" ->
         [submission[s] EXCEPT !.synced = TRUE, !.review = FALSE, !.error = FALSE]
    [] answer = "review" -> [submission[s] EXCEPT !.review = TRUE, !.error = FALSE]
    [] answer = "rejected" -> [submission[s] EXCEPT !.error = TRUE]
    [] OTHER -> submission[s]

Conclude(w) ==
  LET r == call[w].row
      answer == call[w].answer
  IN  /\ answer # "none"
      /\ submission' = IF r \in Submissions
                       THEN [submission EXCEPT ![r] = Recorded(r, answer)] ELSE submission
      /\ job' = IF w = Reconciler THEN job
                ELSE IF answer = "failed" THEN Thrown(r, w) ELSE Completed(r, w)
      /\ call' = [call EXCEPT ![w] = Quiet]
      /\ UNCHANGED <<row, relay, version, editing, sweep, known, accepted, spent>>

(* The process dies and starts again: what it was doing is lost, its jobs  *)
(* stall, and the backfill sends every profile and participation.          *)
Restart ==
  /\ Spend("crashes", MaxCrashes)
  /\ relay' = [p \in Relays |-> Resting]
  /\ call' = [w \in Callers |-> Quiet]
  /\ job' = Stalled(Rows)
  /\ sweep' = Documents
  /\ UNCHANGED <<row, version, submission, editing, known, accepted>>

RelayStep ==
  /\ \E p \in Relays :
       \/ ReadRows(p) \/ MarkRow(p)
       \/ \E r \in Rows : AddJob(p, r) \/ RelayFails(p, r)
  /\ UNCHANGED own

Next ==
  \/ \E h \in Handlers :
       \/ EditProfile(h) \/ ArmProfile(h) \/ SelectPending(h)
       \/ ArmPending(h) \/ ClearErrors(h) \/ EditFails(h)
  \/ \E d \in Participations : Join(d) \/ Leave(d)
  \/ \E s \in Submissions : BecomesReady(s) \/ BecomesFailed(s) \/ RetryCrm(s)
  \/ RelayStep
  \/ \E r \in Rows : (Ripen(r) \/ Forget(r)) /\ UNCHANGED own
  \/ \E w \in Workers, r \in Rows : TakeJob(w, r)
  \/ StartSweep \/ \E r \in Rows : SweepOne(r)
  \/ \E w \in Callers :
       \/ \E answer \in Answers : Answer(w, answer)
       \/ AnswerLost(w) \/ Conclude(w)
  \/ Restart

Spec == Init /\ [][Next]_vars

(* The timers of the worker fire, and the CRM, which fails finitely often,  *)
(* answers.                                                                 *)
Fairness ==
  /\ WF_vars(StartSweep)
  /\ \A r \in Rows : WF_vars(SweepOne(r))
  /\ \A w \in Callers :
       WF_vars(\E answer \in Answers : Answer(w, answer)) /\ WF_vars(Conclude(w))

FairSpec == Spec /\ Fairness

-----------------------------------------------------------------------------
(* Properties *)

(* A submission that is ready ends up with the CRM, with a person who has  *)
(* to look at it, or with the refusal recorded for the administrators,     *)
(* though its row is announced once, its job may fail for good, and the    *)
(* worker may die at any point (syncReadySubmissionsToCrm).                *)
Settled(s) == submission[s].synced \/ submission[s].review \/ submission[s].error

EveryReadySubmissionIsSettled ==
  \A s \in Submissions :
     submission[s].status = "ready" ~> Settled(s) \/ submission[s].status # "ready"
=============================================================================
