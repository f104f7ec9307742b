----------------------------- MODULE MCMessages -----------------------------
(***************************************************************************)
(* What the outbox feeds, one or the other in a behaviour: the             *)
(* synchronisation with the CRM, and the announcements of the bot.         *)
(***************************************************************************)
EXTENDS Naturals, TLC

CONSTANTS Relays, MaxTries, Nothing,
          Profile, Participations, Materials, Editors, CrmWorkers, Answers, MaxEdits,
          MaxReadied, MaxOutages, MaxCrashes, MaxEvents,
          Posts, Campaigns, People, Legacy, BotWorkers, BotTries, MaxTime, MaxChanges,
          MaxBreaks

VARIABLES row, job, relay, version, submission, editing, call, sweep, known, received, spent

Crm == INSTANCE CrmSync
  WITH Rows <- {Profile} \cup Participations \cup Materials, Workers <- CrmWorkers,
       Nobody <- Nothing, Submissions <- Materials, Handlers <- Editors,
       accepted <- received

ASSUME Crm!OutboxAssumption /\ Crm!CrmAssumption

crmVars == <<row, job, relay, version, submission, editing, call, sweep, known, received, spent>>

VARIABLES postRow, postJob, postRelay, now, post, campaign, availableAt, reachable,
          delivered, run, edits, breaks, told, audience, refused, focus

Bot == INSTANCE Broadcasts
  WITH Rows <- Posts \cup Campaigns, Workers <- BotWorkers, MaxTries <- BotTries,
       Nobody <- Nothing, MaxEdits <- MaxChanges, row <- postRow, job <- postJob, relay <- postRelay

ASSUME Bot!OutboxAssumption /\ Bot!BroadcastsAssumption

botVars == <<postRow, postJob, postRelay, now, post, campaign, availableAt, reachable,
             delivered, run, edits, breaks, told, audience, refused>>
-----------------------------------------------------------------------------

MessagesInit ==
  /\ Crm!Init /\ Bot!Init
  /\ focus \in {"crm", "bot"}

(* Edits, submissions that become ready, outages and crashes, all together. *)
FewEvents == spent'.edits + spent'.outages + spent'.crashes + spent'.readied <= MaxEvents

(* Either the worker schedules the post, or an administrator announces it. *)
OneAnnouncement == \E r, q \in Posts \cup Campaigns : r # q /\ postRow'[r] = "none"

MessagesNext ==
  \/ focus = "crm" /\ Crm!Next /\ FewEvents /\ UNCHANGED <<botVars, focus>>
  \/ focus = "bot" /\ Bot!Next /\ OneAnnouncement /\ UNCHANGED <<crmVars, focus>>

MessagesSpec ==
  /\ MessagesInit
  /\ [][MessagesNext]_<<crmVars, botVars, focus>>
  /\ Crm!Fairness

(* See CrmSync and Broadcasts. *)
EveryReadySubmissionIsSettled == Crm!EveryReadySubmissionIsSettled
CompletedMeansTold == Bot!CompletedMeansTold
ToldOnce == Bot!ToldOnce
=============================================================================
