---------------------------- MODULE MCBackground ----------------------------
(***************************************************************************)
(* Four things that have to come to an end, one of them in a behaviour: the *)
(* exports of an event, the verification of an upload, the rewards of       *)
(* finished artifacts, and the start of the Mini App.  They share no state  *)
(* here; what is not in focus stays as it began.                            *)
(***************************************************************************)
EXTENDS EventExports

CONSTANTS Users, Events, MaxSeason, Event, Submissions, Author, MaxTime, Welcome, Policies,
          Uploads, Batches, Nobody, Tabs, Sessions

VARIABLES season, account, balance, ledger, now, opened, submission, policy, claim, row,
          direct, plan,
          artifact, batch, accepting, outbox, stored, multipart, infected,
          verification, verifier, upload,
          owner, live, cookie, token, page, done, focus

Rewards == INSTANCE ArtifactReward
rewardVars == <<season, account, balance, ledger, now, opened, submission, policy, claim,
                row, direct, plan>>

ASSUME Rewards!RewardAssumption

(* One upload, of one file that may be dangerous, and one verifier.         *)
Verifier == INSTANCE Artifacts
  WITH Artifacts <- Uploads, Submissions <- Batches, Multipart <- {}, Suspects <- Uploads,
       Destinations <- [a \in Uploads |-> {<<"x", "x (2)">>}],
       MinItems <- 1, MaxItems <- 1, Commands <- {"abort"}, PatchStatuses <- {},
       Handlers <- {"h"}, Workers <- {"w"}, MaxStalls <- 1,
       submission <- batch, object <- stored, job <- verification, worker <- verifier,
       request <- upload
uploadVars == <<artifact, batch, accepting, outbox, stored, multipart, infected,
                verification, verifier, upload>>

(* Tabs of one browser. *)
Web == INSTANCE Startup
webVars == <<owner, live, cookie, token, page, done>>

ASSUME Web!StartupAssumption

(* The values of the constants that a cfg cannot write down. *)
AllZip == [e \in Exports |-> "zip"]
OneAuthor == [s \in Submissions |-> CHOOSE u \in Users : TRUE]
AnyAndLate ==
  {[enabled |-> TRUE, manual |-> FALSE, amount |-> 1, from |-> 1, until |-> 9],
   [enabled |-> TRUE, manual |-> TRUE, amount |-> 2, from |-> 2, until |-> 3]}
-----------------------------------------------------------------------------

BackgroundInit ==
  /\ Init /\ Rewards!Init /\ Verifier!Init /\ Web!Init
  /\ focus \in {"exports", "uploads", "rewards", "startup"}
  /\ focus # "uploads" => infected = {}

(* One of the submissions goes back and forth; the others are finished once, *)
(* and stay.                                                                *)
Moving == CHOOSE s \in Submissions : TRUE
OthersStay ==
  \A s \in Submissions \ {Moving} :
    submission'[s] = submission[s] \/ submission[s].status = "none"

(* Sessions are opened in one order, and one tab has its launch data from  *)
(* the beginning.                                                          *)
FirstSession == CHOOSE s \in Sessions : TRUE
Prompt == CHOOSE t \in Tabs : TRUE
InOrder ==
  /\ \A s \in Sessions :
       owner'[s] # Nothing => s = FirstSession \/ owner[FirstSession] # Nothing
  /\ page'[Prompt].step # "end" => page'[Prompt].launch

BackgroundNext ==
  \/ focus = "exports" /\ Next /\ UNCHANGED <<rewardVars, uploadVars, webVars, focus>>
  \/ /\ focus = "rewards" /\ Rewards!Next /\ OthersStay
     /\ UNCHANGED <<vars, uploadVars, webVars, focus>>
  \/ focus = "uploads" /\ Verifier!Next /\ UNCHANGED <<vars, rewardVars, webVars, focus>>
  \/ /\ focus = "startup" /\ Web!Next /\ InOrder
     /\ UNCHANGED <<vars, rewardVars, uploadVars, focus>>

(* Where nothing was asked for nothing is due: each part asks for fairness *)
(* of its own.                                                             *)
BackgroundSpec ==
  /\ BackgroundInit
  /\ [][BackgroundNext]_<<vars, rewardVars, uploadVars, webVars, focus>>
  /\ Fairness /\ Rewards!Fairness /\ Verifier!Fairness /\ Web!Fairness

(* See ArtifactReward, Artifacts and Startup. *)
RewardedOnce == Rewards!RewardedOnce
PointsAreOfThisSeason == Rewards!PointsAreOfThisSeason
AnnouncedRewardArrives == Rewards!AnnouncedRewardArrives
EveryUploadIsSettled == Verifier!EveryUploadIsSettled
StartupEnds == Web!StartupEnds
WritesAreOfTheTab == Web!WritesAreOfTheTab
=============================================================================
