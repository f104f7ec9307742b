------------------------------ MODULE Pictures ------------------------------
(***************************************************************************)
(* The pictures of a product and the cover of a post (routes/              *)
(* admin-content.ts, product-media.ts, feed-cover.ts).  The browser puts a *)
(* file straight into the object storage, with a link that is valid for a  *)
(* while, and then asks the server to look at it.  A row and its object    *)
(* cannot change together, and the worker sweeps what was never completed. *)
(***************************************************************************)
EXTENDS FiniteSets, Naturals

CONSTANTS Media,        \* ids of pictures of the product, and of their objects
          Covers,       \* ids of uploads for the post, and of their objects
          Handlers,
          MaxItems,     \* PRODUCT_MEDIA_MAX_ITEMS
          Nothing

PicturesAssumption ==
  Media \cap Covers = {} /\ {Nothing, "link"} \cap (Media \cup Covers) = {}

VARIABLES media,        \* id -> the row of the picture
          expired,      \* links that are no longer valid
          issued,       \* links that were given out
          object,       \* id -> what the storage holds: nothing, the file announced, another
          cover,        \* the upload the post shows, a link elsewhere, or nothing
          completed,    \* uploads for the post whose completion was asked for
          request,      \* handler -> how far it is
          sweep,        \* pictures the worker found abandoned and has not swept yet
          unwanted      \* pictures whose removal was begun by somebody

vars == <<media, expired, issued, object, cover, completed, request, sweep, unwanted>>

Stored == Media \cup Covers
NoFile == "missing"
Idle == [work |-> "nothing", step |-> "idle", id |-> Nothing]

Init ==
  /\ media = [m \in Media |-> "none"]
  /\ expired = {} /\ issued = {}
  /\ object = [f \in Stored |-> NoFile]
  /\ cover = Nothing
  /\ completed = {}
  /\ request = [h \in Handlers |-> Idle]
  /\ sweep = {} /\ unwanted = {}

Begin(h, work, id) ==
  /\ request[h] = Idle
  /\ request' = [request EXCEPT ![h] = [work |-> work, step |-> "begun", id |-> id]]
At(h, work, step) == request[h].work = work /\ request[h].step = step
Go(h, step) == request' = [request EXCEPT ![h].step = step]
Finish(h) == request' = [request EXCEPT ![h] = Idle]
Remove(f) == object' = [object EXCEPT ![f] = NoFile]

-----------------------------------------------------------------------------
(* Links and files *)

(* The browser puts the file it announced, or one that is not what it said. *)
Put(f) ==
  /\ f \in issued \ expired
  /\ \E kind \in {"good", "bad"} : object' = [object EXCEPT ![f] = kind]
  /\ UNCHANGED <<media, expired, issued, cover, completed, request, sweep, unwanted>>

LinkExpires(f) ==
  /\ f \in issued \ expired
  /\ expired' = expired \cup {f}
  /\ UNCHANGED <<media, issued, object, cover, completed, request, sweep, unwanted>>

(* POST .../media/uploads counts the pictures ...                          *)
CountMedia(h) ==
  /\ Cardinality({m \in Media : media[m] # "none"}) < MaxItems
  /\ Begin(h, "init", Nothing)
  /\ UNCHANGED <<media, expired, issued, object, cover, completed, sweep, unwanted>>

(* ... and makes the row of a new one, with the link for its object.       *)
InsertMedia(h, m) ==
  /\ At(h, "init", "begun") /\ m \notin issued
  /\ media' = [media EXCEPT ![m] = "pending"]
  /\ issued' = issued \cup {m}
  /\ Finish(h)
  /\ UNCHANGED <<expired, object, cover, completed, sweep, unwanted>>

(* POST .../cover/upload keeps nothing.                                    *)
InitCover(c) ==
  /\ c \notin issued
  /\ issued' = issued \cup {c}
  /\ UNCHANGED <<media, expired, object, cover, completed, request, sweep, unwanted>>

-----------------------------------------------------------------------------
(* POST .../media/:mediaId/complete *)

ReadMedia(h, m) ==
  /\ media[m] = "pending" /\ m \notin expired
  /\ Begin(h, "complete", m)
  /\ UNCHANGED <<media, expired, issued, object, cover, completed, sweep, unwanted>>

(* HEAD, and the first bytes.                                              *)
IsGood(f) == object[f] = "good"

HeadMedia(h) ==
  LET m == request[h].id
  IN  /\ At(h, "complete", "begun")
      /\ \/ IsGood(m) /\ Go(h, "seen")
         \/ object[m] = "bad" /\ Go(h, "refused")
         \/ object[m] = NoFile /\ ~IsGood(m) /\ Finish(h)
      /\ UNCHANGED <<media, expired, issued, object, cover, completed, sweep, unwanted>>

MakeReady(h) ==
  LET m == request[h].id
  IN  /\ At(h, "complete", "seen")
      /\ media' = [media EXCEPT ![m] = IF @ = "pending" THEN "ready" ELSE @]
      /\ Finish(h)
      /\ UNCHANGED <<expired, issued, object, cover, completed, sweep, unwanted>>

(* A picture that is too late, or not what was announced, goes: its object  *)
(* first, then its row, whatever the row is by then.                       *)
ReadExpired(h, m) ==
  /\ media[m] = "pending" /\ m \in expired
  /\ request[h] = Idle
  /\ request' = [request EXCEPT ![h] = [work |-> "complete", step |-> "refused", id |-> m]]
  /\ UNCHANGED <<media, expired, issued, object, cover, completed, sweep, unwanted>>

RefuseMedia(h) ==
  LET m == request[h].id
  IN  /\ At(h, "complete", "refused")
      /\ Remove(m)
      /\ request' = [request EXCEPT ![h] = [work |-> "drop", step |-> "begun", id |-> m]]
      /\ unwanted' = unwanted \cup {m}
      /\ UNCHANGED <<media, expired, issued, cover, completed, sweep>>

(* DELETE .../media/:mediaId.                                              *)
DeleteMediaObject(h, m) ==
  /\ media[m] # "none"
  /\ Remove(m)
  /\ Begin(h, "drop", m)
  /\ unwanted' = unwanted \cup {m}
  /\ UNCHANGED <<media, expired, issued, cover, completed, sweep>>

DropRow(h) ==
  /\ At(h, "drop", "begun")
  /\ media' = [media EXCEPT ![request[h].id] = "none"]
  /\ Finish(h)
  /\ UNCHANGED <<expired, issued, object, cover, completed, sweep, unwanted>>

(* maintenance.ts lists what is pending and too late, and then removes each *)
(* object and row.                                                         *)
ListAbandoned ==
  LET abandoned == {m \in expired \cap Media : media[m] = "pending"}
  IN  /\ sweep = {} /\ abandoned # {}
      /\ sweep' = abandoned /\ unwanted' = unwanted \cup abandoned
      /\ UNCHANGED <<media, expired, issued, object, cover, completed, request>>

SweepObject(m) ==
  /\ m \in sweep /\ object[m] # NoFile
  /\ Remove(m)
  /\ UNCHANGED <<media, expired, issued, cover, completed, request, sweep, unwanted>>

SweepRow(m) ==
  /\ m \in sweep /\ object[m] = NoFile
  /\ media' = [media EXCEPT ![m] = "none"]
  /\ sweep' = sweep \ {m}
  /\ UNCHANGED <<expired, issued, object, cover, completed, request, unwanted>>

WorkerStops ==
  /\ sweep # {}
  /\ sweep' = {}
  /\ UNCHANGED <<media, expired, issued, object, cover, completed, request, unwanted>>

-----------------------------------------------------------------------------
(* The cover of a post *)

(* POST .../cover/complete: the object is looked at; one that is not what   *)
(* was announced goes.  (Each completion is sent once, as by the page.)    *)
HeadCover(h, c) ==
  /\ c \in issued \ completed
  /\ completed' = completed \cup {c}
  /\ \/ IsGood(c) /\ Begin(h, "cover", c) /\ UNCHANGED object
     \/ object[c] = "bad" /\ request[h] = Idle /\ Remove(c) /\ UNCHANGED request
  /\ UNCHANGED <<media, expired, issued, cover, sweep, unwanted>>

(* Bug a run must catch: the new cover is removed instead.                 *)
PreviousMistaken(before, now) == IF before \in Covers \ {now} THEN now ELSE Nothing

(* What is removed after a change of the post: its cover until then.       *)
Previous(before, now) == IF before \in Covers \ {now} THEN before ELSE Nothing

(* The post changes, with its row locked, and the file of the old cover     *)
(* goes when that is done, or stays for ever.                              *)
ChangeCover(h, now) ==
  /\ cover' = now
  /\ request' = [request EXCEPT ![h] =
       [work |-> "clean", step |-> "begun", id |-> Previous(cover, now)]]
  /\ UNCHANGED <<media, expired, issued, object, completed, sweep, unwanted>>

CompleteCover(h) == At(h, "cover", "begun") /\ ChangeCover(h, request[h].id)

(* PATCH /admin/feed/:id with another link, DELETE .../cover.              *)
UpdatePostCover(h) == request[h] = Idle /\ ChangeCover(h, "link")
DeleteCover(h) == request[h] = Idle /\ ChangeCover(h, Nothing)

RemovePrevious(h) ==
  /\ At(h, "clean", "begun")
  /\ IF request[h].id = Nothing THEN UNCHANGED object ELSE Remove(request[h].id)
  /\ Finish(h)
  /\ UNCHANGED <<media, expired, issued, cover, completed, sweep, unwanted>>

-----------------------------------------------------------------------------

(* The request ends in an error, or with its process.                      *)
Fail(h) ==
  /\ request[h] # Idle
  /\ Finish(h)
  /\ UNCHANGED <<media, expired, issued, object, cover, completed, sweep, unwanted>>

MediaNext ==
  \/ \E h \in Handlers :
       \/ CountMedia(h)
       \/ \E m \in Media :
            \/ InsertMedia(h, m) \/ ReadMedia(h, m)
            \/ ReadExpired(h, m) \/ DeleteMediaObject(h, m)
       \/ HeadMedia(h) \/ MakeReady(h) \/ RefuseMedia(h) \/ DropRow(h) \/ Fail(h)
  \/ ListAbandoned \/ WorkerStops
  \/ \E m \in Media : Put(m) \/ LinkExpires(m) \/ SweepObject(m) \/ SweepRow(m)

CoverNext ==
  \/ \E c \in Covers : InitCover(c) \/ Put(c) \/ LinkExpires(c)
  \/ \E h \in Handlers :
       \/ \E c \in Covers : HeadCover(h, c)
       \/ CompleteCover(h) \/ UpdatePostCover(h) \/ DeleteCover(h) \/ RemovePrevious(h)
       \/ Fail(h)

Next == MediaNext \/ CoverNext

Spec == Init /\ [][Next]_vars

-----------------------------------------------------------------------------
(* Properties *)

(* product-media.ts, feed-cover.ts: what visitors are shown can be loaded.  *)
(* A ready picture has its object as long as nobody has begun to remove the *)
(* picture, and so has the cover of a post, whatever completions, changes   *)
(* and sweeps overlap or stop half way.                                    *)
ShownPicturesHaveObjects ==
  /\ \A m \in Media \ unwanted : media[m] = "ready" => object[m] # NoFile
  /\ cover \in Covers => object[cover] # NoFile
=============================================================================
