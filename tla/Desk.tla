-------------------------------- MODULE Desk --------------------------------
(***************************************************************************)
(* What one person asks the studio for from several devices: a place in    *)
(* the coworking (routes/coworking.ts), the answer to an event's quick     *)
(* question (quick-answers.ts) and help with an event (event-requests.ts). *)
(* The cards of the Mini App send these requests, and their answers, and   *)
(* sometimes the requests themselves, may be late or lost.                 *)
(***************************************************************************)
EXTENDS Naturals, FiniteSets

CONSTANTS Devices,
          Bodies,       \* what a booking may be for
          Keys,         \* idempotency keys
          Bookings, Texts, Requests,
          Nothing

DeskAssumption == Nothing \notin Bodies \cup Keys \cup Bookings \cup Texts \cup Requests

VARIABLES booking,      \* coworking_bookings of the person
          answer,       \* event_quick_answers: the text, or Nothing
          help,         \* event_requests of the person
          participant,  \* event_participants has the person
          announced,    \* the outbox row that tells the CRM so
          removed,      \* the person was removed from the event at least once
          card,         \* device -> what its cards show and remember
          call,         \* device -> the request under way
          late,         \* requests nobody waits for that may still arrive
          listed,       \* what the page of the administrators shows of help
          wishes        \* how many places the person has wanted

vars == <<booking, answer, help, participant, announced, removed, card, call, late,
          listed, wishes>>
eventVars == <<answer, help, participant, announced, removed, listed>>

BookingStatus == {"none", "pending", "confirmed", "rejected", "cancelled"}
HelpStatus == {"none", "new", "in_progress", "closed"}

NoBooking == [status |-> "none", body |-> Nothing, key |-> Nothing, past |-> FALSE]
NoAttempt == [body |-> Nothing, key |-> Nothing]
NoCall == [kind |-> "none"]

EmptyCard ==
  [bookings |-> [b \in Bookings |-> "none"], read |-> Nothing,
   attempt |-> NoAttempt, wish |-> Nothing, loaded |-> FALSE, answer |-> Nothing, help |-> [r \in Requests |-> "none"]]

Init ==
  /\ booking = [b \in Bookings |-> NoBooking]
  /\ answer = Nothing
  /\ help = [r \in Requests |-> "none"]
  /\ participant = FALSE /\ announced = "none" /\ removed = FALSE
  /\ card = [d \in Devices |-> EmptyCard]
  /\ call = [d \in Devices |-> NoCall]
  /\ late = {}
  /\ listed = help
  /\ wishes = 0

-----------------------------------------------------------------------------
(* Requests and answers *)

Ask(d, request) ==
  /\ call[d] = NoCall
  /\ call' = [call EXCEPT ![d] = request]

(* A request reaches the server once, from its device or after the device  *)
(* gave it up; the device hears the answer only in the first case.         *)
Arrive(request, reply) ==
  \/ \E d \in Devices :
       /\ call[d] = request
       /\ call' = [call EXCEPT ![d] = [kind |-> "answered", of |-> request, reply |-> reply]]
       /\ UNCHANGED late
  \/ /\ request \in late
     /\ late' = late \ {request}
     /\ UNCHANGED call

Asked == {call[d] : d \in Devices} \cup late

Hear(d, kind, replies) ==
  /\ call[d].kind = "answered" /\ call[d].of.kind = kind /\ call[d].reply.kind \in replies
  /\ call' = [call EXCEPT ![d] = NoCall]

Refusal == [kind |-> "refused"]

(* The device is told of an error, or of nothing, while the request is on   *)
(* its way, or its answer.                                                 *)
Lose(d, kinds) ==
  /\ \/ call[d].kind \in kinds /\ late' \in {late, late \cup {call[d]}}
     \/ call[d].kind = "answered" /\ call[d].of.kind \in kinds /\ UNCHANGED late
  /\ call' = [call EXCEPT ![d] = NoCall]

(* The page is opened anew.                                                *)
Reload(d) ==
  /\ call[d] = NoCall
  /\ card' = [card EXCEPT ![d] = EmptyCard]
  /\ UNCHANGED <<booking, eventVars, call, late, wishes>>

-----------------------------------------------------------------------------
(* A place in the coworking *)

CanChangeBookingStatus(from, to) ==
  \/ from = to
  \/ from = "pending" /\ to \in {"confirmed", "rejected", "cancelled"}
  \/ from = "confirmed" /\ to = "cancelled"

(* A retry of the same request keeps its key.                              *)
ResolveIdempotencyAttempt(current, body) ==
  IF current.body = body THEN {current} ELSE [body : {body}, key : Keys]

KeyIsFree(key) ==
  /\ \A b \in Bookings : booking[b].key # key
  /\ \A d \in Devices : card[d].attempt.key # key
  /\ \A r \in Asked : r.kind = "book" => r.key # key

(* CoworkingCard.submit.                                                   *)
SubmitBooking(d, body) ==
  /\ \E attempt \in ResolveIdempotencyAttempt(card[d].attempt, body) :
       /\ attempt = card[d].attempt \/ KeyIsFree(attempt.key)
       /\ card' = [card EXCEPT ![d].attempt = attempt, ![d].wish = body]
       /\ Ask(d, [kind |-> "book", body |-> body, key |-> attempt.key])
  /\ wishes' = IF card[d].wish = body THEN wishes ELSE wishes + 1
  /\ UNCHANGED <<booking, eventVars, late>>

Sent(b) == [kind |-> "booking", booking |-> b, status |-> booking'[b].status]

(* POST /coworking/bookings, under the advisory lock of the person: a known *)
(* key is answered with its booking, or refused for another body.          *)
CreateBooking(request) ==
  LET known == {b \in Bookings : booking[b].key = request.key}
  IN  /\ request.kind = "book"
      /\ \/ \E b \in known :
              /\ UNCHANGED booking
              /\ Arrive(request, IF booking[b].body = request.body THEN Sent(b) ELSE Refusal)
         \/ \E b \in Bookings :
              /\ known = {} /\ booking[b] = NoBooking
              /\ booking' = [booking EXCEPT ![b] =
                   [status |-> "pending", body |-> request.body, key |-> request.key,
                    past |-> FALSE]]
              /\ Arrive(request, Sent(b))
         \/ known = {} /\ UNCHANGED booking /\ Arrive(request, Refusal)
      /\ UNCHANGED <<eventVars, card, wishes>>

CancelBooking(d, b) ==
  /\ card[d].bookings[b] \in {"pending", "confirmed"}
  /\ Ask(d, [kind |-> "cancel", booking |-> b])
  /\ UNCHANGED <<booking, eventVars, card, late, wishes>>

(* PATCH /coworking/bookings/:id/cancel, with the row locked.              *)
Cancel(request) ==
  /\ request.kind = "cancel"
  /\ LET b == request.booking
     IN  IF CanChangeBookingStatus(booking[b].status, "cancelled")
         THEN /\ booking' = [booking EXCEPT ![b].status = "cancelled"]
              /\ Arrive(request, Sent(b))
         ELSE UNCHANGED booking /\ Arrive(request, Refusal)
  /\ UNCHANGED <<eventVars, card, wishes>>

(* What the page of the administrators may ask for, of any booking it has   *)
(* listed, however old the list is.                                        *)
Reviews == BookingStatus \ {"none"}

(* PATCH /admin/coworking/bookings/:id: a confirmation only before the time *)
(* of the booking.                                                         *)
ReviewBooking(b, status) ==
  /\ booking[b].status # "none"
  /\ CanChangeBookingStatus(booking[b].status, status)
  /\ status = "confirmed" => ~booking[b].past
  /\ booking' = [booking EXCEPT ![b].status = status]
  /\ UNCHANGED <<eventVars, card, call, late, wishes>>

TimePasses(b) ==
  /\ booking[b].status # "none" /\ ~booking[b].past
  /\ booking' = [booking EXCEPT ![b].past = TRUE]
  /\ UNCHANGED <<eventVars, card, call, late, wishes>>

(* The list is read when the dialog opens and every half minute; it may be  *)
(* shown after the answer to a later request.                              *)
ReadBookings(d) ==
  /\ card' = [card EXCEPT ![d].read = [b \in Bookings |-> booking[b].status]]
  /\ UNCHANGED <<booking, eventVars, call, late, wishes>>

ShowBookings(d) ==
  /\ card[d].read # Nothing
  /\ card' = [card EXCEPT ![d].bookings = card[d].read, ![d].read = Nothing]
  /\ UNCHANGED <<booking, eventVars, call, late, wishes>>

(* Bug a run must catch: a failed request is forgotten like a finished one. *)
AttemptDropped(attempt) == NoAttempt

(* After a failure the attempt stays, for the request may have arrived.    *)
AttemptKept(attempt) == attempt

HearBooking(d) ==
  LET reply == call[d].reply
  IN  /\ \/ /\ Hear(d, "book", {"booking"})
            /\ card' = [card EXCEPT ![d].attempt = NoAttempt, ![d].wish = Nothing,
                                    ![d].bookings[reply.booking] = reply.status]
         \/ /\ Hear(d, "cancel", {"booking"})
            /\ card' = [card EXCEPT ![d].bookings[reply.booking] =
                                       IF @ = "none" THEN @ ELSE reply.status]
         \/ Hear(d, "cancel", {"refused"}) /\ UNCHANGED card
         \/ /\ Hear(d, "book", {"refused"})
            /\ card' = [card EXCEPT ![d].attempt = AttemptKept(@)]
      /\ UNCHANGED <<booking, eventVars, late, wishes>>

LoseBooking(d) ==
  /\ Lose(d, {"book", "cancel"})
  /\ card' = [card EXCEPT ![d].attempt = AttemptKept(@)]
  /\ UNCHANGED <<booking, eventVars, wishes>>

BookingNext ==
  \/ \E d \in Devices :
       \/ \E body \in Bodies : SubmitBooking(d, body)
       \/ \E b \in Bookings : CancelBooking(d, b)
       \/ ReadBookings(d) \/ ShowBookings(d) \/ HearBooking(d) \/ LoseBooking(d)
       \/ Reload(d)
  \/ \E request \in Asked : CreateBooking(request) \/ Cancel(request)
  \/ \E b \in Bookings :
       \/ \E status \in Reviews : ReviewBooking(b, status)
       \/ TimePasses(b)

-----------------------------------------------------------------------------
(* The quick question of the event *)

SeeAnswer(d) ==
  /\ ~card[d].loaded
  /\ Ask(d, [kind |-> "see"])
  /\ UNCHANGED <<booking, eventVars, card, late, wishes>>

(* GET /events/:eventId/quick-answer.                                      *)
GetAnswer(request) ==
  /\ request.kind = "see"
  /\ Arrive(request, [kind |-> "answer", text |-> answer])
  /\ UNCHANGED <<booking, eventVars, card, wishes>>

(* QuickQuestion.submit: the form is shown when there is no answer yet.    *)
SubmitAnswer(d, text) ==
  /\ card[d].loaded /\ card[d].answer = Nothing
  /\ Ask(d, [kind |-> "answer", text |-> text])
  /\ UNCHANGED <<booking, eventVars, card, late, wishes>>

Accepted(text) == Arrive([kind |-> "answer", text |-> text], [kind |-> "answer", text |-> text])

(* Bug a run must catch: a second answer takes the place of the first.     *)
UpsertAnswer(request) ==
  /\ request.kind = "answer"
  /\ answer' = request.text /\ participant' = TRUE /\ announced' = "pending"
  /\ Accepted(request.text)
  /\ UNCHANGED <<booking, help, removed, listed, card, wishes>>

(* POST /events/:eventId/quick-answer, one transaction: the first answer    *)
(* stays, its repetition is told so, another one is refused; who answers    *)
(* takes part.                                                             *)
CreateAnswer(request) ==
  /\ request.kind = "answer"
  /\ \/ /\ answer = Nothing
        /\ answer' = request.text /\ participant' = TRUE
        /\ announced' = IF participant THEN announced ELSE "pending"
        /\ Accepted(request.text)
     \/ /\ answer = request.text
        /\ Accepted(request.text)
        /\ UNCHANGED <<answer, participant, announced>>
     \/ /\ answer # request.text
        /\ Arrive(request, [kind |-> IF answer = Nothing THEN "refused" ELSE "taken"])
        /\ UNCHANGED <<answer, participant, announced>>
  /\ UNCHANGED <<booking, help, removed, listed, card, wishes>>

(* Who hears that there is an answer already reads it.                     *)
HearAnswer(d) ==
  /\ \/ /\ Hear(d, "answer", {"answer"}) \/ Hear(d, "see", {"answer"})
        /\ card' = [card EXCEPT ![d].answer = call[d].reply.text, ![d].loaded = TRUE]
     \/ /\ Hear(d, "answer", {"taken"})
        /\ card' = [card EXCEPT ![d].loaded = FALSE]
     \/ Hear(d, "answer", {"refused"}) /\ UNCHANGED card
  /\ UNCHANGED <<booking, eventVars, late, wishes>>

LoseAnswer(d) ==
  /\ Lose(d, {"see", "answer"})
  /\ UNCHANGED <<booking, eventVars, card, wishes>>

(* POST /events/:eventId/participate.                                      *)
Participate ==
  /\ ~participant
  /\ participant' = TRUE /\ announced' = "pending"
  /\ UNCHANGED <<booking, answer, help, removed, listed, card, call, late, wishes>>

(* The worker tells the CRM (see CrmSync).                                 *)
Announce ==
  /\ announced = "pending"
  /\ announced' = "processed"
  /\ UNCHANGED <<booking, answer, help, participant, removed, listed, card, call, late, wishes>>

(* The last transaction of the removal of a participant by an administrator *)
(* (see Artifacts for the rest of it).                                     *)
RemoveParticipant ==
  /\ participant
  /\ answer' = Nothing /\ participant' = FALSE /\ removed' = TRUE
  /\ UNCHANGED <<booking, help, announced, listed, card, call, late, wishes>>

AnswerNext ==
  \/ \E d \in Devices :
       \/ SeeAnswer(d) \/ HearAnswer(d) \/ LoseAnswer(d) \/ Reload(d)
       \/ \E text \in Texts : SubmitAnswer(d, text)
  \/ \E request \in Asked : GetAnswer(request) \/ CreateAnswer(request)
  \/ Participate \/ Announce \/ RemoveParticipant

-----------------------------------------------------------------------------
(* Help with the event *)

Open(statuses) == {r \in Requests : statuses[r] \in {"new", "in_progress"}}

SeeHelp(d) ==
  /\ ~card[d].loaded
  /\ Ask(d, [kind |-> "list"])
  /\ UNCHANGED <<booking, eventVars, card, late, wishes>>

(* GET /events/:eventId/requests/me.                                       *)
GetHelp(request) ==
  /\ request.kind = "list"
  /\ Arrive(request, [kind |-> "list", help |-> help])
  /\ UNCHANGED <<booking, eventVars, card, wishes>>

(* EventRequestPanel.submit: the form is shown when nothing seen is open.  *)
SubmitHelp(d) ==
  /\ card[d].loaded /\ Open(card[d].help) = {}
  /\ Ask(d, [kind |-> "help"])
  /\ UNCHANGED <<booking, eventVars, card, late, wishes>>

(* POST /events/:eventId/requests: one open request at a time, by a look    *)
(* and by a unique index.  Who asks takes part; a row that was processed    *)
(* before stays so.                                                        *)
CreateHelp(request) ==
  /\ request.kind = "help"
  /\ \/ \E r \in Requests :
          /\ Open(help) = {} /\ help[r] = "none"
          /\ help' = [help EXCEPT ![r] = "new"] /\ participant' = TRUE
          /\ announced' = IF announced = "none" THEN "pending" ELSE announced
          /\ Arrive(request, [kind |-> "created", request |-> r])
     \/ Arrive(request, Refusal) /\ UNCHANGED <<help, participant, announced>>
  /\ UNCHANGED <<booking, answer, removed, listed, card, wishes>>

HearHelp(d) ==
  /\ \/ /\ Hear(d, "list", {"list"})
        /\ card' = [card EXCEPT ![d].help = call[d].reply.help, ![d].loaded = TRUE]
     \/ /\ Hear(d, "help", {"created"})
        /\ card' = [card EXCEPT ![d].help[call[d].reply.request] = "new"]
     \/ Hear(d, "help", {"refused"}) /\ UNCHANGED card
  /\ UNCHANGED <<booking, eventVars, late, wishes>>

(* A list that cannot be read counts as an empty one.                      *)
LoseHelp(d) ==
  /\ Lose(d, {"list", "help"})
  /\ card' = [card EXCEPT ![d].loaded = TRUE]
  /\ UNCHANGED <<booking, eventVars, wishes>>

(* The page of the administrators reads the list ...                       *)
ListHelp ==
  /\ listed' = help
  /\ UNCHANGED <<booking, answer, help, participant, announced, removed, card, call, late, wishes>>

(* ... and sends a new status, or with a new assignee the status it shows; *)
(* any status may follow any other, if no second request becomes open.     *)
SetHelp(r, status) ==
  /\ help[r] # "none"
  /\ status # "closed" => Open(help) \subseteq {r}
  /\ help' = [help EXCEPT ![r] = status]

UpdateHelp(r, status) ==
  /\ listed[r] # "none"
  /\ SetHelp(r, status)
  /\ UNCHANGED <<booking, answer, participant, announced, removed, listed, card, call, late, wishes>>

AssignHelp(r) == UpdateHelp(r, listed[r])

HelpNext ==
  \/ \E d \in Devices : SeeHelp(d) \/ SubmitHelp(d) \/ HearHelp(d) \/ LoseHelp(d) \/ Reload(d)
  \/ \E request \in Asked : GetHelp(request) \/ CreateHelp(request)
  \/ \E r \in Requests :
       \/ \E status \in HelpStatus \ {"none"} : UpdateHelp(r, status)
       \/ AssignHelp(r)
  \/ ListHelp

Next == BookingNext \/ AnswerNext \/ HelpNext

Spec == Init /\ [][Next]_vars

-----------------------------------------------------------------------------
(* Properties *)

(* What may become of a booking that was in a status.                      *)
Later(status) ==
  CASE status = "pending" -> BookingStatus \ {"none"}
    [] status = "confirmed" -> {"confirmed", "cancelled"}
    [] OTHER -> {status}

(* quick-question.tsx: the answer is sent and cannot be changed; coworking:  *)
(* the booking is made, confirmed or cancelled.  Whatever was lost, late or  *)
(* sent twice, what a device shows as done is done: its answer is the stored *)
(* one unless the person was removed, and no booking is shown in a status    *)
(* its stored one cannot have come from.                                   *)
ShownIsStored ==
  \A d \in Devices :
    /\ card[d].answer \in {Nothing, answer} \/ removed
    /\ \A b \in Bookings :
         card[d].bookings[b] # "none" => booking[b].status \in Later(card[d].bookings[b])

(* idempotent-action.ts: a retry of the same logical request keeps its key, *)
(* so that however often it is sent, lost or late, the person has no more   *)
(* places than were wanted.                                                *)
OneBookingPerWish ==
  Cardinality({b \in Bookings : booking[b] # NoBooking}) <= wishes
=============================================================================
