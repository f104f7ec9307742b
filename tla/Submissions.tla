----------------------------- MODULE Submissions -----------------------------
(***************************************************************************)
(* Handing in materials for an event: the versions of its form (routes/    *)
(* admin-content.ts) with the editors that write and publish them, and the *)
(* sheet of the Mini App (submission-sheet.tsx) that sends what one person *)
(* filled in and then the files, one by one, to routes/events.ts and       *)
(* routes/uploads.ts.  A draft survives its page, and its key makes every   *)
(* repetition of the same submission the same; requests and answers may be *)
(* lost, and requests may arrive late.                                     *)
(***************************************************************************)
EXTENDS FiniteSets

CONSTANTS Versions,     \* of the form
          Editors,      \* pages of administrators
          Devices,      \* of the person, each with its own storage and one sheet
          Drafts,       \* idempotency keys of submissions
          Bodies,       \* what can be filled in
          Files,        \* what can be attached; a draft has a key for each
          Nothing

SubmissionsAssumption == Nothing \notin Versions \cup Drafts \cup Bodies \cup Files

VARIABLES version,      \* v -> its status and what it asks for
          active,       \* the version of the event, or Nothing
          editor,       \* e -> what its page shows and is doing
          draft,        \* d -> the draft in its storage
          sheet,        \* d -> what its sheet shows and is doing
          call,         \* d -> the request of the sheet under way
          late,         \* requests nobody waits for
          submission,   \* key -> the submission, or NoSubmission
          artifact,     \* key -> file -> status of the artifact
          object,       \* files in the storage, as <<key, file>>
          accepted,     \* what a sheet has shown as accepted
          cancelled     \* drafts whose sending was cancelled at least once

formVars == <<version, active, editor>>
sheetVars == <<draft, sheet, call, late, accepted, cancelled>>
storeVars == <<submission, artifact, object>>
vars == <<formVars, sheetVars, storeVars>>

(* A form asks for a text or for a file, an event without one for nothing.  *)
Kinds == {"text", "file"}
NoVersion == [status |-> "none", asks |-> Nothing]
AskedBy(v) == IF v = Nothing THEN Nothing ELSE version[v].asks

BlankEditor ==
  [listed |-> [v \in Versions |-> NoVersion], selected |-> Nothing, asks |-> "text",
   saved |-> Nothing]

ClosedSheet ==
  [step |-> "closed", form |-> "loading", files |-> {}, sent |-> Nothing, known |-> {},
   todo |-> {}, file |-> Nothing]
NoCall == [kind |-> "none"]
Refused == [kind |-> "refused"]
NoSubmission == [form |-> Nothing, body |-> Nothing, files |-> FALSE, asked |-> "nothing yet"]

Init ==
  /\ version = [v \in Versions |-> NoVersion]
  /\ active = Nothing
  /\ editor = [e \in Editors |-> BlankEditor]
  /\ \E key \in [Devices -> Drafts] :
       /\ \A d, o \in Devices : d # o => key[d] # key[o]
       /\ draft = [d \in Devices |-> [key |-> key[d], body |-> Nothing]]
  /\ sheet = [d \in Devices |-> ClosedSheet]
  /\ call = [d \in Devices |-> NoCall]
  /\ late = {} /\ accepted = {} /\ cancelled = {} /\ object = {}
  /\ submission = [k \in Drafts |-> NoSubmission]
  /\ artifact = [k \in Drafts |-> [f \in Files |-> "none"]]

-----------------------------------------------------------------------------
(* Versions of the form *)

(* The status of every version when v becomes the published one: at most    *)
(* one is, which an index of the table demands.                            *)
Published(v) ==
  [w \in Versions |->
     IF w = v THEN [version[w] EXCEPT !.status = "published"]
     ELSE IF version[w].status = "published" THEN [version[w] EXCEPT !.status = "archived"]
     ELSE version[w]]

(* createFormVersion, as a draft or published at once.                     *)
CreateForm(v, asks) ==
  /\ version[v] = NoVersion
  /\ version' = [version EXCEPT ![v] = [status |-> "draft", asks |-> asks]]
  /\ UNCHANGED active

CreatePublishedForm(v, asks) ==
  /\ version[v] = NoVersion
  /\ version' = [Published(v) EXCEPT ![v].asks = asks]
  /\ active' = v
  /\ UNCHANGED <<editor, sheetVars, storeVars>>

(* Bug a run must catch: a published version is written again.             *)
PutAnyForm(v, asks) ==
  /\ version' = [version EXCEPT ![v].asks = asks]
  /\ UNCHANGED active

(* PUT /admin/events/:eventId/forms/:formId, with the version locked: its   *)
(* fields are deleted and inserted again.                                  *)
PutForm(v, asks) ==
  /\ version[v].status = "draft"
  /\ version' = [version EXCEPT ![v].asks = asks]
  /\ UNCHANGED active

(* POST .../forms/:formId/publish, whatever the version has been.          *)
PublishForm(v) ==
  /\ version' = Published(v)
  /\ active' = v

-----------------------------------------------------------------------------
(* ArtifactFormBuilder *)

Idle(e) == editor[e].saved = Nothing

ListVersions(e) ==
  /\ Idle(e)
  /\ editor' = [editor EXCEPT ![e] = [BlankEditor EXCEPT !.listed = version]]
  /\ UNCHANGED <<version, active, sheetVars, storeVars>>

SelectVersion(e, v) ==
  /\ Idle(e) /\ editor[e].listed[v] # NoVersion
  /\ editor' = [editor EXCEPT ![e].selected = v, ![e].asks = editor[e].listed[v].asks]
  /\ UNCHANGED <<version, active, sheetVars, storeVars>>

StartNewVersion(e) ==
  /\ Idle(e)
  /\ editor' = [editor EXCEPT ![e].selected = Nothing]
  /\ UNCHANGED <<version, active, sheetVars, storeVars>>

(* What was listed as published or archived can be read only.              *)
ReadOnly(e) ==
  editor[e].selected # Nothing /\ editor[e].listed[editor[e].selected].status # "draft"

EditForm(e, asks) ==
  /\ Idle(e) /\ ~ReadOnly(e)
  /\ editor' = [editor EXCEPT ![e].asks = asks]
  /\ UNCHANGED <<version, active, sheetVars, storeVars>>

(* save writes the version; to publish it is a second request, and the list *)
(* is read again at the end.  A failure leaves the page as it was, whether  *)
(* or not the server did its work.                                         *)
Save(e) ==
  LET selected == editor[e].selected
  IN  /\ Idle(e) /\ ~ReadOnly(e)
      /\ \E v \in Versions :
           /\ selected \in {v, Nothing}
           /\ IF selected = v THEN PutForm(v, editor[e].asks) ELSE CreateForm(v, editor[e].asks)
           /\ \/ editor' = [editor EXCEPT ![e].saved = v]
              \/ editor' = [editor EXCEPT ![e] = [BlankEditor EXCEPT !.listed = version']]
              \/ UNCHANGED editor
      /\ UNCHANGED <<sheetVars, storeVars>>

PublishSaved(e) ==
  /\ ~Idle(e)
  /\ PublishForm(editor[e].saved)
  /\ \/ editor' = [editor EXCEPT ![e] = [BlankEditor EXCEPT !.listed = version']]
     \/ editor' = [editor EXCEPT ![e].saved = Nothing]
  /\ UNCHANGED <<sheetVars, storeVars>>

PublishFails(e) ==
  /\ ~Idle(e)
  /\ editor' = [editor EXCEPT ![e].saved = Nothing]
  /\ UNCHANGED <<version, active, sheetVars, storeVars>>

FormNext ==
  \/ \E v \in Versions, asks \in Kinds : CreatePublishedForm(v, asks)
  \/ \E e \in Editors :
       \/ ListVersions(e) \/ StartNewVersion(e) \/ Save(e) \/ PublishSaved(e) \/ PublishFails(e)
       \/ \E v \in Versions : SelectVersion(e, v)
       \/ \E asks \in Kinds : EditForm(e, asks)

-----------------------------------------------------------------------------
(* Requests of the sheet *)

Asked == {call[d] : d \in Devices} \cup late

(* A request moves on, with its device waiting or not; an answer is heard   *)
(* by who waits.                                                           *)
MoveOn(request, next) ==
  \/ /\ \E d \in Devices : call[d] = request /\ call' = [call EXCEPT ![d] = next]
     /\ UNCHANGED late
  \/ request \in late /\ late' = (late \ {request}) \cup {next} /\ UNCHANGED call

Answer(request, reply) ==
  \/ /\ \E d \in Devices :
          /\ call[d] = request
          /\ call' = [call EXCEPT ![d] = [kind |-> "answered", reply |-> reply]]
     /\ UNCHANGED late
  \/ request \in late /\ late' = late \ {request} /\ UNCHANGED call

-----------------------------------------------------------------------------
(* The sheet *)

At(d, step) == sheet[d].step = step
Go(d, step) == sheet' = [sheet EXCEPT ![d].step = step]
Ask(d, request) == call' = [call EXCEPT ![d] = request]

OpenSheet(d) ==
  /\ At(d, "closed")
  /\ Go(d, "editing")
  /\ UNCHANGED <<formVars, draft, call, late, accepted, cancelled, storeVars>>

(* GET /events/:eventId/form; a failure is like an event without a form.    *)
ReadForm(d) ==
  /\ ~At(d, "closed") /\ sheet[d].form = "loading"
  /\ \E form \in {active, Nothing} : sheet' = [sheet EXCEPT ![d].form = form]
  /\ UNCHANGED <<formVars, draft, call, late, accepted, cancelled, storeVars>>

(* The inputs stay open while the sheet is sending.                        *)
FillIn(d, body) ==
  /\ ~At(d, "closed") /\ sheet[d].form # "loading"
  /\ draft' = [draft EXCEPT ![d].body = body]
  /\ UNCHANGED <<formVars, sheet, call, late, accepted, cancelled, storeVars>>

(* Without a form files can be chosen too, and any can be taken back.       *)
ChooseFile(d, f) ==
  /\ At(d, "editing") /\ sheet[d].form # "loading"
  /\ \/ /\ AskedBy(sheet[d].form) \in {"file", Nothing}
        /\ sheet' = [sheet EXCEPT ![d].files = @ \cup {f}]
     \/ sheet' = [sheet EXCEPT ![d].files = @ \ {f}]
  /\ UNCHANGED <<formVars, draft, call, late, accepted, cancelled, storeVars>>

(* The form as far as the sheet knows: one that is loading is none.         *)
FormOf(d) == IF sheet[d].form = "loading" THEN Nothing ELSE sheet[d].form

(* What the sheet demands before it sends.                                 *)
Complete(d) ==
  CASE AskedBy(FormOf(d)) = "text" -> draft[d].body # Nothing
    [] AskedBy(FormOf(d)) = "file" -> sheet[d].files # {}
    [] OTHER -> draft[d].body # Nothing \/ sheet[d].files # {}

Submit(d) ==
  LET sent == [key |-> draft[d].key, body |-> draft[d].body, form |-> FormOf(d)]
  IN  /\ At(d, "editing") /\ Complete(d)
      /\ sheet' = [sheet EXCEPT ![d].step = "posting", ![d].sent = sent]
      /\ Ask(d, [kind |-> "post", key |-> sent.key, body |-> sent.body, form |-> sent.form,
                 files |-> sheet[d].files # {}, asked |-> "not read"])
      /\ UNCHANGED <<formVars, draft, late, accepted, cancelled, storeVars>>

-----------------------------------------------------------------------------
(* POST /events/:eventId/submissions *)

Known(request) == submission[request.key] # NoSubmission

(* assertSubmissionReplayMatches: a known key is answered for the same form, *)
(* the same answers and files or none as before.                           *)
Replay(request) ==
  LET stored == submission[request.key]
  IN  Answer(request,
        IF /\ stored.form = request.form /\ stored.body = request.body
           /\ stored.files = request.files
        THEN [kind |-> "submission"] ELSE Refused)

(* The form the event has now is read, and the answers compared with it.    *)
ValidateSubmission(request) ==
  /\ request.kind = "post" /\ request.asked = "not read"
  /\ \/ Known(request) /\ Replay(request)
     \/ /\ ~Known(request) /\ request.form = active
        /\ AskedBy(active) = "file" => request.files
        /\ MoveOn(request, [request EXCEPT !.asked = AskedBy(active)])
     \/ ~Known(request) /\ Answer(request, Refused)
  /\ UNCHANGED <<formVars, draft, sheet, accepted, cancelled, storeVars>>

(* One transaction, with the event locked against another form.            *)
InsertSubmission(request) ==
  /\ request.kind = "post" /\ request.asked # "not read"
  /\ \/ Known(request) /\ Replay(request) /\ UNCHANGED submission
     \/ /\ ~Known(request) /\ request.form = active
        /\ submission' = [submission EXCEPT ![request.key] =
             [form |-> request.form, body |-> request.body, files |-> request.files,
              asked |-> request.asked]]
        /\ Answer(request, [kind |-> "submission"])
     \/ ~Known(request) /\ Answer(request, Refused) /\ UNCHANGED submission
  /\ UNCHANGED <<formVars, draft, sheet, accepted, cancelled, artifact, object>>

-----------------------------------------------------------------------------
(* Uploads *)

Finished == {"uploaded", "ready"}

(* POST /uploads/init: a known key is answered with its artifact, unless    *)
(* that one has come to a bad end.                                         *)
InitUpload(request) ==
  LET status == artifact[request.key][request.file]
  IN  /\ request.kind = "init"
      /\ \/ /\ status = "none"
            /\ artifact' = [artifact EXCEPT ![request.key][request.file] = "uploading"]
            /\ Answer(request, [kind |-> "artifact", done |-> FALSE])
         \/ /\ status \in {"uploading"} \cup Finished
            /\ Answer(request, [kind |-> "artifact", done |-> status \in Finished])
            /\ UNCHANGED artifact
         \/ /\ status \in {"none", "failed", "deleted"}
            /\ Answer(request, Refused)
            /\ UNCHANGED artifact
      /\ UNCHANGED <<formVars, draft, sheet, accepted, cancelled, submission, object>>

(* POST /uploads/:artifactId/complete, with the artifact locked.           *)
CompleteUpload(request) ==
  LET status == artifact[request.key][request.file]
      stored == <<request.key, request.file>> \in object
  IN  /\ request.kind = "complete"
      /\ \/ /\ status \in Finished
            /\ Answer(request, [kind |-> "completed"])
            /\ UNCHANGED artifact
         \/ /\ status = "uploading" /\ stored
            /\ artifact' = [artifact EXCEPT ![request.key][request.file] = "uploaded"]
            /\ Answer(request, [kind |-> "completed"])
         \/ /\ status \notin Finished /\ ~(status = "uploading" /\ stored)
            /\ Answer(request, Refused)
            /\ UNCHANGED artifact
      /\ UNCHANGED <<formVars, draft, sheet, accepted, cancelled, submission, object>>

(* POST /uploads/:artifactId/abort (in Artifacts it has its single steps).  *)
AbortUpload(request) ==
  LET status == artifact[request.key][request.file]
  IN  /\ request.kind = "abort"
      /\ IF status = "ready" THEN UNCHANGED <<artifact, object>>
         ELSE /\ artifact' = [artifact EXCEPT ![request.key][request.file] = "deleted"]
              /\ object' = object \ {<<request.key, request.file>>}
      /\ Answer(request, [kind |-> "aborted"])
      /\ UNCHANGED <<formVars, draft, sheet, accepted, cancelled, submission>>

(* The verification (see Artifacts).                                       *)
Verify(k, f) ==
  /\ artifact[k][f] = "uploaded"
  /\ \E status \in {"ready", "failed"} : artifact' = [artifact EXCEPT ![k][f] = status]
  /\ UNCHANGED <<formVars, sheetVars, submission, object>>

-----------------------------------------------------------------------------
(* Sending *)

Hear(d, step, kind) ==
  /\ At(d, step) /\ call[d].kind = "answered" /\ call[d].reply.kind = kind

Fresh(k) ==
  /\ \A d \in Devices : draft[d].key # k
  /\ submission[k] = NoSubmission
  /\ \A r \in late : r.key # k

(* Bug a run must catch: a failed sending also ends its draft.             *)
DraftDropped(d) ==
  \E k \in {key \in Drafts : Fresh(key)} :
    draft' = [draft EXCEPT ![d] = [key |-> k, body |-> Nothing]]

(* Whatever failed, the draft and its keys stay, to be sent again.         *)
DraftKept(d) == UNCHANGED draft

StopSending(d) ==
  /\ sheet' = [sheet EXCEPT ![d].step = "editing", ![d].sent = Nothing, ![d].todo = {},
                            ![d].file = Nothing]
  /\ DraftKept(d)

(* The next file is announced; after the last one the sheet shows that all  *)
(* is accepted, and the storage gets a new draft.                          *)
SendNext(d, todo, known) ==
  \/ \E f \in todo :
       /\ Ask(d, [kind |-> "init", key |-> draft[d].key, file |-> f])
       /\ sheet' = [sheet EXCEPT ![d].step = "init", ![d].todo = todo \ {f}, ![d].file = f,
                                ![d].known = known]
       /\ UNCHANGED <<draft, accepted>>
  \/ /\ todo = {}
     /\ accepted' = accepted \cup
          {[key |-> sheet[d].sent.key, form |-> sheet[d].sent.form, body |-> sheet[d].sent.body,
            files |-> sheet[d].files]}
     /\ \E k \in Drafts : Fresh(k) /\ draft' = [draft EXCEPT ![d] = [key |-> k, body |-> Nothing]]
     /\ sheet' = [sheet EXCEPT ![d] = ClosedSheet]
     /\ Ask(d, NoCall)

HearSubmission(d) ==
  /\ Hear(d, "posting", "submission")
  /\ SendNext(d, sheet[d].files, sheet[d].known)
  /\ UNCHANGED <<formVars, late, cancelled, storeVars>>

HearArtifact(d) ==
  LET known == sheet[d].known \cup {sheet[d].file}
  IN  /\ Hear(d, "init", "artifact")
      /\ IF call[d].reply.done THEN SendNext(d, sheet[d].todo, known)
         ELSE /\ sheet' = [sheet EXCEPT ![d].step = "put", ![d].known = known]
              /\ Ask(d, NoCall)
              /\ UNCHANGED <<draft, accepted>>
      /\ UNCHANGED <<formVars, late, cancelled, storeVars>>

(* The file goes straight to the storage.                                  *)
PutFile(d) ==
  /\ At(d, "put")
  /\ object' = object \cup {<<draft[d].key, sheet[d].file>>}
  /\ Ask(d, [kind |-> "complete", key |-> draft[d].key, file |-> sheet[d].file])
  /\ Go(d, "completing")
  /\ UNCHANGED <<formVars, draft, late, accepted, cancelled, submission, artifact>>

(* It fails after some attempts, or is cancelled, stored or not.           *)
PutFails(d) ==
  /\ At(d, "put")
  /\ object' \in {object, object \cup {<<draft[d].key, sheet[d].file>>}}
  /\ StopSending(d)
  /\ UNCHANGED <<formVars, call, late, accepted, cancelled, submission, artifact>>

HearCompleted(d) ==
  /\ Hear(d, "completing", "completed")
  /\ SendNext(d, sheet[d].todo, sheet[d].known)
  /\ UNCHANGED <<formVars, late, cancelled, storeVars>>

HearRefusal(d) ==
  /\ call[d].kind = "answered" /\ call[d].reply = Refused
  /\ StopSending(d) /\ Ask(d, NoCall)
  /\ UNCHANGED <<formVars, late, accepted, cancelled, storeVars>>

(* The request or its answer is lost, or comes late.                       *)
GiveUp(d) ==
  /\ call' = [call EXCEPT ![d] = NoCall]
  /\ late' \in {late} \cup (IF call[d].kind = "answered" THEN {} ELSE {late \cup {call[d]}})

LoseRequest(d) ==
  /\ call[d] # NoCall
  /\ GiveUp(d) /\ StopSending(d)
  /\ UNCHANGED <<formVars, accepted, cancelled, storeVars>>

(* cancel breaks off the file on its way, which ends the sending, and asks  *)
(* the server to forget every file it knows; a request on its way is waited *)
(* for, and the sending goes on after it.                                  *)
Cancel(d) ==
  /\ sheet[d].step \in {"posting", "init", "put", "completing"}
  /\ cancelled' = cancelled \cup {draft[d].key}
  /\ late' = late \cup {[kind |-> "abort", key |-> draft[d].key, file |-> f] : f \in sheet[d].known}
  /\ IF At(d, "put") THEN StopSending(d) ELSE UNCHANGED <<sheet, draft>>
  /\ UNCHANGED <<formVars, call, accepted, storeVars>>

(* The page is closed, whatever it was doing; the draft is in the storage.  *)
CloseSheet(d) ==
  /\ ~At(d, "closed")
  /\ IF call[d] = NoCall THEN UNCHANGED <<call, late>> ELSE GiveUp(d)
  /\ sheet' = [sheet EXCEPT ![d] = ClosedSheet]
  /\ UNCHANGED <<formVars, draft, accepted, cancelled, storeVars>>

(* A request may never arrive.                                             *)
Forget(request) ==
  /\ request \in late
  /\ late' = late \ {request}
  /\ UNCHANGED <<formVars, draft, sheet, call, accepted, cancelled, storeVars>>

SheetNext ==
  \/ \E d \in Devices :
       \/ OpenSheet(d) \/ ReadForm(d) \/ Submit(d) \/ HearSubmission(d) \/ HearArtifact(d)
       \/ PutFile(d) \/ PutFails(d) \/ HearCompleted(d) \/ HearRefusal(d)
       \/ LoseRequest(d) \/ Cancel(d) \/ CloseSheet(d)
       \/ \E body \in Bodies : FillIn(d, body)
       \/ \E f \in Files : ChooseFile(d, f)
  \/ \E request \in Asked :
       \/ ValidateSubmission(request) \/ InsertSubmission(request)
       \/ InitUpload(request) \/ CompleteUpload(request) \/ AbortUpload(request)
       \/ Forget(request)
  \/ \E k \in Drafts, f \in Files : Verify(k, f)

Next == FormNext \/ SheetNext

Spec == Init /\ [][Next]_vars

-----------------------------------------------------------------------------
(* Properties *)

(* admin-content.ts: a published version cannot be changed.  Every          *)
(* submission answers what its form asks, for ever: neither an editor that  *)
(* saves an old page nor a version that is archived, published again or     *)
(* replaced while answers are compared with it pulls the form from under    *)
(* the answers.                                                            *)
SubmissionsFitTheirForm ==
  \A k \in Drafts :
    submission[k] # NoSubmission => submission[k].asked = AskedBy(submission[k].form)

(* submission-sheet.tsx: what is shown as accepted is stored as it was       *)
(* filled in, with every file unless its sending was once cancelled; and    *)
(* what is stored was shown as accepted, or a device still holds its key to *)
(* send it again, so that lost answers and closed pages neither hide a      *)
(* submission nor make a second one of it.                                 *)
AcceptedIsStored ==
  /\ \A a \in accepted :
       /\ submission[a.key].form = a.form /\ submission[a.key].body = a.body
       /\ \A f \in a.files :
            artifact[a.key][f] \in Finished \cup {"failed"} \/ a.key \in cancelled
  /\ \A k \in Drafts :
       submission[k] # NoSubmission =>
         (\E a \in accepted : a.key = k) \/ (\E d \in Devices : draft[d].key = k)
=============================================================================
