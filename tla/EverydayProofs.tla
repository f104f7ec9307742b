--------------------------- MODULE EverydayProofs ---------------------------
(***************************************************************************)
(* Theorems about parts of MCEveryday: answers fit their form and what a    *)
(* sheet has shown as accepted is stored, for any number of versions,      *)
(* editors, devices, drafts and files (Submissions); what is shown can be  *)
(* loaded, for any number of pictures, covers and requests (Pictures);     *)
(* what a card shows is stored, and no place is booked twice, for any      *)
(* number of devices, bookings and keys (Desk); points are paid on terms    *)
(* that were confirmed, and what a phone says was done was done, for any    *)
(* number of people, QRs, intents and orders (WalletSheets).               *)
(***************************************************************************)
EXTENDS MCEveryday, TLAPS, FiniteSetTheorems

Version == [status : {"none", "draft", "published", "archived"}, asks : Kinds \cup {Nothing}]
Editor == [listed : [Versions -> Version], selected : Versions \cup {Nothing},
           asks : Kinds \cup {Nothing}, saved : Versions \cup {Nothing}]

FormTypeOK ==
  /\ version \in [Versions -> Version]
  /\ active \in Versions \cup {Nothing}
  /\ editor \in [Editors -> Editor]

(* What an event has had as its form is not a draft any more.              *)
WasPublished(v) == v \in Versions /\ version[v].status \in {"published", "archived"}

(* The answers to a form that can still be found were compared with it.    *)
Compared(form, asked) ==
  \/ form = Nothing /\ asked = Nothing
  \/ WasPublished(form) /\ asked = version[form].asks

ActiveIsPublished == active # Nothing => version[active].status = "published"

(* Such a request has all that the server looks at.                        *)
IsPost(r) ==
  r = [kind |-> "post", key |-> r.key, body |-> r.body, form |-> r.form, files |-> r.files,
       asked |-> r.asked]

PostsWereCompared ==
  \A r \in Asked : r.kind = "post" =>
    IsPost(r) /\ (r.asked # "not read" => Compared(r.form, r.asked))

SubmissionsWereCompared ==
  \A k \in Drafts : submission[k] # NoSubmission => Compared(submission[k].form, submission[k].asked)

(* Inductive: SubmissionsFitTheirForm alone says nothing of the answers     *)
(* that are still on their way, nor that the form they name cannot change. *)
FormInv ==
  /\ FormTypeOK
  /\ DOMAIN call = Devices /\ DOMAIN submission = Drafts
  /\ ActiveIsPublished /\ PostsWereCompared /\ SubmissionsWereCompared

-----------------------------------------------------------------------------

LEMMA InitForm == SubmissionsAssumption /\ Init => FormInv
<1> SUFFICES ASSUME SubmissionsAssumption, Init PROVE FormInv
  OBVIOUS
<1>1. FormTypeOK
  BY DEF Init, FormTypeOK, Version, Editor, NoVersion, BlankEditor, Kinds
<1>2. \A r \in Asked : r.kind = "none"
  BY DEF Init, Asked, NoCall
<1> QED BY <1>1, <1>2 DEF Init, FormInv, ActiveIsPublished, PostsWereCompared,
                          SubmissionsWereCompared

(* What editors do to versions: one more is written, or one is published.  *)
FormsGrow ==
  \A v \in Versions : WasPublished(v) =>
    /\ version'[v].status \in {"published", "archived"}
    /\ version'[v].asks = version[v].asks

LEMMA ComparedStays ==
  ASSUME FormsGrow, NEW form, NEW asked, Compared(form, asked)
  PROVE  Compared(form, asked)'
BY DEF FormsGrow, Compared, WasPublished

LEMMA PublishedType ==
  ASSUME FormTypeOK, NEW v \in Versions
  PROVE  /\ Published(v) \in [Versions -> Version]
         /\ Published(v)[v].status = "published"
         /\ \A w \in Versions : /\ Published(v)[w].asks = version[w].asks
                                /\ WasPublished(w) => Published(v)[w].status \in {"published", "archived"}
<1>1. \A w \in Versions : version[w] \in Version
  BY DEF FormTypeOK
<1> QED BY <1>1 DEF Published, Version, WasPublished

(* A step of an editor.                                                    *)
FormStep ==
  /\ FormTypeOK' /\ ActiveIsPublished' /\ FormsGrow

LEMMA PublishStep ==
  ASSUME FormTypeOK, NEW v \in Versions, PublishForm(v)
  PROVE  /\ version' \in [Versions -> Version] /\ active' \in Versions
         /\ ActiveIsPublished' /\ FormsGrow
BY PublishedType DEF PublishForm, ActiveIsPublished, FormsGrow, WasPublished

LEMMA WriteStep ==
  ASSUME FormTypeOK, ActiveIsPublished, NEW v \in Versions, NEW asks \in Kinds \cup {Nothing},
         PutForm(v, asks) \/ CreateForm(v, asks)
  PROVE  /\ version' \in [Versions -> Version] /\ active' = active
         /\ ActiveIsPublished' /\ FormsGrow
<1>1. version[v] \in Version /\ version[v].status \in {"none", "draft"}
  BY DEF FormTypeOK, PutForm, CreateForm, NoVersion, Version
<1>2. CASE PutForm(v, asks)
  BY <1>1, <1>2 DEF PutForm, FormTypeOK, Version, ActiveIsPublished, FormsGrow, WasPublished
<1>3. CASE CreateForm(v, asks)
  BY <1>1, <1>3 DEF CreateForm, FormTypeOK, Version, ActiveIsPublished, FormsGrow,
         WasPublished
<1> QED BY <1>2, <1>3

LEMMA EditorStep ==
  ASSUME SubmissionsAssumption, FormTypeOK, ActiveIsPublished, FormNext
  PROVE  FormStep
<1> USE DEF FormStep
<1>0. \A e \in Editors : editor[e] \in Editor
  BY DEF FormTypeOK
<1>1. ASSUME NEW v \in Versions, NEW asks \in Kinds, CreatePublishedForm(v, asks)
      PROVE  FormStep
  <2>1. /\ version' \in [Versions -> Version] /\ version'[v].status = "published"
        /\ \A w \in Versions \ {v} : version'[w] = Published(v)[w]
    BY <1>1, PublishedType DEF CreatePublishedForm, Version
  <2>2. ~WasPublished(v)
    BY <1>1 DEF CreatePublishedForm, NoVersion, WasPublished
  <2>3. active' = v /\ editor' = editor
    BY <1>1 DEF CreatePublishedForm
  <2>4. FormsGrow
    BY <2>1, <2>2, PublishedType DEF FormsGrow, WasPublished
  <2> QED BY <2>1, <2>3, <2>4 DEF FormTypeOK, ActiveIsPublished
<1>2. ASSUME NEW e \in Editors, ListVersions(e) \/ StartNewVersion(e) \/ PublishFails(e)
      PROVE  FormStep
  <2>1. [BlankEditor EXCEPT !.listed = version] \in Editor
    BY DEF FormTypeOK, Editor, BlankEditor, Kinds
  <2>2. CASE ListVersions(e)
    BY <2>1, <2>2 DEF ListVersions, FormTypeOK, ActiveIsPublished, FormsGrow, WasPublished
  <2>3. ASSUME StartNewVersion(e) \/ PublishFails(e)
        PROVE  editor' \in [Editors -> Editor] /\ UNCHANGED <<version, active>>
    <3>1. [editor[e] EXCEPT !.selected = Nothing] \in Editor
      BY <1>0 DEF Editor
    <3>2. [editor[e] EXCEPT !.saved = Nothing] \in Editor
      BY <1>0 DEF Editor
    <3>3. \/ editor' = [editor EXCEPT ![e] = [editor[e] EXCEPT !.selected = Nothing]]
          \/ editor' = [editor EXCEPT ![e] = [editor[e] EXCEPT !.saved = Nothing]]
      BY <2>3 DEF StartNewVersion, PublishFails
    <3>4. editor' \in [Editors -> Editor]
      BY <3>1, <3>2, <3>3 DEF FormTypeOK
    <3> QED BY <2>3, <3>4 DEF StartNewVersion, PublishFails
  <2> QED BY <1>2, <2>2, <2>3 DEF FormTypeOK, ActiveIsPublished, FormsGrow, WasPublished
<1>3. ASSUME NEW e \in Editors, NEW v \in Versions, SelectVersion(e, v)
      PROVE  FormStep
  <2>1. editor[e].listed[v] \in Version
    BY <1>0 DEF Editor
  <2>2. [editor[e] EXCEPT !.selected = v, !.asks = editor[e].listed[v].asks] \in Editor
    BY <1>0, <2>1 DEF Editor, Version
  <2>3. editor' \in [Editors -> Editor]
    BY <1>3, <2>2 DEF SelectVersion, FormTypeOK
  <2> QED BY <1>3, <2>3 DEF SelectVersion, FormTypeOK, ActiveIsPublished, FormsGrow,
         WasPublished
<1>4. ASSUME NEW e \in Editors, NEW asks \in Kinds, EditForm(e, asks)
      PROVE  FormStep
  <2>1. editor' \in [Editors -> Editor]
    BY <1>0, <1>4 DEF EditForm, FormTypeOK, Editor
  <2> QED BY <1>4, <2>1 DEF EditForm, FormTypeOK, ActiveIsPublished, FormsGrow, WasPublished
<1>5. ASSUME NEW e \in Editors, Save(e)
      PROVE  FormStep
  <2>1. PICK v \in Versions :
          /\ PutForm(v, editor[e].asks) \/ CreateForm(v, editor[e].asks)
          /\ \/ editor' = [editor EXCEPT ![e].saved = v]
             \/ editor' = [editor EXCEPT ![e] = [BlankEditor EXCEPT !.listed = version']]
             \/ UNCHANGED editor
    BY <1>5 DEF Save
  <2>2. /\ version' \in [Versions -> Version] /\ active' = active
        /\ ActiveIsPublished' /\ FormsGrow
    BY <1>0, <2>1, WriteStep DEF Editor
  <2>3. [BlankEditor EXCEPT !.listed = version'] \in Editor
    BY <2>2 DEF Editor, BlankEditor, Kinds
  <2>4. [editor[e] EXCEPT !.saved = v] \in Editor
    BY <1>0 DEF Editor
  <2>5. editor' \in [Editors -> Editor]
    BY <2>1, <2>3, <2>4 DEF FormTypeOK
  <2> QED BY <2>2, <2>5 DEF FormTypeOK
<1>6. ASSUME NEW e \in Editors, PublishSaved(e)
      PROVE  FormStep
  <2>1. editor[e].saved \in Versions
    BY <1>0, <1>6 DEF PublishSaved, Idle, Editor
  <2>2. /\ version' \in [Versions -> Version] /\ active' \in Versions
        /\ ActiveIsPublished' /\ FormsGrow
    BY <1>6, <2>1, PublishStep DEF PublishSaved
  <2>3. [BlankEditor EXCEPT !.listed = version'] \in Editor
    BY <2>2 DEF Editor, BlankEditor, Kinds
  <2>4. [editor[e] EXCEPT !.saved = Nothing] \in Editor
    BY <1>0 DEF Editor
  <2>5. editor' \in [Editors -> Editor]
    BY <1>6, <2>3, <2>4 DEF PublishSaved, FormTypeOK
  <2> QED BY <2>2, <2>5 DEF FormTypeOK
<1> QED BY <1>1, <1>2, <1>3, <1>4, <1>5, <1>6 DEF FormNext

LEMMA FormNextInv ==
  ASSUME SubmissionsAssumption, FormInv, FormNext
  PROVE  FormInv'
<1>1. FormStep
  BY EditorStep DEF FormInv
<1>2. UNCHANGED <<call, late, submission>>
  BY DEF FormNext, CreatePublishedForm, ListVersions, StartNewVersion, PublishFails,
         SelectVersion, EditForm, Save, PublishSaved, sheetVars, storeVars
<1>3. Asked' = Asked
  BY <1>2 DEF Asked
<1>4. PostsWereCompared' /\ SubmissionsWereCompared'
  BY <1>1, <1>2, <1>3, ComparedStays
     DEF FormStep, FormInv, PostsWereCompared, SubmissionsWereCompared
<1> QED BY <1>1, <1>2, <1>4 DEF FormStep, FormInv

-----------------------------------------------------------------------------
(* The sheets *)

(* The requests after a step: those there were, and others that are no      *)
(* compared answers.                                                       *)
NoNewPosts ==
  \A r \in Asked' : r \in Asked \/ r.kind # "post" \/ (IsPost(r) /\ r.asked = "not read")

LEMMA NoNewPostsInv ==
  ASSUME FormInv, NoNewPosts, UNCHANGED <<formVars, submission>>, DOMAIN call' = Devices
  PROVE  FormInv'
<1>1. version' = version /\ active' = active /\ editor' = editor /\ submission' = submission
  BY DEF formVars
<1>2. \A form, asked : Compared(form, asked) <=> Compared(form, asked)'
  BY <1>1 DEF Compared, WasPublished
<1> QED BY <1>1, <1>2 DEF FormInv, FormTypeOK, ActiveIsPublished, PostsWereCompared,
                          SubmissionsWereCompared, NoNewPosts

(* A request replaced by another one.                                      *)
LEMMA Calls ==
  ASSUME DOMAIN call = Devices, NEW d \in Devices, NEW r, call' = [call EXCEPT ![d] = r],
         late' \subseteq Asked
  PROVE  DOMAIN call' = Devices /\ Asked' \subseteq Asked \cup {r}
BY DEF Asked

LEMMA Answers ==
  ASSUME DOMAIN call = Devices, NEW request, NEW reply, Answer(request, reply)
  PROVE  /\ DOMAIN call' = Devices
         /\ Asked' \subseteq Asked \cup {[kind |-> "answered", reply |-> reply]}
BY DEF Answer, Asked

LEMMA AnsweredIsNoPost ==
  ASSUME NEW reply
  PROVE  [kind |-> "answered", reply |-> reply].kind # "post"
OBVIOUS

LEMMA Moves ==
  ASSUME DOMAIN call = Devices, NEW request, NEW next, MoveOn(request, next)
  PROVE  DOMAIN call' = Devices /\ Asked' \subseteq Asked \cup {next}
BY DEF MoveOn, Asked

(* What a page does leaves the forms and the submissions alone, and asks    *)
(* for nothing that was compared before.                                   *)
LEMMA PageStep ==
  ASSUME FormInv, NEW d \in Devices,
         \/ OpenSheet(d) \/ ReadForm(d) \/ Submit(d) \/ HearSubmission(d) \/ HearArtifact(d)
         \/ PutFile(d) \/ PutFails(d) \/ HearCompleted(d) \/ HearRefusal(d)
         \/ LoseRequest(d) \/ Cancel(d) \/ CloseSheet(d)
         \/ \E body \in Bodies : FillIn(d, body)
         \/ \E f \in Files : ChooseFile(d, f)
  PROVE  FormInv'
<1> DEFINE Harmless(r) == r.kind # "post" \/ (IsPost(r) /\ r.asked = "not read")
<1>0. DOMAIN call = Devices
  BY DEF FormInv
<1>1. ASSUME OpenSheet(d) \/ ReadForm(d) \/ PutFails(d) \/ (\E body \in Bodies : FillIn(d, body))
             \/ (\E f \in Files : ChooseFile(d, f))
      PROVE  FormInv'
  <2>1. UNCHANGED <<formVars, submission, call, late>>
    BY <1>1 DEF OpenSheet, ReadForm, PutFails, FillIn, ChooseFile, storeVars
  <2> QED BY <1>0, <2>1, NoNewPostsInv DEF NoNewPosts, Asked
<1>2. ASSUME NEW r, Ask(d, r), Harmless(r), late' = late, UNCHANGED <<formVars, submission>>
      PROVE  FormInv'
  <2>1. DOMAIN call' = Devices /\ Asked' \subseteq Asked \cup {r}
    BY <1>0, <1>2, Calls DEF Ask, Asked
  <2> QED BY <1>2, <2>1, NoNewPostsInv DEF NoNewPosts
<1>3. CASE Submit(d)
  <2> DEFINE r == [kind |-> "post", key |-> draft[d].key, body |-> draft[d].body,
                   form |-> FormOf(d), files |-> sheet[d].files # {}, asked |-> "not read"]
  <2>1. Ask(d, r) /\ late' = late /\ UNCHANGED <<formVars, submission>>
    BY <1>3 DEF Submit, storeVars
  <2>2. Harmless(r)
    BY DEF IsPost
  <2> HIDE DEF r
  <2> QED BY <1>2, <2>1, <2>2
<1>4. ASSUME NEW todo, NEW known, SendNext(d, todo, known), late' = late,
             UNCHANGED <<formVars, submission>>
      PROVE  FormInv'
  <2>1. CASE \E f \in todo : Ask(d, [kind |-> "init", key |-> draft[d].key, file |-> f])
    BY <1>2, <1>4, <2>1
  <2>2. CASE Ask(d, NoCall)
    BY <1>2, <1>4, <2>2 DEF NoCall
  <2> QED BY <1>4, <2>1, <2>2 DEF SendNext
<1>5. CASE HearSubmission(d) \/ HearCompleted(d)
  BY <1>4, <1>5 DEF HearSubmission, HearCompleted, storeVars
<1>6. CASE HearArtifact(d)
  <2>1. CASE call[d].reply.done
    BY <1>4, <1>6, <2>1 DEF HearArtifact, storeVars
  <2>2. CASE ~call[d].reply.done
    BY <1>2, <1>6, <2>2 DEF HearArtifact, storeVars, NoCall
  <2> QED BY <2>1, <2>2
<1>7. CASE PutFile(d)
  BY <1>2, <1>7 DEF PutFile
<1>8. CASE HearRefusal(d)
  BY <1>2, <1>8 DEF HearRefusal, storeVars, NoCall
<1>9. ASSUME GiveUp(d), UNCHANGED <<formVars, submission>>
      PROVE  FormInv'
  <2>1. late' \subseteq Asked
    BY <1>9 DEF GiveUp, Asked
  <2>2. DOMAIN call' = Devices /\ Asked' \subseteq Asked \cup {NoCall}
    BY <1>0, <1>9, <2>1, Calls DEF GiveUp
  <2>3. NoCall.kind # "post"
    BY DEF NoCall
  <2>4. NoNewPosts
    BY <2>2, <2>3 DEF NoNewPosts
  <2> QED BY <1>9, <2>2, <2>4, NoNewPostsInv
<1>10. CASE LoseRequest(d)
  BY <1>9, <1>10 DEF LoseRequest, storeVars
<1>11. CASE CloseSheet(d)
  <2>1. CASE call[d] = NoCall
    <3>1. UNCHANGED <<formVars, submission, call, late>>
      BY <1>11, <2>1 DEF CloseSheet, storeVars
    <3> QED BY <1>0, <3>1, NoNewPostsInv DEF NoNewPosts, Asked
  <2>2. CASE call[d] # NoCall
    BY <1>9, <1>11, <2>2 DEF CloseSheet, storeVars
  <2> QED BY <2>1, <2>2
<1>12. CASE Cancel(d)
  <2>1. \A r \in late' : r \in late \/ r.kind = "abort"
    BY <1>12 DEF Cancel
  <2>2. call' = call /\ UNCHANGED <<formVars, submission>>
    BY <1>12 DEF Cancel, storeVars
  <2> QED BY <1>0, <2>1, <2>2, NoNewPostsInv DEF NoNewPosts, Asked
<1> QED BY <1>1, <1>3, <1>5, <1>6, <1>7, <1>8, <1>10, <1>11, <1>12

(* Uploads answer; a request may be forgotten; a file may be verified.      *)
LEMMA UploadStep ==
  ASSUME FormInv,
         \/ \E request \in Asked : \/ InitUpload(request) \/ CompleteUpload(request)
                                   \/ AbortUpload(request) \/ Forget(request)
         \/ \E k \in Drafts, f \in Files : Verify(k, f)
  PROVE  FormInv'
<1>0. DOMAIN call = Devices
  BY DEF FormInv
<1>1. ASSUME NEW request, NEW reply, Answer(request, reply), UNCHANGED <<formVars, submission>>
      PROVE  FormInv'
  <2>1. /\ DOMAIN call' = Devices
        /\ Asked' \subseteq Asked \cup {[kind |-> "answered", reply |-> reply]}
    BY <1>0, <1>1, Answers
  <2>2. NoNewPosts
    BY <2>1, AnsweredIsNoPost DEF NoNewPosts
  <2> QED BY <1>1, <2>1, <2>2, NoNewPostsInv
<1>2. ASSUME NEW request \in Asked,
             InitUpload(request) \/ CompleteUpload(request) \/ AbortUpload(request)
      PROVE  FormInv'
  <2>1. /\ \E reply : Answer(request, reply)
        /\ UNCHANGED <<formVars, submission>>
    BY <1>2 DEF InitUpload, CompleteUpload, AbortUpload
  <2> QED BY <1>1, <2>1
<1>3. ASSUME late' \subseteq late, UNCHANGED <<formVars, submission, call>>
      PROVE  FormInv'
  BY <1>0, <1>3, NoNewPostsInv DEF NoNewPosts, Asked
<1>4. ASSUME NEW request \in Asked, Forget(request)
      PROVE  FormInv'
  BY <1>3, <1>4 DEF Forget, storeVars
<1>5. ASSUME NEW k \in Drafts, NEW f \in Files, Verify(k, f)
      PROVE  FormInv'
  BY <1>3, <1>5 DEF Verify, sheetVars
<1> QED BY <1>2, <1>4, <1>5

LEMMA AskedByActive ==
  ASSUME FormInv
  PROVE  Compared(active, AskedBy(active))
BY DEF FormInv, FormTypeOK, ActiveIsPublished, Compared, WasPublished, AskedBy

(* The answers are compared, or inserted as they were compared.            *)
LEMMA PostStep ==
  ASSUME FormInv, NEW request \in Asked,
         ValidateSubmission(request) \/ InsertSubmission(request)
  PROVE  FormInv'
<1>0. DOMAIN call = Devices /\ DOMAIN submission = Drafts
  BY DEF FormInv
<1>1. version' = version /\ active' = active /\ editor' = editor
  BY DEF ValidateSubmission, InsertSubmission, formVars
<1>2. \A form, asked : Compared(form, asked) <=> Compared(form, asked)'
  BY <1>1 DEF Compared, WasPublished
<1>3. FormTypeOK' /\ ActiveIsPublished'
  BY <1>1 DEF FormInv, FormTypeOK, ActiveIsPublished
<1>4. ASSUME NEW reply, Answer(request, reply)
      PROVE  DOMAIN call' = Devices /\ PostsWereCompared'
  <2>1. /\ DOMAIN call' = Devices
        /\ Asked' \subseteq Asked \cup {[kind |-> "answered", reply |-> reply]}
    BY <1>0, <1>4, Answers
  <2> QED BY <1>2, <2>1, AnsweredIsNoPost DEF FormInv, PostsWereCompared, IsPost
<1>5. ASSUME request.kind = "post", request.form = active,
             MoveOn(request, [request EXCEPT !.asked = AskedBy(active)])
      PROVE  DOMAIN call' = Devices /\ PostsWereCompared'
  <2> DEFINE next == [request EXCEPT !.asked = AskedBy(active)]
  <2>1. DOMAIN call' = Devices /\ Asked' \subseteq Asked \cup {next}
    BY <1>0, <1>5, Moves
  <2>2. IsPost(request)
    BY <1>5 DEF FormInv, PostsWereCompared
  <2>3. IsPost(next) /\ next.form = active /\ next.asked = AskedBy(active)
    BY <1>5, <2>2 DEF IsPost
  <2> HIDE DEF next
  <2> QED BY <1>2, <2>1, <2>3, AskedByActive DEF FormInv, PostsWereCompared
<1>6. CASE UNCHANGED submission
  <2>1. DOMAIN call' = Devices /\ PostsWereCompared'
    BY <1>4, <1>5, <1>6 DEF ValidateSubmission, InsertSubmission, Replay
  <2> QED BY <1>0, <1>2, <1>3, <1>6, <2>1 DEF FormInv, SubmissionsWereCompared
<1>7. CASE ~UNCHANGED submission
  <2>1. /\ request.kind = "post" /\ request.asked # "not read"
        /\ submission' = [submission EXCEPT ![request.key] =
             [form |-> request.form, body |-> request.body, files |-> request.files,
              asked |-> request.asked]]
        /\ Answer(request, [kind |-> "submission"])
    BY <1>7 DEF ValidateSubmission, InsertSubmission, storeVars
  <2>2. Compared(request.form, request.asked)
    BY <2>1 DEF FormInv, PostsWereCompared
  <2>3. DOMAIN submission' = Drafts /\ SubmissionsWereCompared'
    BY <1>0, <1>2, <2>1, <2>2 DEF FormInv, SubmissionsWereCompared
  <2> QED BY <1>3, <1>4, <2>1, <2>3 DEF FormInv
<1> QED BY <1>6, <1>7

-----------------------------------------------------------------------------

LEMMA NextForm == SubmissionsAssumption /\ FormInv /\ [Next]_vars => FormInv'
<1> SUFFICES ASSUME SubmissionsAssumption, FormInv, [Next]_vars PROVE FormInv'
  OBVIOUS
<1>1. CASE FormNext
  BY <1>1, FormNextInv
<1>2. CASE SheetNext
  BY <1>2, PageStep, UploadStep, PostStep DEF SheetNext
<1>3. CASE UNCHANGED vars
  BY <1>3, NoNewPostsInv DEF vars, sheetVars, storeVars, NoNewPosts, Asked, FormInv
<1> QED BY <1>1, <1>2, <1>3 DEF Next

LEMMA FormInvFits == SubmissionsAssumption /\ FormInv => SubmissionsFitTheirForm
<1> SUFFICES ASSUME SubmissionsAssumption, FormInv, NEW k \in Drafts, submission[k] # NoSubmission
             PROVE  submission[k].asked = AskedBy(submission[k].form)
  BY DEF SubmissionsFitTheirForm
<1>1. Compared(submission[k].form, submission[k].asked)
  BY DEF FormInv, SubmissionsWereCompared
<1> QED BY <1>1 DEF SubmissionsAssumption, Compared, WasPublished, AskedBy

(* Every submission answers what its form asks, for ever, however many     *)
(* editors, devices and late requests there are (admin-content.ts).        *)
THEOREM AnswersFitTheirForm ==
  ASSUME SubmissionsAssumption
  PROVE  Spec => []SubmissionsFitTheirForm
<1>1. Init => FormInv
  BY InitForm, SubmissionsAssumption
<1>2. FormInv /\ [Next]_vars => FormInv'
  BY NextForm, SubmissionsAssumption
<1>3. FormInv => SubmissionsFitTheirForm
  BY FormInvFits, SubmissionsAssumption
<1> QED BY <1>1, <1>2, <1>3, PTL DEF Spec

-----------------------------------------------------------------------------
(* What was accepted: files, sheets and requests *)

(* A file that was handed in, or was cancelled with its draft.             *)
Good(k, f) == artifact[k][f] \in Finished \cup {"failed"} \/ k \in cancelled

IsStored(sent) ==
  /\ submission[sent.key] # NoSubmission
  /\ submission[sent.key].form = sent.form /\ submission[sent.key].body = sent.body

Sent == [key : Drafts, body : Bodies \cup {Nothing}, form : Versions \cup {Nothing}]
Sheet ==
  [step : {"closed", "editing", "posting", "init", "put", "completing"},
   form : Versions \cup {Nothing, "loading"}, files : SUBSET Files, sent : Sent \cup {Nothing},
   known : SUBSET Files, todo : SUBSET Files, file : Files \cup {Nothing}]
Draft == [key : Drafts, body : Bodies \cup {Nothing}]
FileStatus == {"none", "uploading", "uploaded", "ready", "failed", "deleted"}

SheetsTyped ==
  /\ sheet \in [Devices -> Sheet] /\ draft \in [Devices -> Draft]
  /\ artifact \in [Drafts -> [Files -> FileStatus]]

Sends(d) == sheet[d].step \in {"posting", "init", "put", "completing"}
Uploads(d) == sheet[d].step \in {"init", "put", "completing"}

(* What a sheet is sending, and what of it has arrived.                    *)
SendingIsTrue(d) ==
  /\ Sends(d) => sheet[d].sent \in Sent /\ sheet[d].sent.key = draft[d].key
  /\ Uploads(d) =>
       /\ IsStored(sheet[d].sent) /\ sheet[d].file \in Files
       /\ \A f \in sheet[d].files :
            f \in sheet[d].todo \/ f = sheet[d].file \/ Good(draft[d].key, f)

(* The request of a sheet is the one its step is about.                    *)
CallIsOfTheStep(d) ==
  /\ call[d].kind = "post" =>
       /\ At(d, "posting") /\ call[d].key = sheet[d].sent.key
       /\ call[d].body = sheet[d].sent.body /\ call[d].form = sheet[d].sent.form
  /\ call[d].kind = "init" =>
       At(d, "init") /\ call[d].key = draft[d].key /\ call[d].file = sheet[d].file
  /\ call[d].kind = "complete" =>
       At(d, "completing") /\ call[d].key = draft[d].key /\ call[d].file = sheet[d].file
  /\ call[d].kind # "abort"

(* An answer that a sheet has got and not used yet is still true.          *)
AnswerIsTrue(d) ==
  call[d].kind = "answered" =>
    /\ At(d, "posting") /\ call[d].reply.kind = "submission" => IsStored(sheet[d].sent)
    /\ At(d, "init") /\ call[d].reply.kind = "artifact" =>
         (call[d].reply.done => Good(draft[d].key, sheet[d].file))
    /\ At(d, "completing") /\ call[d].reply.kind = "completed" =>
         Good(draft[d].key, sheet[d].file)

(* Whose key it is: the draft of a device, or one that was accepted.       *)
IsKnown(k) == (\E a \in accepted : a.key = k) \/ (\E d \in Devices : draft[d].key = k)

RequestsAreKnown ==
  \A r \in Asked :
    /\ r.kind = "post" => IsKnown(r.key) /\ (r.body # Nothing \/ r.files # FALSE)
    /\ r.kind = "abort" => r.key \in cancelled

AcceptedStays ==
  \A a \in accepted : a.key \in Drafts /\ IsStored(a) /\ a.files \subseteq Files /\ \A f \in a.files : Good(a.key, f)

StoredIsKnown == \A k \in Drafts : submission[k] # NoSubmission => IsKnown(k)

SheetInv ==
  /\ SheetsTyped
  /\ \A d \in Devices : SendingIsTrue(d) /\ CallIsOfTheStep(d) /\ AnswerIsTrue(d)
  /\ RequestsAreKnown /\ AcceptedStays /\ StoredIsKnown

-----------------------------------------------------------------------------
(* What is stored stays, and so does what a file has come to.              *)
StoreGrows ==
  /\ \A k \in Drafts : submission[k] # NoSubmission => submission'[k] = submission[k]
  /\ \A k \in Drafts, f \in Files : Good(k, f) => Good(k, f)'

LEMMA StoreRests ==
  ASSUME UNCHANGED <<submission, artifact>>, cancelled \subseteq cancelled'
  PROVE  StoreGrows
BY DEF StoreGrows, Good

LEMMA StoredStays ==
  ASSUME StoreGrows, NEW sent, sent.key \in Drafts, IsStored(sent)
  PROVE  IsStored(sent)'
BY DEF StoreGrows, IsStored

(* A sheet that changes nothing of what it sends.                          *)
LEMMA SheetStays ==
  ASSUME SheetInv, StoreGrows, SheetsTyped', NEW d \in Devices,
         call'[d] = call[d], draft'[d].key = draft[d].key,
         sheet'[d].step = sheet[d].step, sheet'[d].sent = sheet[d].sent,
         sheet'[d].files = sheet[d].files, sheet'[d].todo = sheet[d].todo,
         sheet'[d].file = sheet[d].file
  PROVE  SendingIsTrue(d)' /\ CallIsOfTheStep(d)' /\ AnswerIsTrue(d)'
<1>1. /\ SendingIsTrue(d) /\ CallIsOfTheStep(d) /\ AnswerIsTrue(d)
      /\ draft[d].key \in Drafts /\ sheet[d].files \subseteq Files
  BY DEF SheetInv, SheetsTyped, Draft, Sheet
<1>2. Sends(d) <=> Sends(d)'
  BY DEF Sends
<1>3. Uploads(d) <=> Uploads(d)'
  BY DEF Uploads
<1>4. Uploads(d) => Sends(d)
  BY DEF Uploads, Sends
<1>5. \A step : At(d, step) <=> At(d, step)'
  BY DEF At
<1>6. IsStored(sheet[d].sent) /\ sheet[d].sent.key \in Drafts => IsStored(sheet[d].sent)'
  BY StoredStays
<1>7. \A f \in Files : Good(draft[d].key, f) => Good(draft[d].key, f)'
  BY <1>1 DEF StoreGrows
<1>8. Uploads(d) => (IsStored(sheet[d].sent) => IsStored(sheet[d].sent)')
  BY <1>1, <1>4, <1>6 DEF SendingIsTrue
<1>10. SendingIsTrue(d)'
  BY <1>1, <1>2, <1>3, <1>7, <1>8 DEF SendingIsTrue, Good, IsStored
<1>11. CallIsOfTheStep(d)'
  BY <1>1, <1>5 DEF CallIsOfTheStep
<1>12. AnswerIsTrue(d)'
  <2> SUFFICES ASSUME call[d].kind = "answered"
               PROVE  AnswerIsTrue(d)'
    BY DEF AnswerIsTrue
  <2>1. CASE At(d, "posting")
    BY <1>1, <1>5, <1>6, <2>1 DEF AnswerIsTrue, SendingIsTrue, Sends, At, IsStored
  <2>2. CASE At(d, "init") \/ At(d, "completing")
    <3>1. sheet[d].file \in Files
      BY <1>1, <2>2 DEF SendingIsTrue, Uploads, At
    <3> QED BY <1>1, <1>5, <1>7, <2>2, <3>1 DEF AnswerIsTrue, At, Good
  <2> QED BY <1>5, <2>1, <2>2 DEF AnswerIsTrue
<1> QED BY <1>10, <1>11, <1>12

(* A sheet that does not send.                                             *)
LEMMA SheetRests ==
  ASSUME NEW d \in Devices, sheet'[d].step \in {"closed", "editing"},
         call'[d].kind \notin {"post", "init", "complete", "abort"}
  PROVE  SendingIsTrue(d)' /\ CallIsOfTheStep(d)' /\ AnswerIsTrue(d)'
BY DEF SendingIsTrue, CallIsOfTheStep, AnswerIsTrue, Sends, Uploads, At

LEMMA KnownStays ==
  ASSUME accepted \subseteq accepted', \A d \in Devices : draft'[d].key = draft[d].key
  PROVE  \A k : IsKnown(k) => IsKnown(k)'
BY DEF IsKnown

LEMMA RequestsStayKnown ==
  ASSUME SheetInv, cancelled \subseteq cancelled', \A k : IsKnown(k) => IsKnown(k)',
         \A r \in Asked' :
           \/ r \in Asked
           \/ r.kind \notin {"post", "abort"}
           \/ r.kind = "post" /\ IsKnown(r.key)' /\ (r.body # Nothing \/ r.files # FALSE)
           \/ r.kind = "abort" /\ r.key \in cancelled'
  PROVE  RequestsAreKnown'
BY DEF SheetInv, RequestsAreKnown

LEMMA WhatWasAcceptedStays ==
  ASSUME SheetInv, StoreGrows, NEW a \in accepted
  PROVE  /\ a.key \in Drafts /\ IsStored(a)' /\ a.files \subseteq Files
         /\ \A f \in a.files : Good(a.key, f)'
<1>1. a.key \in Drafts /\ IsStored(a) /\ a.files \subseteq Files /\ \A f \in a.files : Good(a.key, f)
  BY DEF SheetInv, AcceptedStays
<1> QED BY <1>1, StoredStays DEF StoreGrows

(* What one page does, when it accepts nothing.                            *)
LEMMA PageInv ==
  ASSUME SheetInv, NEW d \in Devices, UNCHANGED <<submission, artifact, accepted>>,
         cancelled \subseteq cancelled', SheetsTyped', draft'[d].key = draft[d].key,
         \A e \in Devices \ {d} :
           sheet'[e] = sheet[e] /\ draft'[e] = draft[e] /\ call'[e] = call[e],
         SendingIsTrue(d)', CallIsOfTheStep(d)', AnswerIsTrue(d)',
         \A r \in Asked' :
           \/ r \in Asked
           \/ r.kind \notin {"post", "abort"}
           \/ r.kind = "post" /\ r.key = draft[d].key /\ (r.body # Nothing \/ r.files # FALSE)
           \/ r.kind = "abort" /\ r.key \in cancelled'
  PROVE  SheetInv'
<1>1. StoreGrows
  BY StoreRests
<1>2. \A k : IsKnown(k) => IsKnown(k)'
  BY KnownStays
<1>3. \A e \in Devices : SendingIsTrue(e)' /\ CallIsOfTheStep(e)' /\ AnswerIsTrue(e)'
  BY <1>1, SheetStays
<1>4. RequestsAreKnown'
  <2>1. IsKnown(draft[d].key)'
    BY DEF IsKnown
  <2> QED BY <1>2, <2>1, RequestsStayKnown
<1>5. AcceptedStays'
  BY <1>1, WhatWasAcceptedStays DEF AcceptedStays
<1>6. StoredIsKnown'
  BY <1>2 DEF SheetInv, StoredIsKnown
<1> QED BY <1>3, <1>4, <1>5, <1>6 DEF SheetInv

-----------------------------------------------------------------------------
(* The end of a file: the next one is announced, or all is accepted.       *)
LEMMA SendNextInv ==
  ASSUME FormInv, SheetInv, NEW d \in Devices, NEW todo \in SUBSET Files, NEW known \in SUBSET Files,
         SendNext(d, todo, known), UNCHANGED <<late, cancelled, submission, artifact>>,
         Sends(d), IsStored(sheet[d].sent),
         \A f \in sheet[d].files : f \in todo \/ Good(draft[d].key, f)
  PROVE  SheetInv'
<1>0. /\ sheet \in [Devices -> Sheet] /\ draft \in [Devices -> Draft] /\ DOMAIN call = Devices
      /\ sheet[d].sent \in Sent /\ sheet[d].sent.key = draft[d].key
      /\ sheet[d] \in Sheet /\ draft[d] \in Draft /\ SheetsTyped
  BY DEF SheetInv, SheetsTyped, SendingIsTrue, FormInv
<1>1. ASSUME NEW f \in todo,
             Ask(d, [kind |-> "init", key |-> draft[d].key, file |-> f]),
             sheet' = [sheet EXCEPT ![d].step = "init", ![d].todo = todo \ {f}, ![d].file = f,
                                    ![d].known = known],
             UNCHANGED <<draft, accepted>>
      PROVE  SheetInv'
  <2> DEFINE r == [kind |-> "init", key |-> draft[d].key, file |-> f]
  <2>1. /\ sheet' \in [Devices -> Sheet]
        /\ sheet'[d].step = "init" /\ sheet'[d].todo = todo \ {f} /\ sheet'[d].file = f
        /\ sheet'[d].sent = sheet[d].sent /\ sheet'[d].files = sheet[d].files
        /\ \A e \in Devices \ {d} : sheet'[e] = sheet[e]
    BY <1>0, <1>1 DEF Sheet
  <2>2. call'[d] = r /\ \A e \in Devices \ {d} : call'[e] = call[e]
    BY <1>0, <1>1 DEF Ask
  <2>3. SheetsTyped'
    BY <1>1, <2>1 DEF SheetInv, SheetsTyped
  <2>4. SendingIsTrue(d)'
    BY <1>0, <1>1, <2>1 DEF SendingIsTrue, Sends, Uploads, IsStored, Good
  <2>5. CallIsOfTheStep(d)' /\ AnswerIsTrue(d)'
    BY <1>1, <2>1, <2>2 DEF CallIsOfTheStep, AnswerIsTrue, At
  <2>6. Asked' \subseteq Asked \cup {r}
    BY <1>0, <1>1, Calls DEF Ask, Asked
  <2>7. \A q \in Asked' : q \in Asked \/ q.kind \notin {"post", "abort"}
    BY <2>6
  <2> QED BY <1>1, <2>1, <2>2, <2>3, <2>4, <2>5, <2>7, PageInv
<1>2. ASSUME todo = {}, NEW k \in Drafts, draft' = [draft EXCEPT ![d] = [key |-> k, body |-> Nothing]],
             accepted' = accepted \cup
               {[key |-> sheet[d].sent.key, form |-> sheet[d].sent.form,
                 body |-> sheet[d].sent.body, files |-> sheet[d].files]},
             sheet' = [sheet EXCEPT ![d] = ClosedSheet], Ask(d, NoCall)
      PROVE  SheetInv'
  <2>0. PICK now : now = [key |-> sheet[d].sent.key, form |-> sheet[d].sent.form,
                          body |-> sheet[d].sent.body, files |-> sheet[d].files]
    OBVIOUS
  <2>1. StoreGrows
    BY StoreRests
  <2>2. ClosedSheet \in Sheet /\ ClosedSheet.step = "closed"
    BY DEF ClosedSheet, Sheet
  <2>3. SheetsTyped'
    BY <1>0, <1>2, <2>2 DEF SheetsTyped, Draft
  <2>4. /\ sheet'[d].step = "closed" /\ call'[d] = NoCall /\ NoCall.kind = "none"
        /\ \A e \in Devices \ {d} :
             sheet'[e] = sheet[e] /\ draft'[e] = draft[e] /\ call'[e] = call[e]
    BY <1>0, <1>2, <2>2 DEF Ask, NoCall
  <2>5. SendingIsTrue(d)' /\ CallIsOfTheStep(d)' /\ AnswerIsTrue(d)'
    BY <2>4, SheetRests
  <2>6. ASSUME NEW e \in Devices \ {d}
        PROVE  SendingIsTrue(e)' /\ CallIsOfTheStep(e)' /\ AnswerIsTrue(e)'
    BY <2>1, <2>3, <2>4, SheetStays
  <2>7. \A q : IsKnown(q) => IsKnown(q)'
    <3> SUFFICES ASSUME NEW q, IsKnown(q) PROVE IsKnown(q)'
      OBVIOUS
    <3>1. CASE \E a \in accepted : a.key = q
      BY <1>2, <3>1 DEF IsKnown
    <3>2. CASE q = draft[d].key
      <4>1. now \in accepted' /\ now.key = q
        BY <1>0, <1>2, <2>0, <3>2
      <4> QED BY <4>1 DEF IsKnown
    <3>3. CASE \E e \in Devices \ {d} : draft[e].key = q
      BY <2>4, <3>3 DEF IsKnown
    <3> QED BY <3>1, <3>2, <3>3 DEF IsKnown
  <2>8. RequestsAreKnown'
    <3>1. Asked' \subseteq Asked \cup {NoCall}
      BY <1>0, <1>2, Calls DEF Ask, Asked
    <3> QED BY <2>4, <2>7, <3>1, RequestsStayKnown
  <2>9. AcceptedStays'
    <3>1. ASSUME NEW a \in accepted
          PROVE  a.key \in Drafts /\ IsStored(a)' /\ a.files \subseteq Files /\ \A f \in a.files : Good(a.key, f)'
      BY <2>1, WhatWasAcceptedStays
    <3>2. now.key \in Drafts /\ IsStored(now)' /\ now.files \subseteq Files
      BY <1>0, <2>0 DEF IsStored, Sent, Sheet
    <3>3. \A f \in now.files : Good(now.key, f)'
      BY <1>0, <1>2, <2>0 DEF Good
    <3>4. accepted' = accepted \cup {now}
      BY <1>2, <2>0
    <3> QED BY <3>1, <3>2, <3>3, <3>4 DEF AcceptedStays
  <2>10. StoredIsKnown'
    BY <2>7 DEF SheetInv, StoredIsKnown
  <2> QED BY <2>3, <2>5, <2>6, <2>8, <2>9, <2>10 DEF SheetInv
<1> QED BY <1>1, <1>2 DEF SendNext

LEMMA StopSendingOf ==
  ASSUME SheetInv, NEW d \in Devices, StopSending(d)
  PROVE  /\ sheet' \in [Devices -> Sheet] /\ sheet'[d].step = "editing" /\ draft' = draft
         /\ \A e \in Devices \ {d} : sheet'[e] = sheet[e]
<1> DEFINE stopped == [sheet[d] EXCEPT !.step = "editing", !.sent = Nothing, !.todo = {},
                                      !.file = Nothing]
<1>1. sheet \in [Devices -> Sheet] /\ sheet[d] \in Sheet
  BY DEF SheetInv, SheetsTyped
<1>2. stopped \in Sheet
  BY <1>1 DEF Sheet
<1>3. stopped.step = "editing"
  BY <1>1 DEF Sheet
<1>4. sheet' = [sheet EXCEPT ![d] = stopped] /\ draft' = draft
  BY DEF StopSending, DraftKept
<1> HIDE DEF stopped
<1> QED BY <1>1, <1>2, <1>3, <1>4

(* Giving up leaves the request among those nobody waits for.              *)
LEMMA GiveUpOf ==
  ASSUME FormInv, NEW d \in Devices, GiveUp(d)
  PROVE  /\ call'[d] = NoCall /\ \A e \in Devices \ {d} : call'[e] = call[e]
         /\ \A r \in Asked' : r \in Asked \/ r.kind = "none"
<1>1. DOMAIN call = Devices
  BY DEF FormInv
<1>2. late' \subseteq Asked
  BY DEF GiveUp, Asked
<1>3. Asked' \subseteq Asked \cup {NoCall}
  BY <1>1, <1>2, Calls DEF GiveUp
<1> QED BY <1>1, <1>3 DEF GiveUp, NoCall

-----------------------------------------------------------------------------
LEMMA PageNextInv ==
  ASSUME FormInv, SheetInv, NEW d \in Devices,
         \/ OpenSheet(d) \/ ReadForm(d) \/ Submit(d) \/ HearSubmission(d) \/ HearArtifact(d)
         \/ PutFile(d) \/ PutFails(d) \/ HearCompleted(d) \/ HearRefusal(d)
         \/ LoseRequest(d) \/ Cancel(d) \/ CloseSheet(d)
         \/ \E body \in Bodies : FillIn(d, body)
         \/ \E f \in Files : ChooseFile(d, f)
  PROVE  SheetInv'
<1>0. /\ sheet \in [Devices -> Sheet] /\ draft \in [Devices -> Draft] /\ DOMAIN call = Devices
      /\ artifact \in [Drafts -> [Files -> FileStatus]]
      /\ sheet[d] \in Sheet /\ draft[d] \in Draft /\ active \in Versions \cup {Nothing}
      /\ SendingIsTrue(d) /\ CallIsOfTheStep(d) /\ AnswerIsTrue(d)
  BY DEF SheetInv, SheetsTyped, FormInv, FormTypeOK
<1>1. CASE OpenSheet(d)
  <2>1. /\ sheet' \in [Devices -> Sheet] /\ sheet'[d].step = "editing"
        /\ \A e \in Devices \ {d} : sheet'[e] = sheet[e]
    BY <1>0, <1>1 DEF OpenSheet, Go, Sheet
  <2>2. UNCHANGED <<draft, call, late, accepted, cancelled, submission, artifact>> /\ At(d, "closed")
    BY <1>1 DEF OpenSheet, storeVars
  <2>3. call'[d].kind \notin {"post", "init", "complete", "abort"}
    BY <1>0, <2>2 DEF CallIsOfTheStep, At
  <2>4. SheetsTyped' /\ Asked' = Asked
    BY <1>0, <2>1, <2>2 DEF SheetsTyped, Asked
  <2> QED BY <2>1, <2>2, <2>3, <2>4, SheetRests, PageInv
<1>2. CASE ReadForm(d) \/ \E body \in Bodies : FillIn(d, body)
  <2>1. /\ sheet' \in [Devices -> Sheet] /\ \A e \in Devices \ {d} : sheet'[e] = sheet[e]
        /\ sheet'[d].step = sheet[d].step /\ sheet'[d].sent = sheet[d].sent
        /\ sheet'[d].files = sheet[d].files /\ sheet'[d].todo = sheet[d].todo
        /\ sheet'[d].file = sheet[d].file
    <3>1. CASE ReadForm(d)
      <4>1. PICK form \in {active, Nothing} : sheet' = [sheet EXCEPT ![d].form = form]
        BY <3>1 DEF ReadForm
      <4>2. form \in Versions \cup {Nothing}
        BY <1>0, <4>1
      <4> QED BY <1>0, <4>1, <4>2 DEF Sheet
    <3>2. CASE sheet' = sheet
      BY <1>0, <3>2
    <3> QED BY <1>2, <3>1, <3>2 DEF FillIn
  <2>2. /\ draft' \in [Devices -> Draft] /\ draft'[d].key = draft[d].key
        /\ \A e \in Devices \ {d} : draft'[e] = draft[e]
    BY ZenonT(30), <1>0, <1>2 DEF ReadForm, FillIn, Draft
  <2>3. UNCHANGED <<call, late, accepted, cancelled, submission, artifact>>
    BY <1>2 DEF ReadForm, FillIn, storeVars
  <2>4. SheetsTyped' /\ Asked' = Asked
    BY <1>0, <2>1, <2>2, <2>3 DEF SheetsTyped, Asked
  <2>5. SendingIsTrue(d)' /\ CallIsOfTheStep(d)' /\ AnswerIsTrue(d)'
    BY <2>1, <2>2, <2>3, <2>4, StoreRests, SheetStays
  <2> QED BY <2>1, <2>2, <2>3, <2>4, <2>5, PageInv
<1>3. CASE \E f \in Files : ChooseFile(d, f)
  <2>0. PICK files \in SUBSET Files : sheet' = [sheet EXCEPT ![d].files = files]
    <3>1. PICK f \in Files : ChooseFile(d, f)
      BY <1>3
    <3>2. sheet[d].files \cup {f} \in SUBSET Files /\ sheet[d].files \ {f} \in SUBSET Files
      BY <1>0 DEF Sheet
    <3> QED BY <3>1, <3>2 DEF ChooseFile
  <2>1. /\ sheet' \in [Devices -> Sheet] /\ sheet'[d].step = "editing"
        /\ \A e \in Devices \ {d} : sheet'[e] = sheet[e]
    BY <1>0, <1>3, <2>0 DEF ChooseFile, At, Sheet
  <2>2. UNCHANGED <<draft, call, late, accepted, cancelled, submission, artifact>> /\ At(d, "editing")
    BY <1>3 DEF ChooseFile, storeVars
  <2>3. call'[d].kind \notin {"post", "init", "complete", "abort"}
    BY <1>0, <2>2 DEF CallIsOfTheStep, At
  <2>4. SheetsTyped' /\ Asked' = Asked
    BY <1>0, <2>1, <2>2 DEF SheetsTyped, Asked
  <2> QED BY <2>1, <2>2, <2>3, <2>4, SheetRests, PageInv
<1>4. CASE Submit(d)
  <2>0. PICK sent : sent = [key |-> draft[d].key, body |-> draft[d].body, form |-> FormOf(d)]
    OBVIOUS
  <2>99. PICK r : r = [kind |-> "post", key |-> sent.key, body |-> sent.body, form |-> sent.form,
                      files |-> sheet[d].files # {}, asked |-> "not read"]
    OBVIOUS
  <2>1. /\ sheet' = [sheet EXCEPT ![d].step = "posting", ![d].sent = sent] /\ Ask(d, r)
        /\ UNCHANGED <<draft, late, accepted, cancelled, submission, artifact>> /\ Complete(d)
    BY <1>4, <2>0, <2>99 DEF Submit, storeVars
  <2>2. sent \in Sent
    BY <1>0, <2>0 DEF Sent, Draft, Sheet, FormOf
  <2>3. draft[d].body # Nothing \/ sheet[d].files # {}
    BY <2>1 DEF Complete
  <2>4. /\ sheet' \in [Devices -> Sheet] /\ sheet'[d].step = "posting" /\ sheet'[d].sent = sent
        /\ \A e \in Devices \ {d} : sheet'[e] = sheet[e]
    BY <1>0, <2>1, <2>2 DEF Sheet
  <2>5. sent.key = draft[d].key /\ sent.body = draft[d].body
    BY <2>0
  <2>6. call'[d] = r /\ \A e \in Devices \ {d} : call'[e] = call[e]
    BY <1>0, <2>1 DEF Ask
  <2>7. SheetsTyped'
    BY <1>0, <2>1, <2>4 DEF SheetsTyped
  <2>8. /\ r.kind = "post" /\ r.key = sent.key /\ r.body = sent.body /\ r.form = sent.form
        /\ r.files = (sheet[d].files # {})
    BY <2>99
  <2>9. SendingIsTrue(d)'
    BY <2>1, <2>2, <2>4, <2>5 DEF SendingIsTrue, Sends, Uploads
  <2>10. CallIsOfTheStep(d)' /\ AnswerIsTrue(d)'
    BY <2>4, <2>6, <2>8 DEF CallIsOfTheStep, AnswerIsTrue, At
  <2>11. r.body # Nothing \/ r.files # FALSE
    BY <2>3, <2>5, <2>8
  <2>12. Asked' \subseteq Asked \cup {r}
    BY <1>0, <2>1, Calls DEF Ask, Asked
  <2>13. \A q \in Asked' : q \in Asked \/ q = r
    BY <2>12
  <2> QED BY <2>1, <2>4, <2>5, <2>6, <2>7, <2>8, <2>9, <2>10, <2>11, <2>13, PageInv
<1>5. CASE HearSubmission(d)
  <2>1. /\ At(d, "posting") /\ call[d].kind = "answered" /\ call[d].reply.kind = "submission"
        /\ SendNext(d, sheet[d].files, sheet[d].known)
        /\ UNCHANGED <<late, cancelled, submission, artifact>>
    BY <1>5 DEF HearSubmission, Hear, storeVars
  <2>2. Sends(d) /\ IsStored(sheet[d].sent)
    BY <1>0, <2>1 DEF AnswerIsTrue, Sends, At
  <2>3. sheet[d].files \in SUBSET Files /\ sheet[d].known \in SUBSET Files
    BY <1>0 DEF Sheet
  <2> QED BY <2>1, <2>2, <2>3, SendNextInv
<1>6. CASE HearArtifact(d)
  <2> DEFINE known == sheet[d].known \cup {sheet[d].file}
  <2>1. /\ At(d, "init") /\ call[d].kind = "answered" /\ call[d].reply.kind = "artifact"
        /\ UNCHANGED <<late, cancelled, submission, artifact>>
    BY <1>6 DEF HearArtifact, Hear, storeVars
  <2>2. /\ Sends(d) /\ Uploads(d) /\ IsStored(sheet[d].sent) /\ sheet[d].file \in Files
        /\ \A f \in sheet[d].files :
            f \in sheet[d].todo \/ f = sheet[d].file \/ Good(draft[d].key, f)
    BY <1>0, <2>1 DEF SendingIsTrue, Sends, Uploads, At
  <2>3. sheet[d].todo \in SUBSET Files /\ known \in SUBSET Files
    BY <1>0, <2>2 DEF Sheet
  <2>4. CASE call[d].reply.done
    <3>1. SendNext(d, sheet[d].todo, known)
      BY <1>6, <2>4 DEF HearArtifact
    <3>2. Good(draft[d].key, sheet[d].file)
      BY <1>0, <2>1, <2>4 DEF AnswerIsTrue
    <3> QED BY <2>1, <2>2, <2>3, <3>1, <3>2, SendNextInv
  <2>5. CASE ~call[d].reply.done
    <3>1. /\ sheet' = [sheet EXCEPT ![d].step = "put", ![d].known = known] /\ Ask(d, NoCall)
          /\ UNCHANGED <<draft, accepted>>
      BY <1>6, <2>5 DEF HearArtifact
    <3> HIDE DEF known
    <3>2. /\ sheet' \in [Devices -> Sheet] /\ sheet'[d].step = "put"
          /\ sheet'[d].sent = sheet[d].sent /\ sheet'[d].files = sheet[d].files
          /\ sheet'[d].todo = sheet[d].todo /\ sheet'[d].file = sheet[d].file
          /\ \A e \in Devices \ {d} : sheet'[e] = sheet[e]
      BY <1>0, <2>3, <3>1 DEF Sheet
    <3>3. /\ call'[d] = NoCall /\ NoCall.kind = "none"
          /\ \A e \in Devices \ {d} : call'[e] = call[e]
      BY <1>0, <3>1 DEF Ask, NoCall
    <3>4. SheetsTyped'
      BY <1>0, <2>1, <3>1, <3>2 DEF SheetsTyped
    <3>5. SendingIsTrue(d)'
      BY <1>0, <2>1, <2>2, <3>1, <3>2 DEF SendingIsTrue, Sends, Uploads, IsStored, Good
    <3>6. CallIsOfTheStep(d)' /\ AnswerIsTrue(d)'
      BY <3>3 DEF CallIsOfTheStep, AnswerIsTrue
    <3>7. Asked' \subseteq Asked \cup {NoCall}
      BY <1>0, <2>1, <3>1, Calls DEF Ask, Asked
    <3>8. \A q \in Asked' : q \in Asked \/ q.kind \notin {"post", "abort"}
      BY <3>3, <3>7
    <3> QED BY <2>1, <3>1, <3>2, <3>3, <3>4, <3>5, <3>6, <3>8, PageInv
  <2> QED BY <2>4, <2>5
<1>7. CASE HearCompleted(d)
  <2>1. /\ At(d, "completing") /\ call[d].kind = "answered" /\ call[d].reply.kind = "completed"
        /\ SendNext(d, sheet[d].todo, sheet[d].known)
        /\ UNCHANGED <<late, cancelled, submission, artifact>>
    BY <1>7 DEF HearCompleted, Hear, storeVars
  <2>2. /\ Sends(d) /\ IsStored(sheet[d].sent) /\ Good(draft[d].key, sheet[d].file)
        /\ \A f \in sheet[d].files :
            f \in sheet[d].todo \/ f = sheet[d].file \/ Good(draft[d].key, f)
    BY <1>0, <2>1 DEF SendingIsTrue, AnswerIsTrue, Sends, Uploads, At
  <2>3. sheet[d].todo \in SUBSET Files /\ sheet[d].known \in SUBSET Files
    BY <1>0 DEF Sheet
  <2> QED BY <2>1, <2>2, <2>3, SendNextInv
<1>8. CASE PutFile(d)
  <2> DEFINE r == [kind |-> "complete", key |-> draft[d].key, file |-> sheet[d].file]
  <2>1. /\ At(d, "put") /\ Ask(d, r) /\ Go(d, "completing")
        /\ UNCHANGED <<draft, late, accepted, cancelled, submission, artifact>>
    BY <1>8 DEF PutFile
  <2>2. /\ sheet' \in [Devices -> Sheet] /\ sheet'[d].step = "completing"
        /\ sheet'[d].sent = sheet[d].sent /\ sheet'[d].files = sheet[d].files
        /\ sheet'[d].todo = sheet[d].todo /\ sheet'[d].file = sheet[d].file
        /\ \A e \in Devices \ {d} : sheet'[e] = sheet[e]
    BY <1>0, <2>1 DEF Go, Sheet
  <2>3. call'[d] = r /\ \A e \in Devices \ {d} : call'[e] = call[e]
    BY <1>0, <2>1 DEF Ask
  <2>4. SheetsTyped'
    BY <1>0, <2>1, <2>2 DEF SheetsTyped
  <2>5. SendingIsTrue(d)'
    BY <1>0, <2>1, <2>2 DEF SendingIsTrue, Sends, Uploads, IsStored, Good, At
  <2>6. CallIsOfTheStep(d)' /\ AnswerIsTrue(d)'
    BY <2>1, <2>2, <2>3 DEF CallIsOfTheStep, AnswerIsTrue, At
  <2>7. Asked' \subseteq Asked \cup {r}
    BY <1>0, <2>1, Calls DEF Ask, Asked
  <2>8. \A q \in Asked' : q \in Asked \/ q.kind \notin {"post", "abort"}
    BY <2>7
  <2> QED BY <2>1, <2>2, <2>3, <2>4, <2>5, <2>6, <2>8, PageInv
<1>9. CASE PutFails(d)
  <2>1. /\ At(d, "put") /\ StopSending(d)
        /\ UNCHANGED <<call, late, accepted, cancelled, submission, artifact>>
    BY <1>9 DEF PutFails
  <2>2. /\ sheet' \in [Devices -> Sheet] /\ sheet'[d].step = "editing" /\ draft' = draft
        /\ \A e \in Devices \ {d} : sheet'[e] = sheet[e]
    BY <2>1, StopSendingOf
  <2>3. call'[d].kind \notin {"post", "init", "complete", "abort"}
    BY <1>0, <2>1 DEF CallIsOfTheStep, At
  <2>4. SheetsTyped' /\ Asked' = Asked
    BY <1>0, <2>1, <2>2 DEF SheetsTyped, Asked
  <2> QED BY <2>1, <2>2, <2>3, <2>4, SheetRests, PageInv
<1>10. CASE HearRefusal(d)
  <2>1. /\ StopSending(d) /\ Ask(d, NoCall)
        /\ UNCHANGED <<late, accepted, cancelled, submission, artifact>>
    BY <1>10 DEF HearRefusal, storeVars
  <2>2. /\ sheet' \in [Devices -> Sheet] /\ sheet'[d].step = "editing" /\ draft' = draft
        /\ \A e \in Devices \ {d} : sheet'[e] = sheet[e]
    BY <2>1, StopSendingOf
  <2>3. /\ call'[d] = NoCall /\ NoCall.kind = "none"
        /\ \A e \in Devices \ {d} : call'[e] = call[e]
    BY <1>0, <2>1 DEF Ask, NoCall
  <2>4. SheetsTyped'
    BY <1>0, <2>1, <2>2 DEF SheetsTyped
  <2>5. Asked' \subseteq Asked \cup {NoCall}
    BY <1>0, <2>1, Calls DEF Ask, Asked
  <2>6. \A q \in Asked' : q \in Asked \/ q.kind \notin {"post", "abort"}
    BY <2>3, <2>5
  <2>7. SendingIsTrue(d)' /\ CallIsOfTheStep(d)' /\ AnswerIsTrue(d)'
    BY <2>2, <2>3, SheetRests
  <2> QED BY <2>1, <2>2, <2>3, <2>4, <2>6, <2>7, PageInv
<1>11. ASSUME GiveUp(d), sheet' \in [Devices -> Sheet], sheet'[d].step \in {"closed", "editing"},
              \A e \in Devices \ {d} : sheet'[e] = sheet[e],
              UNCHANGED <<draft, accepted, cancelled, submission, artifact>>
       PROVE  SheetInv'
  <2>1. /\ call'[d] = NoCall /\ \A e \in Devices \ {d} : call'[e] = call[e]
        /\ \A r \in Asked' : r \in Asked \/ r.kind = "none"
    BY <1>11, GiveUpOf
  <2>2. call'[d].kind = "none"
    BY <2>1 DEF NoCall
  <2>3. SheetsTyped'
    BY <1>0, <1>11 DEF SheetsTyped
  <2>4. SendingIsTrue(d)' /\ CallIsOfTheStep(d)' /\ AnswerIsTrue(d)'
    BY <1>11, <2>2, SheetRests
  <2> QED BY <1>11, <2>1, <2>3, <2>4, PageInv
<1>12. CASE LoseRequest(d)
  <2>1. GiveUp(d) /\ StopSending(d) /\ UNCHANGED <<accepted, cancelled, submission, artifact>>
    BY <1>12 DEF LoseRequest, storeVars
  <2> QED BY <1>11, <2>1, StopSendingOf
<1>13. CASE CloseSheet(d)
  <2>1. /\ sheet' = [sheet EXCEPT ![d] = ClosedSheet]
        /\ UNCHANGED <<draft, accepted, cancelled, submission, artifact>>
    BY <1>13 DEF CloseSheet, storeVars
  <2>2. ClosedSheet \in Sheet /\ ClosedSheet.step = "closed"
    BY DEF ClosedSheet, Sheet
  <2>3. /\ sheet' \in [Devices -> Sheet] /\ sheet'[d].step = "closed"
        /\ \A e \in Devices \ {d} : sheet'[e] = sheet[e]
    BY <1>0, <2>1, <2>2
  <2>4. CASE call[d] = NoCall
    <3>1. call' = call /\ late' = late
      BY <1>13, <2>4 DEF CloseSheet
    <3>2. call'[d].kind = "none"
      BY <2>4, <3>1 DEF NoCall
    <3>3. SheetsTyped' /\ Asked' = Asked
      BY <1>0, <2>1, <2>3, <3>1 DEF SheetsTyped, Asked
    <3>4. SendingIsTrue(d)' /\ CallIsOfTheStep(d)' /\ AnswerIsTrue(d)'
      BY <2>3, <3>2, SheetRests
    <3> QED BY <2>1, <2>3, <3>1, <3>3, <3>4, PageInv
  <2>5. CASE call[d] # NoCall
    <3>1. GiveUp(d)
      BY <1>13, <2>5 DEF CloseSheet
    <3> QED BY <1>11, <2>1, <2>3, <3>1
  <2> QED BY <2>4, <2>5
<1>14. CASE Cancel(d)
  <2>1. /\ cancelled' = cancelled \cup {draft[d].key}
        /\ late' = late \cup {[kind |-> "abort", key |-> draft[d].key, file |-> f] : f \in sheet[d].known}
        /\ UNCHANGED <<call, accepted, submission, artifact>>
    BY <1>14 DEF Cancel, storeVars
  <2>2. \A r \in Asked' : r \in Asked \/ (r.kind = "abort" /\ r.key \in cancelled')
    BY <2>1 DEF Asked
  <2>3. CASE At(d, "put")
    <3>1. /\ sheet' \in [Devices -> Sheet] /\ sheet'[d].step = "editing" /\ draft' = draft
          /\ \A e \in Devices \ {d} : sheet'[e] = sheet[e]
      BY <1>14, <2>3, StopSendingOf DEF Cancel
    <3>2. call'[d].kind \notin {"post", "init", "complete", "abort"}
      BY <1>0, <2>1, <2>3 DEF CallIsOfTheStep, At
    <3>3. SheetsTyped'
      BY <1>0, <2>1, <3>1 DEF SheetsTyped
    <3> QED BY <2>1, <2>2, <3>1, <3>2, <3>3, SheetRests, PageInv
  <2>4. CASE ~At(d, "put")
    <3>1. sheet' = sheet /\ draft' = draft
      BY <1>14, <2>4 DEF Cancel
    <3>2. SheetsTyped' /\ cancelled \subseteq cancelled'
      BY <1>0, <2>1, <3>1 DEF SheetsTyped
    <3>3. StoreGrows
      BY <2>1, <3>2, StoreRests
    <3>4. SendingIsTrue(d)' /\ CallIsOfTheStep(d)' /\ AnswerIsTrue(d)'
      BY <2>1, <3>1, <3>2, <3>3, SheetStays
    <3> QED BY <2>1, <2>2, <3>1, <3>2, <3>4, PageInv
  <2> QED BY <2>3, <2>4
<1> QED BY <1>1, <1>2, <1>3, <1>4, <1>5, <1>6, <1>7, <1>8, <1>9, <1>10, <1>12, <1>13, <1>14

-----------------------------------------------------------------------------
(* The server and the storage: nothing the sheets show changes.            *)
LEMMA ServerInv ==
  ASSUME FormInv, SheetInv, StoreGrows, SheetsTyped', StoredIsKnown',
         UNCHANGED <<sheet, draft, accepted, cancelled>>,
         \A d \in Devices :
           \/ call'[d] = call[d]
           \/ CallIsOfTheStep(d)' /\ AnswerIsTrue(d)',
         \A r \in Asked' :
           \/ r \in Asked
           \/ r.kind \notin {"post", "abort"}
           \/ r.kind = "post" /\ IsKnown(r.key) /\ (r.body # Nothing \/ r.files # FALSE)
  PROVE  SheetInv'
<1>1. \A k : IsKnown(k) => IsKnown(k)'
  BY KnownStays
<1>2. RequestsAreKnown'
  BY <1>1, RequestsStayKnown
<1>3. AcceptedStays'
  BY WhatWasAcceptedStays DEF AcceptedStays
<1>4. ASSUME NEW d \in Devices
      PROVE  SendingIsTrue(d)' /\ CallIsOfTheStep(d)' /\ AnswerIsTrue(d)'
  <2>1. CASE call'[d] = call[d]
    BY <2>1, SheetStays
  <2>2. SendingIsTrue(d)'
    <3>1. SendingIsTrue(d) /\ draft[d].key \in Drafts /\ sheet[d].files \subseteq Files
      BY DEF SheetInv, SheetsTyped, Draft, Sheet
    <3>2. Sends(d)' = Sends(d) /\ Uploads(d)' = Uploads(d) /\ (Uploads(d) => Sends(d))
      BY DEF Sends, Uploads
    <3>3. Uploads(d) => IsStored(sheet[d].sent)'
      BY <3>1, <3>2, StoredStays DEF SendingIsTrue
    <3>4. \A f \in Files : Good(draft[d].key, f) => Good(draft[d].key, f)'
      BY <3>1 DEF StoreGrows
    <3> QED BY <3>1, <3>2, <3>3, <3>4 DEF SendingIsTrue, Good, IsStored
  <2> QED BY <2>1, <2>2
<1> QED BY <1>2, <1>3, <1>4 DEF SheetInv

(* An answer that the sheet it is for may believe.                         *)
LEMMA AnswerInv ==
  ASSUME FormInv, SheetInv, StoreGrows, SheetsTyped', StoredIsKnown',
         UNCHANGED <<sheet, draft, accepted, cancelled>>,
         NEW request, NEW reply, Answer(request, reply),
         \A d \in Devices : call[d] = request =>
           /\ At(d, "posting") /\ reply.kind = "submission" => IsStored(sheet[d].sent)'
           /\ At(d, "init") /\ reply.kind = "artifact" =>
                (reply.done => Good(draft[d].key, sheet[d].file)')
           /\ At(d, "completing") /\ reply.kind = "completed" =>
                Good(draft[d].key, sheet[d].file)'
  PROVE  SheetInv'
<1>0. DOMAIN call = Devices
  BY DEF FormInv
<1>1. PICK answered : answered = [kind |-> "answered", reply |-> reply]
  OBVIOUS
<1>2. answered.kind = "answered" /\ answered.reply = reply
  BY <1>1
<1>3. ASSUME NEW d \in Devices
      PROVE  call'[d] = call[d] \/ (CallIsOfTheStep(d)' /\ AnswerIsTrue(d)')
  <2>1. call'[d] = call[d] \/ (call[d] = request /\ call'[d] = answered)
    BY <1>0, <1>1 DEF Answer
  <2>2. ASSUME call[d] = request, call'[d] = answered
        PROVE  CallIsOfTheStep(d)' /\ AnswerIsTrue(d)'
    <3>1. CallIsOfTheStep(d)'
      BY <1>2, <2>2 DEF CallIsOfTheStep
    <3>2. AnswerIsTrue(d)'
      BY <1>2, <2>2 DEF AnswerIsTrue, At, IsStored, Good
    <3> QED BY <3>1, <3>2
  <2> QED BY <2>1, <2>2
<1>4. Asked' \subseteq Asked \cup {answered}
  BY <1>0, <1>1, Answers
<1>5. \A r \in Asked' : r \in Asked \/ r.kind \notin {"post", "abort"}
  BY <1>2, <1>4
<1> QED BY <1>3, <1>5, ServerInv

(* The submissions are as they were, and so is who knows of them.          *)
LEMMA StoredStaysKnown ==
  ASSUME SheetInv, UNCHANGED <<submission, draft, accepted>>
  PROVE  StoredIsKnown'
<1>1. \A k : IsKnown(k) => IsKnown(k)'
  BY KnownStays
<1> QED BY <1>1 DEF SheetInv, StoredIsKnown

LEMMA TypedStays ==
  ASSUME SheetInv, UNCHANGED <<sheet, draft>>, artifact' \in [Drafts -> [Files -> FileStatus]]
  PROVE  SheetsTyped'
BY DEF SheetInv, SheetsTyped

LEMMA ReplayInv ==
  ASSUME FormInv, SheetInv, NEW request \in Asked, request.kind = "post",
         Known(request), Replay(request),
         UNCHANGED <<sheet, draft, accepted, cancelled, submission, artifact>>
  PROVE  SheetInv'
<1>1. StoreGrows /\ StoredIsKnown' /\ SheetsTyped'
  BY StoreRests, StoredStaysKnown DEF SheetInv, SheetsTyped
<1>2. PICK reply : /\ Answer(request, reply)
                   /\ reply = IF /\ submission[request.key].form = request.form
                                 /\ submission[request.key].body = request.body
                                 /\ submission[request.key].files = request.files
                              THEN [kind |-> "submission"] ELSE Refused
  BY DEF Replay
<1>3. reply.kind \in {"submission", "refused"}
  BY <1>2 DEF Refused
<1>4. ASSUME NEW d \in Devices, call[d] = request, reply.kind = "submission"
      PROVE  IsStored(sheet[d].sent)'
  <2>1. /\ submission[request.key].form = request.form
        /\ submission[request.key].body = request.body
    BY <1>2, <1>4 DEF Refused
  <2>2. /\ request.key = sheet[d].sent.key /\ request.body = sheet[d].sent.body
        /\ request.form = sheet[d].sent.form
    BY <1>4 DEF SheetInv, CallIsOfTheStep
  <2> QED BY <2>1, <2>2 DEF IsStored, Known
<1> QED BY <1>1, <1>2, <1>3, <1>4, AnswerInv

LEMMA RefuseInv ==
  ASSUME FormInv, SheetInv, NEW request, Answer(request, Refused),
         UNCHANGED <<sheet, draft, accepted, cancelled, submission, artifact>>
  PROVE  SheetInv'
<1>1. StoreGrows /\ StoredIsKnown' /\ SheetsTyped'
  BY StoreRests, StoredStaysKnown DEF SheetInv, SheetsTyped
<1>2. Refused.kind = "refused"
  BY DEF Refused
<1> QED BY <1>1, <1>2, AnswerInv

LEMMA PostInv ==
  ASSUME FormInv, SheetInv, NEW request \in Asked,
         ValidateSubmission(request) \/ InsertSubmission(request)
  PROVE  SheetInv'
<1>0. /\ request.kind = "post" /\ IsPost(request) /\ IsKnown(request.key)
      /\ request.body # Nothing \/ request.files # FALSE
      /\ UNCHANGED <<sheet, draft, accepted, cancelled, artifact>>
      /\ DOMAIN call = Devices /\ DOMAIN submission = Drafts
  BY DEF ValidateSubmission, InsertSubmission, FormInv, PostsWereCompared, SheetInv,
         RequestsAreKnown, storeVars
<1>1. CASE Known(request) /\ Replay(request) /\ UNCHANGED submission
  BY <1>0, <1>1, ReplayInv
<1>2. CASE Answer(request, Refused) /\ UNCHANGED submission
  BY <1>0, <1>2, RefuseInv
<1>3. ASSUME MoveOn(request, [request EXCEPT !.asked = AskedBy(active)]), UNCHANGED submission
      PROVE  SheetInv'
  <2>1. PICK next : next = [request EXCEPT !.asked = AskedBy(active)]
    OBVIOUS
  <2>2. /\ next.kind = "post" /\ next.key = request.key /\ next.body = request.body
        /\ next.form = request.form /\ next.files = request.files
    BY <1>0, <2>1 DEF IsPost
  <2>3. Asked' \subseteq Asked \cup {next}
    BY <1>0, <1>3, <2>1, Moves
  <2>4. ASSUME NEW d \in Devices
        PROVE  call'[d] = call[d] \/ (CallIsOfTheStep(d)' /\ AnswerIsTrue(d)')
    <3>1. call'[d] = call[d] \/ (call[d] = request /\ call'[d] = next)
      BY <1>0, <1>3, <2>1 DEF MoveOn
    <3>2. ASSUME call[d] = request, call'[d] = next
          PROVE  CallIsOfTheStep(d)' /\ AnswerIsTrue(d)'
      <4>1. CallIsOfTheStep(d)
        BY DEF SheetInv
      <4> QED BY <1>0, <2>2, <3>2, <4>1 DEF CallIsOfTheStep, AnswerIsTrue, At
    <3> QED BY <3>1, <3>2
  <2>5. \A r \in Asked' : r \in Asked \/ r = next
    BY <2>3
  <2>6. StoreGrows /\ StoredIsKnown' /\ SheetsTyped'
    BY <1>0, <1>3, StoreRests, StoredStaysKnown DEF SheetInv, SheetsTyped
  <2> QED BY <1>0, <2>2, <2>4, <2>5, <2>6, ServerInv
<1>4. ASSUME ~Known(request), Answer(request, [kind |-> "submission"]),
             submission' = [submission EXCEPT ![request.key] =
               [form |-> request.form, body |-> request.body, files |-> request.files,
                asked |-> request.asked]]
      PROVE  SheetInv'
  <2>1. PICK new : new = [form |-> request.form, body |-> request.body,
                          files |-> request.files, asked |-> request.asked]
    OBVIOUS
  <2>2. /\ new.form = request.form /\ new.body = request.body /\ new.files = request.files
        /\ new # NoSubmission
    <3>1. NoSubmission.body = Nothing /\ NoSubmission.files = FALSE
      BY DEF NoSubmission
    <3>2. new.form = request.form /\ new.body = request.body /\ new.files = request.files
      BY <2>1
    <3> QED BY <1>0, <3>1, <3>2
  <2>3. submission' = [submission EXCEPT ![request.key] = new]
    BY <1>4, <2>1
  <2>4. \A k \in Drafts : k # request.key => submission'[k] = submission[k]
    BY <1>0, <2>3
  <2>5. StoreGrows
    BY <1>0, <1>4, <2>4 DEF StoreGrows, Good, Known
  <2>6. SheetsTyped'
    BY <1>0 DEF SheetInv, SheetsTyped
  <2>7. StoredIsKnown'
    <3>1. \A k : IsKnown(k) => IsKnown(k)'
      BY <1>0, KnownStays
    <3> QED BY <1>0, <2>4, <3>1 DEF SheetInv, StoredIsKnown
  <2>8. ASSUME NEW d \in Devices, call[d] = request
        PROVE  IsStored(sheet[d].sent)'
    <3>1. /\ At(d, "posting") /\ request.key = sheet[d].sent.key
          /\ request.body = sheet[d].sent.body /\ request.form = sheet[d].sent.form
      BY <1>0, <2>8 DEF SheetInv, CallIsOfTheStep
    <3>2. request.key \in Drafts
      BY <3>1 DEF SheetInv, SendingIsTrue, Sends, At, Sent
    <3>3. submission'[request.key] = new
      BY <1>0, <2>3, <3>2
    <3> QED BY <1>0, <2>2, <3>1, <3>3 DEF IsStored
  <2>9. PICK reply : reply = [kind |-> "submission"]
    OBVIOUS
  <2>10. Answer(request, reply) /\ reply.kind = "submission"
    BY <1>4, <2>9
  <2> QED BY <1>0, <2>5, <2>6, <2>7, <2>8, <2>10, AnswerInv
<1> QED BY <1>0, <1>1, <1>2, <1>3, <1>4 DEF ValidateSubmission, InsertSubmission, storeVars

LEMMA UploadsInv ==
  ASSUME FormInv, SheetInv,
         \/ \E request \in Asked : \/ InitUpload(request) \/ CompleteUpload(request)
                                   \/ AbortUpload(request) \/ Forget(request)
         \/ \E k \in Drafts, f \in Files : Verify(k, f)
  PROVE  SheetInv'
<1>0. artifact \in [Drafts -> [Files -> FileStatus]] /\ DOMAIN call = Devices
  BY DEF SheetInv, SheetsTyped, FormInv
<1>1. ASSUME NEW k, NEW f, NEW now \in FileStatus,
             artifact' = [artifact EXCEPT ![k][f] = now]
      PROVE  /\ artifact' \in [Drafts -> [Files -> FileStatus]]
             /\ \A l \in Drafts, g \in Files :
                  artifact'[l][g] = IF l = k /\ g = f THEN now ELSE artifact[l][g]
  <2>1. artifact' \in [Drafts -> [Files -> FileStatus]]
    BY <1>0, <1>1
  <2>2. ASSUME NEW l \in Drafts, NEW g \in Files
        PROVE  artifact'[l][g] = IF l = k /\ g = f THEN now ELSE artifact[l][g]
    <3>1. artifact[l] \in [Files -> FileStatus]
      BY <1>0
    <3>2. CASE l = k
      <4>1. artifact'[l] = [artifact[l] EXCEPT ![f] = now]
        BY <1>0, <1>1, <3>2
      <4> QED BY <3>1, <3>2, <4>1
    <3>3. CASE l # k
      BY <1>0, <1>1, <3>3
    <3> QED BY <3>2, <3>3
  <2> QED BY <2>1, <2>2
<1>2. ASSUME NEW k, NEW f, NEW now \in FileStatus,
             artifact' = [artifact EXCEPT ![k][f] = now],
             UNCHANGED <<sheet, draft, accepted, cancelled, submission>>,
             now \in Finished \cup {"failed"} \/ k \in cancelled \/ artifact[k][f] = "none"
      PROVE  StoreGrows /\ SheetsTyped' /\ StoredIsKnown'
  <2>1. StoreGrows
    BY <1>1, <1>2 DEF StoreGrows, Good, Finished
  <2> QED BY <1>1, <1>2, <2>1, TypedStays, StoredStaysKnown
<1>3. ASSUME UNCHANGED <<sheet, draft, accepted, cancelled, submission, artifact>>
      PROVE  StoreGrows /\ SheetsTyped' /\ StoredIsKnown'
  BY <1>0, <1>3, StoreRests, TypedStays, StoredStaysKnown
<1>4. ASSUME NEW d \in Devices, call[d].kind \in {"init", "complete"}
      PROVE  /\ call[d].key = draft[d].key /\ call[d].file = sheet[d].file
             /\ call[d].key \in Drafts /\ call[d].file \in Files
             /\ call[d].kind = "init" => At(d, "init")
             /\ call[d].kind = "complete" => At(d, "completing")
  BY <1>4 DEF SheetInv, CallIsOfTheStep, SheetsTyped, Draft, SendingIsTrue, Uploads, At
<1>5. ASSUME NEW request \in Asked, InitUpload(request)
      PROVE  SheetInv'
  <2> DEFINE k == request.key
             f == request.file
  <2>1. request.kind = "init" /\ UNCHANGED <<sheet, draft, accepted, cancelled, submission>>
    BY <1>5 DEF InitUpload
  <2>2. CASE artifact[k][f] = "none" /\ artifact' = [artifact EXCEPT ![k][f] = "uploading"]
             /\ Answer(request, [kind |-> "artifact", done |-> FALSE])
    <3>1. "uploading" \in FileStatus
      BY DEF FileStatus
    <3>2. StoreGrows /\ SheetsTyped' /\ StoredIsKnown'
      BY <1>2, <2>1, <2>2, <3>1
    <3>3. PICK reply : reply = [kind |-> "artifact", done |-> FALSE]
      OBVIOUS
    <3>4. Answer(request, reply) /\ reply.kind = "artifact" /\ ~reply.done
      BY <2>2, <3>3
    <3> QED BY <2>1, <3>2, <3>4, AnswerInv
  <2>3. CASE artifact[k][f] \in {"uploading"} \cup Finished /\ UNCHANGED artifact
             /\ Answer(request, [kind |-> "artifact", done |-> artifact[k][f] \in Finished])
    <3>1. StoreGrows /\ SheetsTyped' /\ StoredIsKnown'
      BY <1>3, <2>1, <2>3
    <3>2. PICK reply : reply = [kind |-> "artifact", done |-> artifact[k][f] \in Finished]
      OBVIOUS
    <3>3. /\ Answer(request, reply) /\ reply.kind = "artifact"
          /\ reply.done => artifact[k][f] \in Finished
      BY <2>3, <3>2
    <3>4. ASSUME NEW d \in Devices, call[d] = request, reply.done
          PROVE  Good(draft[d].key, sheet[d].file)'
      BY <1>4, <2>1, <2>3, <3>3, <3>4 DEF Good
    <3> QED BY <2>1, <3>1, <3>3, <3>4, AnswerInv
  <2>4. CASE Answer(request, Refused) /\ UNCHANGED artifact
    BY <2>1, <2>4, RefuseInv
  <2> QED BY <1>5, <2>2, <2>3, <2>4 DEF InitUpload
<1>6. ASSUME NEW request \in Asked, CompleteUpload(request)
      PROVE  SheetInv'
  <2> DEFINE k == request.key
             f == request.file
  <2>1. request.kind = "complete" /\ UNCHANGED <<sheet, draft, accepted, cancelled, submission>>
    BY <1>6 DEF CompleteUpload
  <2>2. PICK reply : reply = [kind |-> "completed"]
    OBVIOUS
  <2>3. reply.kind = "completed"
    BY <2>2
  <2>4. CASE artifact[k][f] \in Finished /\ UNCHANGED artifact
             /\ Answer(request, [kind |-> "completed"])
    <3>1. StoreGrows /\ SheetsTyped' /\ StoredIsKnown'
      BY <1>3, <2>1, <2>4
    <3>2. Answer(request, reply)
      BY <2>2, <2>4
    <3>3. ASSUME NEW d \in Devices, call[d] = request
          PROVE  Good(draft[d].key, sheet[d].file)'
      BY <1>4, <2>1, <2>4, <3>3 DEF Good
    <3> QED BY <2>1, <2>3, <3>1, <3>2, <3>3, AnswerInv
  <2>5. CASE artifact' = [artifact EXCEPT ![k][f] = "uploaded"]
             /\ Answer(request, [kind |-> "completed"])
    <3>1. "uploaded" \in FileStatus /\ "uploaded" \in Finished
      BY DEF FileStatus, Finished
    <3>2. StoreGrows /\ SheetsTyped' /\ StoredIsKnown'
      BY <1>2, <2>1, <2>5, <3>1
    <3>3. Answer(request, reply)
      BY <2>2, <2>5
    <3>4. ASSUME NEW d \in Devices, call[d] = request
          PROVE  Good(draft[d].key, sheet[d].file)'
      <4>1. k = draft[d].key /\ f = sheet[d].file /\ k \in Drafts /\ f \in Files
        BY <1>4, <2>1, <3>4
      <4>2. \A l \in Drafts, g \in Files :
              artifact'[l][g] = IF l = k /\ g = f THEN "uploaded" ELSE artifact[l][g]
        BY <1>1, <2>5, <3>1
      <4>3. artifact'[k][f] = "uploaded" /\ k = draft[d].key /\ f = sheet[d].file
        BY <4>1, <4>2
      <4> QED BY <2>1, <3>1, <4>3 DEF Good
    <3> QED BY <2>1, <2>3, <3>2, <3>3, <3>4, AnswerInv
  <2>6. CASE Answer(request, Refused) /\ UNCHANGED artifact
    BY <2>1, <2>6, RefuseInv
  <2> QED BY <1>6, <2>4, <2>5, <2>6 DEF CompleteUpload
<1>7. ASSUME NEW request \in Asked, AbortUpload(request)
      PROVE  SheetInv'
  <2> DEFINE k == request.key
             f == request.file
  <2>1. /\ request.kind = "abort" /\ UNCHANGED <<sheet, draft, accepted, cancelled, submission>>
        /\ Answer(request, [kind |-> "aborted"])
        /\ artifact' = artifact \/ artifact' = [artifact EXCEPT ![k][f] = "deleted"]
    BY <1>7 DEF AbortUpload
  <2>2. k \in cancelled
    BY <2>1 DEF SheetInv, RequestsAreKnown
  <2>3. "deleted" \in FileStatus
    BY DEF FileStatus
  <2>4. StoreGrows /\ SheetsTyped' /\ StoredIsKnown'
    BY <1>2, <1>3, <2>1, <2>2, <2>3
  <2>5. PICK reply : reply = [kind |-> "aborted"]
    OBVIOUS
  <2>6. Answer(request, reply) /\ reply.kind = "aborted"
    BY <2>1, <2>5
  <2> QED BY <2>1, <2>4, <2>6, AnswerInv
<1>8. ASSUME NEW request \in Asked, Forget(request)
      PROVE  SheetInv'
  <2>1. /\ UNCHANGED <<sheet, draft, call, accepted, cancelled, submission, artifact>>
        /\ late' \subseteq late
    BY <1>8 DEF Forget, storeVars
  <2>2. Asked' \subseteq Asked
    BY <2>1 DEF Asked
  <2>3. StoreGrows /\ SheetsTyped' /\ StoredIsKnown'
    BY <1>3, <2>1
  <2> QED BY <2>1, <2>2, <2>3, ServerInv
<1>9. ASSUME NEW k \in Drafts, NEW f \in Files, Verify(k, f)
      PROVE  SheetInv'
  <2>1. PICK now \in {"ready", "failed"} : artifact' = [artifact EXCEPT ![k][f] = now]
    BY <1>9 DEF Verify
  <2>2. UNCHANGED <<sheet, draft, call, late, accepted, cancelled, submission>>
    BY <1>9 DEF Verify, sheetVars
  <2>3. now \in FileStatus /\ now \in Finished \cup {"failed"}
    BY DEF FileStatus, Finished
  <2>4. StoreGrows /\ SheetsTyped' /\ StoredIsKnown'
    BY <1>2, <2>1, <2>2, <2>3
  <2>5. Asked' = Asked
    BY <2>2 DEF Asked
  <2> QED BY <2>2, <2>4, <2>5, ServerInv
<1> QED BY <1>5, <1>6, <1>7, <1>8, <1>9

LEMMA FormNextSheet ==
  ASSUME FormInv, SheetInv, FormNext \/ UNCHANGED vars
  PROVE  SheetInv'
<1>1. UNCHANGED <<sheetVars, storeVars>>
  BY DEF FormNext, CreatePublishedForm, ListVersions, StartNewVersion, PublishFails,
         SelectVersion, EditForm, Save, PublishSaved, vars
<1>2. UNCHANGED <<sheet, draft, call, late, accepted, cancelled, submission, artifact>>
  BY <1>1 DEF sheetVars, storeVars
<1>3. StoreGrows /\ SheetsTyped' /\ StoredIsKnown'
  BY <1>2, StoreRests, StoredStaysKnown DEF SheetInv, SheetsTyped
<1>4. Asked' = Asked
  BY <1>2 DEF Asked
<1> QED BY <1>2, <1>3, <1>4, ServerInv

LEMMA InitSheet == Init => SheetInv
<1> SUFFICES ASSUME Init PROVE SheetInv
  OBVIOUS
<1>1. SheetsTyped
  <2>1. ClosedSheet \in Sheet
    BY DEF ClosedSheet, Sheet
  <2>2. artifact \in [Drafts -> [Files -> FileStatus]]
    BY DEF Init, FileStatus
  <2> QED BY <2>1, <2>2 DEF Init, SheetsTyped, Draft
<1>2. \A d \in Devices : sheet[d].step = "closed" /\ call[d].kind = "none"
  BY DEF Init, ClosedSheet, NoCall
<1>3. \A r \in Asked : r.kind = "none"
  BY <1>2 DEF Init, Asked
<1>4. \A k \in Drafts : submission[k] = NoSubmission
  BY DEF Init
<1>5. accepted = {}
  BY DEF Init
<1> QED BY <1>1, <1>2, <1>3, <1>4, <1>5
        DEF SheetInv, SendingIsTrue, CallIsOfTheStep, AnswerIsTrue, Sends, Uploads,
            RequestsAreKnown, AcceptedStays, StoredIsKnown

LEMMA NextSheet == FormInv /\ SheetInv /\ [Next]_vars => SheetInv'
<1> SUFFICES ASSUME FormInv, SheetInv, [Next]_vars PROVE SheetInv'
  OBVIOUS
<1>1. CASE FormNext \/ UNCHANGED vars
  BY <1>1, FormNextSheet
<1>2. CASE SheetNext
  BY <1>2, PageNextInv, PostInv, UploadsInv DEF SheetNext
<1> QED BY <1>1, <1>2 DEF Next

LEMMA SheetInvAccepts == SheetInv => AcceptedIsStored
BY DEF SheetInv, AcceptedStays, StoredIsKnown, IsKnown, IsStored, Good, AcceptedIsStored

(* What a sheet has shown as accepted is stored as it was filled in, with  *)
(* its files unless they were cancelled, and nothing is stored that nobody *)
(* was told of and nobody will send again, whatever is lost or late        *)
(* (submission-sheet.tsx).                                                 *)
THEOREM AcceptedSubmissionsAreStored ==
  ASSUME SubmissionsAssumption
  PROVE  Spec => []AcceptedIsStored
<1>1. Init => FormInv /\ SheetInv
  BY InitForm, InitSheet, SubmissionsAssumption
<1>2. FormInv /\ SheetInv /\ [Next]_vars => (FormInv /\ SheetInv)'
  BY NextForm, NextSheet, SubmissionsAssumption
<1>3. FormInv /\ SheetInv => AcceptedIsStored
  BY SheetInvAccepts
<1> QED BY <1>1, <1>2, <1>3, PTL DEF Spec

-----------------------------------------------------------------------------
(* Pictures *)

Contents == {Pics!NoFile, "good", "bad"}
Request == [work : {"nothing", "init", "complete", "drop", "cover", "clean"},
            step : {"idle", "begun", "seen", "refused"},
            id : Pics!Stored \cup {Nothing}]

TypeOK ==
  /\ media \in [Ids -> {"none", "pending", "ready"}]
  /\ stored \in [Pics!Stored -> Contents]
  /\ handling \in [Keys -> Request]
  /\ cover \in Texts \cup {"link", Nothing}
  /\ sweep \subseteq Ids

Of(h, work) == handling[h].work = work

(* A picture found good keeps its object until somebody begins to remove it. *)
MediaInv ==
  /\ sweep \subseteq unwanted
  /\ \A h \in Keys :
       /\ Of(h, "complete") \/ Of(h, "drop") => handling[h].id \in Ids
       /\ Pics!At(h, "complete", "seen") =>
            stored[handling[h].id] # Pics!NoFile \/ handling[h].id \in unwanted
  /\ \A m \in Ids \ unwanted : media[m] = "ready" => stored[m] # Pics!NoFile

(* An upload goes its way once: its completion is asked for, it becomes the *)
(* cover, and it is removed after the cover has changed.                   *)
Completing(h, c) == Of(h, "cover") /\ handling[h].id = c
Cleaning(h, c) == Of(h, "clean") /\ handling[h].id = c

CoverInv ==
  /\ \A h \in Keys : \A c \in Texts :
       /\ Completing(h, c) \/ Cleaning(h, c) => c \in completed
       /\ Completing(h, c) =>
            /\ stored[c] # Pics!NoFile /\ cover # c
            /\ \A g \in Keys : ~Cleaning(g, c) /\ (Completing(g, c) => g = h)
       /\ Cleaning(h, c) => cover # c
  /\ \A h \in Keys :
       /\ Of(h, "cover") => handling[h].id \in Texts
       /\ Of(h, "clean") => handling[h].id \in Texts \cup {Nothing}
  /\ cover \in Texts => cover \in completed /\ stored[cover] # Pics!NoFile

(* Inductive: ShownPicturesHaveObjects alone says nothing of the requests   *)
(* that are about to show a picture or to remove one.                      *)
PicturesInv == TypeOK /\ MediaInv /\ CoverInv

-----------------------------------------------------------------------------

LEMMA InitPictures == Pics!PicturesAssumption /\ Pics!Init => PicturesInv
BY DEF Pics!PicturesAssumption, Pics!Init, PicturesInv, TypeOK, MediaInv, CoverInv,
       Pics!Stored, Contents, Request, Pics!Idle, Of, Pics!At, Completing, Cleaning, Pics!NoFile

(* The request of h changes, the others do not.                            *)
LEMMA Changed ==
  ASSUME TypeOK, NEW h \in Keys, NEW r \in Request, handling' = [handling EXCEPT ![h] = r]
  PROVE  /\ handling' \in [Keys -> Request]
         /\ handling'[h] = r
         /\ \A g \in Keys \ {h} : handling'[g] = handling[g]
BY DEF TypeOK

LEMMA IdleRequest == Pics!Idle \in Request
BY DEF Pics!Idle, Request

LEMMA StepOf ==
  ASSUME TypeOK, NEW h \in Keys, NEW step \in {"idle", "begun", "seen", "refused"}, Pics!Go(h, step)
  PROVE  /\ handling' \in [Keys -> Request]
         /\ handling'[h] = [work |-> handling[h].work, step |-> step, id |-> handling[h].id]
         /\ \A g \in Keys \ {h} : handling'[g] = handling[g]
<1>1. handling[h] \in Request
  BY DEF TypeOK
<1> QED BY <1>1 DEF TypeOK, Pics!Go, Request

LEMMA FinishOf ==
  ASSUME TypeOK, NEW h \in Keys, Pics!Finish(h)
  PROVE  /\ handling' \in [Keys -> Request]
         /\ handling'[h] = Pics!Idle
         /\ \A g \in Keys \ {h} : handling'[g] = handling[g]
BY Changed, IdleRequest DEF Pics!Finish

LEMMA BeginOf ==
  ASSUME TypeOK, NEW h \in Keys, NEW work \in {"init", "complete", "drop", "cover", "clean"},
         NEW id \in Pics!Stored \cup {Nothing}, Pics!Begin(h, work, id)
  PROVE  /\ handling[h] = Pics!Idle
         /\ handling' \in [Keys -> Request]
         /\ handling'[h] = [work |-> work, step |-> "begun", id |-> id]
         /\ \A g \in Keys \ {h} : handling'[g] = handling[g]
<1>1. [work |-> work, step |-> "begun", id |-> id] \in Request
  BY DEF Request
<1> QED BY <1>1, Changed DEF Pics!Begin

-----------------------------------------------------------------------------
(* Stored and links *)

LEMMA PutInv ==
  ASSUME PicturesInv, NEW f \in Pics!Stored, Pics!Put(f)
  PROVE  PicturesInv'
<1>1. /\ stored' \in [Pics!Stored -> Contents] /\ stored'[f] # Pics!NoFile
      /\ \A g \in Pics!Stored \ {f} : stored'[g] = stored[g]
  BY DEF Pics!Put, PicturesInv, TypeOK, Contents, Pics!NoFile
<1> QED BY <1>1 DEF Pics!Put, PicturesInv, TypeOK, MediaInv, CoverInv, Of, Pics!At,
       Completing, Cleaning,
                    Pics!Stored, Request

LEMMA LinkInv ==
  ASSUME PicturesInv, NEW f \in Pics!Stored,
         Pics!LinkExpires(f) \/ (f \in Texts /\ Pics!InitCover(f))
  PROVE  PicturesInv'
BY DEF Pics!LinkExpires, Pics!InitCover, PicturesInv, TypeOK, MediaInv, CoverInv, Of,
       Pics!At, Completing,
       Cleaning

(* A request that ends is about nothing any more.                          *)
LEMMA FailInv ==
  ASSUME PicturesInv, NEW h \in Keys, Pics!Fail(h)
  PROVE  PicturesInv'
<1>1. Pics!Finish(h) /\ UNCHANGED <<media, stored, cover, completed, sweep, unwanted>>
  BY DEF Pics!Fail
<1>2. /\ handling' \in [Keys -> Request] /\ handling'[h] = Pics!Idle
      /\ \A g \in Keys \ {h} : handling'[g] = handling[g]
  BY <1>1, FinishOf DEF PicturesInv
<1>3. TypeOK' /\ MediaInv'
  BY <1>1, <1>2 DEF PicturesInv, TypeOK, MediaInv, Of, Pics!At, Pics!Idle
<1>4. \A g \in Keys, c \in Texts :
        /\ Completing(g, c)' => Completing(g, c)
        /\ Cleaning(g, c)' => Cleaning(g, c)
  BY <1>2 DEF Completing, Cleaning, Of, Pics!Idle
<1>5. \A g \in Keys :
        /\ Of(g, "cover")' => Of(g, "cover") /\ handling'[g] = handling[g]
        /\ Of(g, "clean")' => Of(g, "clean") /\ handling'[g] = handling[g]
  BY <1>2 DEF Of, Pics!Idle
<1>6. CoverInv'
  BY <1>1, <1>4, <1>5 DEF PicturesInv, CoverInv
<1> QED BY <1>3, <1>6 DEF PicturesInv

-----------------------------------------------------------------------------
(* Pictures *)

(* Steps about pictures leave the cover and what its requests do alone, if  *)
(* the request that moves is not about a cover, before or after.           *)
LEMMA CoverKept ==
  ASSUME Pics!PicturesAssumption, PicturesInv, NEW h \in Keys,
         UNCHANGED <<cover, completed>>,
         \A c \in Texts : stored'[c] = stored[c],
         \A g \in Keys \ {h} : handling'[g] = handling[g],
         handling[h].work \notin {"cover", "clean"},
         handling'[h].work \notin {"cover", "clean"}
  PROVE  CoverInv'
<1>1. \A g \in Keys :
        /\ Of(g, "cover")' => g # h /\ Of(g, "cover") /\ handling'[g] = handling[g]
        /\ Of(g, "clean")' => g # h /\ Of(g, "clean") /\ handling'[g] = handling[g]
  BY DEF Of
<1>2. \A g \in Keys, c \in Texts :
        /\ Completing(g, c)' => Completing(g, c)
        /\ Cleaning(g, c)' => Cleaning(g, c)
  BY <1>1 DEF Completing, Cleaning
<1> QED BY <1>1, <1>2 DEF PicturesInv, CoverInv

LEMMA MediaNextInv ==
  ASSUME Pics!PicturesAssumption, PicturesInv, Pics!MediaNext
  PROVE  PicturesInv'
<1> USE DEF PicturesInv, Pics!Stored
<1>1. ASSUME NEW h \in Keys, Pics!CountMedia(h)
      PROVE  PicturesInv'
  <2>1. Pics!Begin(h, "init", Nothing)
        /\ UNCHANGED <<media, stored, cover, completed, sweep, unwanted>>
    BY <1>1 DEF Pics!CountMedia
  <2>2. /\ handling[h] = Pics!Idle /\ handling' \in [Keys -> Request]
        /\ handling'[h] = [work |-> "init", step |-> "begun", id |-> Nothing]
        /\ \A g \in Keys \ {h} : handling'[g] = handling[g]
    BY <2>1, BeginOf
  <2>3. CoverInv'
    BY <2>1, <2>2, CoverKept DEF Pics!Idle
  <2> QED BY <2>1, <2>2, <2>3 DEF TypeOK, MediaInv, Of, Pics!At
<1>2. ASSUME NEW h \in Keys, NEW m \in Ids, Pics!InsertMedia(h, m)
      PROVE  PicturesInv'
  <2>1. /\ handling[h].work = "init" /\ Pics!Finish(h) /\ media' = [media EXCEPT ![m] = "pending"]
        /\ UNCHANGED <<stored, cover, completed, sweep, unwanted>>
    BY <1>2 DEF Pics!InsertMedia, Pics!At
  <2>2. /\ handling' \in [Keys -> Request] /\ handling'[h] = Pics!Idle
        /\ \A g \in Keys \ {h} : handling'[g] = handling[g]
    BY <2>1, FinishOf
  <2>3. CoverInv'
    BY <2>1, <2>2, CoverKept DEF Pics!Idle
  <2> QED BY <2>1, <2>2, <2>3 DEF TypeOK, MediaInv, Of, Pics!At, Pics!Idle
<1>3. ASSUME NEW h \in Keys, NEW m \in Ids, Pics!ReadMedia(h, m)
      PROVE  PicturesInv'
  <2>1. Pics!Begin(h, "complete", m)
        /\ UNCHANGED <<media, stored, cover, completed, sweep, unwanted>>
    BY <1>3 DEF Pics!ReadMedia
  <2>2. /\ handling[h] = Pics!Idle /\ handling' \in [Keys -> Request]
        /\ handling'[h] = [work |-> "complete", step |-> "begun", id |-> m]
        /\ \A g \in Keys \ {h} : handling'[g] = handling[g]
    BY <2>1, BeginOf
  <2>3. CoverInv'
    BY <2>1, <2>2, CoverKept DEF Pics!Idle
  <2> QED BY <2>1, <2>2, <2>3 DEF TypeOK, MediaInv, Of, Pics!At
<1>4. ASSUME NEW h \in Keys, NEW m \in Ids, Pics!ReadExpired(h, m)
      PROVE  PicturesInv'
  <2>1. /\ handling[h] = Pics!Idle /\ UNCHANGED <<media, stored, cover, completed, sweep, unwanted>>
        /\ handling' = [handling EXCEPT ![h] = [work |-> "complete", step |-> "refused", id |-> m]]
    BY <1>4 DEF Pics!ReadExpired
  <2>2. [work |-> "complete", step |-> "refused", id |-> m] \in Request
    BY DEF Request
  <2>3. /\ handling' \in [Keys -> Request]
        /\ handling'[h] = [work |-> "complete", step |-> "refused", id |-> m]
        /\ \A g \in Keys \ {h} : handling'[g] = handling[g]
    BY <2>1, <2>2, Changed
  <2>4. CoverInv'
    BY <2>1, <2>3, CoverKept DEF Pics!Idle
  <2> QED BY <2>1, <2>3, <2>4 DEF TypeOK, MediaInv, Of, Pics!At
<1>5. ASSUME NEW h \in Keys, NEW m \in Ids, Pics!DeleteMediaObject(h, m)
      PROVE  PicturesInv'
  <2>1. /\ Pics!Begin(h, "drop", m) /\ Pics!Remove(m) /\ unwanted' = unwanted \cup {m}
        /\ UNCHANGED <<media, cover, completed, sweep>>
    BY <1>5 DEF Pics!DeleteMediaObject
  <2>2. /\ handling[h] = Pics!Idle /\ handling' \in [Keys -> Request]
        /\ handling'[h] = [work |-> "drop", step |-> "begun", id |-> m]
        /\ \A g \in Keys \ {h} : handling'[g] = handling[g]
    BY <2>1, BeginOf
  <2>3. /\ stored' \in [Pics!Stored -> Contents]
        /\ \A f \in Pics!Stored \ {m} : stored'[f] = stored[f]
    BY <2>1 DEF Pics!Remove, TypeOK, Contents
  <2>4. CoverInv'
    BY <2>1, <2>2, <2>3, CoverKept DEF Pics!Idle, Pics!PicturesAssumption
  <2> QED BY <2>1, <2>2, <2>3, <2>4 DEF TypeOK, MediaInv, Of, Pics!At
<1>6. ASSUME NEW h \in Keys, Pics!HeadMedia(h)
      PROVE  PicturesInv'
  <2>1. /\ Pics!At(h, "complete", "begun")
        /\ UNCHANGED <<media, stored, cover, completed, sweep, unwanted>>
    BY <1>6 DEF Pics!HeadMedia
  <2>2. CASE Pics!IsGood(handling[h].id) /\ Pics!Go(h, "seen")
    <3>1. /\ handling' \in [Keys -> Request]
          /\ handling'[h] = [work |-> "complete", step |-> "seen", id |-> handling[h].id]
          /\ \A g \in Keys \ {h} : handling'[g] = handling[g]
      BY <2>1, <2>2, StepOf DEF Pics!At
    <3>2. CoverInv'
      BY <2>1, <3>1, CoverKept DEF Pics!At
    <3> QED BY <2>1, <2>2, <3>1, <3>2 DEF TypeOK, MediaInv, Of, Pics!At, Pics!IsGood,
           Pics!NoFile
  <2>3. CASE Pics!Go(h, "refused")
    <3>1. /\ handling' \in [Keys -> Request]
          /\ handling'[h] = [work |-> "complete", step |-> "refused", id |-> handling[h].id]
          /\ \A g \in Keys \ {h} : handling'[g] = handling[g]
      BY <2>1, <2>3, StepOf DEF Pics!At
    <3>2. CoverInv'
      BY <2>1, <3>1, CoverKept DEF Pics!At
    <3> QED BY <2>1, <3>1, <3>2 DEF TypeOK, MediaInv, Of, Pics!At
  <2>4. CASE Pics!Finish(h)
    <3>1. /\ handling' \in [Keys -> Request] /\ handling'[h] = Pics!Idle
          /\ \A g \in Keys \ {h} : handling'[g] = handling[g]
      BY <2>4, FinishOf
    <3>2. CoverInv'
      BY <2>1, <3>1, CoverKept DEF Pics!At, Pics!Idle
    <3> QED BY <2>1, <3>1, <3>2 DEF TypeOK, MediaInv, Of, Pics!At, Pics!Idle
  <2> QED BY <1>6, <2>2, <2>3, <2>4 DEF Pics!HeadMedia
<1>7. ASSUME NEW h \in Keys, Pics!MakeReady(h)
      PROVE  PicturesInv'
  <2> DEFINE m == handling[h].id
  <2>1. /\ Pics!At(h, "complete", "seen") /\ Pics!Finish(h)
        /\ media' = [media EXCEPT ![m] = IF @ = "pending" THEN "ready" ELSE @]
        /\ UNCHANGED <<stored, cover, completed, sweep, unwanted>>
    BY <1>7 DEF Pics!MakeReady
  <2>2. /\ handling' \in [Keys -> Request] /\ handling'[h] = Pics!Idle
        /\ \A g \in Keys \ {h} : handling'[g] = handling[g]
    BY <2>1, FinishOf
  <2>3. CoverInv'
    BY <2>1, <2>2, CoverKept DEF Pics!At, Pics!Idle
  <2>4. m \in Ids /\ (stored[m] # Pics!NoFile \/ m \in unwanted)
    BY <2>1 DEF MediaInv, Pics!At, Of
  <2>5. TypeOK'
    BY <2>1, <2>2, <2>4 DEF TypeOK
  <2>6. MediaInv'
    BY <2>1, <2>2, <2>4 DEF TypeOK, MediaInv, Of, Pics!At, Pics!Idle
  <2> QED BY <2>3, <2>5, <2>6
<1>8. ASSUME NEW h \in Keys, Pics!RefuseMedia(h)
      PROVE  PicturesInv'
  <2> DEFINE m == handling[h].id
  <2>1. /\ Pics!At(h, "complete", "refused") /\ Pics!Remove(m) /\ unwanted' = unwanted \cup {m}
        /\ handling' = [handling EXCEPT ![h] = [work |-> "drop", step |-> "begun", id |-> m]]
        /\ UNCHANGED <<media, cover, completed, sweep>>
    BY <1>8 DEF Pics!RefuseMedia
  <2>2. m \in Ids
    BY <2>1 DEF MediaInv, Pics!At, Of
  <2>3. [work |-> "drop", step |-> "begun", id |-> m] \in Request
    BY <2>2 DEF Request
  <2>4. /\ handling' \in [Keys -> Request]
        /\ handling'[h] = [work |-> "drop", step |-> "begun", id |-> m]
        /\ \A g \in Keys \ {h} : handling'[g] = handling[g]
    BY <2>1, <2>3, Changed
  <2>5. /\ stored' \in [Pics!Stored -> Contents]
        /\ \A f \in Pics!Stored \ {m} : stored'[f] = stored[f]
    BY <2>1 DEF Pics!Remove, TypeOK, Contents
  <2>6. CoverInv'
    BY <2>1, <2>2, <2>4, <2>5, CoverKept DEF Pics!At, Pics!PicturesAssumption
  <2> QED BY <2>1, <2>2, <2>4, <2>5, <2>6 DEF TypeOK, MediaInv, Of, Pics!At
<1>9. ASSUME NEW h \in Keys, Pics!DropRow(h)
      PROVE  PicturesInv'
  <2>1. /\ Pics!At(h, "drop", "begun") /\ Pics!Finish(h)
        /\ media' = [media EXCEPT ![handling[h].id] = "none"]
        /\ UNCHANGED <<stored, cover, completed, sweep, unwanted>>
    BY <1>9 DEF Pics!DropRow
  <2>2. /\ handling' \in [Keys -> Request] /\ handling'[h] = Pics!Idle
        /\ \A g \in Keys \ {h} : handling'[g] = handling[g]
    BY <2>1, FinishOf
  <2>3. CoverInv'
    BY <2>1, <2>2, CoverKept DEF Pics!At, Pics!Idle
  <2> QED BY <2>1, <2>2, <2>3 DEF TypeOK, MediaInv, Of, Pics!At, Pics!Idle
<1>10. ASSUME Pics!ListAbandoned \/ Pics!WorkerStops
       PROVE  PicturesInv'
  BY <1>10 DEF Pics!ListAbandoned, Pics!WorkerStops, TypeOK, MediaInv, CoverInv, Of,
         Pics!At, Completing, Cleaning
<1>11. ASSUME NEW m \in Ids, Pics!SweepObject(m)
       PROVE  PicturesInv'
  <2>1. /\ m \in sweep /\ Pics!Remove(m)
        /\ UNCHANGED <<media, cover, completed, handling, sweep, unwanted>>
    BY <1>11 DEF Pics!SweepObject
  <2>2. /\ stored' \in [Pics!Stored -> Contents]
        /\ \A f \in Pics!Stored \ {m} : stored'[f] = stored[f]
    BY <2>1 DEF Pics!Remove, TypeOK, Contents
  <2>3. \A c \in Texts : stored'[c] = stored[c]
    BY <2>2 DEF Pics!PicturesAssumption
  <2>4. TypeOK'
    BY <2>1, <2>2 DEF TypeOK
  <2>5. MediaInv'
    BY <2>1, <2>2 DEF TypeOK, MediaInv, Of, Pics!At
  <2>6. CoverInv'
    BY <2>1, <2>3 DEF CoverInv, Of, Completing, Cleaning
  <2> QED BY <2>4, <2>5, <2>6
<1>12. ASSUME NEW m \in Ids, Pics!SweepRow(m)
       PROVE  PicturesInv'
  BY <1>12 DEF Pics!SweepRow, TypeOK, MediaInv, CoverInv, Of, Pics!At, Completing, Cleaning
<1> QED BY <1>1, <1>2, <1>3, <1>4, <1>5, <1>6, <1>7, <1>8, <1>9, <1>10, <1>11, <1>12,
           PutInv, LinkInv, FailInv DEF Pics!MediaNext, Pics!Stored

-----------------------------------------------------------------------------
(* The cover *)

(* Steps about covers leave the pictures alone.                            *)
LEMMA MediaKept ==
  ASSUME Pics!PicturesAssumption, PicturesInv, NEW h \in Keys,
         UNCHANGED <<media, sweep, unwanted>>,
         \A m \in Ids : stored'[m] = stored[m],
         \A g \in Keys \ {h} : handling'[g] = handling[g],
         handling'[h].work \notin {"complete", "drop"}
  PROVE  MediaInv'
<1>1. \A g \in Keys :
        Of(g, "complete")' \/ Of(g, "drop")' => g # h /\ handling'[g] = handling[g]
  BY DEF Of
<1>2. \A g \in Keys : Pics!At(g, "complete", "seen")' => g # h /\ handling'[g] = handling[g]
  BY <1>1 DEF Pics!At, Of
<1>3. \A g \in Keys : Of(g, "complete") \/ Of(g, "drop") => handling[g].id \in Ids
  BY DEF PicturesInv, MediaInv
<1> QED BY <1>1, <1>2, <1>3 DEF PicturesInv, MediaInv, Of, Pics!At

(* The cover changes, and the upload that was the cover is to be removed.   *)
LEMMA ChangeCoverInv ==
  ASSUME Pics!PicturesAssumption, PicturesInv, NEW h \in Keys,
         NEW now \in Texts \cup {"link", Nothing},
         Pics!ChangeCover(h, now),
         \/ handling[h] = Pics!Idle /\ now \notin Texts
         \/ Completing(h, now) /\ now \in Texts
  PROVE  PicturesInv'
<1> USE DEF PicturesInv, Pics!Stored
<1> DEFINE r == [work |-> "clean", step |-> "begun", id |-> Pics!Previous(cover, now)]
<1>1. /\ cover' = now /\ handling' = [handling EXCEPT ![h] = r]
      /\ UNCHANGED <<media, stored, completed, sweep, unwanted>>
  BY DEF Pics!ChangeCover
<1>2. /\ r.id \in Texts \cup {Nothing} /\ (r.id \in Texts => r.id = cover /\ r.id # now)
      /\ r \in Request
  BY DEF Pics!Previous, Request, Pics!PicturesAssumption
<1>3. /\ handling' \in [Keys -> Request] /\ handling'[h] = r
      /\ \A g \in Keys \ {h} : handling'[g] = handling[g]
  BY <1>1, <1>2, Changed
<1> HIDE DEF r
<1>4. r.work = "clean"
  BY DEF r
<1>5. TypeOK'
  BY <1>1, <1>3 DEF TypeOK
<1>6. MediaInv'
  BY <1>1, <1>3, <1>4, MediaKept
<1>7. \A g \in Keys, c \in Texts :
        /\ Completing(g, c)' => g # h /\ Completing(g, c)
        /\ Cleaning(g, c)' => (g # h /\ Cleaning(g, c)) \/ (g = h /\ c = cover /\ c # now)
  BY <1>2, <1>3, <1>4 DEF Completing, Cleaning, Of
<1>8. \A g \in Keys, c \in Texts : g # h /\ (Completing(g, c) \/ Cleaning(g, c)) => c # now
  <2> SUFFICES ASSUME NEW g \in Keys, NEW c \in Texts, g # h,
                      Completing(g, c) \/ Cleaning(g, c), c = now
               PROVE  FALSE
    OBVIOUS
  <2> QED BY DEF CoverInv
<1>9. ASSUME NEW g \in Keys, NEW c \in Texts
      PROVE  /\ Completing(g, c)' \/ Cleaning(g, c)' => c \in completed'
             /\ Completing(g, c)' =>
                  /\ stored'[c] # Pics!NoFile /\ cover' # c
                  /\ \A k \in Keys : ~Cleaning(k, c)' /\ (Completing(k, c)' => k = g)
             /\ Cleaning(g, c)' => cover' # c
  <2>1. Completing(g, c)' \/ Cleaning(g, c)' => c \in completed'
    BY <1>1, <1>7 DEF CoverInv
  <2>2. Completing(g, c)' \/ Cleaning(g, c)' => cover' # c
    BY <1>1, <1>7, <1>8
  <2>3. ASSUME Completing(g, c)'
        PROVE  /\ stored'[c] # Pics!NoFile
               /\ \A k \in Keys : ~Cleaning(k, c)' /\ (Completing(k, c)' => k = g)
    <3>1. g # h /\ Completing(g, c) /\ cover # c
      BY <1>7, <2>3 DEF CoverInv
    <3> QED BY <1>1, <1>7, <3>1 DEF CoverInv
  <2> QED BY <2>1, <2>2, <2>3
<1>10. ASSUME NEW g \in Keys
       PROVE  /\ Of(g, "cover")' => handling'[g].id \in Texts
              /\ Of(g, "clean")' => handling'[g].id \in Texts \cup {Nothing}
  BY <1>2, <1>3, <1>4 DEF CoverInv, Of
<1>11. cover' \in Texts => cover' \in completed' /\ stored'[cover'] # Pics!NoFile
  BY <1>1 DEF CoverInv, Pics!PicturesAssumption
<1>12. CoverInv'
  BY <1>9, <1>10, <1>11 DEF CoverInv
<1> QED BY <1>5, <1>6, <1>12

LEMMA CoverNextInv ==
  ASSUME Pics!PicturesAssumption, PicturesInv, Pics!CoverNext
  PROVE  PicturesInv'
<1> USE DEF PicturesInv, Pics!Stored
<1>1. ASSUME NEW h \in Keys, NEW c \in Texts, Pics!HeadCover(h, c),
             Pics!IsGood(c) /\ Pics!Begin(h, "cover", c)
      PROVE  PicturesInv'
  <2>1. /\ c \notin completed /\ completed' = completed \cup {c} /\ stored[c] # Pics!NoFile
        /\ UNCHANGED <<media, stored, cover, sweep, unwanted>>
    BY <1>1 DEF Pics!HeadCover, Pics!IsGood, Pics!NoFile, TypeOK, Contents
  <2>2. /\ handling[h] = Pics!Idle /\ handling' \in [Keys -> Request]
        /\ handling'[h] = [work |-> "cover", step |-> "begun", id |-> c]
        /\ \A g \in Keys \ {h} : handling'[g] = handling[g]
    BY <1>1, BeginOf
  <2>3. MediaInv'
    BY <2>1, <2>2, MediaKept
  <2>4. \A g \in Keys, k \in Texts :
          /\ Completing(g, k)' <=> IF g = h THEN k = c ELSE Completing(g, k)
          /\ Cleaning(g, k)' <=> g # h /\ Cleaning(g, k)
    BY <2>2 DEF Completing, Cleaning, Of
  <2>5. \A g \in Keys : ~Completing(g, c) /\ ~Cleaning(g, c)
    BY <2>1 DEF CoverInv
  <2>6. cover # c
    BY <2>1 DEF CoverInv
  <2>7. \A g \in Keys :
          /\ Of(g, "cover")' => handling'[g].id \in Texts
          /\ Of(g, "clean")' => handling'[g].id \in Texts \cup {Nothing}
    BY <2>2 DEF CoverInv, Of
  <2>8. CoverInv'
    BY <2>1, <2>4, <2>5, <2>6, <2>7 DEF CoverInv
  <2> QED BY <2>1, <2>2, <2>3, <2>8 DEF TypeOK
<1>2. ASSUME NEW h \in Keys, NEW c \in Texts, Pics!HeadCover(h, c),
             Pics!Remove(c), UNCHANGED handling
      PROVE  PicturesInv'
  <2>1. /\ c \notin completed /\ completed' = completed \cup {c}
        /\ UNCHANGED <<media, cover, sweep, unwanted>>
    BY <1>2 DEF Pics!HeadCover
  <2>2. /\ stored' \in [Pics!Stored -> Contents]
        /\ \A f \in Pics!Stored \ {c} : stored'[f] = stored[f]
    BY <1>2 DEF Pics!Remove, TypeOK, Contents
  <2>3. \A m \in Ids : stored'[m] = stored[m]
    BY <2>2 DEF Pics!PicturesAssumption
  <2>4. MediaInv'
    BY <1>2, <2>1, <2>3 DEF MediaInv, Of, Pics!At
  <2>5. \A g \in Keys : ~Completing(g, c) /\ ~Cleaning(g, c)
    BY <2>1 DEF CoverInv
  <2>6. cover # c
    BY <2>1 DEF CoverInv
  <2>7. CoverInv'
    BY <1>2, <2>1, <2>2, <2>5, <2>6 DEF CoverInv, Of, Completing, Cleaning
  <2> QED BY <1>2, <2>1, <2>2, <2>4, <2>7 DEF TypeOK
<1>3. ASSUME NEW h \in Keys, Pics!CompleteCover(h)
      PROVE  PicturesInv'
  <2>1. /\ Pics!ChangeCover(h, handling[h].id) /\ handling[h].id \in Texts
        /\ Completing(h, handling[h].id)
    BY <1>3 DEF Pics!CompleteCover, Pics!At, Of, CoverInv, Completing
  <2> QED BY <2>1, ChangeCoverInv
<1>4. ASSUME NEW h \in Keys, Pics!UpdatePostCover(h) \/ Pics!DeleteCover(h)
      PROVE  PicturesInv'
  <2>1. "link" \notin Texts /\ Nothing \notin Texts
    BY DEF Pics!PicturesAssumption
  <2> QED BY <1>4, <2>1, ChangeCoverInv DEF Pics!UpdatePostCover, Pics!DeleteCover
<1>5. ASSUME NEW h \in Keys, Pics!RemovePrevious(h)
      PROVE  PicturesInv'
  <2> DEFINE c == handling[h].id
  <2>1. /\ Pics!At(h, "clean", "begun") /\ Pics!Finish(h)
        /\ IF c = Nothing THEN UNCHANGED stored ELSE Pics!Remove(c)
        /\ UNCHANGED <<media, cover, completed, sweep, unwanted>>
    BY <1>5 DEF Pics!RemovePrevious
  <2>2. /\ handling' \in [Keys -> Request] /\ handling'[h] = Pics!Idle
        /\ \A g \in Keys \ {h} : handling'[g] = handling[g]
    BY <2>1, FinishOf
  <2>3. c \in Texts \cup {Nothing} /\ (c \in Texts => Cleaning(h, c))
    BY <2>1 DEF CoverInv, Pics!At, Of, Cleaning
  <2>4. /\ stored' \in [Pics!Stored -> Contents]
        /\ \A f \in Pics!Stored : f # c => stored'[f] = stored[f]
    BY <2>1, <2>3 DEF Pics!Remove, TypeOK, Contents
  <2>5. \A m \in Ids : stored'[m] = stored[m]
    BY <2>3, <2>4 DEF Pics!PicturesAssumption
  <2>6. MediaInv'
    BY <2>1, <2>2, <2>5, MediaKept DEF Pics!Idle
  <2>7. \A g \in Keys, k \in Texts :
          /\ Completing(g, k)' => Completing(g, k)
          /\ Cleaning(g, k)' => Cleaning(g, k)
    BY <2>2 DEF Completing, Cleaning, Of, Pics!Idle
  <2>8. \A g \in Keys, k \in Texts : Completing(g, k) \/ cover = k => k # c
    BY <2>3 DEF CoverInv
  <2>9. \A g \in Keys :
          /\ Of(g, "cover")' => handling'[g].id \in Texts
          /\ Of(g, "clean")' => handling'[g].id \in Texts \cup {Nothing}
    BY <2>2 DEF CoverInv, Of, Pics!Idle
  <2>10. CoverInv'
    BY <2>1, <2>4, <2>7, <2>8, <2>9 DEF CoverInv
  <2> QED BY <2>1, <2>2, <2>4, <2>6, <2>10 DEF TypeOK
<1>6. ASSUME NEW h \in Keys, NEW c \in Texts, Pics!HeadCover(h, c)
      PROVE  PicturesInv'
  BY <1>1, <1>2, <1>6 DEF Pics!HeadCover
<1> QED BY <1>3, <1>4, <1>5, <1>6, PutInv, LinkInv, FailInv DEF Pics!CoverNext

-----------------------------------------------------------------------------

(* What visitors are shown can be loaded: a ready picture nobody has begun  *)
(* to remove, and the cover of a post (product-media.ts, feed-cover.ts).   *)
THEOREM WhatIsShownIsStored ==
  ASSUME Pics!PicturesAssumption
  PROVE  Pics!Spec => []ShownPicturesHaveObjects
<1>1. Pics!Init => PicturesInv
  BY InitPictures
<1>2. PicturesInv /\ [Pics!Next]_Pics!vars => PicturesInv'
  <2> SUFFICES ASSUME PicturesInv, [Pics!Next]_Pics!vars PROVE PicturesInv'
    OBVIOUS
  <2>1. CASE UNCHANGED Pics!vars
    BY <2>1 DEF Pics!vars, PicturesInv, TypeOK, MediaInv, CoverInv, Of, Pics!At,
           Completing, Cleaning
  <2> QED BY <2>1, MediaNextInv, CoverNextInv DEF Pics!Next
<1>3. PicturesInv => ShownPicturesHaveObjects
  BY DEF PicturesInv, MediaInv, CoverInv, ShownPicturesHaveObjects,
         Pics!ShownPicturesHaveObjects
<1> QED BY <1>1, <1>2, <1>3, PTL DEF Pics!Spec

-----------------------------------------------------------------------------
(* The desk: what may be true of a card, a reply and a request *)

Booking == [status : OfDesk!BookingStatus, body : Bodies \cup {Nothing},
            key : Keys \cup {Nothing}, past : BOOLEAN]
Attempt == [body : Bodies, key : Keys]

(* A card has these fields.                                                *)
IsCard(c) ==
  /\ c = [bookings |-> c.bookings, read |-> c.read, attempt |-> c.attempt, wish |-> c.wish,
          loaded |-> c.loaded, answer |-> c.answer, help |-> c.help]
  /\ c.bookings \in [Ids -> OfDesk!BookingStatus]
  /\ c.attempt \in Attempt \cup {OfDesk!NoAttempt}
  /\ c.attempt.body = c.wish

Shown(status, b) == status = "none" \/ booking[b].status \in OfDesk!Later(status)

ShowsStored(c) ==
  /\ c.answer \in {Nothing, answer} \/ removed
  /\ \A b \in Ids : Shown(c.bookings[b], b)
  /\ c.read # Nothing => /\ c.read \in [Ids -> OfDesk!BookingStatus]
                         /\ \A b \in Ids : Shown(c.read[b], b)

(* A reply that was not heard yet.                                         *)
SaysStored(reply) ==
  /\ reply.kind = "answer" => reply.text \in {Nothing, answer} \/ removed
  /\ reply.kind = "booking" =>
       /\ reply.booking \in Ids /\ reply.status \in OfDesk!BookingStatus
       /\ Shown(reply.status, reply.booking)

AsksSense(request) ==
  /\ request.kind = "book" => request.body \in Bodies /\ request.key \in Keys
  /\ request.kind = "cancel" => request.booking \in Ids

(* The keys in use are among as many as there were wishes.                 *)
KeysAre(K) ==
  /\ \A b \in Ids : booking[b] # OfDesk!NoBooking => booking[b].key \in K
  /\ \A d \in Screens : card[d].attempt # OfDesk!NoAttempt => card[d].attempt.key \in K
  /\ \A r \in OfDesk!Asked : r.kind = "book" => r.key \in K

KeysAreCounted ==
  /\ wishes \in Nat
  /\ \E K \in SUBSET Keys : IsFiniteSet(K) /\ Cardinality(K) <= wishes /\ KeysAre(K)

KeysDiffer ==
  \A b, c \in Ids : booking[b] # OfDesk!NoBooking /\ booking[c] # OfDesk!NoBooking
                    /\ booking[b].key = booking[c].key => b = c

CardsAreStored ==
  /\ DOMAIN card = Screens /\ card = [d \in Screens |-> card[d]]
  /\ \A d \in Screens : IsCard(card[d]) /\ ShowsStored(card[d])

CallsAreStored ==
  /\ DOMAIN deskCall = Screens
  /\ \A d \in Screens : deskCall[d].kind = "answered" => SaysStored(deskCall[d].reply)
  /\ \A r \in OfDesk!Asked : AsksSense(r)

(* Inductive: ShownIsStored says nothing of the replies and the lists that *)
(* will be shown, OneBookingPerWish nothing of the requests on their way.  *)
DeskInv ==
  /\ booking \in [Ids -> Booking]
  /\ CardsAreStored /\ CallsAreStored
  /\ KeysAreCounted /\ KeysDiffer

(* What the rows of the person may come to.                                *)
RowsGo ==
  /\ answer' = answer \/ answer = Nothing \/ removed'
  /\ removed => removed'
  /\ \A b \in Ids :
       booking[b].status = "none" \/ booking'[b].status \in OfDesk!Later(booking[b].status)

LEMMA LaterStill ==
  ASSUME NEW s, NEW t, NEW u, s # "none", t \in OfDesk!Later(s), u \in OfDesk!Later(t)
  PROVE  t # "none" /\ u \in OfDesk!Later(s)
BY DEF OfDesk!Later, OfDesk!BookingStatus

LEMMA ItsOwnLater ==
  ASSUME booking \in [Ids -> Booking], NEW b \in Ids
  PROVE  booking[b].status \in OfDesk!Later(booking[b].status)
<1>1. booking[b].status \in OfDesk!BookingStatus
  BY DEF Booking
<1> QED BY <1>1 DEF OfDesk!Later, OfDesk!BookingStatus

LEMMA BookingsRest ==
  ASSUME booking \in [Ids -> Booking], UNCHANGED booking
  PROVE  \A b \in Ids : booking'[b].status \in OfDesk!Later(booking[b].status)
BY ItsOwnLater

LEMMA RowsRest ==
  ASSUME booking \in [Ids -> Booking], UNCHANGED <<booking, answer, removed>>
  PROVE  RowsGo
BY BookingsRest DEF RowsGo

LEMMA ShownStays ==
  ASSUME RowsGo, NEW status, NEW b \in Ids, Shown(status, b)
  PROVE  Shown(status, b)'
<1>1. CASE status = "none"
  BY <1>1 DEF Shown
<1>2. CASE status # "none"
  <2>1. booking[b].status \in OfDesk!Later(status)
    BY <1>2 DEF Shown
  <2>2. booking[b].status # "none"
    BY <1>2, <2>1 DEF OfDesk!Later, OfDesk!BookingStatus
  <2>3. booking'[b].status \in OfDesk!Later(booking[b].status)
    BY <2>2 DEF RowsGo
  <2> QED BY <1>2, <2>1, <2>3, LaterStill DEF Shown
<1> QED BY <1>1, <1>2

LEMMA CardStays ==
  ASSUME RowsGo, NEW c, IsCard(c), ShowsStored(c)
  PROVE  ShowsStored(c)'
<1>1. c.answer \in {Nothing, answer'} \/ removed'
  BY DEF RowsGo, ShowsStored
<1>2. \A b \in Ids : Shown(c.bookings[b], b)'
  BY ShownStays DEF ShowsStored
<1>3. c.read # Nothing => /\ c.read \in [Ids -> OfDesk!BookingStatus]
                          /\ \A b \in Ids : Shown(c.read[b], b)'
  BY ShownStays DEF ShowsStored
<1> QED BY <1>1, <1>2, <1>3 DEF ShowsStored

LEMMA ReplyStays ==
  ASSUME RowsGo, NEW reply, SaysStored(reply)
  PROVE  SaysStored(reply)'
<1>1. reply.kind = "answer" => reply.text \in {Nothing, answer'} \/ removed'
  BY DEF RowsGo, SaysStored
<1>2. reply.kind = "booking" => Shown(reply.status, reply.booking)'
  BY ShownStays DEF SaysStored
<1> QED BY <1>1, <1>2 DEF SaysStored

LEMMA CardsRest ==
  ASSUME RowsGo, CardsAreStored, card' = card
  PROVE  CardsAreStored'
BY CardStays DEF CardsAreStored, IsCard

LEMMA OneCardChanges ==
  ASSUME RowsGo, CardsAreStored, NEW d \in Screens, NEW c, card' = [card EXCEPT ![d] = c],
         IsCard(c), ShowsStored(c)'
  PROVE  CardsAreStored'
<1>1. DOMAIN card' = Screens /\ card' = [e \in Screens |-> card'[e]]
  BY DEF CardsAreStored
<1>2. ASSUME NEW e \in Screens
      PROVE  IsCard(card'[e]) /\ ShowsStored(card[e])'
  <2>1. CASE e = d
    <3>1. card'[e] = c
      BY <2>1 DEF CardsAreStored
    <3>2. ShowsStored(card[e])' <=> ShowsStored(c)'
      BY <3>1 DEF ShowsStored
    <3> QED BY <3>1, <3>2
  <2>2. CASE e # d
    <3>1. card'[e] = card[e] /\ IsCard(card[e]) /\ ShowsStored(card[e])
      BY <2>2 DEF CardsAreStored
    <3>2. PICK old : old = card[e]
      OBVIOUS
    <3>3. ShowsStored(old)'
      BY <3>1, <3>2, CardStays
    <3> QED BY <3>1, <3>2, <3>3 DEF ShowsStored
  <2> QED BY <2>1, <2>2
<1>3. \A e \in Screens : IsCard(card[e])'
  BY <1>2 DEF IsCard
<1> QED BY <1>1, <1>2, <1>3 DEF CardsAreStored

LEMMA DeskCalls ==
  ASSUME DOMAIN deskCall = Screens, NEW d \in Screens, NEW r,
         deskCall' = [deskCall EXCEPT ![d] = r], deskLate' \subseteq OfDesk!Asked
  PROVE  DOMAIN deskCall' = Screens /\ OfDesk!Asked' \subseteq OfDesk!Asked \cup {r}
BY DEF OfDesk!Asked

LEMMA CallsRest ==
  ASSUME RowsGo, CallsAreStored, UNCHANGED <<deskCall, deskLate>>
  PROVE  CallsAreStored'
BY ReplyStays DEF CallsAreStored, OfDesk!Asked, AsksSense

(* A request is sent, or none is under way any more.                       *)
LEMMA CallSent ==
  ASSUME RowsGo, CallsAreStored, NEW d \in Screens, NEW r,
         deskCall' = [deskCall EXCEPT ![d] = r], deskLate' \subseteq OfDesk!Asked,
         r.kind # "answered", AsksSense(r)
  PROVE  CallsAreStored'
<1>1. DOMAIN deskCall' = Screens /\ OfDesk!Asked' \subseteq OfDesk!Asked \cup {r}
  BY DeskCalls DEF CallsAreStored
<1>2. ASSUME NEW e \in Screens, deskCall'[e].kind = "answered"
      PROVE  SaysStored(deskCall[e].reply)'
  <2>1. deskCall'[e] = deskCall[e] /\ SaysStored(deskCall[e].reply)
    BY <1>2 DEF CallsAreStored
  <2>2. PICK reply : reply = deskCall[e].reply
    OBVIOUS
  <2>3. SaysStored(reply)'
    BY <2>1, <2>2, ReplyStays
  <2> QED BY <2>1, <2>2, <2>3 DEF SaysStored
<1>3. \A q \in OfDesk!Asked' : AsksSense(q)
  BY <1>1 DEF CallsAreStored
<1> QED BY <1>1, <1>2, <1>3 DEF CallsAreStored, AsksSense

LEMMA CallAnswered ==
  ASSUME RowsGo, CallsAreStored, NEW request, NEW reply, OfDesk!Arrive(request, reply),
         SaysStored(reply)'
  PROVE  CallsAreStored' /\ \A r \in OfDesk!Asked' : r \in OfDesk!Asked \/ r.kind = "answered"
<1>1. ASSUME NEW d \in Screens, deskCall[d] = request, UNCHANGED deskLate,
             deskCall' = [deskCall EXCEPT ![d] = [kind |-> "answered", of |-> request,
                                                  reply |-> reply]]
      PROVE  CallsAreStored' /\ \A r \in OfDesk!Asked' : r \in OfDesk!Asked \/ r.kind = "answered"
  <2>1. PICK new : new = [kind |-> "answered", of |-> request, reply |-> reply]
    OBVIOUS
  <2>2. DOMAIN deskCall' = Screens /\ OfDesk!Asked' \subseteq OfDesk!Asked \cup {new}
    BY <1>1, <2>1, DeskCalls DEF CallsAreStored, OfDesk!Asked
  <2>3. ASSUME NEW e \in Screens, deskCall'[e].kind = "answered"
        PROVE  SaysStored(deskCall[e].reply)'
    <3>1. CASE e = d
      <4>1. deskCall'[e].reply = reply
        BY <1>1, <3>1 DEF CallsAreStored
      <4> QED BY <4>1 DEF SaysStored
    <3>2. CASE e # d
      <4>1. deskCall'[e] = deskCall[e] /\ SaysStored(deskCall[e].reply)
        BY <1>1, <2>3, <3>2 DEF CallsAreStored
      <4>2. PICK old : old = deskCall[e].reply
        OBVIOUS
      <4>3. SaysStored(old)'
        BY <4>1, <4>2, ReplyStays
      <4> QED BY <4>1, <4>2, <4>3 DEF SaysStored
    <3> QED BY <3>1, <3>2
  <2>4. \A q \in OfDesk!Asked' : AsksSense(q)
    BY <2>1, <2>2 DEF CallsAreStored, AsksSense
  <2> QED BY <2>1, <2>2, <2>3, <2>4 DEF CallsAreStored, AsksSense
<1>2. ASSUME deskLate' = deskLate \ {request}, UNCHANGED deskCall
      PROVE  CallsAreStored' /\ OfDesk!Asked' \subseteq OfDesk!Asked
  BY <1>2, ReplyStays DEF CallsAreStored, OfDesk!Asked, AsksSense
<1> QED BY <1>1, <1>2 DEF OfDesk!Arrive

(* No key comes into use but from a request.                               *)
LEMMA KeysStay ==
  ASSUME KeysAreCounted, wishes' = wishes,
         \A b \in Ids : booking'[b] # OfDesk!NoBooking =>
           \/ booking[b] # OfDesk!NoBooking /\ booking'[b].key = booking[b].key
           \/ \E r \in OfDesk!Asked : r.kind = "book" /\ booking'[b].key = r.key,
         \A d \in Screens : card'[d].attempt \in {card[d].attempt, OfDesk!NoAttempt},
         \A r \in OfDesk!Asked' : r \in OfDesk!Asked \/ r.kind # "book"
  PROVE  KeysAreCounted'
<1>1. PICK K \in SUBSET Keys : IsFiniteSet(K) /\ Cardinality(K) <= wishes /\ KeysAre(K)
  BY DEF KeysAreCounted
<1>2. KeysAre(K)'
  BY <1>1 DEF KeysAre
<1> QED BY <1>1, <1>2 DEF KeysAreCounted

(* Nor does one from a step that leaves bookings and attempts alone.       *)
LEMMA KeysRest ==
  ASSUME KeysAreCounted, KeysDiffer, UNCHANGED <<booking, wishes>>,
         \A d \in Screens : card'[d].attempt \in {card[d].attempt, OfDesk!NoAttempt},
         \A r \in OfDesk!Asked' : r \in OfDesk!Asked \/ r.kind # "book"
  PROVE  KeysAreCounted' /\ KeysDiffer'
<1>1. KeysAreCounted'
  BY KeysStay
<1>2. KeysDiffer'
  BY DEF KeysDiffer
<1> QED BY <1>1, <1>2

LEMMA InitDesk == OfDesk!DeskAssumption /\ OfDesk!Init => DeskInv
<1> SUFFICES ASSUME OfDesk!DeskAssumption, OfDesk!Init PROVE DeskInv
  OBVIOUS
<1>1. booking \in [Ids -> Booking]
  BY DEF OfDesk!Init, OfDesk!NoBooking, Booking, OfDesk!BookingStatus
<1>2. CardsAreStored
  <2>1. PICK c : c = OfDesk!EmptyCard
    OBVIOUS
  <2>2. IsCard(c)
    BY <2>1 DEF IsCard, OfDesk!EmptyCard, OfDesk!BookingStatus, OfDesk!NoAttempt
  <2>3. ShowsStored(c)
    BY <2>1 DEF ShowsStored, Shown, OfDesk!EmptyCard
  <2>4. card = [d \in Screens |-> c]
    BY <2>1 DEF OfDesk!Init
  <2> QED BY <2>2, <2>3, <2>4 DEF CardsAreStored
<1>3. DOMAIN deskCall = Screens /\ \A d \in Screens : deskCall[d].kind = "none"
  BY DEF OfDesk!Init, OfDesk!NoCall
<1>4. \A r \in OfDesk!Asked : r.kind = "none"
  BY <1>3 DEF OfDesk!Init, OfDesk!Asked
<1>5. CallsAreStored
  BY <1>3, <1>4 DEF CallsAreStored, AsksSense
<1>6. KeysAreCounted
  <2>1. wishes = 0 /\ IsFiniteSet({}) /\ Cardinality({}) = 0
    BY FS_EmptySet DEF OfDesk!Init
  <2>2. KeysAre({})
    BY <1>4 DEF OfDesk!Init, KeysAre, OfDesk!EmptyCard
  <2> QED BY <2>1, <2>2 DEF KeysAreCounted
<1>7. KeysDiffer
  BY DEF KeysDiffer, OfDesk!Init
<1> QED BY <1>1, <1>2, <1>5, <1>6, <1>7 DEF DeskInv

(* A device sends something else than a booking, or stops waiting.         *)
LEMMA QuietCall ==
  ASSUME DeskInv, UNCHANGED <<booking, answer, removed>>, NEW d \in Screens, NEW r,
         deskCall' = [deskCall EXCEPT ![d] = r], deskLate' \subseteq OfDesk!Asked,
         r.kind \notin {"answered", "book"}, r.kind = "cancel" => r.booking \in Ids
  PROVE  /\ CallsAreStored'
         /\ \A q \in OfDesk!Asked' : q \in OfDesk!Asked \/ q.kind # "book"
<1>1. RowsGo /\ AsksSense(r)
  BY RowsRest DEF DeskInv, AsksSense
<1>2. CallsAreStored'
  BY <1>1, CallSent DEF DeskInv
<1>3. OfDesk!Asked' \subseteq OfDesk!Asked \cup {r}
  BY DeskCalls DEF DeskInv, CallsAreStored
<1> QED BY <1>2, <1>3

(* A card shows something else.                                            *)
LEMMA CardShows ==
  ASSUME DeskInv, UNCHANGED <<booking, answer, removed, wishes>>, NEW d \in Screens, NEW c,
         card' = [card EXCEPT ![d] = c], IsCard(c), ShowsStored(c),
         c.attempt \in {card[d].attempt, OfDesk!NoAttempt},
         CallsAreStored', \A q \in OfDesk!Asked' : q \in OfDesk!Asked \/ q.kind # "book"
  PROVE  DeskInv'
<1>1. RowsGo
  BY RowsRest DEF DeskInv
<1>2. CardsAreStored'
  BY <1>1, CardStays, OneCardChanges DEF DeskInv
<1>3. \A e \in Screens : card'[e].attempt \in {card[e].attempt, OfDesk!NoAttempt}
  BY DEF DeskInv, CardsAreStored
<1>4. KeysAreCounted' /\ KeysDiffer'
  BY <1>3, KeysRest DEF DeskInv
<1> QED BY <1>2, <1>4 DEF DeskInv

(* A card changes in what is neither a booking nor a wish.                 *)
LEMMA CardLearns ==
  ASSUME DeskInv, NEW d \in Screens, NEW c, NEW loaded, NEW text, NEW requests,
         c = [card[d] EXCEPT !.answer = text, !.loaded = loaded, !.help = requests],
         text \in {Nothing, answer, card[d].answer} \/ removed
  PROVE  IsCard(c) /\ ShowsStored(c) /\ c.attempt = card[d].attempt
<1>1. IsCard(card[d]) /\ ShowsStored(card[d])
  BY DEF DeskInv, CardsAreStored
<1>2. /\ c.bookings = card[d].bookings /\ c.read = card[d].read
      /\ c.attempt = card[d].attempt /\ c.wish = card[d].wish
      /\ c.answer = text
      /\ c = [bookings |-> c.bookings, read |-> c.read, attempt |-> c.attempt,
              wish |-> c.wish, loaded |-> c.loaded, answer |-> c.answer, help |-> c.help]
  BY <1>1 DEF IsCard
<1> QED BY <1>1, <1>2 DEF IsCard, ShowsStored

(* The server answers, and writes no booking.                              *)
LEMMA ServerAnswers ==
  ASSUME DeskInv, RowsGo, UNCHANGED <<booking, card, wishes>>, NEW request, NEW reply,
         OfDesk!Arrive(request, reply), SaysStored(reply)'
  PROVE  DeskInv'
<1>1. CallsAreStored' /\ \A r \in OfDesk!Asked' : r \in OfDesk!Asked \/ r.kind = "answered"
  BY CallAnswered DEF DeskInv
<1>2. CardsAreStored'
  BY CardsRest DEF DeskInv
<1>3. KeysAreCounted' /\ KeysDiffer'
  BY <1>1, KeysRest DEF DeskInv
<1> QED BY <1>1, <1>2, <1>3 DEF DeskInv

(* Nobody at the desk notices.                                             *)
LEMMA RowsOnly ==
  ASSUME DeskInv, RowsGo, UNCHANGED <<booking, card, deskCall, deskLate, wishes>>
  PROVE  DeskInv'
<1>1. CallsAreStored' /\ OfDesk!Asked' = OfDesk!Asked
  BY CallsRest DEF DeskInv, OfDesk!Asked
<1>2. CardsAreStored'
  BY CardsRest DEF DeskInv
<1>3. KeysAreCounted' /\ KeysDiffer'
  BY <1>1, KeysRest DEF DeskInv
<1> QED BY <1>1, <1>2, <1>3 DEF DeskInv

(* Whatever else it is about, a step of this kind is one of those.          *)
LEMMA ReloadInv ==
  ASSUME DeskInv, NEW d \in Screens, OfDesk!Reload(d)
  PROVE  DeskInv'
<1>1. PICK c : c = OfDesk!EmptyCard
  OBVIOUS
<1>2. IsCard(c)
  BY <1>1 DEF IsCard, OfDesk!EmptyCard, OfDesk!BookingStatus, OfDesk!NoAttempt
<1>3. ShowsStored(c) /\ c.attempt = OfDesk!NoAttempt
  BY <1>1 DEF ShowsStored, Shown, OfDesk!EmptyCard
<1>4. /\ UNCHANGED <<booking, answer, removed, wishes, deskCall, deskLate>>
      /\ card' = [card EXCEPT ![d] = c]
  BY <1>1 DEF OfDesk!Reload, OfDesk!eventVars
<1>5. CallsAreStored' /\ OfDesk!Asked' = OfDesk!Asked
  BY <1>4, RowsRest, CallsRest DEF DeskInv, OfDesk!Asked
<1> QED BY <1>2, <1>3, <1>4, <1>5, CardShows

(* The request or the answer of a device is lost, or is heard.              *)
LEMMA LostOrHeard ==
  ASSUME NEW d \in Screens,
         \/ \E kinds : OfDesk!Lose(d, kinds)
         \/ \E kind, replies : OfDesk!Hear(d, kind, replies) /\ deskLate' = deskLate
  PROVE  /\ deskCall' = [deskCall EXCEPT ![d] = OfDesk!NoCall]
         /\ deskLate' \subseteq OfDesk!Asked
BY DEF OfDesk!Lose, OfDesk!Hear, OfDesk!Asked

LEMMA NoCallIsQuiet ==
  ASSUME NEW r, r = OfDesk!NoCall
  PROVE  r.kind = "none"
BY DEF OfDesk!NoCall

(* What a card shows after its call ended.                                 *)
LEMMA CallEnds ==
  ASSUME DeskInv, UNCHANGED <<booking, answer, removed, wishes>>, NEW d \in Screens,
         deskCall' = [deskCall EXCEPT ![d] = OfDesk!NoCall], deskLate' \subseteq OfDesk!Asked,
         NEW c, card' = [card EXCEPT ![d] = c], IsCard(c), ShowsStored(c),
         c.attempt \in {card[d].attempt, OfDesk!NoAttempt}
  PROVE  DeskInv'
<1>1. PICK r : r = OfDesk!NoCall
  OBVIOUS
<1>2. /\ CallsAreStored'
      /\ \A q \in OfDesk!Asked' : q \in OfDesk!Asked \/ q.kind # "book"
  BY <1>1, NoCallIsQuiet, QuietCall
<1> QED BY <1>2, CardShows

LEMMA CardAsItIs ==
  ASSUME DeskInv, NEW d \in Screens
  PROVE  /\ card = [card EXCEPT ![d] = card[d]]
         /\ IsCard(card[d]) /\ ShowsStored(card[d])
BY DEF DeskInv, CardsAreStored

(* A device asks for what is not a booking, and shows what it showed.       *)
LEMMA QuietAsk ==
  ASSUME DeskInv, UNCHANGED <<booking, answer, removed, wishes, card, deskLate>>,
         NEW d \in Screens, NEW r, OfDesk!Ask(d, r),
         r.kind \notin {"answered", "book"}, r.kind = "cancel" => r.booking \in Ids
  PROVE  DeskInv'
<1>1. /\ CallsAreStored'
      /\ \A q \in OfDesk!Asked' : q \in OfDesk!Asked \/ q.kind # "book"
  BY QuietCall DEF OfDesk!Ask, OfDesk!Asked
<1>2. PICK c : c = card[d]
  OBVIOUS
<1> QED BY <1>1, <1>2, CardAsItIs, CardShows

LEMMA CardAnew ==
  ASSUME DeskInv, NEW d \in Screens, NEW c, DOMAIN card' = Screens,
         card' = [e \in Screens |-> card'[e]], card'[d] = c,
         \A e \in Screens \ {d} : card'[e] = card[e]
  PROVE  card' = [card EXCEPT ![d] = c]
<1>1. DOMAIN card = Screens
  BY DEF DeskInv, CardsAreStored
<1> QED BY <1>1

LEMMA HelpShown ==
  ASSUME DeskInv, NEW d \in Screens, NEW requests, NEW loaded, NEW c,
         card' = [card EXCEPT ![d].help = requests, ![d].loaded = loaded],
         c = [card[d] EXCEPT !.answer = card[d].answer, !.loaded = loaded, !.help = requests]
  PROVE  card' = [card EXCEPT ![d] = c]
<1>1. IsCard(card[d]) /\ DOMAIN card = Screens
  BY DEF DeskInv, CardsAreStored
<1>2. card'[d] = [card[d] EXCEPT !.help = requests, !.loaded = loaded]
  BY <1>1
<1>3. c = [card[d] EXCEPT !.help = requests, !.loaded = loaded]
  BY <1>1 DEF IsCard
<1> QED BY <1>1, <1>2, <1>3, CardAnew

LEMMA AnswerNextInv == ASSUME DeskInv, OfDesk!AnswerNext PROVE DeskInv'
<1>0. RowsGo \/ ~(UNCHANGED <<booking, answer, removed>>)
  BY RowsRest DEF DeskInv
<1>1. ASSUME NEW d \in Screens, OfDesk!SeeAnswer(d) \/ (\E text \in Texts : OfDesk!SubmitAnswer(d, text))
      PROVE  DeskInv'
  <2>1. UNCHANGED <<booking, answer, removed, wishes, card, deskLate>>
    BY <1>1 DEF OfDesk!SeeAnswer, OfDesk!SubmitAnswer, OfDesk!eventVars
  <2>2. CASE OfDesk!SeeAnswer(d)
    <3>1. PICK r : r = [kind |-> "see"]
      OBVIOUS
    <3> QED BY <2>1, <2>2, <3>1, QuietAsk DEF OfDesk!SeeAnswer
  <2>3. ASSUME NEW text \in Texts, OfDesk!SubmitAnswer(d, text)
        PROVE  DeskInv'
    <3>1. PICK r : r = [kind |-> "answer", text |-> text]
      OBVIOUS
    <3> QED BY <2>1, <2>3, <3>1, QuietAsk DEF OfDesk!SubmitAnswer
  <2> QED BY <1>1, <2>2, <2>3
<1>2. ASSUME NEW d \in Screens, OfDesk!HearAnswer(d) \/ OfDesk!LoseAnswer(d)
      PROVE  DeskInv'
  <2>1. /\ UNCHANGED <<booking, answer, removed, wishes>>
        /\ deskCall' = [deskCall EXCEPT ![d] = OfDesk!NoCall] /\ deskLate' \subseteq OfDesk!Asked
    BY <1>2, LostOrHeard DEF OfDesk!HearAnswer, OfDesk!LoseAnswer, OfDesk!eventVars
  <2>2. CASE card' = card
    <3>1. PICK c : c = card[d]
      OBVIOUS
    <3> QED BY <2>1, <2>2, <3>1, CardAsItIs, CallEnds
  <2>3. ASSUME NEW text, NEW loaded, text \in {Nothing, answer, card[d].answer} \/ removed,
               card' = [card EXCEPT ![d].answer = text, ![d].loaded = loaded]
        PROVE  DeskInv'
    <3>1. PICK requests : requests = card[d].help
      OBVIOUS
    <3>2. PICK c : c = [card[d] EXCEPT !.answer = text, !.loaded = loaded, !.help = requests]
      OBVIOUS
    <3>3. IsCard(c) /\ ShowsStored(c) /\ c.attempt = card[d].attempt
      BY <2>3, <3>2, CardLearns
    <3>4. card' = [card EXCEPT ![d] = c]
      <4>1. IsCard(card[d]) /\ DOMAIN card = Screens
        BY DEF DeskInv, CardsAreStored
      <4>2. card'[d] = [card[d] EXCEPT !.answer = text, !.loaded = loaded]
        BY <2>3, <4>1
      <4>3. c = [card[d] EXCEPT !.answer = text, !.loaded = loaded]
        BY <3>1, <3>2, <4>1 DEF IsCard
      <4>4. DOMAIN card' = Screens /\ card' = [e \in Screens |-> card'[e]]
        BY <2>3, <4>1
      <4>5. \A e \in Screens \ {d} : card'[e] = card[e]
        BY <2>3, <4>1
      <4> QED BY <4>2, <4>3, <4>4, <4>5, CardAnew
    <3> QED BY <2>1, <3>3, <3>4, CallEnds
  <2>4. CASE /\ OfDesk!Hear(d, "answer", {"answer"}) \/ OfDesk!Hear(d, "see", {"answer"})
             /\ card' = [card EXCEPT ![d].answer = deskCall[d].reply.text, ![d].loaded = TRUE]
    <3>1. PICK text : text = deskCall[d].reply.text
      OBVIOUS
    <3>2. SaysStored(deskCall[d].reply) /\ deskCall[d].reply.kind = "answer"
      BY <2>4 DEF OfDesk!Hear, DeskInv, CallsAreStored
    <3> QED BY <2>3, <2>4, <3>1, <3>2 DEF SaysStored
  <2>5. CASE card' = [card EXCEPT ![d].loaded = FALSE]
    <3>1. PICK text : text = card[d].answer
      OBVIOUS
    <3>2. card' = [card EXCEPT ![d].answer = text, ![d].loaded = FALSE]
      BY ZenonT(30), <2>5, <3>1, CardAsItIs DEF IsCard, DeskInv, CardsAreStored
    <3> QED BY <2>3, <3>1, <3>2
  <2> QED BY <1>2, <2>2, <2>4, <2>5 DEF OfDesk!HearAnswer, OfDesk!LoseAnswer
<1>3. ASSUME NEW request \in OfDesk!Asked, OfDesk!GetAnswer(request)
      PROVE  DeskInv'
  <2>1. PICK reply : reply = [kind |-> "answer", text |-> answer]
    OBVIOUS
  <2>2. UNCHANGED <<booking, answer, removed, card, wishes>> /\ OfDesk!Arrive(request, reply)
    BY <1>3, <2>1 DEF OfDesk!GetAnswer, OfDesk!eventVars
  <2>3. SaysStored(reply)'
    BY <2>1, <2>2 DEF SaysStored
  <2> QED BY <1>0, <2>2, <2>3, ServerAnswers
<1>4. ASSUME NEW request \in OfDesk!Asked, OfDesk!CreateAnswer(request)
      PROVE  DeskInv'
  <2>1. /\ UNCHANGED <<booking, removed, card, wishes>>
        /\ answer = Nothing \/ answer' = answer
    BY <1>4 DEF OfDesk!CreateAnswer
  <2>2. RowsGo
    BY <2>1, BookingsRest DEF RowsGo, DeskInv
  <2>3. CASE OfDesk!Accepted(request.text) /\ answer' = request.text
    <3>1. PICK reply : reply = [kind |-> "answer", text |-> request.text]
      OBVIOUS
    <3>2. PICK sent : sent = [kind |-> "answer", text |-> request.text]
      OBVIOUS
    <3>3. OfDesk!Arrive(sent, reply)
      BY <2>3, <3>1, <3>2 DEF OfDesk!Accepted
    <3>4. SaysStored(reply)'
      BY <2>3, <3>1 DEF SaysStored
    <3> QED BY <2>1, <2>2, <3>3, <3>4, ServerAnswers
  <2>4. ASSUME NEW kind \in {"refused", "taken"}, OfDesk!Arrive(request, [kind |-> kind])
        PROVE  DeskInv'
    <3>1. PICK reply : reply = [kind |-> kind]
      OBVIOUS
    <3>2. SaysStored(reply)'
      BY <3>1 DEF SaysStored
    <3> QED BY <2>1, <2>2, <2>4, <3>1, <3>2, ServerAnswers
  <2>5. \/ OfDesk!Accepted(request.text) /\ answer' = request.text
        \/ OfDesk!Arrive(request, [kind |-> IF answer = Nothing THEN "refused" ELSE "taken"])
    BY <1>4 DEF OfDesk!CreateAnswer
  <2> QED BY <2>3, <2>4, <2>5
<1>5. CASE OfDesk!Participate \/ OfDesk!Announce \/ OfDesk!RemoveParticipant
  <2>1. /\ UNCHANGED <<booking, card, deskCall, deskLate, wishes>>
        /\ (answer' = answer /\ removed' = removed) \/ removed' = TRUE
    BY <1>5 DEF OfDesk!Participate, OfDesk!Announce, OfDesk!RemoveParticipant
  <2>2. RowsGo
    BY <2>1, BookingsRest DEF RowsGo, DeskInv
  <2> QED BY <2>1, <2>2, RowsOnly
<1> QED BY <1>1, <1>2, <1>3, <1>4, <1>5, ReloadInv DEF OfDesk!AnswerNext

LEMMA HelpNextInv == ASSUME DeskInv, OfDesk!HelpNext PROVE DeskInv'
<1>0. RowsGo \/ ~(UNCHANGED <<booking, answer, removed>>)
  BY RowsRest DEF DeskInv
<1>1. ASSUME NEW d \in Screens, OfDesk!SeeHelp(d) \/ OfDesk!SubmitHelp(d)
      PROVE  DeskInv'
  <2>1. UNCHANGED <<booking, answer, removed, wishes, card, deskLate>>
    BY <1>1 DEF OfDesk!SeeHelp, OfDesk!SubmitHelp, OfDesk!eventVars
  <2>2. PICK kind \in {"list", "help"} : OfDesk!Ask(d, [kind |-> kind])
    BY <1>1 DEF OfDesk!SeeHelp, OfDesk!SubmitHelp
  <2>3. PICK r : r = [kind |-> kind]
    OBVIOUS
  <2> QED BY <2>1, <2>2, <2>3, QuietAsk
<1>2. ASSUME NEW d \in Screens, OfDesk!HearHelp(d) \/ OfDesk!LoseHelp(d)
      PROVE  DeskInv'
  <2>1. /\ UNCHANGED <<booking, answer, removed, wishes>>
        /\ deskCall' = [deskCall EXCEPT ![d] = OfDesk!NoCall] /\ deskLate' \subseteq OfDesk!Asked
    BY <1>2, LostOrHeard DEF OfDesk!HearHelp, OfDesk!LoseHelp, OfDesk!eventVars
  <2>2. CASE card' = card
    <3>1. PICK c : c = card[d]
      OBVIOUS
    <3> QED BY <2>1, <2>2, <3>1, CardAsItIs, CallEnds
  <2>3. ASSUME NEW loaded, NEW requests,
               card' = [card EXCEPT ![d].help = requests, ![d].loaded = loaded]
        PROVE  DeskInv'
    <3>1. PICK text : text = card[d].answer
      OBVIOUS
    <3>2. PICK c : c = [card[d] EXCEPT !.answer = text, !.loaded = loaded, !.help = requests]
      OBVIOUS
    <3>3. IsCard(c) /\ ShowsStored(c) /\ c.attempt = card[d].attempt
      BY <3>1, <3>2, CardLearns
    <3>4. card' = [card EXCEPT ![d] = c]
      BY ZenonT(30), <2>3, <3>1, <3>2, HelpShown
    <3> QED BY <2>1, <3>3, <3>4, CallEnds
  <2>4. CASE card' = [card EXCEPT ![d].help = deskCall[d].reply.help, ![d].loaded = TRUE]
    <3>1. PICK requests : requests = deskCall[d].reply.help
      OBVIOUS
    <3> QED BY <2>3, <2>4, <3>1
  <2>5. CASE card' = [card EXCEPT ![d].help[deskCall[d].reply.request] = "new"]
    <3>1. PICK requests, loaded :
            /\ requests = [card[d].help EXCEPT ![deskCall[d].reply.request] = "new"]
            /\ loaded = card[d].loaded
      OBVIOUS
    <3>2. card' = [card EXCEPT ![d].help = requests, ![d].loaded = loaded]
      BY ZenonT(30), <2>5, <3>1, CardAsItIs DEF IsCard, DeskInv, CardsAreStored
    <3> QED BY <2>3, <3>2
  <2>6. CASE card' = [card EXCEPT ![d].loaded = TRUE]
    <3>1. PICK requests : requests = card[d].help
      OBVIOUS
    <3>2. card' = [card EXCEPT ![d].help = requests, ![d].loaded = TRUE]
      BY ZenonT(30), <2>6, <3>1, CardAsItIs DEF IsCard, DeskInv, CardsAreStored
    <3> QED BY <2>3, <3>2
  <2> QED BY <1>2, <2>2, <2>4, <2>5, <2>6 DEF OfDesk!HearHelp, OfDesk!LoseHelp
<1>3. ASSUME NEW request \in OfDesk!Asked, OfDesk!GetHelp(request) \/ OfDesk!CreateHelp(request)
      PROVE  DeskInv'
  <2>1. UNCHANGED <<booking, answer, removed, card, wishes>>
    BY <1>3 DEF OfDesk!GetHelp, OfDesk!CreateHelp, OfDesk!eventVars
  <2>2. ASSUME NEW reply, OfDesk!Arrive(request, reply),
               reply.kind \in {"list", "created", "refused"}
        PROVE  DeskInv'
    <3>1. SaysStored(reply)'
      BY <2>2 DEF SaysStored
    <3> QED BY <1>0, <2>1, <2>2, <3>1, ServerAnswers
  <2>3. CASE OfDesk!Arrive(request, [kind |-> "list", help |-> help])
    BY <2>2, <2>3
  <2>4. ASSUME NEW r, OfDesk!Arrive(request, [kind |-> "created", request |-> r])
        PROVE  DeskInv'
    BY <2>2, <2>4
  <2>5. CASE OfDesk!Arrive(request, OfDesk!Refusal)
    BY <2>2, <2>5 DEF OfDesk!Refusal
  <2> QED BY <1>3, <2>3, <2>4, <2>5 DEF OfDesk!GetHelp, OfDesk!CreateHelp
<1>4. ASSUME OfDesk!ListHelp \/ (\E r \in Ids : \/ \E status \in OfDesk!HelpStatus \ {"none"} : OfDesk!UpdateHelp(r, status)
                                              \/ OfDesk!AssignHelp(r))
      PROVE  DeskInv'
  <2>1. UNCHANGED <<booking, answer, removed, card, deskCall, deskLate, wishes>>
    BY <1>4 DEF OfDesk!ListHelp, OfDesk!UpdateHelp, OfDesk!AssignHelp
  <2> QED BY <1>0, <2>1, RowsOnly
<1> QED BY <1>1, <1>2, <1>3, <1>4, ReloadInv DEF OfDesk!HelpNext

(* The status of one booking changes.                                      *)
LEMMA OneStatusChanges ==
  ASSUME DeskInv, UNCHANGED <<answer, removed>>, NEW b \in Ids, NEW status \in OfDesk!BookingStatus,
         booking[b].status # "none", OfDesk!CanChangeBookingStatus(booking[b].status, status),
         booking' = [booking EXCEPT ![b].status = status]
  PROVE  /\ booking' \in [Ids -> Booking] /\ RowsGo /\ KeysDiffer'
         /\ \A c \in Ids : booking'[c] # OfDesk!NoBooking =>
              booking[c] # OfDesk!NoBooking /\ booking'[c].key = booking[c].key
<1>0. booking \in [Ids -> Booking]
  BY DEF DeskInv
<1>1. booking'[b] = [booking[b] EXCEPT !.status = status] /\ booking[b] \in Booking
  BY <1>0
<1>2. booking'[b] \in Booking /\ booking'[b].key = booking[b].key /\ booking'[b].status = status
  BY <1>1 DEF Booking
<1>3. \A c \in Ids : c # b => booking'[c] = booking[c]
  BY <1>0
<1>4. booking' \in [Ids -> Booking]
  <2>1. booking' = [c \in Ids |-> booking'[c]]
    BY <1>0
  <2>2. \A c \in Ids : booking'[c] \in Booking
    BY <1>0, <1>2, <1>3
  <2> QED BY <2>1, <2>2
<1>5. status \in OfDesk!Later(booking[b].status)
  BY <1>1 DEF OfDesk!Later, OfDesk!CanChangeBookingStatus, OfDesk!BookingStatus, Booking
<1>6. RowsGo
  <2>1. \A c \in Ids : booking[c].status \in OfDesk!Later(booking[c].status)
    BY <1>0, ItsOwnLater
  <2> QED BY <1>2, <1>3, <1>5, <2>1 DEF RowsGo
<1>7. \A c \in Ids : booking'[c] # OfDesk!NoBooking =>
        booking[c] # OfDesk!NoBooking /\ booking'[c].key = booking[c].key
  BY <1>2, <1>3 DEF OfDesk!NoBooking
<1>8. KeysDiffer'
  BY <1>7 DEF KeysDiffer, DeskInv
<1> QED BY <1>4, <1>6, <1>7, <1>8

LEMMA SentIsStored ==
  ASSUME booking' \in [Ids -> Booking], NEW b \in Ids, NEW reply, reply = OfDesk!Sent(b)
  PROVE  SaysStored(reply)'
<1>1. /\ reply.kind = "booking" /\ reply.booking = b /\ reply.status = booking'[b].status
      /\ booking'[b].status \in OfDesk!BookingStatus
  BY DEF OfDesk!Sent, Booking
<1>2. booking'[b].status \in OfDesk!Later(booking'[b].status)
  BY <1>1 DEF OfDesk!Later, OfDesk!BookingStatus
<1> QED BY <1>1, <1>2 DEF SaysStored, Shown

LEMMA RefusalIsStored ==
  ASSUME NEW reply, reply = OfDesk!Refusal
  PROVE  SaysStored(reply)'
BY DEF OfDesk!Refusal, SaysStored

(* A booking that there was not has the key of its request.                *)
LEMMA CreateBookingInv ==
  ASSUME DeskInv, NEW request \in OfDesk!Asked, OfDesk!CreateBooking(request)
  PROVE  DeskInv'
<1> DEFINE OfKey == {b \in Ids : booking[b].key = request.key}
<1>1. /\ request.kind = "book" /\ request.body \in Bodies /\ request.key \in Keys
      /\ UNCHANGED <<answer, removed, card, wishes>>
  BY DEF OfDesk!CreateBooking, OfDesk!eventVars, DeskInv, CallsAreStored, AsksSense
<1>2. ASSUME UNCHANGED booking, NEW reply, OfDesk!Arrive(request, reply), SaysStored(reply)'
      PROVE  DeskInv'
  BY <1>1, <1>2, RowsRest, ServerAnswers DEF DeskInv
<1>3. ASSUME NEW b \in Ids, UNCHANGED booking,
             OfDesk!Arrive(request, IF booking[b].body = request.body THEN OfDesk!Sent(b)
                                    ELSE OfDesk!Refusal)
      PROVE  DeskInv'
  <2>1. PICK reply : reply = IF booking[b].body = request.body THEN OfDesk!Sent(b) ELSE OfDesk!Refusal
    OBVIOUS
  <2>2. SaysStored(reply)'
    <3>1. CASE reply = OfDesk!Sent(b)
      BY <1>3, <3>1, SentIsStored DEF DeskInv
    <3>2. CASE reply = OfDesk!Refusal
      BY <3>2, RefusalIsStored
    <3> QED BY <2>1, <3>1, <3>2
  <2> QED BY <1>2, <1>3, <2>1, <2>2
<1>4. CASE UNCHANGED booking /\ OfDesk!Arrive(request, OfDesk!Refusal)
  <2>1. PICK reply : reply = OfDesk!Refusal
    OBVIOUS
  <2> QED BY <1>2, <1>4, <2>1, RefusalIsStored
<1>5. ASSUME NEW b \in Ids, OfKey = {}, booking[b] = OfDesk!NoBooking,
             booking' = [booking EXCEPT ![b] =
               [status |-> "pending", body |-> request.body, key |-> request.key, past |-> FALSE]],
             OfDesk!Arrive(request, OfDesk!Sent(b))
      PROVE  DeskInv'
  <2>0. booking \in [Ids -> Booking]
    BY DEF DeskInv
  <2>1. PICK new : new = [status |-> "pending", body |-> request.body, key |-> request.key,
                          past |-> FALSE]
    OBVIOUS
  <2>2. new \in Booking
    BY <1>1, <2>1 DEF Booking, OfDesk!BookingStatus
  <2>3. /\ booking' \in [Ids -> Booking] /\ booking'[b] = new
        /\ \A c \in Ids : c # b => booking'[c] = booking[c]
    BY <1>5, <2>0, <2>1, <2>2
  <2>4. RowsGo
    <3>1. \A c \in Ids : booking[c].status \in OfDesk!Later(booking[c].status)
      BY <2>0, ItsOwnLater
    <3> QED BY <1>1, <1>5, <2>3, <3>1 DEF RowsGo, OfDesk!NoBooking
  <2>5. PICK reply : reply = OfDesk!Sent(b)
    OBVIOUS
  <2>6. CallsAreStored' /\ \A r \in OfDesk!Asked' : r \in OfDesk!Asked \/ r.kind = "answered"
    BY <1>5, <2>3, <2>4, <2>5, SentIsStored, CallAnswered DEF DeskInv
  <2>7. CardsAreStored'
    BY <1>1, <2>4, CardsRest DEF DeskInv
  <2>8. KeysAreCounted'
    <3>1. \A c \in Ids : booking'[c] # OfDesk!NoBooking =>
            \/ booking[c] # OfDesk!NoBooking /\ booking'[c].key = booking[c].key
            \/ \E r \in OfDesk!Asked : r.kind = "book" /\ booking'[c].key = r.key
      BY <1>1, <2>1, <2>3
    <3>2. \A d \in Screens : card'[d].attempt \in {card[d].attempt, OfDesk!NoAttempt}
      BY <1>1
    <3> QED BY <1>1, <2>6, <3>1, <3>2, KeysStay DEF DeskInv
  <2>9. KeysDiffer'
    <3>1. \A c \in Ids : booking[c].key # new.key
      BY <1>5, <2>1
    <3> QED BY <2>3, <3>1 DEF KeysDiffer, DeskInv
  <2> QED BY <2>3, <2>6, <2>7, <2>8, <2>9 DEF DeskInv
<1> QED BY <1>3, <1>4, <1>5 DEF OfDesk!CreateBooking

LEMMA CancelInv ==
  ASSUME DeskInv, NEW request \in OfDesk!Asked, OfDesk!Cancel(request)
  PROVE  DeskInv'
<1>1. PICK b : b = request.booking
  OBVIOUS
<1>2. b \in Ids /\ UNCHANGED <<answer, removed, card, wishes>>
  BY <1>1 DEF OfDesk!Cancel, OfDesk!eventVars, DeskInv, CallsAreStored, AsksSense
<1>3. CASE /\ OfDesk!CanChangeBookingStatus(booking[b].status, "cancelled")
           /\ booking' = [booking EXCEPT ![b].status = "cancelled"]
           /\ OfDesk!Arrive(request, OfDesk!Sent(b))
  <2>1. booking[b].status # "none" /\ "cancelled" \in OfDesk!BookingStatus
    BY <1>3 DEF OfDesk!CanChangeBookingStatus, OfDesk!BookingStatus
  <2>2. /\ booking' \in [Ids -> Booking] /\ RowsGo /\ KeysDiffer'
        /\ \A c \in Ids : booking'[c] # OfDesk!NoBooking =>
             booking[c] # OfDesk!NoBooking /\ booking'[c].key = booking[c].key
    BY <1>2, <1>3, <2>1, OneStatusChanges
  <2>3. PICK reply : reply = OfDesk!Sent(b)
    OBVIOUS
  <2>4. CallsAreStored' /\ \A r \in OfDesk!Asked' : r \in OfDesk!Asked \/ r.kind = "answered"
    BY <1>2, <1>3, <2>2, <2>3, SentIsStored, CallAnswered DEF DeskInv
  <2>5. CardsAreStored'
    BY <1>2, <2>2, CardsRest DEF DeskInv
  <2>6. KeysAreCounted'
    <3>1. \A d \in Screens : card'[d].attempt \in {card[d].attempt, OfDesk!NoAttempt}
      BY <1>2
    <3> QED BY <1>2, <2>2, <2>4, <3>1, KeysStay DEF DeskInv
  <2> QED BY <2>2, <2>4, <2>5, <2>6 DEF DeskInv
<1>4. CASE UNCHANGED booking /\ OfDesk!Arrive(request, OfDesk!Refusal)
  <2>1. PICK reply : reply = OfDesk!Refusal
    OBVIOUS
  <2> QED BY <1>2, <1>4, <2>1, RowsRest, RefusalIsStored, ServerAnswers DEF DeskInv
<1> QED BY <1>1, <1>3, <1>4 DEF OfDesk!Cancel

(* What happens to bookings without the person.                            *)
LEMMA BookingRowsInv ==
  ASSUME DeskInv, NEW b \in Ids,
         (\E status \in OfDesk!Reviews : OfDesk!ReviewBooking(b, status)) \/ OfDesk!TimePasses(b)
  PROVE  DeskInv'
<1> DEFINE KeysSame == \A c \in Ids : booking'[c] # OfDesk!NoBooking =>
                         booking[c] # OfDesk!NoBooking /\ booking'[c].key = booking[c].key
<1>1. UNCHANGED <<answer, removed, card, deskCall, deskLate, wishes>>
  BY DEF OfDesk!ReviewBooking, OfDesk!TimePasses, OfDesk!eventVars
<1>2. ASSUME booking' \in [Ids -> Booking], RowsGo, KeysDiffer', KeysSame
      PROVE  DeskInv'
  <2>1. CallsAreStored' /\ OfDesk!Asked' = OfDesk!Asked
    BY <1>1, <1>2, CallsRest DEF DeskInv, OfDesk!Asked
  <2>2. CardsAreStored'
    BY <1>1, <1>2, CardsRest DEF DeskInv
  <2>3. \A d \in Screens : card'[d].attempt \in {card[d].attempt, OfDesk!NoAttempt}
    BY <1>1
  <2>4. KeysAreCounted'
    BY <1>1, <1>2, <2>1, <2>3, KeysStay DEF DeskInv
  <2> QED BY <1>2, <2>1, <2>2, <2>4 DEF DeskInv
<1>3. ASSUME NEW status \in OfDesk!Reviews, OfDesk!ReviewBooking(b, status)
      PROVE  DeskInv'
  <2>1. status \in OfDesk!BookingStatus
    BY DEF OfDesk!Reviews
  <2>2. booking' \in [Ids -> Booking] /\ RowsGo /\ KeysDiffer' /\ KeysSame
    BY <1>1, <1>3, <2>1, OneStatusChanges DEF OfDesk!ReviewBooking
  <2> QED BY <1>2, <2>2
<1>4. CASE OfDesk!TimePasses(b)
  <2>0. booking \in [Ids -> Booking]
    BY DEF DeskInv
  <2>1. booking'[b] = [booking[b] EXCEPT !.past = TRUE] /\ booking[b] \in Booking
        /\ booking[b].status # "none"
    BY <1>4, <2>0 DEF OfDesk!TimePasses
  <2>2. /\ booking'[b] \in Booking /\ booking'[b].key = booking[b].key
        /\ booking'[b].status = booking[b].status
    BY <2>1 DEF Booking
  <2>3. /\ \A c \in Ids : c # b => booking'[c] = booking[c]
        /\ booking' = [c \in Ids |-> booking'[c]]
    BY <1>4, <2>0 DEF OfDesk!TimePasses
  <2>4. \A c \in Ids : /\ booking'[c] \in Booking /\ booking'[c].key = booking[c].key
                       /\ booking'[c].status = booking[c].status
    BY <2>0, <2>2, <2>3
  <2>5. booking' \in [Ids -> Booking]
    BY <2>3, <2>4
  <2>6. RowsGo
    <3>1. \A c \in Ids : booking[c].status \in OfDesk!Later(booking[c].status)
      BY <2>0, ItsOwnLater
    <3> QED BY <1>1, <2>4, <3>1 DEF RowsGo
  <2>7. KeysSame
    BY <2>1, <2>3, <2>4 DEF OfDesk!NoBooking
  <2>8. KeysDiffer'
    BY <2>7 DEF KeysDiffer, DeskInv
  <2> QED BY <1>2, <2>5, <2>6, <2>7, <2>8
<1> QED BY <1>3, <1>4

(* A wish may bring one key more.                                          *)
LEMMA SubmitBookingInv ==
  ASSUME OfDesk!DeskAssumption, DeskInv, NEW d \in Screens, NEW body \in Bodies,
         OfDesk!SubmitBooking(d, body)
  PROVE  DeskInv'
<1>1. PICK attempt \in OfDesk!ResolveIdempotencyAttempt(card[d].attempt, body) :
        /\ card' = [card EXCEPT ![d].attempt = attempt, ![d].wish = body]
        /\ OfDesk!Ask(d, [kind |-> "book", body |-> body, key |-> attempt.key])
  BY DEF OfDesk!SubmitBooking
<1>2. /\ UNCHANGED <<booking, answer, removed, deskLate>>
      /\ wishes' = IF card[d].wish = body THEN wishes ELSE wishes + 1
  BY DEF OfDesk!SubmitBooking, OfDesk!eventVars
<1>3. /\ IsCard(card[d]) /\ ShowsStored(card[d]) /\ DOMAIN card = Screens
      /\ RowsGo /\ Nothing \notin Bodies
  BY <1>2, RowsRest DEF DeskInv, CardsAreStored, OfDesk!DeskAssumption
<1>4. /\ attempt \in Attempt /\ attempt.body = body
      /\ card[d].wish = body => attempt = card[d].attempt
  <2>1. CASE card[d].attempt.body = body
    <3>1. attempt = card[d].attempt
      BY <1>1, <2>1 DEF OfDesk!ResolveIdempotencyAttempt
    <3>2. card[d].attempt # OfDesk!NoAttempt
      BY <1>3, <2>1 DEF OfDesk!NoAttempt
    <3> QED BY <1>3, <2>1, <3>1, <3>2 DEF IsCard
  <2>2. CASE card[d].attempt.body # body
    <3>1. attempt \in [body : {body}, key : Keys]
      BY <1>1, <2>2 DEF OfDesk!ResolveIdempotencyAttempt
    <3> QED BY <1>3, <2>2, <3>1 DEF IsCard, Attempt
  <2> QED BY <2>1, <2>2
<1>5. PICK c : c = [card[d] EXCEPT !.attempt = attempt, !.wish = body]
  OBVIOUS
<1>6. /\ c = [bookings |-> c.bookings, read |-> c.read, attempt |-> c.attempt, wish |-> c.wish,
              loaded |-> c.loaded, answer |-> c.answer, help |-> c.help]
      /\ c.bookings = card[d].bookings /\ c.read = card[d].read
      /\ c.attempt = attempt /\ c.wish = body /\ c.answer = card[d].answer
  BY <1>3, <1>5 DEF IsCard
<1>7. IsCard(c) /\ ShowsStored(c)
  BY <1>3, <1>4, <1>6 DEF IsCard, ShowsStored
<1>8. card' = [card EXCEPT ![d] = c]
  <2>1. card'[d] = c
    BY <1>1, <1>3, <1>5
  <2>2. DOMAIN card' = Screens /\ card' = [e \in Screens |-> card'[e]]
    BY <1>1, <1>3
  <2>3. \A e \in Screens \ {d} : card'[e] = card[e]
    BY <1>1, <1>3
  <2> QED BY <2>1, <2>2, <2>3, CardAnew
<1>9. CardsAreStored'
  BY <1>3, <1>7, <1>8, CardStays, OneCardChanges DEF DeskInv
<1>10. PICK r : r = [kind |-> "book", body |-> body, key |-> attempt.key]
  OBVIOUS
<1>11. /\ deskCall' = [deskCall EXCEPT ![d] = r] /\ deskLate' \subseteq OfDesk!Asked
       /\ r.kind = "book" /\ r.key = attempt.key /\ attempt.key \in Keys
       /\ AsksSense(r)
  BY <1>1, <1>2, <1>4, <1>10 DEF OfDesk!Ask, OfDesk!Asked, AsksSense, Attempt
<1>12. CallsAreStored'
  BY <1>3, <1>11, CallSent DEF DeskInv
<1>13. OfDesk!Asked' \subseteq OfDesk!Asked \cup {r}
  BY <1>11, DeskCalls DEF DeskInv, CallsAreStored
<1>14. KeysAreCounted'
  <2>1. PICK K \in SUBSET Keys : IsFiniteSet(K) /\ Cardinality(K) <= wishes /\ KeysAre(K)
    BY DEF DeskInv, KeysAreCounted
  <2>2. wishes \in Nat /\ Cardinality(K) \in Nat
    BY <2>1, FS_CardinalityType DEF DeskInv, KeysAreCounted
  <2>3. ASSUME NEW L \in SUBSET Keys, K \subseteq L, attempt.key \in L
        PROVE  KeysAre(L)'
    <3>1. \A e \in Screens : card'[e].attempt \in {card[e].attempt, attempt}
      BY <1>3, <1>6, <1>8
    <3>2. \A q \in OfDesk!Asked' : q.kind = "book" => q.key \in L
      BY <1>11, <1>13, <2>1, <2>3 DEF KeysAre
    <3> QED BY <1>2, <2>1, <2>3, <3>1, <3>2 DEF KeysAre
  <2>4. CASE card[d].wish = body
    <3>1. attempt.key \in K
      <4>1. attempt = card[d].attempt /\ card[d].attempt # OfDesk!NoAttempt
        BY <1>3, <1>4, <2>4 DEF OfDesk!NoAttempt
      <4> QED BY <2>1, <4>1 DEF KeysAre
    <3>2. KeysAre(K)'
      BY <2>3, <3>1
    <3> QED BY <1>2, <2>1, <2>2, <2>4, <3>2 DEF KeysAreCounted
  <2>5. CASE card[d].wish # body
    <3>1. PICK L : L = K \cup {attempt.key}
      OBVIOUS
    <3>2. IsFiniteSet(L) /\ Cardinality(L) <= Cardinality(K) + 1
      <4>1. PICK k : k = attempt.key
        OBVIOUS
      <4>2. /\ IsFiniteSet(K \cup {k})
            /\ Cardinality(K \cup {k}) = IF k \in K THEN Cardinality(K) ELSE Cardinality(K) + 1
        BY <2>1, FS_AddElement
      <4>3. Cardinality(K \cup {k}) \in {Cardinality(K), Cardinality(K) + 1}
        BY <4>2
      <4> QED BY <2>2, <3>1, <4>1, <4>2, <4>3
    <3>3. Cardinality(L) \in Nat
      BY <3>2, FS_CardinalityType
    <3>4. L \in SUBSET Keys /\ KeysAre(L)'
      BY <1>11, <2>3, <3>1
    <3>5. wishes' \in Nat /\ Cardinality(L) <= wishes'
      BY <1>2, <2>1, <2>2, <2>5, <3>2, <3>3
    <3> QED BY <3>2, <3>4, <3>5 DEF KeysAreCounted
  <2> QED BY <2>4, <2>5
<1>15. KeysDiffer' /\ booking' \in [Ids -> Booking]
  BY <1>2 DEF KeysDiffer, DeskInv
<1> QED BY <1>9, <1>12, <1>14, <1>15 DEF DeskInv

(* A card is shown other bookings, and its attempt stays or is forgotten.   *)
LEMMA CardBooks ==
  ASSUME DeskInv, NEW d \in Screens, NEW c,
         c = [bookings |-> c.bookings, read |-> c.read, attempt |-> c.attempt,
              wish |-> c.wish, loaded |-> c.loaded, answer |-> c.answer, help |-> c.help],
         c.answer = card[d].answer,
         c.bookings \in [Ids -> OfDesk!BookingStatus], \A b \in Ids : Shown(c.bookings[b], b),
         c.read = Nothing \/ (/\ c.read \in [Ids -> OfDesk!BookingStatus]
                              /\ \A b \in Ids : Shown(c.read[b], b)),
         \/ c.attempt = card[d].attempt /\ c.wish = card[d].wish
         \/ c.attempt = OfDesk!NoAttempt /\ c.wish = Nothing
  PROVE  IsCard(c) /\ ShowsStored(c) /\ c.attempt \in {card[d].attempt, OfDesk!NoAttempt}
<1>1. IsCard(card[d]) /\ ShowsStored(card[d])
  BY DEF DeskInv, CardsAreStored
<1>2. OfDesk!NoAttempt.body = Nothing
  BY DEF OfDesk!NoAttempt
<1> QED BY <1>1, <1>2 DEF IsCard, ShowsStored

(* One booking of a list is shown in the status it was heard of.           *)
LEMMA OneIsShown ==
  ASSUME DeskInv, NEW d \in Screens, NEW bookings, NEW b \in Ids, NEW status,
         status \in {"none", card[d].bookings[b]} \/ (status \in OfDesk!BookingStatus /\ Shown(status, b)),
         bookings = [card[d].bookings EXCEPT ![b] = status]
  PROVE  bookings \in [Ids -> OfDesk!BookingStatus] /\ \A e \in Ids : Shown(bookings[e], e)
<1>1. card[d].bookings \in [Ids -> OfDesk!BookingStatus] /\ \A e \in Ids : Shown(card[d].bookings[e], e)
  BY DEF DeskInv, CardsAreStored, IsCard, ShowsStored
<1>2. status \in OfDesk!BookingStatus /\ Shown(status, b)
  BY <1>1 DEF Shown, OfDesk!BookingStatus
<1>3. bookings[b] = status /\ \A e \in Ids : e # b => bookings[e] = card[d].bookings[e]
  BY <1>1
<1>4. bookings \in [Ids -> OfDesk!BookingStatus]
  BY <1>1, <1>2
<1> QED BY <1>1, <1>2, <1>3, <1>4

LEMMA HearBookingInv ==
  ASSUME DeskInv, NEW d \in Screens, OfDesk!HearBooking(d) \/ OfDesk!LoseBooking(d)
  PROVE  DeskInv'
<1> DEFINE reply == deskCall[d].reply
<1>0. /\ IsCard(card[d]) /\ ShowsStored(card[d]) /\ DOMAIN card = Screens
  BY DEF DeskInv, CardsAreStored
<1>1. /\ UNCHANGED <<booking, answer, removed, wishes>>
      /\ deskCall' = [deskCall EXCEPT ![d] = OfDesk!NoCall] /\ deskLate' \subseteq OfDesk!Asked
  BY LostOrHeard DEF OfDesk!HearBooking, OfDesk!LoseBooking, OfDesk!eventVars
<1>2. CASE card' = card
  <2>1. PICK c : c = card[d]
    OBVIOUS
  <2> QED BY <1>1, <1>2, <2>1, CardAsItIs, CallEnds
<1>3. CASE card' = [card EXCEPT ![d].attempt = OfDesk!AttemptKept(@)]
  <2>1. card' = [card EXCEPT ![d].attempt = @]
    BY <1>3 DEF OfDesk!AttemptKept
  <2>2. card'[d] = card[d]
    BY <1>0, <2>1 DEF IsCard
  <2>3. card' = card
    BY <1>0, <2>1, <2>2 DEF DeskInv, CardsAreStored
  <2> QED BY <1>2, <2>3
<1>4. ASSUME NEW bookings, NEW attempt, NEW wish, NEW c,
             c = [card[d] EXCEPT !.bookings = bookings, !.read = card[d].read,
                                 !.attempt = attempt, !.wish = wish],
             card'[d] = c, DOMAIN card' = Screens, card' = [e \in Screens |-> card'[e]],
             \A e \in Screens \ {d} : card'[e] = card[e],
             bookings \in [Ids -> OfDesk!BookingStatus], \A b \in Ids : Shown(bookings[b], b),
             \/ attempt = card[d].attempt /\ wish = card[d].wish
             \/ attempt = OfDesk!NoAttempt /\ wish = Nothing
      PROVE  DeskInv'
  <2>1. /\ c = [bookings |-> c.bookings, read |-> c.read, attempt |-> c.attempt,
                wish |-> c.wish, loaded |-> c.loaded, answer |-> c.answer, help |-> c.help]
        /\ c.bookings = bookings /\ c.read = card[d].read /\ c.answer = card[d].answer
        /\ c.attempt = attempt /\ c.wish = wish
    BY <1>0, <1>4 DEF IsCard
  <2>2. IsCard(c) /\ ShowsStored(c) /\ c.attempt \in {card[d].attempt, OfDesk!NoAttempt}
    BY <1>0, <1>4, <2>1, CardBooks DEF ShowsStored
  <2>3. card' = [card EXCEPT ![d] = c]
    BY <1>4, CardAnew
  <2> QED BY <1>1, <2>2, <2>3, CallEnds
<1>5. CASE OfDesk!Hear(d, "book", {"booking"}) /\
           card' = [card EXCEPT ![d].attempt = OfDesk!NoAttempt, ![d].wish = Nothing,
                                ![d].bookings[reply.booking] = reply.status]
  <2>1. reply.booking \in Ids /\ reply.status \in OfDesk!BookingStatus
        /\ Shown(reply.status, reply.booking)
    BY <1>5 DEF OfDesk!Hear, DeskInv, CallsAreStored, SaysStored
  <2>2. PICK b : b = reply.booking
    OBVIOUS
  <2>3. PICK status : status = reply.status
    OBVIOUS
  <2>4. PICK bookings : bookings = [card[d].bookings EXCEPT ![b] = status]
    OBVIOUS
  <2>5. bookings \in [Ids -> OfDesk!BookingStatus] /\ \A e \in Ids : Shown(bookings[e], e)
    BY <2>1, <2>2, <2>3, <2>4, OneIsShown
  <2>6. PICK c : c = [card[d] EXCEPT !.bookings = bookings, !.read = card[d].read,
                                     !.attempt = OfDesk!NoAttempt, !.wish = Nothing]
    OBVIOUS
  <2>7. card'[d] = [card[d] EXCEPT !.attempt = OfDesk!NoAttempt, !.wish = Nothing,
                                   !.bookings = bookings]
    BY <1>0, <1>5, <2>2, <2>3, <2>4 DEF IsCard
  <2>8. card'[d] = c
    BY <1>0, <2>6, <2>7 DEF IsCard
  <2>9. /\ DOMAIN card' = Screens /\ card' = [e \in Screens |-> card'[e]]
        /\ \A e \in Screens \ {d} : card'[e] = card[e]
    BY <1>0, <1>5
  <2> QED BY <1>4, <2>5, <2>6, <2>8, <2>9
<1>6. CASE OfDesk!Hear(d, "cancel", {"booking"}) /\
           card' = [card EXCEPT ![d].bookings[reply.booking] =
                      IF @ = "none" THEN @ ELSE reply.status]
  <2>1. reply.booking \in Ids /\ reply.status \in OfDesk!BookingStatus
        /\ Shown(reply.status, reply.booking)
    BY <1>6 DEF OfDesk!Hear, DeskInv, CallsAreStored, SaysStored
  <2>2. PICK b : b = reply.booking
    OBVIOUS
  <2>3. PICK status : status = IF card[d].bookings[b] = "none" THEN "none" ELSE reply.status
    OBVIOUS
  <2>4. PICK bookings : bookings = [card[d].bookings EXCEPT ![b] = status]
    OBVIOUS
  <2>5. status \in {"none", card[d].bookings[b]}
        \/ (status \in OfDesk!BookingStatus /\ Shown(status, b))
    BY <2>1, <2>2, <2>3
  <2>6. bookings \in [Ids -> OfDesk!BookingStatus] /\ \A e \in Ids : Shown(bookings[e], e)
    BY <2>1, <2>2, <2>4, <2>5, OneIsShown
  <2>7. PICK attempt, wish : attempt = card[d].attempt /\ wish = card[d].wish
    OBVIOUS
  <2>8. PICK c : c = [card[d] EXCEPT !.bookings = bookings, !.read = card[d].read,
                                     !.attempt = attempt, !.wish = wish]
    OBVIOUS
  <2>9. card'[d] = [card[d] EXCEPT !.bookings = bookings]
    BY <1>0, <1>6, <2>2, <2>3, <2>4 DEF IsCard
  <2>10. card'[d] = c
    BY <1>0, <2>7, <2>8, <2>9 DEF IsCard
  <2>11. /\ DOMAIN card' = Screens /\ card' = [e \in Screens |-> card'[e]]
         /\ \A e \in Screens \ {d} : card'[e] = card[e]
    BY <1>0, <1>6
  <2> QED BY <1>4, <2>6, <2>7, <2>8, <2>10, <2>11
<1> QED BY <1>2, <1>3, <1>5, <1>6 DEF OfDesk!HearBooking, OfDesk!LoseBooking

(* The list of the bookings is read, and shown when other things happened. *)
LEMMA ListInv ==
  ASSUME DeskInv, NEW d \in Screens, OfDesk!ReadBookings(d) \/ OfDesk!ShowBookings(d)
  PROVE  DeskInv'
<1>0. /\ IsCard(card[d]) /\ ShowsStored(card[d]) /\ DOMAIN card = Screens
      /\ booking \in [Ids -> Booking]
  BY DEF DeskInv, CardsAreStored
<1>1. UNCHANGED <<booking, answer, removed, wishes, deskCall, deskLate>>
  BY DEF OfDesk!ReadBookings, OfDesk!ShowBookings, OfDesk!eventVars
<1>2. CallsAreStored' /\ OfDesk!Asked' = OfDesk!Asked
  BY <1>1, RowsRest, CallsRest DEF DeskInv, OfDesk!Asked
<1>3. ASSUME NEW bookings, NEW read, NEW c,
             c = [card[d] EXCEPT !.bookings = bookings, !.read = read,
                                 !.attempt = card[d].attempt, !.wish = card[d].wish],
             card'[d] = c, DOMAIN card' = Screens, card' = [e \in Screens |-> card'[e]],
             \A e \in Screens \ {d} : card'[e] = card[e],
             bookings \in [Ids -> OfDesk!BookingStatus], \A b \in Ids : Shown(bookings[b], b),
             read = Nothing \/ (/\ read \in [Ids -> OfDesk!BookingStatus]
                                /\ \A b \in Ids : Shown(read[b], b))
      PROVE  DeskInv'
  <2>1. /\ c = [bookings |-> c.bookings, read |-> c.read, attempt |-> c.attempt,
                wish |-> c.wish, loaded |-> c.loaded, answer |-> c.answer, help |-> c.help]
        /\ c.bookings = bookings /\ c.read = read /\ c.answer = card[d].answer
        /\ c.attempt = card[d].attempt /\ c.wish = card[d].wish
    BY <1>0, <1>3 DEF IsCard
  <2>2. IsCard(c) /\ ShowsStored(c) /\ c.attempt \in {card[d].attempt, OfDesk!NoAttempt}
    BY <1>3, <2>1, CardBooks
  <2>3. card' = [card EXCEPT ![d] = c]
    BY <1>3, CardAnew
  <2> QED BY <1>1, <1>2, <2>2, <2>3, CardShows
<1>4. CASE OfDesk!ReadBookings(d)
  <2>1. PICK read : read = [b \in Ids |-> booking[b].status]
    OBVIOUS
  <2>2. /\ read \in [Ids -> OfDesk!BookingStatus]
        /\ \A b \in Ids : Shown(read[b], b)
    <3>1. \A b \in Ids : booking[b].status \in OfDesk!BookingStatus
      BY <1>0 DEF Booking
    <3> QED BY <2>1, <3>1 DEF Shown, OfDesk!Later, OfDesk!BookingStatus
  <2>3. PICK bookings : bookings = card[d].bookings
    OBVIOUS
  <2>4. PICK c : c = [card[d] EXCEPT !.bookings = bookings, !.read = read,
                                     !.attempt = card[d].attempt, !.wish = card[d].wish]
    OBVIOUS
  <2>5. card'[d] = [card[d] EXCEPT !.read = read]
    BY <1>0, <1>4, <2>1 DEF OfDesk!ReadBookings
  <2>6. card'[d] = c
    BY <1>0, <2>3, <2>4, <2>5 DEF IsCard
  <2>7. /\ DOMAIN card' = Screens /\ card' = [e \in Screens |-> card'[e]]
        /\ \A e \in Screens \ {d} : card'[e] = card[e]
    BY <1>0, <1>4 DEF OfDesk!ReadBookings
  <2>8. bookings \in [Ids -> OfDesk!BookingStatus] /\ \A b \in Ids : Shown(bookings[b], b)
    BY <1>0, <2>3 DEF IsCard, ShowsStored
  <2> QED BY <1>3, <2>2, <2>4, <2>6, <2>7, <2>8
<1>5. CASE OfDesk!ShowBookings(d)
  <2>1. PICK bookings : bookings = card[d].read
    OBVIOUS
  <2>2. bookings \in [Ids -> OfDesk!BookingStatus] /\ \A b \in Ids : Shown(bookings[b], b)
    BY <1>0, <1>5, <2>1 DEF OfDesk!ShowBookings, ShowsStored
  <2>3. PICK c : c = [card[d] EXCEPT !.bookings = bookings, !.read = Nothing,
                                     !.attempt = card[d].attempt, !.wish = card[d].wish]
    OBVIOUS
  <2>4. card'[d] = [card[d] EXCEPT !.bookings = bookings, !.read = Nothing]
    BY <1>0, <1>5, <2>1 DEF OfDesk!ShowBookings
  <2>5. card'[d] = c
    BY <1>0, <2>3, <2>4 DEF IsCard
  <2>6. /\ DOMAIN card' = Screens /\ card' = [e \in Screens |-> card'[e]]
        /\ \A e \in Screens \ {d} : card'[e] = card[e]
    BY <1>0, <1>5 DEF OfDesk!ShowBookings
  <2> QED BY <1>3, <2>2, <2>3, <2>5, <2>6
<1> QED BY <1>4, <1>5

LEMMA BookingNextInv ==
  ASSUME OfDesk!DeskAssumption, DeskInv, OfDesk!BookingNext
  PROVE  DeskInv'
<1>1. ASSUME NEW d \in Screens, NEW b \in Ids, OfDesk!CancelBooking(d, b)
      PROVE  DeskInv'
  <2>1. PICK r : r = [kind |-> "cancel", booking |-> b]
    OBVIOUS
  <2> QED BY <1>1, <2>1, QuietAsk DEF OfDesk!CancelBooking, OfDesk!eventVars
<1> QED BY <1>1, SubmitBookingInv, CreateBookingInv, CancelInv, BookingRowsInv, HearBookingInv,
           ListInv, ReloadInv DEF OfDesk!BookingNext

LEMMA DeskNextInv ==
  ASSUME OfDesk!DeskAssumption, DeskInv, [OfDesk!Next]_OfDesk!vars
  PROVE  DeskInv'
<1>1. CASE UNCHANGED OfDesk!vars
  <2>1. UNCHANGED <<booking, answer, removed, card, deskCall, deskLate, wishes>>
    BY <1>1 DEF OfDesk!vars
  <2> QED BY <2>1, RowsRest, RowsOnly DEF DeskInv
<1> QED BY <1>1, BookingNextInv, AnswerNextInv, HelpNextInv DEF OfDesk!Next

LEMMA DeskInvShows == DeskInv => ShownIsStored
BY DEF DeskInv, CardsAreStored, IsCard, ShowsStored, Shown, ShownIsStored, OfDesk!ShownIsStored

LEMMA DeskCardinality == \A S : OfDesk!Cardinality(S) = Cardinality(S)
BY DEF OfDesk!Cardinality, Cardinality

(* As many places as keys, and as many keys as wishes.                     *)
LEMMA DeskInvCounts == DeskInv => OneBookingPerWish
<1> SUFFICES ASSUME DeskInv PROVE OneBookingPerWish
  OBVIOUS
<1> DEFINE Made == {b \in Ids : booking[b] # OfDesk!NoBooking}
<1>1. PICK K \in SUBSET Keys : IsFiniteSet(K) /\ Cardinality(K) <= wishes /\ KeysAre(K)
  BY DEF DeskInv, KeysAreCounted
<1>2. wishes \in Nat /\ Cardinality(K) \in Nat
  BY <1>1, FS_CardinalityType DEF DeskInv, KeysAreCounted
<1>3. PICK key : key = [b \in Made |-> booking[b].key]
  OBVIOUS
<1>4. key \in [Made -> K] /\ \A b, c \in Made : key[b] = key[c] => b = c
  BY <1>1, <1>3 DEF KeysAre, DeskInv, KeysDiffer
<1>5. key \in Injection(Made, K)
  BY <1>4 DEF Injection, IsInjective
<1>6. IsFiniteSet(Made) /\ Cardinality(Made) <= Cardinality(K)
  BY <1>1, <1>5, FS_Injection
<1>7. Cardinality(Made) \in Nat
  BY <1>6, FS_CardinalityType
<1>8. Cardinality(Made) <= wishes
  BY <1>1, <1>2, <1>6, <1>7
<1>9. OfDesk!Cardinality(Made) = Cardinality(Made)
  BY DeskCardinality
<1> QED BY <1>8, <1>9 DEF OneBookingPerWish, OfDesk!OneBookingPerWish

(* What a device shows as done is done: its answer is the stored one unless *)
(* the person was removed, and no booking is shown in a status that the     *)
(* stored one cannot have come from, whatever requests and replies are late *)
(* or lost (quick-answers.ts, coworking.ts and the cards of the Mini App).  *)
THEOREM WhatIsShownAtTheDeskIsStored ==
  ASSUME OfDesk!DeskAssumption
  PROVE  OfDesk!Spec => []ShownIsStored
<1>1. OfDesk!Init => DeskInv
  BY InitDesk
<1>2. DeskInv /\ [OfDesk!Next]_OfDesk!vars => DeskInv'
  BY DeskNextInv
<1> QED BY <1>1, <1>2, DeskInvShows, PTL DEF OfDesk!Spec

(* A person has no more places than were wanted, however often a booking is *)
(* sent again, lost or late (idempotent-action.ts, coworking.ts).           *)
THEOREM NoPlaceIsBookedTwice ==
  ASSUME OfDesk!DeskAssumption
  PROVE  OfDesk!Spec => []OneBookingPerWish
<1>1. OfDesk!Init => DeskInv
  BY InitDesk
<1>2. DeskInv /\ [OfDesk!Next]_OfDesk!vars => DeskInv'
  BY DeskNextInv
<1> QED BY <1>1, <1>2, DeskInvCounts, PTL DEF OfDesk!Spec

-----------------------------------------------------------------------------
(* The wallet: what people approved, and what they are told *)

Begun(i) == i \in IntentIds /\ intent[i].status # "none"

IsApproved(i) ==
  \E a \in approved :
    /\ a[1] = OfWallets!Confirmer(i) /\ a[2] = intent[i].body.terms
    /\ a[3] \in {i, intent[i].qr}

(* Who proposes a transfer has seen it.                                    *)
IsIntent(n) ==
  /\ n = [status |-> n.status, by |-> n.by, owner |-> n.owner, qr |-> n.qr, key |-> n.key,
          body |-> n.body]
  /\ n.status # "none" /\ n.qr = n.body.qr /\ n.by # n.owner
  /\ n.body.kind # "staff_debit" => <<n.by, n.body.terms, n.body.qr>> \in approved

IsTrue(said) ==
  /\ Begun(said.intent)
  /\ said.says = "confirmed" => intent[said.intent].status = "completed"
  /\ said.says = "rejected" => intent[said.intent].status \in {"rejected", "expired"}

SheetIsTrue(s) ==
  /\ s = [mode |-> s.mode, session |-> s.session, claimed |-> s.claimed, pending |-> s.pending,
          closing |-> s.closing, scanned |-> s.scanned, kind |-> s.kind, terms |-> s.terms,
          preview |-> s.preview, attempt |-> s.attempt, success |-> s.success]
  /\ s.preview \in {Nothing, s.terms}
  /\ s.pending # Nothing => Begun(s.pending)
  /\ s.success # Nothing => IsTrue(s.success)

RequestIsMeant(r) ==
  /\ r.kind = "propose" /\ r.body.kind # "staff_debit" =>
       <<r.by, r.body.terms, r.body.qr>> \in approved
  /\ r.kind \in {"confirm", "reject"} => Begun(r.intent)
  /\ r.kind = "confirm" /\ r.by = OfWallets!Confirmer(r.intent) => IsApproved(r.intent)

ReplyIsMeant(r, reply) ==
  /\ reply.kind = "intent" => Begun(reply.intent) /\ intent[reply.intent].by = r.by
  /\ reply.kind = "done" /\ r.kind \in {"confirm", "reject"} => IsTrue(OfWallets!Said(r))

IntentsAreMeant ==
  /\ DOMAIN intent = IntentIds
  /\ \A i \in IntentIds : intent[i] = OfWallets!NoIntent \/ IsIntent(intent[i])
  /\ \A i \in IntentIds : intent[i].status = "completed" => IsApproved(i)

SheetsAreTrue ==
  /\ DOMAIN wallet = People /\ \A p \in People : SheetIsTrue(wallet[p])
  /\ DOMAIN banner = People /\ \A p \in People : banner[p] # Nothing => Begun(banner[p])

CallsAreMeant ==
  /\ DOMAIN walletCall = People
  /\ \A p \in People :
       /\ walletCall[p].kind \notin {"none", "answered"} => walletCall[p].by = p
       /\ walletCall[p].kind = "answered" =>
            walletCall[p].of.by = p /\ ReplyIsMeant(walletCall[p].of, walletCall[p].reply)
  /\ \A r \in OfWallets!Asked : RequestIsMeant(r)

(* Inductive: PaidAsShown says nothing of what was approved and is not paid *)
(* yet, nor of what a phone will be told.                                  *)
PayInv == IntentsAreMeant /\ SheetsAreTrue /\ CallsAreMeant

(* What may become of intents and approvals.                               *)
IntentsGo ==
  /\ approved \subseteq approved'
  /\ \A i \in IntentIds : intent[i].status # "none" =>
       /\ intent'[i].status # "none"
       /\ intent'[i].by = intent[i].by /\ intent'[i].owner = intent[i].owner
       /\ intent'[i].qr = intent[i].qr /\ intent'[i].body = intent[i].body
       /\ intent[i].status = "completed" => intent'[i].status = "completed"
       /\ intent[i].status \in {"rejected", "expired"} =>
            intent'[i].status \in {"rejected", "expired"}

(* A function of the people that changes for one of them at most.          *)
Becomes(f, g, p, v) ==
  DOMAIN g = People /\ g[p] = v /\ \A q \in People \ {p} : g[q] = f[q]

LEMMA BegunStays ==
  ASSUME IntentsGo, NEW i, Begun(i)
  PROVE  Begun(i)'
BY DEF Begun, IntentsGo

LEMMA ApprovedStays ==
  ASSUME IntentsGo, NEW i, Begun(i)
  PROVE  /\ OfWallets!Confirmer(i)' = OfWallets!Confirmer(i)
         /\ IsApproved(i) => IsApproved(i)'
BY DEF Begun, IntentsGo, IsApproved, OfWallets!Confirmer

LEMMA TrueStays ==
  ASSUME IntentsGo, NEW said, IsTrue(said)
  PROVE  IsTrue(said)'
<1>1. PICK i : i = said.intent
  OBVIOUS
<1>2. Begun(i)'
  BY <1>1, BegunStays DEF IsTrue
<1> QED BY <1>1, <1>2 DEF IsTrue, IntentsGo, Begun

LEMMA SheetStaysTrue ==
  ASSUME IntentsGo, NEW s, SheetIsTrue(s)
  PROVE  SheetIsTrue(s)'
<1>1. PICK i, said : i = s.pending /\ said = s.success
  OBVIOUS
<1>2. (i # Nothing => Begun(i)') /\ (said # Nothing => IsTrue(said)')
  BY <1>1, BegunStays, TrueStays DEF SheetIsTrue
<1> QED BY <1>1, <1>2 DEF SheetIsTrue

LEMMA RequestStaysMeant ==
  ASSUME IntentsGo, NEW r, RequestIsMeant(r)
  PROVE  RequestIsMeant(r)'
<1>1. PICK i : i = r.intent
  OBVIOUS
<1>2. r.kind \in {"confirm", "reject"} => Begun(i) /\ Begun(i)'
  BY <1>1, BegunStays DEF RequestIsMeant
<1>3. r.kind = "confirm" /\ r.by = OfWallets!Confirmer(i)' => IsApproved(i)'
  BY <1>1, <1>2, ApprovedStays DEF RequestIsMeant
<1> QED BY <1>1, <1>2, <1>3 DEF RequestIsMeant, IntentsGo

LEMMA ReplyStaysMeant ==
  ASSUME IntentsGo, NEW r, NEW reply, ReplyIsMeant(r, reply)
  PROVE  ReplyIsMeant(r, reply)'
<1>1. PICK i, said : i = reply.intent /\ said = OfWallets!Said(r)
  OBVIOUS
<1>2. reply.kind = "intent" => Begun(i)' /\ intent'[i].by = r.by
  BY <1>1, BegunStays DEF ReplyIsMeant, Begun, IntentsGo
<1>3. reply.kind = "done" /\ r.kind \in {"confirm", "reject"} => IsTrue(said)'
  BY <1>1, TrueStays DEF ReplyIsMeant
<1> QED BY <1>1, <1>2, <1>3 DEF ReplyIsMeant, OfWallets!Said

LEMMA IntentsRest ==
  ASSUME IntentsAreMeant, UNCHANGED intent, approved \subseteq approved'
  PROVE  IntentsGo /\ IntentsAreMeant'
<1>1. IntentsGo
  BY DEF IntentsGo
<1>2. ASSUME NEW i \in IntentIds, intent[i].status = "completed"
      PROVE  IsApproved(i)'
  BY <1>1, <1>2, ApprovedStays DEF IntentsAreMeant, Begun
<1> QED BY <1>1, <1>2 DEF IntentsAreMeant, IsIntent

LEMMA SheetsRest ==
  ASSUME IntentsGo, SheetsAreTrue, UNCHANGED <<wallet, banner>>
  PROVE  SheetsAreTrue'
<1>1. ASSUME NEW p \in People
      PROVE  SheetIsTrue(wallet[p])' /\ (banner[p] # Nothing => Begun(banner[p]))'
  <2>1. PICK s, b : s = wallet[p] /\ b = banner[p]
    OBVIOUS
  <2>2. SheetIsTrue(s)' /\ (b # Nothing => Begun(b)')
    BY <2>1, SheetStaysTrue, BegunStays DEF SheetsAreTrue
  <2> QED BY <2>1, <2>2 DEF SheetIsTrue, Begun
<1> QED BY <1>1 DEF SheetsAreTrue

LEMMA AskedStaysMeant ==
  ASSUME IntentsGo, CallsAreMeant
  PROVE  \A r \in OfWallets!Asked : RequestIsMeant(r)'
BY RequestStaysMeant DEF CallsAreMeant

LEMMA CallStaysMeant ==
  ASSUME IntentsGo, CallsAreMeant, NEW p \in People, walletCall'[p] = walletCall[p]
  PROVE  (/\ walletCall[p].kind \notin {"none", "answered"} => walletCall[p].by = p
          /\ walletCall[p].kind = "answered" =>
               walletCall[p].of.by = p /\ ReplyIsMeant(walletCall[p].of, walletCall[p].reply))'
<1>1. PICK r, reply : r = walletCall[p].of /\ reply = walletCall[p].reply
  OBVIOUS
<1>2. walletCall[p].kind = "answered" => r.by = p /\ ReplyIsMeant(r, reply)'
  BY <1>1, ReplyStaysMeant DEF CallsAreMeant
<1> QED BY <1>1, <1>2 DEF CallsAreMeant, ReplyIsMeant, OfWallets!Said

LEMMA DeleteIsMeant ==
  ASSUME NEW r, r.kind \in {"delete", "none", "answered"}
  PROVE  RequestIsMeant(r)'
BY DEF RequestIsMeant

(* A phone does something, and may send a request.                         *)
LEMMA PhoneStep ==
  ASSUME PayInv, UNCHANGED intent, approved \subseteq approved', NEW p \in People,
         NEW s, Becomes(wallet, wallet', p, s), SheetIsTrue(s),
         NEW b, Becomes(banner, banner', p, b), b # Nothing => Begun(b),
         NEW r, Becomes(walletCall, walletCall', p, r),
         \/ r = walletCall[p]
         \/ r.kind = "none"
         \/ r.kind # "answered" /\ r.by = p /\ RequestIsMeant(r)',
         \A q \in walletLate' : q \in OfWallets!Asked \/ q.kind = "delete"
  PROVE  PayInv'
<1>1. IntentsGo /\ IntentsAreMeant'
  BY IntentsRest DEF PayInv
<1>2. SheetsAreTrue'
  <2>1. SheetIsTrue(s)' /\ (b # Nothing => Begun(b)')
    BY <1>1, SheetStaysTrue, BegunStays
  <2>2. ASSUME NEW q \in People
        PROVE  SheetIsTrue(wallet[q])' /\ (banner[q] # Nothing => Begun(banner[q]))'
    <3>1. CASE q = p
      <4>1. wallet'[q] = s /\ banner'[q] = b
        BY <3>1 DEF Becomes
      <4> QED BY <2>1, <4>1 DEF SheetIsTrue, Begun, IsTrue
    <3>2. CASE q # p
      <4>1. wallet'[q] = wallet[q] /\ banner'[q] = banner[q]
        BY <3>2 DEF Becomes
      <4>2. PICK old, i : old = wallet[q] /\ i = banner[q]
        OBVIOUS
      <4>3. SheetIsTrue(old)' /\ (i # Nothing => Begun(i)')
        BY <1>1, <4>2, SheetStaysTrue, BegunStays DEF PayInv, SheetsAreTrue
      <4> QED BY <4>1, <4>2, <4>3 DEF SheetIsTrue, Begun, IsTrue
    <3> QED BY <3>1, <3>2
  <2> QED BY <2>2 DEF SheetsAreTrue, Becomes
<1>3. CallsAreMeant'
  <2>1. \A q \in People : q # p => walletCall'[q] = walletCall[q]
    BY DEF Becomes
  <2>2. \A q \in OfWallets!Asked' : q \in OfWallets!Asked \/ q = r \/ q.kind = "delete"
    BY <2>1 DEF OfWallets!Asked, Becomes
  <2>3. RequestIsMeant(r)'
    <3>1. CASE r = walletCall[p]
      <4>1. r \in OfWallets!Asked
        BY <3>1 DEF OfWallets!Asked
      <4> QED BY <1>1, <4>1, AskedStaysMeant DEF PayInv
    <3>2. CASE r.kind = "none"
      BY <3>2, DeleteIsMeant
    <3> QED BY <3>1, <3>2
  <2>4. \A q \in OfWallets!Asked' : RequestIsMeant(q)'
    BY <1>1, <2>2, <2>3, AskedStaysMeant, DeleteIsMeant DEF PayInv
  <2>5. ASSUME NEW q \in People
        PROVE  (/\ walletCall[q].kind \notin {"none", "answered"} => walletCall[q].by = q
                /\ walletCall[q].kind = "answered" =>
                     walletCall[q].of.by = q /\ ReplyIsMeant(walletCall[q].of, walletCall[q].reply))'
    <3>1. CASE walletCall'[q] = walletCall[q]
      BY <1>1, <3>1, CallStaysMeant DEF PayInv
    <3>2. CASE q = p /\ r # walletCall[p]
      <4>1. walletCall'[q] = r
        BY <3>2 DEF Becomes
      <4> QED BY <3>2, <4>1
    <3> QED BY <2>1, <3>1, <3>2 DEF Becomes
  <2> QED BY <2>4, <2>5 DEF CallsAreMeant, Becomes
<1> QED BY <1>1, <1>2, <1>3 DEF PayInv

(* The server answers a request.                                           *)
LEMMA PayAnswered ==
  ASSUME CallsAreMeant, IntentsGo, NEW request \in OfWallets!Asked,
         request.kind \notin {"none", "answered"},
         NEW reply, OfWallets!Answer(request, reply), ReplyIsMeant(request, reply)'
  PROVE  CallsAreMeant'
<1>1. ASSUME walletCall[request.by] = request, UNCHANGED walletLate,
             walletCall' = [walletCall EXCEPT ![request.by] =
               [kind |-> "answered", of |-> request, reply |-> reply]]
      PROVE  CallsAreMeant'
  <2>0. DOMAIN walletCall = People
    BY DEF CallsAreMeant
  <2>1. PICK new : new = [kind |-> "answered", of |-> request, reply |-> reply]
    OBVIOUS
  <2>2. DOMAIN walletCall' = People
    BY <1>1, <2>0
  <2>3. \A q \in People : walletCall'[q] = IF q = request.by THEN new ELSE walletCall[q]
    BY <1>1, <2>0, <2>1
  <2>4. \A q \in OfWallets!Asked' : q \in OfWallets!Asked \/ q = new
    BY <1>1, <2>3 DEF OfWallets!Asked
  <2>5. RequestIsMeant(new)'
    BY <2>1, DeleteIsMeant
  <2>6. ASSUME NEW q \in People
        PROVE  (/\ walletCall[q].kind \notin {"none", "answered"} => walletCall[q].by = q
                /\ walletCall[q].kind = "answered" =>
                     walletCall[q].of.by = q /\ ReplyIsMeant(walletCall[q].of, walletCall[q].reply))'
    <3>1. CASE q # request.by
      BY <2>3, <3>1, CallStaysMeant
    <3>2. CASE q = request.by
      <4>1. /\ walletCall'[q].kind = "answered" /\ walletCall'[q].of = request
            /\ walletCall'[q].reply = reply
        BY <2>1, <2>3, <3>2
      <4> QED BY <3>2, <4>1 DEF ReplyIsMeant, OfWallets!Said
    <3> QED BY <3>1, <3>2
  <2> QED BY <2>2, <2>4, <2>5, <2>6, AskedStaysMeant DEF CallsAreMeant
<1>2. ASSUME walletLate' = walletLate \ {request}, UNCHANGED walletCall
      PROVE  CallsAreMeant'
  <2>1. OfWallets!Asked' \subseteq OfWallets!Asked
    BY <1>2 DEF OfWallets!Asked
  <2>2. \A q \in OfWallets!Asked' : RequestIsMeant(q)'
    BY <2>1, AskedStaysMeant
  <2> QED BY <1>2, <2>2, CallStaysMeant DEF CallsAreMeant
<1> QED BY <1>1, <1>2 DEF OfWallets!Answer

(* Intents change their status, as they may.                               *)
LEMMA StatusesChange ==
  ASSUME IntentsAreMeant, UNCHANGED approved, DOMAIN intent' = IntentIds,
         \A i \in IntentIds :
           \/ intent'[i] = intent[i]
           \/ \E status :
                /\ intent[i].status \notin {"none", "completed"}
                /\ status \notin {"none"}
                /\ intent[i].status \in {"rejected", "expired"} => status \in {"rejected", "expired"}
                /\ status = "completed" => IsApproved(i)
                /\ intent'[i] = [intent[i] EXCEPT !.status = status]
  PROVE  IntentsGo /\ IntentsAreMeant'
<1>1. ASSUME NEW i \in IntentIds, NEW status,
             intent[i].status \notin {"none", "completed"}, status \notin {"none"},
             intent[i].status \in {"rejected", "expired"} => status \in {"rejected", "expired"},
             status = "completed" => IsApproved(i),
             intent'[i] = [intent[i] EXCEPT !.status = status]
      PROVE  /\ IsIntent(intent[i])'
             /\ intent'[i].status = status
             /\ intent'[i].by = intent[i].by /\ intent'[i].owner = intent[i].owner
             /\ intent'[i].qr = intent[i].qr /\ intent'[i].body = intent[i].body
  <2>1. IsIntent(intent[i])
    BY <1>1 DEF IntentsAreMeant, OfWallets!NoIntent
  <2>2. /\ intent'[i].status = status
        /\ intent'[i].by = intent[i].by /\ intent'[i].owner = intent[i].owner
        /\ intent'[i].qr = intent[i].qr /\ intent'[i].body = intent[i].body
        /\ intent'[i].key = intent[i].key
        /\ intent'[i] = [status |-> status, by |-> intent[i].by, owner |-> intent[i].owner,
                         qr |-> intent[i].qr, key |-> intent[i].key, body |-> intent[i].body]
    BY <1>1, <2>1 DEF IsIntent
  <2> QED BY <1>1, <2>1, <2>2 DEF IsIntent
<1>2. IntentsGo
  <2>1. \A i \in IntentIds : intent[i].status # "none" =>
          /\ intent'[i].status # "none"
          /\ intent'[i].by = intent[i].by /\ intent'[i].owner = intent[i].owner
          /\ intent'[i].qr = intent[i].qr /\ intent'[i].body = intent[i].body
          /\ intent[i].status = "completed" => intent'[i].status = "completed"
          /\ intent[i].status \in {"rejected", "expired"} =>
               intent'[i].status \in {"rejected", "expired"}
    BY <1>1
  <2> QED BY <2>1 DEF IntentsGo
<1>3. ASSUME NEW i \in IntentIds
      PROVE  /\ (intent[i] = OfWallets!NoIntent \/ IsIntent(intent[i]))'
             /\ (intent[i].status = "completed" => IsApproved(i))'
  <2>1. CASE intent'[i] = intent[i]
    <3>1. intent[i].status = "completed" => Begun(i) /\ IsApproved(i)
      BY DEF IntentsAreMeant, Begun
    <3> QED BY <1>2, <2>1, <3>1, ApprovedStays DEF IntentsAreMeant, IsIntent
  <2>2. CASE intent'[i] # intent[i]
    <3>1. PICK status : /\ intent[i].status \notin {"none", "completed"} /\ status \notin {"none"}
                        /\ intent[i].status \in {"rejected", "expired"} =>
                             status \in {"rejected", "expired"}
                        /\ status = "completed" => IsApproved(i)
                        /\ intent'[i] = [intent[i] EXCEPT !.status = status]
      BY <2>2
    <3>2. IsIntent(intent[i])' /\ intent'[i].status = status
      BY <1>1, <3>1
    <3>3. Begun(i)
      BY <3>1 DEF Begun
    <3> QED BY <1>2, <3>1, <3>2, <3>3, ApprovedStays
  <2> QED BY <2>1, <2>2
<1> QED BY <1>2, <1>3 DEF IntentsAreMeant

LEMMA OneStatus ==
  ASSUME IntentsAreMeant, UNCHANGED approved, NEW i \in IntentIds, NEW status,
         intent[i].status \notin {"none", "completed"}, status # "none",
         intent[i].status \in {"rejected", "expired"} => status \in {"rejected", "expired"},
         status = "completed" => IsApproved(i),
         intent' = [intent EXCEPT ![i].status = status]
  PROVE  IntentsGo /\ IntentsAreMeant' /\ intent'[i].status = status
<1>1. DOMAIN intent = IntentIds
  BY DEF IntentsAreMeant
<1>2. /\ DOMAIN intent' = IntentIds /\ intent'[i] = [intent[i] EXCEPT !.status = status]
      /\ \A j \in IntentIds : j # i => intent'[j] = intent[j]
  BY <1>1
<1>3. IntentsGo /\ IntentsAreMeant'
  BY <1>2, StatusesChange
<1>4. IsIntent(intent[i])
  BY DEF IntentsAreMeant, OfWallets!NoIntent
<1> QED BY <1>2, <1>3, <1>4 DEF IsIntent

(* The server writes intents, and answers.                                 *)
LEMMA ServerStep ==
  ASSUME PayInv, IntentsGo, IntentsAreMeant', UNCHANGED <<wallet, banner>>,
         NEW request \in OfWallets!Asked, request.kind \notin {"none", "answered"},
         NEW reply, OfWallets!Answer(request, reply), ReplyIsMeant(request, reply)'
  PROVE  PayInv'
BY PayAnswered, SheetsRest DEF PayInv

LEMMA QuietReply ==
  ASSUME NEW request, NEW reply, reply.kind \notin {"intent", "done"}
  PROVE  ReplyIsMeant(request, reply)'
BY DEF ReplyIsMeant

LEMMA CreateQrPays ==
  ASSUME PayInv, UNCHANGED <<wallet, banner, approved>>, NEW request \in OfWallets!Asked,
         request.kind \notin {"none", "answered"}, NEW q \in Ids, OfWallets!CreateQr(request, q)
  PROVE  PayInv'
<1>0. UNCHANGED intent
  BY DEF OfWallets!CreateQr
<1>1. IntentsGo /\ IntentsAreMeant'
  BY <1>0, IntentsRest DEF PayInv
<1>2. PICK reply : reply = [kind |-> "session", qr |-> q]
  OBVIOUS
<1>3. CASE OfWallets!Answer(request, reply)
  BY <1>1, <1>2, <1>3, QuietReply, ServerStep
<1>4. CASE /\ UNCHANGED walletCall
           /\ walletLate' = (walletLate \ {request})
                            \cup {[kind |-> "delete", by |-> request.by, qr |-> q]}
  <2>1. \A r \in OfWallets!Asked' : r \in OfWallets!Asked \/ r.kind = "delete"
    BY <1>4 DEF OfWallets!Asked
  <2>2. \A r \in OfWallets!Asked' : RequestIsMeant(r)'
    BY <1>1, <2>1, AskedStaysMeant, DeleteIsMeant DEF PayInv
  <2>3. CallsAreMeant'
    BY <1>1, <1>4, <2>2, CallStaysMeant DEF CallsAreMeant, PayInv
  <2> QED BY <1>1, <2>3, SheetsRest DEF PayInv
<1> QED BY <1>2, <1>3, <1>4 DEF OfWallets!CreateQr

LEMMA DeleteQrPays ==
  ASSUME PayInv, UNCHANGED <<wallet, banner, approved>>, NEW request \in OfWallets!Asked,
         request.kind \notin {"none", "answered"}, OfWallets!DeleteQr(request)
  PROVE  PayInv'
<1>1. PICK reply : reply = [kind |-> "deleted"]
  OBVIOUS
<1>2. OfWallets!Answer(request, reply)
  BY <1>1 DEF OfWallets!DeleteQr
<1>3. IntentsGo /\ IntentsAreMeant'
  <2>1. CASE UNCHANGED intent
    BY <2>1, IntentsRest DEF PayInv
  <2>2. CASE intent' = [i \in IntentIds |->
               IF intent[i].status \in OfWallets!Awaiting /\ intent[i].qr = request.qr
               THEN [intent[i] EXCEPT !.status = "cancelled"] ELSE intent[i]]
    <3>1. \A i \in IntentIds :
            \/ intent'[i] = intent[i]
            \/ intent[i].status \in OfWallets!Awaiting
               /\ intent'[i] = [intent[i] EXCEPT !.status = "cancelled"]
      BY <2>2
    <3>2. DOMAIN intent' = IntentIds
      BY <2>2
    <3> QED BY <3>1, <3>2, StatusesChange DEF PayInv, OfWallets!Awaiting
  <2> QED BY <2>1, <2>2 DEF OfWallets!DeleteQr, OfWallets!qrVars
<1> QED BY <1>1, <1>2, <1>3, QuietReply, ServerStep

LEMMA CreateIntentPays ==
  ASSUME PayInv, UNCHANGED <<wallet, banner, approved>>, NEW request \in OfWallets!Asked,
         request.kind \notin {"none", "answered"}, NEW i \in IntentIds,
         OfWallets!CreateIntent(request, i)
  PROVE  PayInv'
<1>1. PICK reply : reply = [kind |-> "intent", intent |-> i]
  OBVIOUS
<1>2. OfWallets!Answer(request, reply) /\ request.kind = "propose"
  BY <1>1 DEF OfWallets!CreateIntent
<1>3. CASE /\ intent[i] # OfWallets!NoIntent /\ intent[i].by = request.by
           /\ UNCHANGED intent
  <2>1. IntentsGo /\ IntentsAreMeant'
    BY <1>3, IntentsRest DEF PayInv
  <2>2. Begun(i)
    BY <1>3 DEF Begun, PayInv, IntentsAreMeant, IsIntent
  <2>3. ReplyIsMeant(request, reply)'
    BY <1>1, <1>2, <1>3, <2>1, <2>2, BegunStays DEF ReplyIsMeant
  <2> QED BY <1>2, <2>1, <2>3, ServerStep
<1>4. ASSUME NEW status \in {"awaiting_owner", "awaiting_initiator"}, NEW new,
             intent[i] = OfWallets!NoIntent, qr[request.body.qr].owner # request.by,
             new = [status |-> status, by |-> request.by, owner |-> qr[request.body.qr].owner,
                    qr |-> request.body.qr, key |-> request.key, body |-> request.body],
             intent' = [intent EXCEPT ![i] = new]
      PROVE  PayInv'
  <2>1. RequestIsMeant(request)
    BY DEF PayInv, CallsAreMeant
  <2>2. /\ new.status = status /\ new.by = request.by /\ new.owner = qr[request.body.qr].owner
        /\ new.qr = request.body.qr /\ new.body = request.body /\ new.key = request.key
    BY <1>4
  <2>3. IsIntent(new)'
    BY <1>2, <1>4, <2>1, <2>2 DEF IsIntent, RequestIsMeant
  <2>4. /\ DOMAIN intent = IntentIds /\ intent[i].status = "none"
    BY <1>4 DEF PayInv, IntentsAreMeant, OfWallets!NoIntent
  <2>5. /\ DOMAIN intent' = IntentIds /\ intent'[i] = new
        /\ \A j \in IntentIds : j # i => intent'[j] = intent[j]
    BY <1>4, <2>4
  <2>6. IntentsGo
    BY <2>4, <2>5 DEF IntentsGo
  <2>7. ASSUME NEW j \in IntentIds
        PROVE  /\ (intent[j] = OfWallets!NoIntent \/ IsIntent(intent[j]))'
               /\ (intent[j].status = "completed" => IsApproved(j))'
    <3>1. CASE j = i
      BY <1>4, <2>2, <2>3, <2>5, <3>1 DEF IsIntent
    <3>2. CASE j # i
      <4>1. intent'[j] = intent[j]
        BY <2>5, <3>2
      <4>2. intent[j].status = "completed" => Begun(j) /\ IsApproved(j)
        BY DEF PayInv, IntentsAreMeant, Begun
      <4> QED BY <2>6, <4>1, <4>2, ApprovedStays DEF PayInv, IntentsAreMeant, IsIntent
    <3> QED BY <3>1, <3>2
  <2>8. IntentsAreMeant'
    BY <2>5, <2>7 DEF IntentsAreMeant
  <2>9. ReplyIsMeant(request, reply)'
    BY <1>1, <1>2, <1>4, <2>2, <2>5 DEF ReplyIsMeant, Begun
  <2> QED BY <1>2, <2>6, <2>8, <2>9, ServerStep
<1>5. ASSUME intent[i] = OfWallets!NoIntent, qr[request.body.qr].owner # request.by,
             intent' = [intent EXCEPT ![i] =
                 [status |-> IF request.body.kind = "staff_debit" THEN "awaiting_owner"
                             ELSE "awaiting_initiator",
                  by |-> request.by, owner |-> qr[request.body.qr].owner, qr |-> request.body.qr,
                  key |-> request.key, body |-> request.body]]
      PROVE  PayInv'
  <2>1. PICK status : status = IF request.body.kind = "staff_debit" THEN "awaiting_owner"
                               ELSE "awaiting_initiator"
    OBVIOUS
  <2>2. PICK new : new = [status |-> status, by |-> request.by,
                          owner |-> qr[request.body.qr].owner, qr |-> request.body.qr,
                          key |-> request.key, body |-> request.body]
    OBVIOUS
  <2> QED BY <1>4, <1>5, <2>1, <2>2
<1> QED BY <1>3, <1>5 DEF OfWallets!CreateIntent, OfWallets!qrVars

LEMMA ConfirmIntentPays ==
  ASSUME PayInv, UNCHANGED <<wallet, banner, approved>>, NEW request \in OfWallets!Asked,
         request.kind \notin {"none", "answered"}, OfWallets!ConfirmIntent(request)
  PROVE  PayInv'
<1>1. PICK i : i = request.intent
  OBVIOUS
<1>2. /\ request.kind = "confirm" /\ Begun(i)
      /\ request.by = OfWallets!Confirmer(i) => IsApproved(i)
  BY <1>1 DEF OfWallets!ConfirmIntent, PayInv, CallsAreMeant, RequestIsMeant
<1>3. PICK reply, said : reply = [kind |-> "done"] /\ said = OfWallets!Said(request)
  OBVIOUS
<1>4. ASSUME IntentsGo, intent'[i].status = "completed"
      PROVE  ReplyIsMeant(request, reply)'
  <2>1. reply.kind = "done" /\ said.says = "confirmed" /\ said.intent = i
    BY <1>1, <1>2, <1>3 DEF OfWallets!Said
  <2>2. IsTrue(said)'
    BY <1>2, <1>4, <2>1, BegunStays DEF IsTrue
  <2> QED BY <1>3, <2>1, <2>2 DEF ReplyIsMeant, OfWallets!Said
<1>5. CASE intent[i].status = "completed" /\ UNCHANGED intent /\ OfWallets!Answer(request, reply)
  <2>1. IntentsGo /\ IntentsAreMeant'
    BY <1>5, IntentsRest DEF PayInv
  <2> QED BY <1>4, <1>5, <2>1, ServerStep
<1>6. CASE /\ intent[i].status \in OfWallets!Awaiting /\ OfWallets!MayConfirm(request.by, i)
           /\ intent' = [intent EXCEPT ![i].status = "completed"]
           /\ OfWallets!Answer(request, reply)
  <2>1. i \in IntentIds /\ intent[i].status \notin {"none", "completed", "rejected", "expired"}
        /\ IsApproved(i)
    BY <1>2, <1>6 DEF OfWallets!Awaiting, OfWallets!MayConfirm, Begun
  <2>2. IntentsGo /\ IntentsAreMeant' /\ intent'[i].status = "completed"
    BY <1>6, <2>1, OneStatus DEF PayInv
  <2> QED BY <1>4, <1>6, <2>2, ServerStep
<1>7. CASE /\ intent[i].status # "completed"
           /\ intent' = [intent EXCEPT ![i].status = "expired"]
           /\ OfWallets!Answer(request, OfWallets!Refused)
  <2>1. IntentsGo /\ IntentsAreMeant'
    BY <1>2, <1>7, OneStatus DEF PayInv, Begun
  <2>2. PICK no : no = OfWallets!Refused
    OBVIOUS
  <2>3. no.kind = "refused"
    BY <2>2 DEF OfWallets!Refused
  <2> QED BY <1>7, <2>1, <2>2, <2>3, QuietReply, ServerStep
<1> QED BY <1>1, <1>3, <1>5, <1>6, <1>7 DEF OfWallets!ConfirmIntent, OfWallets!qrVars

LEMMA RejectIntentPays ==
  ASSUME PayInv, UNCHANGED <<wallet, banner, approved>>, NEW request \in OfWallets!Asked,
         request.kind \notin {"none", "answered"}, OfWallets!RejectIntent(request)
  PROVE  PayInv'
<1>1. PICK i : i = request.intent
  OBVIOUS
<1>2. PICK reply, said : reply = [kind |-> "done"] /\ said = OfWallets!Said(request)
  OBVIOUS
<1>3. /\ request.kind = "reject" /\ Begun(i) /\ intent[i].status \in OfWallets!Awaiting
      /\ intent' = [intent EXCEPT ![i].status = "rejected"]
      /\ OfWallets!Answer(request, reply)
  BY <1>1, <1>2 DEF OfWallets!RejectIntent, PayInv, CallsAreMeant, RequestIsMeant
<1>4. IntentsGo /\ IntentsAreMeant' /\ intent'[i].status = "rejected"
  BY <1>3, OneStatus DEF PayInv, Begun, OfWallets!Awaiting
<1>5. reply.kind = "done" /\ said.says = "rejected" /\ said.intent = i
  BY <1>1, <1>2, <1>3 DEF OfWallets!Said
<1>6. IsTrue(said)'
  BY <1>3, <1>4, <1>5, BegunStays DEF IsTrue
<1>7. ReplyIsMeant(request, reply)'
  BY <1>2, <1>5, <1>6 DEF ReplyIsMeant, OfWallets!Said
<1> QED BY <1>3, <1>4, <1>7, ServerStep

LEMMA ServerNextPays ==
  ASSUME PayInv, OfWallets!ServerNext
  PROVE  PayInv'
<1>1. PICK request \in OfWallets!Asked :
        /\ request.kind \notin {"none", "answered"}
        /\ \/ \E q \in Ids : OfWallets!CreateQr(request, q)
           \/ \E i \in IntentIds : OfWallets!CreateIntent(request, i)
           \/ OfWallets!DeleteQr(request) \/ OfWallets!ConfirmIntent(request)
           \/ OfWallets!RejectIntent(request)
           \/ OfWallets!Checkout(request) \/ OfWallets!Refuse(request)
        /\ UNCHANGED <<wallet, banner, approved, OfWallets!shopVars>>
  BY DEF OfWallets!ServerNext
<1>2. ASSUME NEW reply, reply.kind \in {"ordered", "refused"}, UNCHANGED intent,
             OfWallets!Answer(request, reply)
      PROVE  PayInv'
  <2>1. IntentsGo /\ IntentsAreMeant'
    BY <1>1, <1>2, IntentsRest DEF PayInv
  <2> QED BY <1>1, <1>2, <2>1, QuietReply, ServerStep
<1>3. CASE OfWallets!Checkout(request)
  <2>1. PICK reply : reply = [kind |-> "ordered"]
    OBVIOUS
  <2> QED BY <1>2, <1>3, <2>1 DEF OfWallets!Checkout, OfWallets!qrVars
<1>4. CASE OfWallets!Refuse(request)
  <2>1. PICK reply : reply = OfWallets!Refused
    OBVIOUS
  <2>2. reply.kind = "refused"
    BY <2>1 DEF OfWallets!Refused
  <2> QED BY <1>2, <1>4, <2>1, <2>2 DEF OfWallets!Refuse, OfWallets!serverVars
<1> QED BY <1>1, <1>3, <1>4, CreateQrPays, CreateIntentPays, DeleteQrPays, ConfirmIntentPays,
           RejectIntentPays

LEMMA ClosedIsTrue ==
  ASSUME NEW s, s = OfWallets!ClosedSheet
  PROVE  SheetIsTrue(s)
BY DEF SheetIsTrue, OfWallets!ClosedSheet

(* Only the sheet changes, and requests nobody waits for may come or go.    *)
LEMMA OnlySheet ==
  ASSUME PayInv, UNCHANGED <<intent, approved, banner>>, NEW p \in People,
         NEW s, Becomes(wallet, wallet', p, s), SheetIsTrue(s),
         NEW r, Becomes(walletCall, walletCall', p, r),
         \/ r = walletCall[p]
         \/ r.kind = "none"
         \/ r.kind # "answered" /\ r.by = p /\ RequestIsMeant(r)',
         \A q \in walletLate' : q \in OfWallets!Asked \/ q.kind = "delete"
  PROVE  PayInv'
<1>1. PICK b : b = banner[p]
  OBVIOUS
<1>2. Becomes(banner, banner', p, b) /\ (b # Nothing => Begun(b))
  BY <1>1 DEF PayInv, SheetsAreTrue, Becomes
<1> QED BY <1>2, PhoneStep

(* Only the request changes.                                               *)
LEMMA OnlyCall ==
  ASSUME PayInv, UNCHANGED <<intent, banner, wallet>>, approved \subseteq approved',
         NEW p \in People, NEW r, Becomes(walletCall, walletCall', p, r),
         \/ r = walletCall[p]
         \/ r.kind = "none"
         \/ r.kind # "answered" /\ r.by = p /\ RequestIsMeant(r)',
         \A q \in walletLate' : q \in OfWallets!Asked \/ q.kind = "delete"
  PROVE  PayInv'
<1>1. PICK b, s : b = banner[p] /\ s = wallet[p]
  OBVIOUS
<1>2. /\ Becomes(banner, banner', p, b) /\ (b # Nothing => Begun(b))
      /\ Becomes(wallet, wallet', p, s) /\ SheetIsTrue(s)
  BY <1>1 DEF PayInv, SheetsAreTrue, Becomes
<1> QED BY <1>2, PhoneStep

(* Nothing that a payment depends on changes.                              *)
LEMMA NoPayment ==
  ASSUME PayInv, UNCHANGED <<intent, approved, banner, wallet, walletCall>>,
         \A q \in walletLate' : q \in OfWallets!Asked \/ q.kind = "delete"
  PROVE  PayInv'
<1>1. IntentsGo /\ IntentsAreMeant'
  BY IntentsRest DEF PayInv
<1>2. \A q \in OfWallets!Asked' : q \in OfWallets!Asked \/ q.kind = "delete"
  BY DEF OfWallets!Asked
<1>3. \A q \in OfWallets!Asked' : RequestIsMeant(q)'
  BY <1>1, <1>2, AskedStaysMeant, DeleteIsMeant DEF PayInv
<1>4. CallsAreMeant'
  BY <1>1, <1>3, CallStaysMeant DEF CallsAreMeant, PayInv
<1> QED BY <1>1, <1>4, SheetsRest DEF PayInv

LEMMA WithdrawnIsQuiet ==
  ASSUME NEW p \in People, NEW q \in OfWallets!Withdrawn(p)
  PROVE  q \in OfWallets!Asked \/ q.kind = "delete"
BY DEF OfWallets!Withdrawn, OfWallets!Asked

(* A phone that shows a QR.                                                *)
LEMMA ShowingPays ==
  ASSUME PayInv, NEW p \in People,
         \/ OfWallets!ShowQr(p) \/ OfWallets!HearQr(p) \/ OfWallets!Poll(p)
         \/ OfWallets!BeginClose(p) \/ OfWallets!EndClose(p) \/ OfWallets!Leave(p)
  PROVE  PayInv'
<1>0. /\ DOMAIN wallet = People /\ DOMAIN banner = People /\ DOMAIN walletCall = People
      /\ SheetIsTrue(wallet[p])
  BY DEF PayInv, SheetsAreTrue, CallsAreMeant
<1>1. UNCHANGED <<intent, approved>>
  BY DEF OfWallets!ShowQr, OfWallets!HearQr, OfWallets!Poll, OfWallets!BeginClose,
         OfWallets!EndClose, OfWallets!Leave, OfWallets!serverVars
<1>2. PICK none, own : none = OfWallets!NoCall /\ own = walletCall[p]
  OBVIOUS
<1>3. none.kind = "none" /\ Becomes(walletCall, walletCall, p, own)
  BY <1>0, <1>2 DEF OfWallets!NoCall, Becomes
<1>4. \A q \in walletLate : q \in OfWallets!Asked
  BY DEF OfWallets!Asked
<1>5. CASE OfWallets!ShowQr(p)
  <2>1. PICK s : s = [wallet[p] EXCEPT !.mode = "show"]
    OBVIOUS
  <2>2. Becomes(wallet, wallet', p, s)
    BY <1>0, <1>5, <2>1 DEF OfWallets!ShowQr, Becomes
  <2>3. SheetIsTrue(s)
    BY <1>0, <2>1 DEF SheetIsTrue
  <2>4. PICK r : r = [kind |-> "qr", by |-> p]
    OBVIOUS
  <2>5. Becomes(walletCall, walletCall', p, r)
    BY <1>0, <1>5, <2>4 DEF OfWallets!ShowQr, OfWallets!Ask, Becomes
  <2>6. r.kind # "answered" /\ r.by = p /\ RequestIsMeant(r)'
    BY <2>4 DEF RequestIsMeant
  <2>7. banner' = banner /\ walletLate' = OfWallets!Withdrawn(p)
    BY <1>5 DEF OfWallets!ShowQr
  <2> QED BY <1>1, <2>2, <2>3, <2>5, <2>6, <2>7, WithdrawnIsQuiet, OnlySheet
<1>6. CASE OfWallets!HearQr(p)
  <2>1. PICK s : s = [wallet[p] EXCEPT !.session = walletCall[p].reply.qr, !.claimed = FALSE]
    OBVIOUS
  <2>2. Becomes(wallet, wallet', p, s)
    BY <1>0, <1>6, <2>1 DEF OfWallets!HearQr, Becomes
  <2>3. SheetIsTrue(s)
    BY <1>0, <2>1 DEF SheetIsTrue
  <2>4. Becomes(walletCall, walletCall', p, none)
    BY <1>0, <1>2, <1>6 DEF OfWallets!HearQr, OfWallets!Hear, Becomes
  <2>5. banner' = banner /\ walletLate' = walletLate
    BY <1>6 DEF OfWallets!HearQr
  <2> QED BY <1>1, <1>3, <1>4, <2>2, <2>3, <2>4, <2>5, OnlySheet
<1>7. \A i \in OfWallets!Debits(p) : Begun(i)
  BY DEF OfWallets!Debits, OfWallets!Pending, OfWallets!Awaiting, Begun
<1>8. CASE OfWallets!Poll(p)
  <2>1. UNCHANGED <<banner, walletCall, walletLate>>
    BY <1>8 DEF OfWallets!Poll
  <2>2. ASSUME NEW s, NEW pending, pending = Nothing \/ Begun(pending), NEW claimed,
               s = [wallet[p] EXCEPT !.pending = pending, !.claimed = claimed],
               Becomes(wallet, wallet', p, s)
        PROVE  PayInv'
    <3>1. SheetIsTrue(s)
      BY <1>0, <2>2 DEF SheetIsTrue
    <3> QED BY <1>1, <1>2, <1>3, <1>4, <2>1, <2>2, <3>1, OnlySheet
  <2>3. CASE wallet' = [wallet EXCEPT ![p].pending = Nothing]
    <3>1. PICK claimed, s : /\ claimed = wallet[p].claimed
                            /\ s = [wallet[p] EXCEPT !.pending = Nothing, !.claimed = claimed]
      OBVIOUS
    <3>2. s = [wallet[p] EXCEPT !.pending = Nothing]
      BY <1>0, <3>1 DEF SheetIsTrue
    <3>3. Becomes(wallet, wallet', p, s)
      BY <1>0, <2>3, <3>2 DEF Becomes
    <3> QED BY <2>2, <3>1, <3>3
  <2>4. ASSUME NEW i \in OfWallets!Debits(p),
               wallet' = [wallet EXCEPT ![p].pending = i,
                                        ![p].claimed = @ \/ wallet[p].session # Nothing]
        PROVE  PayInv'
    <3>1. PICK claimed : claimed = (wallet[p].claimed \/ wallet[p].session # Nothing)
      OBVIOUS
    <3>2. PICK s : s = [wallet[p] EXCEPT !.pending = i, !.claimed = claimed]
      OBVIOUS
    <3>3. wallet' = [wallet EXCEPT ![p].pending = i, ![p].claimed = claimed]
      BY <1>0, <2>4, <3>1 DEF SheetIsTrue
    <3>4. Becomes(wallet, wallet', p, s)
      BY <1>0, <3>2, <3>3 DEF Becomes
    <3> QED BY <1>7, <2>2, <3>2, <3>4
  <2> QED BY <1>8, <2>3, <2>4 DEF OfWallets!Poll
<1>9. CASE OfWallets!BeginClose(p)
  <2>1. UNCHANGED <<banner, walletCall, walletLate>>
    BY <1>9 DEF OfWallets!BeginClose
  <2>2. ASSUME NEW s, Becomes(wallet, wallet', p, s), SheetIsTrue(s)
        PROVE  PayInv'
    BY <1>1, <1>2, <1>3, <1>4, <2>1, <2>2, OnlySheet
  <2>3. CASE wallet' = [wallet EXCEPT ![p].closing = TRUE]
    <3>1. PICK s : s = [wallet[p] EXCEPT !.closing = TRUE]
      OBVIOUS
    <3>2. Becomes(wallet, wallet', p, s)
      BY <1>0, <2>3, <3>1 DEF Becomes
    <3>3. SheetIsTrue(s)
      BY <1>0, <3>1 DEF SheetIsTrue
    <3> QED BY <2>2, <3>2, <3>3
  <2>4. ASSUME NEW i \in OfWallets!Debits(p),
               wallet' = [wallet EXCEPT ![p].pending = i, ![p].claimed = TRUE]
        PROVE  PayInv'
    <3>1. PICK s : s = [wallet[p] EXCEPT !.pending = i, !.claimed = TRUE]
      OBVIOUS
    <3>2. Becomes(wallet, wallet', p, s)
      BY <1>0, <2>4, <3>1 DEF Becomes
    <3>3. SheetIsTrue(s)
      BY <1>0, <1>7, <3>1 DEF SheetIsTrue
    <3> QED BY <2>2, <3>2, <3>3
  <2> QED BY <1>9, <2>3, <2>4 DEF OfWallets!BeginClose
<1>10. PICK closed : closed = OfWallets!ClosedSheet
  OBVIOUS
<1>11. CASE OfWallets!EndClose(p)
  <2>1. Becomes(wallet, wallet', p, closed) /\ SheetIsTrue(closed)
    BY <1>0, <1>10, <1>11, ClosedIsTrue DEF OfWallets!EndClose, Becomes
  <2>2. UNCHANGED <<banner, walletCall>> /\ walletLate' = OfWallets!Withdrawn(p)
    BY <1>11 DEF OfWallets!EndClose
  <2> QED BY <1>1, <1>2, <1>3, <2>1, <2>2, WithdrawnIsQuiet, OnlySheet
<1>12. CASE OfWallets!Leave(p)
  <2>1. Becomes(wallet, wallet', p, closed) /\ SheetIsTrue(closed)
    BY <1>0, <1>10, <1>12, ClosedIsTrue DEF OfWallets!Leave, Becomes
  <2>2. /\ Becomes(banner, banner', p, Nothing)
        /\ Becomes(walletCall, walletCall', p, none)
    BY <1>0, <1>2, <1>12 DEF OfWallets!Leave, Becomes
  <2>3. \A q \in walletLate' : q \in OfWallets!Asked \/ q.kind = "delete"
    <3>1. walletCall[p] \in OfWallets!Asked
      BY DEF OfWallets!Asked
    <3> QED BY <1>12, <3>1, WithdrawnIsQuiet DEF OfWallets!Leave
  <2> QED BY <1>1, <1>3, <2>1, <2>2, <2>3, PhoneStep
<1> QED BY <1>5, <1>6, <1>8, <1>9, <1>11, <1>12

(* What a phone that scans a QR chooses, before it proposes.               *)
LEMMA ChoosingPays ==
  ASSUME PayInv, NEW p \in People,
         \/ \E q \in Ids : OfWallets!Scan(p, q)
         \/ \E kind \in {"p2p_transfer", "staff_debit"}, terms \in Texts : OfWallets!Choose(p, kind, terms)
         \/ OfWallets!Preview(p)
  PROVE  PayInv'
<1>0. DOMAIN wallet = People /\ DOMAIN walletCall = People /\ SheetIsTrue(wallet[p])
  BY DEF PayInv, SheetsAreTrue, CallsAreMeant
<1>1. UNCHANGED <<intent, approved, banner, walletCall, walletLate>>
  BY DEF OfWallets!Scan, OfWallets!Choose, OfWallets!Preview, OfWallets!serverVars
<1>2. PICK own : own = walletCall[p]
  OBVIOUS
<1>3. ASSUME NEW s, Becomes(wallet, wallet', p, s), SheetIsTrue(s)
      PROVE  PayInv'
  <2>1. Becomes(walletCall, walletCall', p, own)
    BY <1>0, <1>1, <1>2 DEF Becomes
  <2>2. \A q \in walletLate' : q \in OfWallets!Asked
    BY <1>1 DEF OfWallets!Asked
  <2> QED BY <1>1, <1>2, <1>3, <2>1, <2>2, OnlySheet
<1>4. ASSUME NEW q \in Ids, OfWallets!Scan(p, q)
      PROVE  PayInv'
  <2>1. PICK s : s = [wallet[p] EXCEPT !.mode = "scan", !.scanned = q]
    OBVIOUS
  <2>2. Becomes(wallet, wallet', p, s)
    BY <1>0, <1>4, <2>1 DEF OfWallets!Scan, Becomes
  <2>3. SheetIsTrue(s)
    BY <1>0, <2>1 DEF SheetIsTrue
  <2> QED BY <1>3, <2>2, <2>3
<1>5. ASSUME NEW kind, NEW terms, OfWallets!Choose(p, kind, terms)
      PROVE  PayInv'
  <2>1. PICK s : s = [wallet[p] EXCEPT !.kind = kind, !.terms = terms]
    OBVIOUS
  <2>2. Becomes(wallet, wallet', p, s) /\ wallet[p].preview = Nothing
    BY <1>0, <1>5, <2>1 DEF OfWallets!Choose, Becomes
  <2>3. SheetIsTrue(s)
    BY <1>0, <2>1, <2>2 DEF SheetIsTrue
  <2> QED BY <1>3, <2>2, <2>3
<1>6. CASE OfWallets!Preview(p)
  <2>1. PICK preview : preview = IF wallet[p].preview = Nothing THEN wallet[p].terms ELSE Nothing
    OBVIOUS
  <2>2. PICK s : s = [wallet[p] EXCEPT !.preview = preview]
    OBVIOUS
  <2>3. wallet' = [wallet EXCEPT ![p].preview = preview]
    BY <1>0, <1>6, <2>1 DEF OfWallets!Preview, SheetIsTrue
  <2>4. Becomes(wallet, wallet', p, s)
    BY <1>0, <2>2, <2>3 DEF Becomes
  <2>5. SheetIsTrue(s)
    BY <1>0, <2>1, <2>2 DEF SheetIsTrue
  <2> QED BY <1>3, <2>4, <2>5
<1> QED BY <1>4, <1>5, <1>6

(* A proposal is of what the sheet shows, and was seen if it is a transfer. *)
LEMMA ProposingPays ==
  ASSUME PayInv, NEW p \in People, OfWallets!RequestDebit(p) \/ OfWallets!ConfirmTransfer(p)
  PROVE  PayInv'
<1> DEFINE body == [qr |-> wallet[p].scanned, kind |-> wallet[p].kind, terms |-> wallet[p].terms]
<1>0. DOMAIN wallet = People /\ DOMAIN walletCall = People /\ SheetIsTrue(wallet[p])
  BY DEF PayInv, SheetsAreTrue, CallsAreMeant
<1>1. UNCHANGED <<intent, banner, walletLate>> /\ approved \subseteq approved'
  BY DEF OfWallets!RequestDebit, OfWallets!ConfirmTransfer, OfWallets!serverVars
<1>2. OfWallets!Propose(p)
  BY DEF OfWallets!RequestDebit, OfWallets!ConfirmTransfer
<1>3. PICK attempt : /\ wallet' = [wallet EXCEPT ![p].attempt = attempt]
                     /\ OfWallets!Ask(p, [kind |-> "propose", by |-> p, body |-> body,
                                          key |-> attempt.key])
  BY <1>2 DEF OfWallets!Propose
<1>4. PICK s : s = [wallet[p] EXCEPT !.attempt = attempt]
  OBVIOUS
<1>5. Becomes(wallet, wallet', p, s) /\ SheetIsTrue(s)
  <2>1. Becomes(wallet, wallet', p, s)
    BY <1>0, <1>3, <1>4 DEF Becomes
  <2>2. SheetIsTrue(s)
    BY <1>0, <1>4 DEF SheetIsTrue
  <2> QED BY <2>1, <2>2
<1>6. PICK what : what = body
  OBVIOUS
<1>7. PICK r : r = [kind |-> "propose", by |-> p, body |-> what, key |-> attempt.key]
  OBVIOUS
<1>8. Becomes(walletCall, walletCall', p, r)
  BY <1>0, <1>3, <1>6, <1>7 DEF OfWallets!Ask, Becomes
<1>9. what.qr = wallet[p].scanned /\ what.kind = wallet[p].kind /\ what.terms = wallet[p].terms
  BY <1>6
<1>10. what.kind # "staff_debit" => <<p, what.terms, what.qr>> \in approved'
  <2>1. CASE OfWallets!RequestDebit(p)
    BY <1>9, <2>1 DEF OfWallets!RequestDebit
  <2>2. CASE OfWallets!ConfirmTransfer(p)
    <3>1. /\ wallet[p].preview = wallet[p].terms
          /\ approved' = approved \cup {<<p, wallet[p].preview, wallet[p].scanned>>}
      BY <1>0, <2>2 DEF OfWallets!ConfirmTransfer, SheetIsTrue
    <3> QED BY <1>9, <3>1
  <2> QED BY <2>1, <2>2
<1>11. r.kind = "propose" /\ r.by = p /\ RequestIsMeant(r)'
  BY <1>7, <1>10 DEF RequestIsMeant
<1>12. PICK b : b = banner[p]
  OBVIOUS
<1>13. Becomes(banner, banner', p, b) /\ (b # Nothing => Begun(b))
  BY <1>1, <1>12 DEF PayInv, SheetsAreTrue, Becomes
<1>14. \A q \in walletLate' : q \in OfWallets!Asked
  BY <1>1 DEF OfWallets!Asked
<1> QED BY <1>1, <1>5, <1>8, <1>11, <1>13, <1>14, PhoneStep

(* A proposal was heard: a transfer is confirmed by who has seen it, and a  *)
(* debit only by the owner of the QR, who is somebody else.                *)
LEMMA HearIntentPays ==
  ASSUME PayInv, NEW p \in People, OfWallets!HearIntent(p)
  PROVE  PayInv'
<1>0. DOMAIN wallet = People /\ DOMAIN walletCall = People /\ SheetIsTrue(wallet[p])
  BY DEF PayInv, SheetsAreTrue, CallsAreMeant
<1>1. UNCHANGED <<intent, banner, walletLate, approved>>
  BY DEF OfWallets!HearIntent, OfWallets!serverVars
<1>2. PICK i : i = walletCall[p].reply.intent
  OBVIOUS
<1>3. Begun(i) /\ intent[i].by = p
  BY <1>2 DEF OfWallets!HearIntent, PayInv, CallsAreMeant, ReplyIsMeant
<1>4. \A q \in walletLate' : q \in OfWallets!Asked
  BY <1>1 DEF OfWallets!Asked
<1>5. CASE wallet[p].kind = "staff_debit"
  <2>1. PICK said : said = [says |-> "asked", intent |-> i]
    OBVIOUS
  <2>2. IsTrue(said)
    BY <1>3, <2>1 DEF IsTrue
  <2>3. PICK s : s = [wallet[p] EXCEPT !.attempt = OfWallets!NoAttempt, !.success = said]
    OBVIOUS
  <2>4. Becomes(wallet, wallet', p, s)
    BY <1>0, <1>2, <1>5, <2>1, <2>3 DEF OfWallets!HearIntent, Becomes
  <2>5. SheetIsTrue(s)
    BY <1>0, <2>2, <2>3 DEF SheetIsTrue
  <2>6. PICK none : none = OfWallets!NoCall
    OBVIOUS
  <2>7. none.kind = "none" /\ Becomes(walletCall, walletCall', p, none)
    BY <1>0, <1>5, <2>6 DEF OfWallets!HearIntent, OfWallets!NoCall, Becomes
  <2> QED BY <1>1, <1>4, <2>4, <2>5, <2>7, OnlySheet
<1>6. CASE wallet[p].kind # "staff_debit"
  <2>1. PICK r : r = [kind |-> "confirm", by |-> p, intent |-> i, from |-> "scan"]
    OBVIOUS
  <2>2. Becomes(walletCall, walletCall', p, r) /\ wallet' = wallet
    BY <1>0, <1>2, <1>6, <2>1 DEF OfWallets!HearIntent, Becomes
  <2>3. r.kind = "confirm" /\ r.by = p /\ r.intent = i
    BY <2>1
  <2>4. p = OfWallets!Confirmer(i) => IsApproved(i)
    <3>1. IsIntent(intent[i])
      BY <1>3 DEF PayInv, IntentsAreMeant, Begun, OfWallets!NoIntent
    <3>2. SUFFICES ASSUME p = OfWallets!Confirmer(i) PROVE IsApproved(i)
      OBVIOUS
    <3>3. intent[i].body.kind # "staff_debit"
      BY <1>3, <3>1, <3>2 DEF IsIntent, OfWallets!Confirmer
    <3>4. PICK a : a = <<intent[i].by, intent[i].body.terms, intent[i].body.qr>>
      OBVIOUS
    <3>5. a \in approved /\ a[1] = p /\ a[2] = intent[i].body.terms /\ a[3] = intent[i].qr
      BY <1>3, <3>1, <3>3, <3>4 DEF IsIntent
    <3> QED BY <3>2, <3>5 DEF IsApproved
  <2>5. RequestIsMeant(r)
    BY <1>3, <2>3, <2>4 DEF RequestIsMeant
  <2>6. RequestIsMeant(r)'
    BY <1>1, <2>5 DEF RequestIsMeant, Begun, IsApproved, OfWallets!Confirmer
  <2> QED BY <1>1, <1>4, <2>2, <2>3, <2>6, OnlyCall
<1> QED BY <1>5, <1>6

(* Who decides on a debit has its terms before them.                       *)
LEMMA DecidingPays ==
  ASSUME PayInv, NEW p \in People, NEW decision \in {"confirm", "reject"},
         OfWallets!DecideOnSheet(p, decision) \/ OfWallets!DecideOnBanner(p, decision)
  PROVE  PayInv'
<1>0. DOMAIN walletCall = People /\ SheetIsTrue(wallet[p])
  BY DEF PayInv, SheetsAreTrue, CallsAreMeant
<1>1. PICK i, from : OfWallets!Decide(p, i, decision, from) /\ Begun(i)
  BY <1>0 DEF OfWallets!DecideOnSheet, OfWallets!DecideOnBanner, SheetIsTrue, PayInv, SheetsAreTrue
<1>2. UNCHANGED <<intent, banner, wallet, walletLate>> /\ approved \subseteq approved'
  BY <1>1 DEF OfWallets!Decide, OfWallets!serverVars
<1>3. PICK r : r = [kind |-> decision, by |-> p, intent |-> i, from |-> from]
  OBVIOUS
<1>4. Becomes(walletCall, walletCall', p, r)
  BY <1>0, <1>1, <1>3 DEF OfWallets!Decide, OfWallets!Ask, Becomes
<1>5. r.kind = decision /\ r.by = p /\ r.intent = i
  BY <1>3
<1>6. decision = "confirm" /\ p = OfWallets!Confirmer(i)' => IsApproved(i)'
  <2>1. SUFFICES ASSUME decision = "confirm", p = OfWallets!Confirmer(i)' PROVE IsApproved(i)'
    OBVIOUS
  <2>2. PICK a : a = <<p, intent[i].body.terms, i>>
    OBVIOUS
  <2>3. a \in approved' /\ a[1] = p /\ a[2] = intent'[i].body.terms /\ a[3] = i
    BY <1>1, <1>2, <2>1, <2>2 DEF OfWallets!Decide
  <2> QED BY <2>1, <2>3 DEF IsApproved
<1>7. RequestIsMeant(r)'
  BY <1>1, <1>2, <1>5, <1>6 DEF RequestIsMeant, Begun
<1>8. \A q \in walletLate' : q \in OfWallets!Asked
  BY <1>2 DEF OfWallets!Asked
<1> QED BY <1>2, <1>4, <1>5, <1>7, <1>8, OnlyCall

LEMMA HearDecisionPays ==
  ASSUME PayInv, NEW p \in People, OfWallets!HearDecision(p)
  PROVE  PayInv'
<1>0. /\ DOMAIN wallet = People /\ DOMAIN banner = People /\ DOMAIN walletCall = People
      /\ SheetIsTrue(wallet[p])
  BY DEF PayInv, SheetsAreTrue, CallsAreMeant
<1>1. UNCHANGED <<intent, walletLate, approved>>
  BY DEF OfWallets!HearDecision, OfWallets!serverVars
<1>2. \A q \in walletLate' : q \in OfWallets!Asked
  BY <1>1 DEF OfWallets!Asked
<1>3. PICK none, said, s, b : /\ none = OfWallets!NoCall /\ said = OfWallets!Said(walletCall[p].of)
                              /\ s = wallet[p] /\ b = banner[p]
  OBVIOUS
<1>4. IsTrue(said)
  BY <1>3 DEF OfWallets!HearDecision, OfWallets!Hear, PayInv, CallsAreMeant, ReplyIsMeant
<1>5. none.kind = "none" /\ Becomes(walletCall, walletCall', p, none)
  BY <1>0, <1>3 DEF OfWallets!HearDecision, OfWallets!Hear, OfWallets!NoCall, Becomes
<1>6. CASE banner' = [banner EXCEPT ![p] = Nothing] /\ UNCHANGED wallet
  <2>1. Becomes(banner, banner', p, Nothing) /\ Becomes(wallet, wallet', p, s) /\ SheetIsTrue(s)
    BY <1>0, <1>3, <1>6 DEF Becomes
  <2> QED BY <1>1, <1>2, <1>5, <2>1, PhoneStep
<1>7. CASE /\ wallet' = [wallet EXCEPT ![p].pending = Nothing, ![p].attempt = OfWallets!NoAttempt,
                                       ![p].success = OfWallets!Said(walletCall[p].of)]
           /\ UNCHANGED banner
  <2>1. PICK now : now = [wallet[p] EXCEPT !.pending = Nothing, !.attempt = OfWallets!NoAttempt,
                                           !.success = said]
    OBVIOUS
  <2>2. Becomes(wallet, wallet', p, now)
    BY <1>0, <1>3, <1>7, <2>1 DEF Becomes
  <2>3. SheetIsTrue(now)
    BY <1>0, <1>4, <2>1 DEF SheetIsTrue
  <2> QED BY <1>1, <1>2, <1>5, <1>7, <2>2, <2>3, OnlySheet
<1> QED BY <1>6, <1>7 DEF OfWallets!HearDecision

LEMMA OtherCallsPay ==
  ASSUME PayInv, NEW p \in People,
         \/ OfWallets!PollBanner(p) \/ OfWallets!HearError(p) \/ OfWallets!CloseProduct(p)
         \/ OfWallets!PlaceOrder(p) \/ OfWallets!HearOrder(p)
         \/ \E product \in Texts : OfWallets!ChooseProduct(p, product)
  PROVE  PayInv'
<1>0. DOMAIN banner = People /\ DOMAIN walletCall = People /\ walletCall[p] \in OfWallets!Asked
  BY DEF PayInv, SheetsAreTrue, CallsAreMeant, OfWallets!Asked
<1>1. UNCHANGED <<intent, wallet, approved>>
  BY DEF OfWallets!PollBanner, OfWallets!HearError, OfWallets!CloseProduct, OfWallets!PlaceOrder,
         OfWallets!HearOrder, OfWallets!ChooseProduct, OfWallets!serverVars
<1>2. \A q \in walletLate : q \in OfWallets!Asked
  BY DEF OfWallets!Asked
<1>3. PICK none, own, s : none = OfWallets!NoCall /\ own = walletCall[p] /\ s = wallet[p]
  OBVIOUS
<1>4. none.kind = "none"
  BY <1>3 DEF OfWallets!NoCall
<1>5. CASE OfWallets!PollBanner(p)
  <2>1. UNCHANGED <<walletCall, walletLate>>
    BY <1>5 DEF OfWallets!PollBanner
  <2>2. ASSUME NEW b, b = Nothing \/ Begun(b), banner' = [banner EXCEPT ![p] = b]
        PROVE  PayInv'
    <3>1. Becomes(banner, banner', p, b) /\ Becomes(walletCall, walletCall', p, own)
      BY <1>0, <1>3, <2>1, <2>2 DEF Becomes
    <3>2. Becomes(wallet, wallet', p, s) /\ SheetIsTrue(s)
      BY <1>1, <1>3 DEF PayInv, SheetsAreTrue, Becomes
    <3> QED BY <1>1, <1>2, <1>3, <2>1, <2>2, <3>1, <3>2, PhoneStep
  <2>3. \A i \in OfWallets!Debits(p) : Begun(i)
    BY DEF OfWallets!Debits, OfWallets!Pending, OfWallets!Awaiting, Begun
  <2> QED BY <1>5, <2>2, <2>3 DEF OfWallets!PollBanner
<1>6. CASE OfWallets!HearError(p)
  <2>1. Becomes(walletCall, walletCall', p, none) /\ banner' = banner
    BY <1>0, <1>3, <1>6 DEF OfWallets!HearError, Becomes
  <2>2. \A q \in walletLate' : q \in OfWallets!Asked
    BY <1>0, <1>2, <1>6 DEF OfWallets!HearError
  <2> QED BY <1>1, <1>4, <2>1, <2>2, OnlyCall
<1>7. CASE OfWallets!HearOrder(p)
  <2>1. Becomes(walletCall, walletCall', p, none) /\ banner' = banner /\ walletLate' = walletLate
    BY <1>0, <1>3, <1>7 DEF OfWallets!HearOrder, OfWallets!Hear, Becomes
  <2> QED BY <1>1, <1>2, <1>4, <2>1, OnlyCall
<1>8. CASE OfWallets!PlaceOrder(p)
  <2>1. PICK key : OfWallets!Ask(p, [kind |-> "checkout", by |-> p, product |-> shop[p].product,
                                     key |-> key, wish |-> chosen[p]])
    BY <1>8 DEF OfWallets!PlaceOrder
  <2>2. PICK r : r = [kind |-> "checkout", by |-> p, product |-> shop[p].product, key |-> key,
                      wish |-> chosen[p]]
    OBVIOUS
  <2>3. r.kind = "checkout" /\ r.by = p /\ Becomes(walletCall, walletCall', p, r)
    BY <1>0, <2>1, <2>2 DEF OfWallets!Ask, Becomes
  <2>4. RequestIsMeant(r)'
    BY <2>3 DEF RequestIsMeant
  <2>5. banner' = banner /\ walletLate' = walletLate
    BY <1>8 DEF OfWallets!PlaceOrder
  <2> QED BY <1>1, <1>2, <2>3, <2>4, <2>5, OnlyCall
<1>9. CASE OfWallets!CloseProduct(p) \/ \E product \in Texts : OfWallets!ChooseProduct(p, product)
  <2>1. UNCHANGED <<banner, walletCall, walletLate>>
    BY <1>9 DEF OfWallets!CloseProduct, OfWallets!ChooseProduct
  <2> QED BY <1>1, <1>2, <2>1, NoPayment
<1> QED BY <1>5, <1>6, <1>7, <1>8, <1>9

LEMMA InitPays == OfWallets!Init => PayInv
<1> SUFFICES ASSUME OfWallets!Init PROVE PayInv
  OBVIOUS
<1>1. /\ DOMAIN intent = IntentIds
      /\ \A i \in IntentIds : intent[i] = OfWallets!NoIntent /\ intent[i].status = "none"
  BY DEF OfWallets!Init, OfWallets!NoIntent
<1>2. SheetsAreTrue
  <2>1. PICK closed : closed = OfWallets!ClosedSheet
    OBVIOUS
  <2>2. SheetIsTrue(closed) /\ \A p \in People : wallet[p] = closed /\ banner[p] = Nothing
    BY <2>1, ClosedIsTrue DEF OfWallets!Init
  <2> QED BY <2>2 DEF OfWallets!Init, SheetsAreTrue
<1>3. DOMAIN walletCall = People /\ \A p \in People : walletCall[p].kind = "none"
  BY DEF OfWallets!Init, OfWallets!NoCall
<1>4. \A r \in OfWallets!Asked : r.kind = "none"
  BY <1>3 DEF OfWallets!Init, OfWallets!Asked
<1>5. CallsAreMeant
  BY <1>3, <1>4 DEF CallsAreMeant, RequestIsMeant
<1> QED BY <1>1, <1>2, <1>5 DEF PayInv, IntentsAreMeant

LEMMA NextPays ==
  ASSUME PayInv, [OfWallets!Next]_OfWallets!vars
  PROVE  PayInv'
<1>1. CASE UNCHANGED OfWallets!vars
  <2>1. UNCHANGED <<intent, approved, banner, wallet, walletCall, walletLate>>
    BY <1>1 DEF OfWallets!vars, OfWallets!serverVars, OfWallets!phoneVars
  <2>2. \A q \in walletLate' : q \in OfWallets!Asked
    BY <2>1 DEF OfWallets!Asked
  <2> QED BY <2>1, <2>2, NoPayment
<1>2. ASSUME NEW request \in walletLate, OfWallets!Forget(request)
      PROVE  PayInv'
  <2>1. UNCHANGED <<intent, approved, banner, wallet, walletCall>>
    BY <1>2 DEF OfWallets!Forget, OfWallets!serverVars
  <2>2. \A q \in walletLate' : q \in OfWallets!Asked
    BY <1>2 DEF OfWallets!Asked, OfWallets!Forget
  <2> QED BY <2>1, <2>2, NoPayment
<1> QED BY <1>1, <1>2, ServerNextPays, ShowingPays, ChoosingPays, ProposingPays, HearIntentPays,
           DecidingPays, HearDecisionPays, OtherCallsPay DEF OfWallets!Next

-----------------------------------------------------------------------------
(* The shop: what was ordered, and what is on its way *)

IsShop(s) == s = [product |-> s.product, attempt |-> s.attempt, ordered |-> s.ordered]

Checkouts == order \cup {r \in OfWallets!Asked : r.kind = "checkout"}

IsOrdered(p, key) == \E o \in order : o.by = p /\ o.key = key

(* What has been ordered for the choice that is shown has the key of its    *)
(* attempt.                                                                *)
ChoiceIsKnown(r) ==
  /\ r.by \in People /\ r.wish \in Nat /\ r.wish <= chosen[r.by]
  /\ r.wish = chosen[r.by] /\ shop[r.by].product # Nothing =>
       shop[r.by].attempt.body = shop[r.by].product /\ shop[r.by].attempt.key = r.key

ShopsAreTrue ==
  /\ chosen \in [People -> Nat] /\ DOMAIN shop = People
  /\ \A p \in People :
       IsShop(shop[p]) /\ (shop[p].ordered # Nothing => IsOrdered(p, shop[p].ordered))

OrdersAreHeard ==
  /\ DOMAIN walletCall = People
  /\ \A p \in People :
       /\ walletCall[p].kind = "checkout" => walletCall[p].by = p
       /\ walletCall[p].kind = "answered" /\ walletCall[p].of.kind = "checkout"
          /\ walletCall[p].reply.kind = "ordered" => IsOrdered(p, walletCall[p].of.key)

ChoicesAreKnown ==
  /\ \A r \in Checkouts : ChoiceIsKnown(r)
  /\ \A r, s \in Checkouts : r.by = s.by /\ r.wish = s.wish => r.key = s.key
  /\ \A o, n \in order : o.by = n.by /\ o.key = n.key => o = n

(* Inductive: PaidAsShown says nothing of the orders on their way.          *)
ShopInv == ShopsAreTrue /\ OrdersAreHeard /\ ChoicesAreKnown

(* A step that sends and tells nothing of an order.                        *)
NothingIsOrdered ==
  /\ DOMAIN walletCall' = People
  /\ \A p \in People :
       \/ walletCall'[p] = walletCall[p]
       \/ /\ walletCall'[p].kind # "checkout"
          /\ walletCall'[p].kind # "answered" \/ walletCall'[p].of.kind # "checkout"
             \/ walletCall'[p].reply.kind # "ordered"
  /\ \A q \in OfWallets!Asked' : q \in OfWallets!Asked \/ q.kind # "checkout"

LEMMA NothingHeard ==
  ASSUME OrdersAreHeard, UNCHANGED order, NothingIsOrdered
  PROVE  OrdersAreHeard' /\ Checkouts' \subseteq Checkouts
<1>1. Checkouts' \subseteq Checkouts
  BY DEF Checkouts, NothingIsOrdered
<1>2. OrdersAreHeard'
  BY DEF OrdersAreHeard, NothingIsOrdered, IsOrdered
<1> QED BY <1>1, <1>2

LEMMA ShopRests ==
  ASSUME ShopInv, UNCHANGED <<order, shop, chosen>>, NothingIsOrdered
  PROVE  ShopInv'
<1>1. OrdersAreHeard' /\ Checkouts' \subseteq Checkouts
  BY NothingHeard DEF ShopInv
<1>2. ShopsAreTrue'
  BY DEF ShopInv, ShopsAreTrue, IsOrdered
<1>3. ChoicesAreKnown'
  BY <1>1 DEF ShopInv, ChoicesAreKnown, ChoiceIsKnown
<1> QED BY <1>1, <1>2, <1>3 DEF ShopInv

(* A product is left, or another one is chosen.                            *)
LEMMA ShopTurns ==
  ASSUME ShopInv, UNCHANGED order, NothingIsOrdered, NEW p \in People, NEW s,
         Becomes(shop, shop', p, s), IsShop(s), s.ordered # Nothing => IsOrdered(p, s.ordered),
         \/ s.product = Nothing /\ chosen' = chosen
         \/ chosen' = [chosen EXCEPT ![p] = @ + 1]
  PROVE  ShopInv'
<1>1. OrdersAreHeard' /\ Checkouts' \subseteq Checkouts
  BY NothingHeard DEF ShopInv
<1>2. chosen \in [People -> Nat] /\ DOMAIN shop = People
  BY DEF ShopInv, ShopsAreTrue
<1>3. /\ chosen' \in [People -> Nat] /\ \A q \in People : chosen[q] <= chosen'[q]
      /\ chosen'[p] = chosen[p] + 1 \/ (s.product = Nothing /\ chosen'[p] = chosen[p])
      /\ \A q \in People : q # p => chosen'[q] = chosen[q]
  BY <1>2
<1>4. ShopsAreTrue'
  <2>1. ASSUME NEW q \in People
        PROVE  (IsShop(shop[q]) /\ (shop[q].ordered # Nothing => IsOrdered(q, shop[q].ordered)))'
    <3>1. CASE q = p
      <4>1. shop'[q] = s
        BY <3>1 DEF Becomes
      <4> QED BY <3>1, <4>1 DEF IsShop, IsOrdered
    <3>2. CASE q # p
      <4>1. shop'[q] = shop[q]
        BY <3>2 DEF Becomes
      <4> QED BY <4>1 DEF ShopInv, ShopsAreTrue, IsShop, IsOrdered
    <3> QED BY <3>1, <3>2
  <2> QED BY <1>3, <2>1 DEF ShopsAreTrue, Becomes
<1>5. ASSUME NEW r \in Checkouts
      PROVE  ChoiceIsKnown(r)'
  <2>1. r.by \in People /\ r.wish \in Nat /\ r.wish <= chosen[r.by] /\ chosen[r.by] \in Nat
    BY <1>2 DEF ShopInv, ChoicesAreKnown, ChoiceIsKnown
  <2>2. CASE r.by = p
    <3>1. r.wish # chosen'[p] \/ shop'[p].product = Nothing
      BY <1>3, <2>1, <2>2 DEF Becomes
    <3>2. r.wish <= chosen'[p]
      BY <1>2, <1>3, <2>1, <2>2
    <3> QED BY <2>1, <2>2, <3>1, <3>2 DEF ChoiceIsKnown
  <2>3. CASE r.by # p
    <3>1. shop'[r.by] = shop[r.by] /\ chosen'[r.by] = chosen[r.by]
      BY <1>3, <2>1, <2>3 DEF Becomes
    <3> QED BY <2>1, <3>1 DEF ChoiceIsKnown, ShopInv, ChoicesAreKnown
  <2> QED BY <2>2, <2>3
<1>6. ChoicesAreKnown'
  BY <1>1, <1>5 DEF ShopInv, ChoicesAreKnown
<1> QED BY <1>1, <1>4, <1>6 DEF ShopInv

LEMMA QuietSend ==
  ASSUME ShopInv, NEW p \in People, NEW r, Becomes(walletCall, walletCall', p, r),
         r = walletCall[p] \/ r.kind \notin {"checkout", "answered"},
         \A q \in walletLate' : q \in OfWallets!Asked \/ q.kind = "delete"
  PROVE  NothingIsOrdered
<1>1. \A q \in People : q # p => walletCall'[q] = walletCall[q]
  BY DEF Becomes
<1>2. walletCall[p] \in OfWallets!Asked
  BY DEF OfWallets!Asked
<1>3. \A q \in OfWallets!Asked' : q \in OfWallets!Asked \/ q = r \/ q.kind = "delete"
  BY <1>1 DEF OfWallets!Asked, Becomes
<1> QED BY <1>1, <1>2, <1>3 DEF NothingIsOrdered, Becomes

LEMMA QuietCalls ==
  ASSUME ShopInv, UNCHANGED walletCall,
         \A q \in walletLate' : q \in OfWallets!Asked \/ q.kind = "delete"
  PROVE  NothingIsOrdered
BY DEF NothingIsOrdered, ShopInv, OrdersAreHeard, OfWallets!Asked

(* What is known of the calls after an answer.                             *)
LEMMA AnswerHeard ==
  ASSUME ShopInv, NEW request \in OfWallets!Asked, NEW reply, OfWallets!Answer(request, reply)
  PROVE  /\ DOMAIN walletCall' = People
         /\ \A q \in OfWallets!Asked' : q \in OfWallets!Asked \/ q.kind = "answered"
         /\ \A p \in People :
              \/ walletCall'[p] = walletCall[p]
              \/ /\ walletCall[p] = request /\ p = request.by
                 /\ walletCall'[p].kind = "answered" /\ walletCall'[p].of = request
                 /\ walletCall'[p].reply = reply
<1>0. DOMAIN walletCall = People
  BY DEF ShopInv, OrdersAreHeard
<1>1. CASE /\ walletCall[request.by] = request /\ UNCHANGED walletLate
           /\ walletCall' = [walletCall EXCEPT ![request.by] =
                [kind |-> "answered", of |-> request, reply |-> reply]]
  <2>1. PICK new : new = [kind |-> "answered", of |-> request, reply |-> reply]
    OBVIOUS
  <2>2. new.kind = "answered" /\ new.of = request /\ new.reply = reply
    BY <2>1
  <2>3. \A p \in People : walletCall'[p] = IF p = request.by THEN new ELSE walletCall[p]
    BY <1>0, <1>1, <2>1
  <2>4. DOMAIN walletCall' = People
    BY <1>0, <1>1
  <2>5. \A q \in OfWallets!Asked' : q \in OfWallets!Asked \/ q = new
    BY <1>1, <2>3 DEF OfWallets!Asked
  <2> QED BY <1>1, <2>2, <2>3, <2>4, <2>5
<1>2. CASE UNCHANGED walletCall /\ walletLate' = walletLate \ {request}
  BY <1>0, <1>2 DEF OfWallets!Asked
<1> QED BY <1>1, <1>2 DEF OfWallets!Answer

LEMMA QuietAnswer ==
  ASSUME ShopInv, NEW request \in OfWallets!Asked, NEW reply, OfWallets!Answer(request, reply),
         request.kind # "checkout" \/ reply.kind # "ordered"
  PROVE  NothingIsOrdered
BY AnswerHeard DEF NothingIsOrdered

(* POST /store/checkout: one order for a key.                              *)
LEMMA CheckoutOrders ==
  ASSUME ShopInv, UNCHANGED <<shop, chosen>>, NEW request \in OfWallets!Asked,
         OfWallets!Checkout(request)
  PROVE  ShopInv'
<1> DEFINE known == {o \in order : o.by = request.by /\ o.key = request.key}
<1>1. PICK made : made = [by |-> request.by, key |-> request.key, product |-> request.product,
                          wish |-> request.wish]
  OBVIOUS
<1>2. made.by = request.by /\ made.key = request.key /\ made.wish = request.wish
  BY <1>1
<1>3. PICK reply : reply = [kind |-> "ordered"]
  OBVIOUS
<1>4. /\ request.kind = "checkout" /\ OfWallets!Answer(request, reply)
      /\ \/ known = {} /\ order' = order \cup {made}
         \/ known # {} /\ order' = order
  BY <1>1, <1>3 DEF OfWallets!Checkout
<1>5. order \subseteq order' /\ order' \subseteq order \cup {made} /\ request \in Checkouts
  BY <1>4 DEF Checkouts
<1>6. IsOrdered(request.by, request.key)'
  BY <1>2, <1>4 DEF IsOrdered
<1>7. \A p, key : IsOrdered(p, key) => IsOrdered(p, key)'
  BY <1>5 DEF IsOrdered
<1>8. ShopsAreTrue'
  <2>1. \A p \in People : shop'[p].ordered # Nothing => IsOrdered(p, shop[p].ordered)'
    <3> TAKE p \in People
    <3>1. PICK key : key = shop[p].ordered
      OBVIOUS
    <3>2. key # Nothing => IsOrdered(p, key)'
      BY <1>7, <3>1 DEF ShopInv, ShopsAreTrue
    <3> QED BY <3>1, <3>2 DEF IsOrdered
  <2> QED BY <2>1 DEF ShopInv, ShopsAreTrue, IsShop
<1>9. OrdersAreHeard'
  <2>1. ASSUME NEW p \in People
        PROVE  (/\ walletCall[p].kind = "checkout" => walletCall[p].by = p
                /\ walletCall[p].kind = "answered" /\ walletCall[p].of.kind = "checkout"
                   /\ walletCall[p].reply.kind = "ordered" => IsOrdered(p, walletCall[p].of.key))'
    <3>1. CASE walletCall'[p] = walletCall[p]
      <4>1. PICK key : key = walletCall[p].of.key
        OBVIOUS
      <4>2. walletCall[p].kind = "answered" /\ walletCall[p].of.kind = "checkout"
            /\ walletCall[p].reply.kind = "ordered" => IsOrdered(p, key)'
        BY <1>7, <4>1 DEF ShopInv, OrdersAreHeard
      <4> QED BY <3>1, <4>1, <4>2 DEF ShopInv, OrdersAreHeard, IsOrdered
    <3>2. CASE p = request.by /\ walletCall'[p].kind = "answered" /\ walletCall'[p].of = request
      BY <1>6, <3>2 DEF IsOrdered
    <3> QED BY <1>4, <3>1, <3>2, AnswerHeard
  <2>2. DOMAIN walletCall' = People
    BY <1>4, AnswerHeard
  <2> QED BY <2>1, <2>2 DEF OrdersAreHeard
<1>10. Checkouts' \subseteq Checkouts \cup {made}
  BY <1>4, <1>5, AnswerHeard DEF Checkouts
<1>11. ChoicesAreKnown'
  <2>1. \A r \in Checkouts' : \E s \in Checkouts : r.by = s.by /\ r.wish = s.wish /\ r.key = s.key
    BY <1>2, <1>5, <1>10
  <2>2. \A r \in Checkouts' : ChoiceIsKnown(r)'
    BY <2>1 DEF ShopInv, ChoicesAreKnown, ChoiceIsKnown
  <2>3. \A r, s \in Checkouts' : r.by = s.by /\ r.wish = s.wish => r.key = s.key
    BY <2>1 DEF ShopInv, ChoicesAreKnown
  <2>4. \A o, n \in order' : o.by = n.by /\ o.key = n.key => o = n
    BY <1>2, <1>4, <1>5 DEF ShopInv, ChoicesAreKnown
  <2> QED BY <2>2, <2>3, <2>4 DEF ChoicesAreKnown
<1> QED BY <1>8, <1>9, <1>11 DEF ShopInv

(* An order is sent, with the key of the last one of the same choice.      *)
LEMMA PlaceOrderOrders ==
  ASSUME ShopInv, NEW p \in People, OfWallets!PlaceOrder(p)
  PROVE  ShopInv'
<1> DEFINE product == shop[p].product
<1>0. /\ DOMAIN shop = People /\ chosen \in [People -> Nat] /\ DOMAIN walletCall = People
      /\ IsShop(shop[p])
  BY DEF ShopInv, ShopsAreTrue, OrdersAreHeard
<1>1. /\ product # Nothing /\ UNCHANGED <<order, chosen, walletLate>>
  BY DEF OfWallets!PlaceOrder, OfWallets!serverVars
<1>2. PICK attempt \in IF shop[p].attempt.body = product THEN {shop[p].attempt}
                       ELSE [body : {product}, key : Keys \ OfWallets!UsedKeys] :
        /\ shop' = [shop EXCEPT ![p].attempt = attempt]
        /\ OfWallets!Ask(p, [kind |-> "checkout", by |-> p, product |-> product,
                             key |-> attempt.key, wish |-> chosen[p]])
  BY DEF OfWallets!PlaceOrder
<1>3. /\ attempt.body = product
      /\ shop[p].attempt.body = product => attempt = shop[p].attempt
  BY <1>2
<1>4. PICK s : s = [shop[p] EXCEPT !.attempt = attempt]
  OBVIOUS
<1>5. /\ Becomes(shop, shop', p, s) /\ IsShop(s)
      /\ s.product = product /\ s.attempt = attempt /\ s.ordered = shop[p].ordered
  <2>1. Becomes(shop, shop', p, s)
    BY <1>0, <1>2, <1>4 DEF Becomes
  <2> QED BY <1>0, <1>4, <2>1 DEF IsShop
<1>6. PICK r : r = [kind |-> "checkout", by |-> p, product |-> product, key |-> attempt.key,
                    wish |-> chosen[p]]
  OBVIOUS
<1>7. /\ r.kind = "checkout" /\ r.by = p /\ r.key = attempt.key /\ r.wish = chosen[p]
      /\ Becomes(walletCall, walletCall', p, r)
  BY <1>0, <1>2, <1>6 DEF OfWallets!Ask, Becomes
<1>8. OfWallets!Asked' \subseteq OfWallets!Asked \cup {r}
  <2>1. \A q \in People : walletCall'[q] \in {walletCall[q], r}
    BY <1>7 DEF Becomes
  <2> QED BY <1>1, <2>1 DEF OfWallets!Asked
<1>9. ShopsAreTrue'
  <2>1. ASSUME NEW q \in People
        PROVE  (IsShop(shop[q]) /\ (shop[q].ordered # Nothing => IsOrdered(q, shop[q].ordered)))'
    <3>1. IsShop(shop'[q]) /\ shop'[q].ordered = shop[q].ordered
      BY <1>5 DEF ShopInv, ShopsAreTrue, Becomes
    <3> QED BY <1>1, <3>1 DEF ShopInv, ShopsAreTrue, IsShop, IsOrdered
  <2> QED BY <1>0, <1>1, <1>5, <2>1 DEF ShopsAreTrue, Becomes
<1>10. OrdersAreHeard'
  <2>1. \A q \in People : q # p => walletCall'[q] = walletCall[q]
    BY <1>7 DEF Becomes
  <2>2. walletCall'[p] = r /\ DOMAIN walletCall' = People
    BY <1>7 DEF Becomes
  <2> QED BY <1>1, <1>7, <2>1, <2>2 DEF OrdersAreHeard, ShopInv, IsOrdered
<1>11. Checkouts' \subseteq Checkouts \cup {r}
  BY <1>1, <1>8 DEF Checkouts
<1>12. ASSUME NEW q \in Checkouts
       PROVE  /\ ChoiceIsKnown(q)'
              /\ q.by = p /\ q.wish = chosen[p] => q.key = attempt.key
  <2>1. ChoiceIsKnown(q)
    BY DEF ShopInv, ChoicesAreKnown
  <2>2. q.by = p /\ q.wish = chosen[p] => q.key = attempt.key
    BY <1>1, <1>3, <2>1 DEF ChoiceIsKnown
  <2>3. CASE q.by = p
    BY <1>1, <1>3, <1>5, <2>1, <2>2, <2>3 DEF ChoiceIsKnown, Becomes
  <2>4. CASE q.by # p
    <3>1. shop'[q.by] = shop[q.by]
      BY <1>5, <2>1, <2>4 DEF ChoiceIsKnown, Becomes
    <3> QED BY <1>1, <2>1, <2>2, <3>1 DEF ChoiceIsKnown
  <2> QED BY <2>2, <2>3, <2>4
<1>13. ChoiceIsKnown(r)'
  BY <1>0, <1>1, <1>3, <1>5, <1>7 DEF ChoiceIsKnown, Becomes
<1>14. ChoicesAreKnown'
  <2>1. \A q \in Checkouts' : ChoiceIsKnown(q)'
    BY <1>11, <1>12, <1>13
  <2>2. \A q, t \in Checkouts' : q.by = t.by /\ q.wish = t.wish => q.key = t.key
    BY <1>7, <1>11, <1>12 DEF ShopInv, ChoicesAreKnown
  <2> QED BY <1>1, <2>1, <2>2 DEF ShopInv, ChoicesAreKnown
<1> QED BY <1>9, <1>10, <1>14 DEF ShopInv

LEMMA ServerNextOrders ==
  ASSUME ShopInv, OfWallets!ServerNext
  PROVE  ShopInv'
<1>1. PICK request \in OfWallets!Asked :
        /\ request.kind \notin {"none", "answered"}
        /\ \/ \E q \in Ids : OfWallets!CreateQr(request, q)
           \/ \E i \in IntentIds : OfWallets!CreateIntent(request, i)
           \/ OfWallets!DeleteQr(request) \/ OfWallets!ConfirmIntent(request)
           \/ OfWallets!RejectIntent(request)
           \/ OfWallets!Checkout(request) \/ OfWallets!Refuse(request)
        /\ UNCHANGED <<wallet, banner, approved, OfWallets!shopVars>>
  BY DEF OfWallets!ServerNext
<1>2. UNCHANGED <<shop, chosen>>
  BY <1>1 DEF OfWallets!shopVars
<1>3. ASSUME NEW reply, reply.kind # "ordered", UNCHANGED order,
             OfWallets!Answer(request, reply)
      PROVE  ShopInv'
  BY <1>2, <1>3, QuietAnswer, ShopRests
<1>4. ASSUME NEW q \in Ids, OfWallets!CreateQr(request, q)
      PROVE  ShopInv'
  <2>0. UNCHANGED order
    BY <1>4 DEF OfWallets!CreateQr
  <2>1. PICK reply : reply = [kind |-> "session", qr |-> q]
    OBVIOUS
  <2>2. CASE OfWallets!Answer(request, reply)
    BY <1>3, <2>0, <2>1, <2>2
  <2>3. CASE /\ UNCHANGED walletCall
             /\ walletLate' = (walletLate \ {request})
                              \cup {[kind |-> "delete", by |-> request.by, qr |-> q]}
    <3>1. \A a \in walletLate' : a \in OfWallets!Asked \/ a.kind = "delete"
      BY <2>3 DEF OfWallets!Asked
    <3> QED BY <1>2, <2>0, <2>3, <3>1, QuietCalls, ShopRests
  <2> QED BY <1>4, <2>1, <2>2, <2>3 DEF OfWallets!CreateQr
<1>5. ASSUME NEW i \in IntentIds, OfWallets!CreateIntent(request, i)
      PROVE  ShopInv'
  <2>1. PICK reply : reply = [kind |-> "intent", intent |-> i]
    OBVIOUS
  <2>2. OfWallets!Answer(request, reply) /\ UNCHANGED order
    BY <1>5, <2>1 DEF OfWallets!CreateIntent
  <2> QED BY <1>3, <2>1, <2>2
<1>6. PICK deleted, done, refused :
        /\ deleted = [kind |-> "deleted"] /\ done = [kind |-> "done"]
        /\ refused = OfWallets!Refused
  OBVIOUS
<1>7. deleted.kind # "ordered" /\ done.kind # "ordered" /\ refused.kind # "ordered"
  BY <1>6 DEF OfWallets!Refused
<1>8. CASE OfWallets!DeleteQr(request)
  <2>1. OfWallets!Answer(request, deleted) /\ UNCHANGED order
    BY <1>6, <1>8 DEF OfWallets!DeleteQr
  <2> QED BY <1>3, <1>7, <2>1
<1>9. CASE OfWallets!ConfirmIntent(request)
  <2>1. /\ OfWallets!Answer(request, done) \/ OfWallets!Answer(request, refused)
        /\ UNCHANGED order
    BY <1>6, <1>9 DEF OfWallets!ConfirmIntent
  <2> QED BY <1>3, <1>7, <2>1
<1>10. CASE OfWallets!RejectIntent(request)
  <2>1. OfWallets!Answer(request, done) /\ UNCHANGED order
    BY <1>6, <1>10 DEF OfWallets!RejectIntent
  <2> QED BY <1>3, <1>7, <2>1
<1>11. CASE OfWallets!Refuse(request)
  <2>1. OfWallets!Answer(request, refused) /\ UNCHANGED order
    BY <1>6, <1>11 DEF OfWallets!Refuse, OfWallets!serverVars
  <2> QED BY <1>3, <1>7, <2>1
<1> QED BY <1>1, <1>2, <1>4, <1>5, <1>8, <1>9, <1>10, <1>11, CheckoutOrders

(* What a phone does about a QR or a transfer.                             *)
LEMMA TransfersOrderNothing ==
  ASSUME ShopInv, NEW p \in People,
         \/ OfWallets!ShowQr(p) \/ OfWallets!HearQr(p) \/ OfWallets!RequestDebit(p)
         \/ OfWallets!ConfirmTransfer(p) \/ OfWallets!HearIntent(p) \/ OfWallets!HearDecision(p)
         \/ OfWallets!HearError(p)
         \/ \E decision \in {"confirm", "reject"} :
              OfWallets!DecideOnSheet(p, decision) \/ OfWallets!DecideOnBanner(p, decision)
  PROVE  ShopInv'
<1>0. DOMAIN walletCall = People /\ walletCall[p] \in OfWallets!Asked
  BY DEF ShopInv, OrdersAreHeard, OfWallets!Asked
<1>1. UNCHANGED <<order, shop, chosen>>
  BY DEF OfWallets!ShowQr, OfWallets!HearQr, OfWallets!RequestDebit, OfWallets!ConfirmTransfer,
         OfWallets!HearIntent, OfWallets!HearDecision, OfWallets!HearError,
         OfWallets!DecideOnSheet, OfWallets!DecideOnBanner, OfWallets!Decide,
         OfWallets!serverVars, OfWallets!shopVars
<1>2. \A q \in walletLate' : q \in OfWallets!Asked \/ q.kind = "delete"
  <2>1. CASE OfWallets!ShowQr(p)
    BY <2>1, WithdrawnIsQuiet DEF OfWallets!ShowQr
  <2>2. CASE OfWallets!HearError(p)
    BY <1>0, <2>2 DEF OfWallets!HearError, OfWallets!Asked
  <2>3. CASE UNCHANGED walletLate
    BY <2>3 DEF OfWallets!Asked
  <2> QED BY <2>1, <2>2, <2>3 DEF OfWallets!HearQr, OfWallets!RequestDebit,
             OfWallets!ConfirmTransfer, OfWallets!HearIntent, OfWallets!HearDecision,
             OfWallets!DecideOnSheet, OfWallets!DecideOnBanner, OfWallets!Decide
<1>3. ASSUME NEW r, r.kind \notin {"checkout", "answered"},
             walletCall' = [walletCall EXCEPT ![p] = r]
      PROVE  ShopInv'
  <2>1. Becomes(walletCall, walletCall', p, r)
    BY <1>0, <1>3 DEF Becomes
  <2> QED BY <1>1, <1>2, <1>3, <2>1, QuietSend, ShopRests
<1>4. PICK none : none = OfWallets!NoCall
  OBVIOUS
<1>5. none.kind = "none"
  BY <1>4 DEF OfWallets!NoCall
<1>6. CASE OfWallets!ShowQr(p)
  <2>1. PICK r : r = [kind |-> "qr", by |-> p]
    OBVIOUS
  <2>2. walletCall' = [walletCall EXCEPT ![p] = r]
    BY <1>6, <2>1 DEF OfWallets!ShowQr, OfWallets!Ask
  <2> QED BY <1>3, <2>1, <2>2
<1>7. CASE OfWallets!HearQr(p) \/ OfWallets!HearDecision(p) \/ OfWallets!HearError(p)
  <2>1. walletCall' = [walletCall EXCEPT ![p] = none]
    BY <1>4, <1>7 DEF OfWallets!HearQr, OfWallets!HearDecision, OfWallets!HearError,
                      OfWallets!Hear
  <2> QED BY <1>3, <1>5, <2>1
<1>8. CASE OfWallets!RequestDebit(p) \/ OfWallets!ConfirmTransfer(p)
  <2>1. OfWallets!Propose(p)
    BY <1>8 DEF OfWallets!RequestDebit, OfWallets!ConfirmTransfer
  <2>2. PICK body : body = [qr |-> wallet[p].scanned, kind |-> wallet[p].kind,
                            terms |-> wallet[p].terms]
    OBVIOUS
  <2>3. PICK attempt : OfWallets!Ask(p, [kind |-> "propose", by |-> p, body |-> body,
                                         key |-> attempt.key])
    BY <2>1, <2>2 DEF OfWallets!Propose
  <2>4. PICK r : r = [kind |-> "propose", by |-> p, body |-> body, key |-> attempt.key]
    OBVIOUS
  <2>5. walletCall' = [walletCall EXCEPT ![p] = r]
    BY <2>3, <2>4 DEF OfWallets!Ask
  <2> QED BY <1>3, <2>4, <2>5
<1>9. CASE OfWallets!HearIntent(p)
  <2>1. PICK r : r = [kind |-> "confirm", by |-> p, intent |-> walletCall[p].reply.intent,
                      from |-> "scan"]
    OBVIOUS
  <2>2. \/ walletCall' = [walletCall EXCEPT ![p] = r]
        \/ walletCall' = [walletCall EXCEPT ![p] = none]
    BY <1>4, <1>9, <2>1 DEF OfWallets!HearIntent
  <2> QED BY <1>3, <1>5, <2>1, <2>2
<1>10. ASSUME NEW decision \in {"confirm", "reject"}, NEW i, NEW from,
              OfWallets!Decide(p, i, decision, from)
       PROVE  ShopInv'
  <2>1. PICK r : r = [kind |-> decision, by |-> p, intent |-> i, from |-> from]
    OBVIOUS
  <2>2. walletCall' = [walletCall EXCEPT ![p] = r]
    BY <1>10, <2>1 DEF OfWallets!Decide, OfWallets!Ask
  <2> QED BY <1>3, <2>1, <2>2
<1> QED BY <1>6, <1>7, <1>8, <1>9, <1>10 DEF OfWallets!DecideOnSheet, OfWallets!DecideOnBanner

(* What a phone shows, without a request.                                  *)
LEMMA LooksOrderNothing ==
  ASSUME ShopInv, NEW p \in People,
         \/ OfWallets!Poll(p) \/ OfWallets!BeginClose(p) \/ OfWallets!EndClose(p)
         \/ OfWallets!Preview(p) \/ OfWallets!PollBanner(p)
         \/ \E q \in Ids : OfWallets!Scan(p, q)
         \/ \E kind \in {"p2p_transfer", "staff_debit"}, terms \in Texts :
              OfWallets!Choose(p, kind, terms)
  PROVE  ShopInv'
<1>1. UNCHANGED <<order, shop, chosen, walletCall>>
  BY DEF OfWallets!Poll, OfWallets!BeginClose, OfWallets!EndClose, OfWallets!Preview,
         OfWallets!PollBanner, OfWallets!Scan, OfWallets!Choose, OfWallets!serverVars,
         OfWallets!shopVars
<1>2. CASE OfWallets!EndClose(p)
  BY <1>1, <1>2, WithdrawnIsQuiet, QuietCalls, ShopRests DEF OfWallets!EndClose
<1>3. CASE UNCHANGED walletLate
  <2>1. \A q \in walletLate' : q \in OfWallets!Asked
    BY <1>3 DEF OfWallets!Asked
  <2> QED BY <1>1, <2>1, QuietCalls, ShopRests
<1> QED BY <1>2, <1>3 DEF OfWallets!Poll, OfWallets!BeginClose, OfWallets!Preview,
           OfWallets!PollBanner, OfWallets!Scan, OfWallets!Choose

(* What a phone does in the shop, or when its page goes.                   *)
LEMMA ShoppingOrders ==
  ASSUME ShopInv, NEW p \in People,
         \/ OfWallets!CloseProduct(p) \/ OfWallets!HearOrder(p) \/ OfWallets!Leave(p)
         \/ \E product \in Texts : OfWallets!ChooseProduct(p, product)
  PROVE  ShopInv'
<1>0. /\ DOMAIN walletCall = People /\ walletCall[p] \in OfWallets!Asked
      /\ DOMAIN shop = People /\ chosen \in [People -> Nat] /\ IsShop(shop[p])
  BY DEF ShopInv, OrdersAreHeard, ShopsAreTrue, OfWallets!Asked
<1>1. UNCHANGED order
  BY DEF OfWallets!CloseProduct, OfWallets!HearOrder, OfWallets!Leave, OfWallets!ChooseProduct,
         OfWallets!serverVars
<1>2. PICK none, own : none = OfWallets!NoCall /\ own = walletCall[p]
  OBVIOUS
<1>3. none.kind = "none" /\ Becomes(walletCall, walletCall, p, own)
  BY <1>0, <1>2 DEF OfWallets!NoCall, Becomes
<1>4. \A q \in walletLate : q \in OfWallets!Asked
  BY DEF OfWallets!Asked
<1>5. PICK closed : closed = OfWallets!ClosedShop
  OBVIOUS
<1>6. IsShop(closed) /\ closed.product = Nothing /\ closed.ordered = Nothing
  BY <1>5 DEF IsShop, OfWallets!ClosedShop
<1>7. CASE OfWallets!CloseProduct(p)
  <2>1. Becomes(shop, shop', p, closed) /\ UNCHANGED <<walletCall, walletLate, chosen>>
    BY <1>0, <1>5, <1>7 DEF OfWallets!CloseProduct, Becomes
  <2>2. NothingIsOrdered
    BY <1>4, <2>1, QuietCalls
  <2> QED BY <1>1, <1>6, <2>1, <2>2, ShopTurns
<1>8. CASE OfWallets!HearOrder(p)
  <2>1. PICK s : s = [closed EXCEPT !.ordered = walletCall[p].of.key]
    OBVIOUS
  <2>2. /\ Becomes(shop, shop', p, s) /\ Becomes(walletCall, walletCall', p, none)
        /\ UNCHANGED <<walletLate, chosen>>
    BY <1>0, <1>2, <1>5, <1>8, <2>1 DEF OfWallets!HearOrder, OfWallets!Hear, Becomes
  <2>3. IsShop(s) /\ s.product = Nothing /\ s.ordered = walletCall[p].of.key
    BY <1>6, <2>1 DEF IsShop
  <2>4. IsOrdered(p, walletCall[p].of.key)
    BY <1>8 DEF OfWallets!HearOrder, OfWallets!Hear, ShopInv, OrdersAreHeard
  <2>5. NothingIsOrdered
    BY <1>3, <1>4, <2>2, QuietSend
  <2> QED BY <1>1, <2>2, <2>3, <2>4, <2>5, ShopTurns
<1>9. CASE OfWallets!Leave(p)
  <2>1. /\ Becomes(shop, shop', p, closed) /\ Becomes(walletCall, walletCall', p, none)
        /\ UNCHANGED chosen
    BY <1>0, <1>2, <1>5, <1>9 DEF OfWallets!Leave, Becomes
  <2>2. \A q \in walletLate' : q \in OfWallets!Asked \/ q.kind = "delete"
    BY <1>0, <1>9, WithdrawnIsQuiet DEF OfWallets!Leave
  <2>3. NothingIsOrdered
    BY <1>3, <2>1, <2>2, QuietSend
  <2> QED BY <1>1, <1>6, <2>1, <2>3, ShopTurns
<1>10. ASSUME NEW product \in Texts, OfWallets!ChooseProduct(p, product)
       PROVE  ShopInv'
  <2>1. PICK attempt : attempt = IF shop[p].product = Nothing THEN OfWallets!NoAttempt
                                 ELSE shop[p].attempt
    OBVIOUS
  <2>2. PICK s : s = [shop[p] EXCEPT !.product = product, !.ordered = Nothing,
                                     !.attempt = attempt]
    OBVIOUS
  <2>3. IsShop(s) /\ s.ordered = Nothing
    BY <1>0, <2>2 DEF IsShop
  <2>4. /\ chosen' = [chosen EXCEPT ![p] = @ + 1]
        /\ UNCHANGED <<walletCall, walletLate>>
    BY <1>10 DEF OfWallets!ChooseProduct
  <2>5. shop' = [shop EXCEPT ![p].product = product, ![p].ordered = Nothing,
                             ![p].attempt = attempt]
    BY <1>0, <1>10, <2>1 DEF OfWallets!ChooseProduct, IsShop
  <2>6. Becomes(shop, shop', p, s)
    BY <1>0, <2>2, <2>5 DEF Becomes
  <2>7. NothingIsOrdered
    BY <1>4, <2>4, QuietCalls
  <2> QED BY <1>1, <2>3, <2>4, <2>6, <2>7, ShopTurns
<1> QED BY <1>7, <1>8, <1>9, <1>10

LEMMA InitOrders == OfWallets!Init => ShopInv
<1> SUFFICES ASSUME OfWallets!Init PROVE ShopInv
  OBVIOUS
<1>1. DOMAIN walletCall = People /\ \A p \in People : walletCall[p].kind = "none"
  BY DEF OfWallets!Init, OfWallets!NoCall
<1>2. Checkouts = {}
  BY <1>1 DEF OfWallets!Init, OfWallets!Asked, Checkouts
<1>3. ShopsAreTrue
  <2>1. PICK closed : closed = OfWallets!ClosedShop
    OBVIOUS
  <2>2. IsShop(closed) /\ closed.ordered = Nothing
    BY <2>1 DEF IsShop, OfWallets!ClosedShop
  <2>3. DOMAIN shop = People /\ \A p \in People : shop[p] = closed
    BY <2>1 DEF OfWallets!Init
  <2> QED BY <2>2, <2>3 DEF OfWallets!Init, ShopsAreTrue
<1>4. order = {}
  BY DEF OfWallets!Init
<1> QED BY <1>1, <1>2, <1>3, <1>4 DEF ShopInv, OrdersAreHeard, ChoicesAreKnown

LEMMA NextOrders ==
  ASSUME ShopInv, [OfWallets!Next]_OfWallets!vars
  PROVE  ShopInv'
<1>1. CASE UNCHANGED OfWallets!vars
  <2>1. UNCHANGED <<order, shop, chosen, walletCall, walletLate>>
    BY <1>1 DEF OfWallets!vars, OfWallets!serverVars, OfWallets!phoneVars
  <2>2. \A q \in walletLate' : q \in OfWallets!Asked
    BY <2>1 DEF OfWallets!Asked
  <2> QED BY <2>1, <2>2, QuietCalls, ShopRests
<1>2. ASSUME NEW request \in walletLate, OfWallets!Forget(request)
      PROVE  ShopInv'
  <2>1. UNCHANGED <<order, shop, chosen, walletCall>>
    BY <1>2 DEF OfWallets!Forget, OfWallets!serverVars, OfWallets!shopVars
  <2>2. \A q \in walletLate' : q \in OfWallets!Asked
    BY <1>2 DEF OfWallets!Asked, OfWallets!Forget
  <2> QED BY <2>1, <2>2, QuietCalls, ShopRests
<1> QED BY <1>1, <1>2, ServerNextOrders, TransfersOrderNothing, LooksOrderNothing, ShoppingOrders,
           PlaceOrderOrders DEF OfWallets!Next

LEMMA WhatIsPaidWasShown ==
  ASSUME PayInv, ShopInv
  PROVE  PaidAsShown
<1>1. \A i \in IntentIds : intent[i].status = "completed" =>
        \E a \in approved :
          /\ a[1] = OfWallets!Confirmer(i) /\ a[2] = intent[i].body.terms
          /\ a[3] \in {i, intent[i].qr}
  BY DEF PayInv, IntentsAreMeant, IsApproved
<1>2. \A p \in People : wallet[p].success # Nothing =>
        /\ wallet[p].success.says = "confirmed" =>
             intent[wallet[p].success.intent].status = "completed"
        /\ wallet[p].success.says = "rejected" =>
             intent[wallet[p].success.intent].status \in {"rejected", "expired"}
        /\ wallet[p].success.says = "asked" => intent[wallet[p].success.intent].status # "none"
  BY DEF PayInv, SheetsAreTrue, SheetIsTrue, IsTrue, Begun
<1>3. \A o, other \in order : o.by = other.by /\ o.wish = other.wish => o = other
  BY DEF ShopInv, ChoicesAreKnown, Checkouts
<1>4. \A p \in People : shop[p].ordered # Nothing =>
        \E o \in order : o.by = p /\ o.key = shop[p].ordered
  BY DEF ShopInv, ShopsAreTrue, IsOrdered
<1> QED BY <1>1, <1>2, <1>3, <1>4 DEF PaidAsShown, OfWallets!PaidAsShown

(* wallet-views.tsx: for any number of people, QRs and texts, and whatever  *)
(* requests and answers are lost or late, points are paid only on terms     *)
(* that who had to confirm saw and confirmed; what a sheet says was done    *)
(* was done, and what the shop says was ordered is an order; one choice of  *)
(* a product never makes two orders.                                       *)
THEOREM PaymentsAreAsShown == OfWallets!Spec => []PaidAsShown
<1>1. OfWallets!Init => PayInv /\ ShopInv
  BY InitPays, InitOrders
<1>2. (PayInv /\ ShopInv) /\ [OfWallets!Next]_OfWallets!vars => (PayInv /\ ShopInv)'
  BY NextPays, NextOrders
<1>3. PayInv /\ ShopInv => PaidAsShown
  BY WhatIsPaidWasShown
<1> QED BY <1>1, <1>2, <1>3, PTL DEF OfWallets!Spec
=============================================================================
