------------------------------ MODULE Artifacts ------------------------------
(***************************************************************************)
(* The files of a submission: their upload, verification, promotion to a   *)
(* readable name, and removal (routes/uploads.ts, routes/events.ts,        *)
(* routes/admin.ts, worker/verifier.ts, worker/artifact-promotion.ts,      *)
(* worker/maintenance.ts), between a table of rows, an object store and a  *)
(* queue of jobs that no transaction spans.                                *)
(*                                                                         *)
(* One event, whose files all belong to one user and one field of its      *)
(* form.  An object is known by the artifact its metadata names; its bytes *)
(* are right when they are that artifact's.  A row and its Idempotency-Key *)
(* have one identity.  Storage, scanner and database may fail at any call: *)
(* a request then just ends, or does what its code does about it.          *)
(***************************************************************************)
EXTENDS Naturals, FiniteSets, Sequences, SequencesExt

CONSTANTS Artifacts,     \* artifacts, by Idempotency-Key
          Submissions,   \* the submissions of the user
          Multipart,     \* the artifacts large enough for a multipart upload
          Destinations,  \* by artifact, the lists of names it may be given
          MinItems, MaxItems,   \* the field: how many files it wants, admits
          Commands,      \* the kinds of requests that remove or patch files
          PatchStatuses, \* the statuses an administrator sets
          Handlers, Workers,    \* requests and verifications in flight
          MaxTries,      \* attempts of a job
          MaxStalls,     \* times a job may stall before it is given up
          Suspects,      \* the artifacts that may be dangerous
          Nobody         \* no object

ArtifactStatus == {"uploading", "uploaded", "verifying", "ready", "quarantined",
                   "failed", "deleted"}

ASSUME ArtifactsAssumption ==
  /\ Multipart \subseteq Artifacts /\ Suspects \subseteq Artifacts
  /\ Destinations \in [Artifacts -> SUBSET Seq(STRING)]
  /\ MinItems \in Nat /\ MaxItems \in Nat \ {0}
  /\ Commands \subseteq {"abort", "delete", "deleteSubmission",
                         "removeParticipant", "deleteEvent", "patch"}
  /\ PatchStatuses \subseteq ArtifactStatus
  /\ MaxTries \in Nat \ {0} /\ MaxStalls \in Nat
  /\ Nobody \notin Artifacts

VARIABLES artifact,     \* artifacts
          submission,   \* submissions
          accepting,    \* the event accepts uploads
          outbox,       \* outbox_events about artifacts
          object,       \* the object store
          multipart,    \* its open multipart uploads, by artifact
          infected,     \* what the scanner finds in the bytes of an artifact
          job,          \* the verification queue
          worker,       \* verifications in progress
          request       \* requests in progress

tables == <<artifact, submission, accepting, outbox>>
storage == <<object, multipart, infected>>
vars == <<tables, storage, job, worker, request>>

-----------------------------------------------------------------------------

Incoming(a) == <<"incoming", a>>
Stored(n) == <<"artifacts", n>>
Keys == {Incoming(a) : a \in Artifacts}
          \cup {Stored(n) : n \in UNION {Range(d) : d \in UNION {Destinations[a] : a \in Artifacts}}}

NoArtifact == [status |-> "none", deleted |-> FALSE]
Artifact == [status : ArtifactStatus, submission : Submissions, key : Keys,
             upload : BOOLEAN, deleted : BOOLEAN, purged : BOOLEAN]

(* What a request remembers of a row: where its bytes are. *)
File == [artifact : Artifacts, key : Keys, upload : BOOLEAN]

Row == [type : {"uploaded", "failed"}, id : Artifacts, done : BOOLEAN]
         \cup [type : {"cleanup"}, id : Artifacts, key : Keys, done : BOOLEAN]
         \cup [type : {"ready"}, id : Submissions, done : BOOLEAN]

NoJob == [state |-> "none"]
Job == [state : {"waiting", "completed", "failed"}, tries : 0 .. MaxTries, stalls : 0 .. MaxStalls]
         \cup [state : {"active"}, tries : 0 .. MaxTries, stalls : 0 .. MaxStalls,
               by : Workers]

NameLists == UNION {Destinations[a] : a \in Artifacts}

Free == [stage |-> "free"]
Working ==
  [stage : {"taken"}, artifact : Artifacts, names : NameLists]
    \cup [stage : {"read", "started"}, artifact : Artifacts, key : Keys, names : NameLists]
    \cup [stage : {"copied", "locked", "undo"}, artifact : Artifacts, key : Keys,
          target : Keys, held : SUBSET Keys, whole : BOOLEAN]
    \cup [stage : {"reject"}, artifact : Artifacts, retry : BOOLEAN]

(* What a request has still to do, in the order of its code. *)
Step == {"reserve", "patch", "mark", "markSubmission", "markAll", "list",
         "erase", "eraseOrFail", "note"}
Idle == [todo |-> <<>>]

TypeOK ==
  /\ artifact \in [Artifacts -> {NoArtifact} \cup Artifact]
  /\ submission \in [Submissions ->
       [status : {"draft", "processing", "ready", "failed", "deleted"}, deleted : BOOLEAN]]
  /\ accepting \in BOOLEAN
  /\ outbox \subseteq Row
  /\ object \in [Keys -> Artifacts \cup {Nobody}]
  /\ multipart \subseteq Multipart
  /\ infected \subseteq Suspects
  /\ job \in [Artifacts -> {NoJob} \cup Job]
  /\ worker \in [Workers -> {Free} \cup Working]
  /\ \A h \in Handlers : Range(request[h].todo) \subseteq Step

(* POST /events/:eventId/submissions has made the submissions, for files. *)
Init ==
  /\ artifact = [a \in Artifacts |-> NoArtifact]
  /\ submission = [s \in Submissions |-> [status |-> "draft", deleted |-> FALSE]]
  /\ accepting = TRUE
  /\ outbox = {}
  /\ object = [k \in Keys |-> Nobody]
  /\ multipart = {}
  /\ infected \in SUBSET Suspects
  /\ job = [a \in Artifacts |-> NoJob]
  /\ worker = [w \in Workers |-> Free]
  /\ request = [h \in Handlers |-> Idle]

-----------------------------------------------------------------------------

Exists(a) == artifact[a] # NoArtifact
Live(a) == Exists(a) /\ ~artifact[a].deleted
FilesOf(s) == {a \in Artifacts : Exists(a) /\ artifact[a].submission = s}
LiveFilesOf(s) == {a \in FilesOf(s) : Live(a)}

FileOf(a) == [artifact |-> a, key |-> artifact[a].key, upload |-> artifact[a].upload]

(* The row of an artifact or of a submission is locked while a worker that *)
(* has updated it has not committed.                                       *)
Committing == {w \in Workers : worker[w].stage = "locked"}
RowFree(a) == \A w \in Committing : worker[w].artifact # a
SubmissionFree(s) == \A w \in Committing : artifact[worker[w].artifact].submission # s

(* Rows are unique by type and aggregate: a second one is ignored. *)
Insert(rows, row) ==
  IF \E r \in rows : r.type = row.type /\ r.id = row.id THEN rows ELSE rows \cup {row}

WithUploaded(rows, a) == Insert(rows, [type |-> "uploaded", id |-> a, done |-> FALSE])

(* Queueing a job whose identifier the queue still knows does nothing. *)
Enqueued(a) ==
  IF job[a] = NoJob
  THEN [job EXCEPT ![a] = [state |-> "waiting", tries |-> 0, stalls |-> 0]]
  ELSE job

-----------------------------------------------------------------------------
(* Requests *)

Take(h, r) == request[h] = Idle /\ request' = [request EXCEPT ![h] = r]

Doing(h, step) == request[h].todo # <<>> /\ Head(request[h].todo) = step

(* The request goes on without its first n steps. *)
Skip(h, n) ==
  LET rest == SubSeq(request[h].todo, n + 1, Len(request[h].todo))
  IN request' = [request EXCEPT ![h] =
       IF rest = <<>> THEN Idle ELSE [request[h] EXCEPT !.todo = rest]]

Drop(h) == request' = [request EXCEPT ![h] = Idle]

(* POST /uploads/init reads the submission and its event, and the number   *)
(* of files, before it locks anything; a large file is given its multipart *)
(* upload.  Two requests may carry one key: the artifact that is not       *)
(* inserted leaves an upload that is aborted, or forgotten, and that no    *)
(* row ever names.                                                         *)
BeginInit(h, a, s) ==
  /\ ~Exists(a) /\ accepting /\ ~submission[s].deleted
  /\ Cardinality(LiveFilesOf(s)) < MaxItems
  /\ Take(h, [todo |-> <<"reserve">>, artifact |-> a, submission |-> s])
  /\ UNCHANGED <<tables, storage, job, worker>>

(* Under the locks of the key and of the field: a row that exists is       *)
(* answered as it is; a field that is full refuses.                        *)
Reserve(h) ==
  LET a == request[h].artifact
      s == request[h].submission
  IN /\ Doing(h, "reserve")
     /\ ~Exists(a) /\ Cardinality(LiveFilesOf(s)) < MaxItems
     /\ SubmissionFree(s)
     /\ artifact' = [artifact EXCEPT ![a] =
          [status |-> "uploading", submission |-> s, key |-> Incoming(a),
           upload |-> a \in Multipart, deleted |-> FALSE, purged |-> FALSE]]
     /\ multipart' = multipart \cup ({a} \cap Multipart)
     /\ submission' = [submission EXCEPT ![s].status = "processing"]
     /\ Drop(h)
     /\ UNCHANGED <<accepting, outbox, object, infected, job, worker>>

Refused(h) ==
  /\ Doing(h, "reserve")
  /\ Exists(request[h].artifact)
       \/ Cardinality(LiveFilesOf(request[h].submission)) >= MaxItems
  /\ Drop(h)
  /\ UNCHANGED <<tables, storage, job, worker>>

(* The client sends the bytes with the link it was given, which outlives   *)
(* what becomes of the row; the parts of a large file are assembled by the *)
(* request that completes it, which may die then.                          *)
Put(a) ==
  /\ Exists(a) /\ artifact[a].status \in {"uploading", "deleted"}
  /\ a \in Multipart => a \in multipart /\ artifact[a].status = "uploading"
  /\ object' = [object EXCEPT ![Incoming(a)] = a]
  /\ multipart' = multipart \ {a}
  /\ UNCHANGED <<tables, infected, job, worker, request>>

(* Bug a run must catch: the queue alone is told. *)
CompleteUnrecorded(a) ==
  /\ Live(a) /\ artifact[a].status = "uploading" /\ RowFree(a)
  /\ object[artifact[a].key] = a
  /\ artifact' = [artifact EXCEPT ![a].status = "uploaded", ![a].upload = FALSE]
  /\ job' \in {job, Enqueued(a)}
  /\ UNCHANGED <<submission, accepting, outbox, storage, worker, request>>

(* POST /uploads/:artifactId/complete: the object is found to be the       *)
(* artifact's.  Queueing the job may fail: the row of the outbox stays.    *)
Complete(a) ==
  /\ Live(a) /\ artifact[a].status = "uploading" /\ RowFree(a)
  /\ object[artifact[a].key] = a
  /\ artifact' = [artifact EXCEPT ![a].status = "uploaded", ![a].upload = FALSE]
  /\ outbox' = WithUploaded(outbox, a)
  /\ job' \in {job, Enqueued(a)}
  /\ UNCHANGED <<submission, accepting, storage, worker, request>>

(* Each removal reads what it will erase, marks rows deleted and erases,   *)
(* in its own order.                                                       *)
Begin(h, command, r) == command \in Commands /\ Take(h, r)

(* POST /uploads/:artifactId/abort: the object goes first. *)
BeginAbort(h, a) ==
  /\ Exists(a) /\ artifact[a].status # "ready"
  /\ Begin(h, "abort", [todo |-> <<"erase", "note", "mark">>, files |-> {FileOf(a)}])
  /\ UNCHANGED <<tables, storage, job, worker>>

(* DELETE /artifacts/:artifactId *)
BeginDelete(h, a) ==
  /\ Live(a) /\ accepting
  /\ Begin(h, "delete", [todo |-> <<"mark", "erase", "note">>, files |-> {FileOf(a)}])
  /\ UNCHANGED <<tables, storage, job, worker>>

(* DELETE /events/:eventId/submissions/:submissionId *)
BeginDeleteSubmission(h, s) ==
  /\ accepting
  /\ Begin(h, "deleteSubmission",
           [todo |-> <<"markSubmission", "markAll", "erase", "note">>,
            files |-> {FileOf(a) : a \in LiveFilesOf(s)}, submission |-> s])
  /\ UNCHANGED <<tables, storage, job, worker>>

(* The rows an update marks: those of the request that are in its WHERE. *)
Marked(rows) ==
  [a \in Artifacts |-> IF a \in rows /\ Exists(a)
                       THEN [artifact[a] EXCEPT !.status = "deleted", !.deleted = TRUE]
                       ELSE artifact[a]]

Removed(s) == [status |-> "deleted", deleted |-> TRUE]

(* DELETE /admin/events/:eventId/participants/:userId: rows are marked and *)
(* their keys read in one transaction; a failure to erase is an error, and *)
(* the administrator repeats the request.                                  *)
BeginRemoveParticipant(h) ==
  /\ \A a \in Artifacts : RowFree(a)
  /\ Begin(h, "removeParticipant",
           [todo |-> <<"eraseOrFail", "note">>,
            files |-> {FileOf(a) : a \in {b \in Artifacts : Exists(b)}}])
  /\ submission' = [s \in Submissions |-> Removed(s)]
  /\ artifact' = Marked({a \in Artifacts : Live(a)})
  /\ UNCHANGED <<accepting, outbox, storage, job, worker>>

(* DELETE /admin/events/:eventId: the keys are read after the transaction, *)
(* and all that has the event's prefix goes as well.                       *)
BeginDeleteEvent(h) ==
  /\ \A a \in Artifacts : RowFree(a)
  /\ Begin(h, "deleteEvent", [todo |-> <<"list", "eraseOrFail", "note">>, files |-> {}])
  /\ accepting' = FALSE
  /\ submission' = [s \in Submissions |-> Removed(s)]
  /\ artifact' = Marked(Artifacts)
  /\ UNCHANGED <<outbox, storage, job, worker>>

List(h) ==
  /\ Doing(h, "list")
  /\ request' = [request EXCEPT ![h].todo = Tail(@),
       ![h].files = {FileOf(a) : a \in {b \in Artifacts : Exists(b)}}
         \cup {[artifact |-> a, key |-> Incoming(a), upload |-> TRUE] :
                 a \in {b \in Artifacts : Exists(b)}}]
  /\ UNCHANGED <<tables, storage, job, worker>>

MarkSubmission(h) ==
  LET s == request[h].submission
  IN /\ Doing(h, "markSubmission")
     /\ SubmissionFree(s)
     /\ IF submission[s].deleted
        THEN Drop(h) /\ UNCHANGED submission
        ELSE Skip(h, 1) /\ submission' = [submission EXCEPT ![s] = Removed(s)]
     /\ UNCHANGED <<artifact, accepting, outbox, storage, job, worker>>

(* The update of DELETE and abort is by identifier: whatever the row has   *)
(* become since it was read, it is deleted now.                            *)
Mark(h) ==
  LET rows == IF Doing(h, "markAll") THEN LiveFilesOf(request[h].submission)
              ELSE {f.artifact : f \in request[h].files}
  IN /\ Doing(h, "mark") \/ Doing(h, "markAll")
     /\ \A a \in rows : RowFree(a)
     /\ artifact' = Marked(rows)
     /\ Skip(h, 1)
     /\ UNCHANGED <<submission, accepting, outbox, storage, job, worker>>

ErasedObjects(files) ==
  [k \in Keys |-> IF k \in {f.key : f \in files} THEN Nobody ELSE object[k]]

Aborted(files) == multipart \ {f.artifact : f \in {g \in files : g.upload}}

Erase(h) ==
  /\ Doing(h, "erase") \/ Doing(h, "eraseOrFail")
  /\ object' = ErasedObjects(request[h].files)
  /\ multipart' = Aborted(request[h].files)
  /\ Skip(h, 1)
  /\ UNCHANGED <<tables, infected, job, worker>>

(* The store fails, or the request dies. *)
EraseFails(h) ==
  /\ \/ Doing(h, "erase") /\ Skip(h, 2)
     \/ Doing(h, "eraseOrFail") /\ Drop(h)
  /\ UNCHANGED <<tables, storage, job, worker>>

Purged(rows) ==
  [a \in Artifacts |-> IF a \in rows THEN [artifact[a] EXCEPT !.upload = FALSE, !.purged = TRUE]
                       ELSE artifact[a]]

Note(h) ==
  LET rows == {f.artifact : f \in request[h].files}
  IN /\ Doing(h, "note")
     /\ \A a \in rows : RowFree(a)
     /\ artifact' = Purged(rows)
     /\ Skip(h, 1)
     /\ UNCHANGED <<submission, accepting, outbox, storage, job, worker>>

(* PATCH /admin/artifacts/:artifactId: any status, checked against the row *)
(* as it was read.                                                         *)
BeginPatch(h, a, status) ==
  /\ Exists(a)
  /\ status # "deleted" => ~artifact[a].deleted /\ ~artifact[a].purged
  /\ Begin(h, "patch", [todo |-> <<"patch">>, artifact |-> a, status |-> status])
  /\ UNCHANGED <<tables, storage, job, worker>>

Patch(h) ==
  LET a == request[h].artifact
      status == request[h].status
  IN /\ Doing(h, "patch")
     /\ RowFree(a)
     /\ artifact' = [artifact EXCEPT ![a].status = status, ![a].deleted = status = "deleted"]
     /\ request' = [request EXCEPT ![h] =
          IF status = "deleted"
          THEN [todo |-> <<"erase", "note">>, files |-> {FileOf(a)}] ELSE Idle]
     /\ UNCHANGED <<submission, accepting, outbox, storage, job, worker>>

-----------------------------------------------------------------------------
(* Maintenance, for uploads and removals that are old enough *)

(* An abandoned upload is recovered when its object is there: its bytes    *)
(* came, and the request that would say so did not.                        *)
Reclaim(a) ==
  /\ Exists(a) /\ artifact[a].status = "uploading" /\ RowFree(a)
  /\ IF object[artifact[a].key] = a
     THEN /\ artifact' = [artifact EXCEPT ![a].status = "uploaded", ![a].upload = FALSE]
          /\ outbox' = WithUploaded(outbox, a)
          /\ UNCHANGED storage
     ELSE /\ artifact' = [artifact EXCEPT ![a].status = "failed", ![a].upload = FALSE,
                                          ![a].purged = TRUE]
          /\ object' = ErasedObjects({FileOf(a)})
          /\ multipart' = Aborted({FileOf(a)})
          /\ UNCHANGED outbox
  /\ UNCHANGED <<submission, accepting, infected, job, worker, request>>

(* What a removal could not erase. *)
Sweep(a) ==
  /\ Exists(a) /\ artifact[a].status = "deleted"
  /\ artifact[a].deleted /\ ~artifact[a].purged
  /\ object' = ErasedObjects({FileOf(a)})
  /\ multipart' = Aborted({FileOf(a)})
  /\ artifact' = Purged({a})
  /\ UNCHANGED <<submission, accepting, outbox, infected, job, worker, request>>

(* The relay of the outbox: it queues verifications and erases the objects *)
(* that promotion left behind; the other rows are of other modules.        *)
Relay(row) ==
  /\ ~row.done
  /\ outbox' = (outbox \ {row}) \cup {[row EXCEPT !.done = TRUE]}
  /\ \/ row.type = "uploaded" /\ job' = Enqueued(row.id) /\ UNCHANGED object
     \/ /\ row.type = "cleanup" /\ object' = [object EXCEPT ![row.key] = Nobody]
        /\ UNCHANGED job
  /\ UNCHANGED <<artifact, submission, accepting, multipart, infected, worker, request>>

-----------------------------------------------------------------------------
(* Verification: verifyArtifact, run by BullMQ *)

At(w, stage) == worker[w].stage = stage

(* The job is settled only by the worker that still holds its lock. *)
Settled(w, a, state, tries) ==
  IF job[a].state = "active" /\ job[a].by = w
  THEN [job EXCEPT ![a] = [state |-> state, tries |-> tries, stalls |-> @.stalls]]
  ELSE job

Release(w) == worker' = [worker EXCEPT ![w] = Free]
Advance(w, r) == worker' = [worker EXCEPT ![w] = r]

Done(w, a) == Release(w) /\ job' = Settled(w, a, "completed", job[a].tries)

(* An error: the job is tried again, as often as it may be. *)
Throw(w, a) ==
  /\ Release(w)
  /\ LET tries == job[a].tries + 1
     IN job' = Settled(w, a, IF tries = MaxTries THEN "failed" ELSE "waiting", tries)

(* A worker takes a job and reads the row, where its bytes are, and what   *)
(* the file is to be called.                                               *)
TakeJob(w, a, names) ==
  /\ At(w, "free") /\ job[a].state = "waiting"
  /\ job' = [job EXCEPT ![a] = [state |-> "active", tries |-> @.tries,
                                stalls |-> @.stalls, by |-> w]]
  /\ Advance(w, [stage |-> "taken", artifact |-> a, names |-> names])
  /\ UNCHANGED <<tables, storage, request>>

Read(w) ==
  LET a == worker[w].artifact
      row == artifact[a]
  IN /\ At(w, "taken")
     /\ \/ (row.deleted \/ row.status = "ready") /\ Done(w, a)
        \/ ~row.deleted /\ row.status \in {"uploading", "quarantined"} /\ Throw(w, a)
        \/ /\ ~row.deleted /\ row.status \in {"uploaded", "verifying", "failed"}
           /\ Advance(w, [stage |-> "read", artifact |-> a, key |-> row.key,
                          names |-> worker[w].names])
           /\ UNCHANGED job
     /\ UNCHANGED <<tables, storage, request>>

SetStatus(a, status) == artifact' = [artifact EXCEPT ![a].status = status]

Start(w) ==
  LET a == worker[w].artifact
  IN /\ At(w, "read") /\ RowFree(a)
     /\ IF Live(a) /\ artifact[a].status # "ready"
        THEN /\ SetStatus(a, "verifying")
             /\ worker' = [worker EXCEPT ![w].stage = "started"]
             /\ UNCHANGED job
        ELSE Done(w, a) /\ UNCHANGED artifact
     /\ UNCHANGED <<submission, accepting, outbox, storage, request>>

(* The verdict, which is the same whenever the same bytes are scanned: a   *)
(* dangerous format or a virus.                                            *)
Quarantine(w) ==
  LET a == worker[w].artifact
  IN /\ At(w, "started") /\ RowFree(a)
     /\ object[worker[w].key] = a /\ a \in infected
     /\ IF Live(a)
        THEN /\ SetStatus(a, "quarantined")
             /\ Advance(w, [stage |-> "reject", artifact |-> a, retry |-> FALSE])
             /\ UNCHANGED job
        ELSE Done(w, a) /\ UNCHANGED artifact
     /\ UNCHANGED <<submission, accepting, outbox, storage, request>>

(* An object that is not there or not what was promised, or a call that    *)
(* failed: the transaction of a promotion is rolled back.                  *)
Fail(w) ==
  LET a == worker[w].artifact
  IN /\ At(w, "started") \/ At(w, "copied") \/ At(w, "undo")
     /\ RowFree(a)
     /\ IF Live(a) /\ artifact[a].status # "ready"
        THEN /\ SetStatus(a, "failed")
             /\ Advance(w, [stage |-> "reject", artifact |-> a, retry |-> TRUE])
             /\ UNCHANGED job
        ELSE Done(w, a) /\ UNCHANGED artifact
     /\ UNCHANGED <<submission, accepting, outbox, storage, request>>

(* markSubmissionFailed, a transaction of its own. *)
Reject(w) ==
  LET a == worker[w].artifact
      s == artifact[a].submission
  IN /\ At(w, "reject") /\ SubmissionFree(s)
     /\ IF submission[s].deleted
        THEN UNCHANGED <<submission, outbox>>
        ELSE /\ submission' = [submission EXCEPT ![s].status = "failed"]
             /\ outbox' = Insert(outbox, [type |-> "failed", id |-> a, done |-> TRUE])
     /\ IF worker[w].retry THEN Throw(w, a) ELSE Done(w, a)
     /\ UNCHANGED <<artifact, accepting, storage, request>>

-----------------------------------------------------------------------------
(* Promotion: promoteArtifactObject, one transaction *)

(* The locks on names the promotions under way hold. *)
Held == UNION {worker[v].held : v \in {u \in Workers : At(u, "copied") \/ At(u, "locked")}}

Owns(a, k) == artifact[a].key = k
Taken(a, k) == \E b \in Artifacts \ {a} : Exists(b) /\ artifact[b].key = k

(* The first name that no other row has and no other object.  A name whose *)
(* row is this artifact's and whose object is not is an error (Fail).      *)
Fits(a, k) == ~Taken(a, k) /\ object[k] \in {a, Nobody}
Candidate(a, names) ==
  CHOOSE i \in DOMAIN names :
    /\ Fits(a, Stored(names[i])) \/ Owns(a, Stored(names[i]))
    /\ \A j \in 1 .. i - 1 : ~Fits(a, Stored(names[j])) /\ ~Owns(a, Stored(names[j]))

(* Bug a run must catch: a name is free when no row has it. *)
CopyOver(w) ==
  LET a == worker[w].artifact
      names == worker[w].names
      i == CHOOSE n \in DOMAIN names : /\ ~Taken(a, Stored(names[n]))
                                       /\ \A j \in 1 .. n - 1 : Taken(a, Stored(names[j]))
      k == Stored(names[i])
      held == {Stored(names[j]) : j \in 1 .. i}
  IN /\ At(w, "started")
     /\ object[worker[w].key] = a /\ a \notin infected
     /\ \E j \in DOMAIN names : ~Taken(a, Stored(names[j]))
     /\ object' = [object EXCEPT ![k] = a]
     /\ Advance(w, [stage |-> "copied", artifact |-> a, key |-> worker[w].key,
                    target |-> k, held |-> held, whole |-> FALSE])
     /\ UNCHANGED <<tables, multipart, infected, job, request>>

Copy(w) ==
  LET a == worker[w].artifact
      names == worker[w].names
      i == Candidate(a, names)
      k == Stored(names[i])
      held == {Stored(names[j]) : j \in 1 .. i}
  IN /\ At(w, "started")
     /\ object[worker[w].key] = a /\ a \notin infected
     /\ \E j \in DOMAIN names : Fits(a, Stored(names[j]))
     /\ Fits(a, k)
     /\ held \cap Held = {}
     /\ object' = [object EXCEPT ![k] = a]
     /\ Advance(w, [stage |-> "copied", artifact |-> a, key |-> worker[w].key,
                    target |-> k, held |-> held, whole |-> FALSE])
     /\ UNCHANGED <<tables, multipart, infected, job, request>>

Ready(b) == artifact[b].status = "ready"

(* Bug a run must catch: the files are counted and not looked at.          *)
WholeByCount(a, s) == Cardinality(LiveFilesOf(s) \cup {a}) >= MinItems

(* Every other file is ready, and with this one there are enough. *)
Whole(a, s) ==
  /\ \A b \in LiveFilesOf(s) \ {a} : Ready(b)
  /\ Cardinality(LiveFilesOf(s) \cup {a}) >= MinItems

(* Bugs a run must catch: the files are counted without the lock on the    *)
(* submission; a row that was deleted meanwhile is promoted.               *)
LockUnserialised(w) ==
  LET a == worker[w].artifact
      s == artifact[a].submission
  IN /\ At(w, "copied") /\ RowFree(a)
     /\ IF Live(a)
        THEN worker' = [worker EXCEPT ![w].stage = "locked", ![w].whole = Whole(a, s)]
        ELSE worker' = [worker EXCEPT ![w].stage = "undo"]
     /\ UNCHANGED <<tables, storage, job, request>>

LockDeleted(w) ==
  LET a == worker[w].artifact
      s == artifact[a].submission
  IN /\ At(w, "copied") /\ RowFree(a) /\ SubmissionFree(s)
     /\ worker' = [worker EXCEPT ![w].stage = "locked", ![w].whole = Whole(a, s)]
     /\ UNCHANGED <<tables, storage, job, request>>

(* The row is updated, unless it was deleted, then the submission locked   *)
(* and its files counted.                                                  *)
Lock(w) ==
  LET a == worker[w].artifact
      s == artifact[a].submission
  IN /\ At(w, "copied") /\ RowFree(a)
     /\ IF Live(a)
        THEN /\ SubmissionFree(s)
             /\ worker' = [worker EXCEPT ![w].stage = "locked", ![w].whole = Whole(a, s)]
        ELSE worker' = [worker EXCEPT ![w].stage = "undo"]
     /\ UNCHANGED <<tables, storage, job, request>>

Commit(w) ==
  LET a == worker[w].artifact
      s == artifact[a].submission
      cleanup == [type |-> "cleanup", id |-> a, key |-> worker[w].key, done |-> FALSE]
      cleaned == IF worker[w].key = worker[w].target THEN outbox ELSE Insert(outbox, cleanup)
  IN /\ At(w, "locked")
     /\ artifact' = [artifact EXCEPT ![a].key = worker[w].target, ![a].status = "ready"]
     /\ IF worker[w].whole
        THEN /\ submission' = [submission EXCEPT ![s].status = "ready"]
             /\ outbox' = Insert(cleaned, [type |-> "ready", id |-> s, done |-> TRUE])
        ELSE outbox' = cleaned /\ UNCHANGED submission
     /\ Done(w, a)
     /\ UNCHANGED <<accepting, storage, request>>

(* What was copied for a row that is deleted is erased again. *)
Undo(w) ==
  /\ At(w, "undo")
  /\ object' = [object EXCEPT ![worker[w].target] = Nobody]
  /\ Done(w, worker[w].artifact)
  /\ UNCHANGED <<tables, multipart, infected, request>>

(* The process dies; what it had not committed is rolled back. *)
Crash(w) ==
  /\ ~At(w, "free")
  /\ Release(w)
  /\ UNCHANGED <<tables, storage, job, request>>

(* The lock of a job that its worker does not renew, dead or merely slow,  *)
(* runs out: another worker gets the job, as often as a job may stall.     *)
Stall(a) ==
  /\ job[a].state = "active"
  /\ job' = [job EXCEPT ![a] =
       IF @.stalls = MaxStalls
       THEN [state |-> "failed", tries |-> @.tries, stalls |-> @.stalls]
       ELSE [state |-> "waiting", tries |-> @.tries, stalls |-> @.stalls + 1]]
  /\ UNCHANGED <<tables, storage, worker, request>>

-----------------------------------------------------------------------------

Client ==
  \/ \E h \in Handlers :
       \/ \E a \in Artifacts, s \in Submissions : BeginInit(h, a, s)
       \/ Reserve(h) \/ Refused(h)
  \/ \E a \in Artifacts : Put(a) \/ Complete(a)

Removal ==
  \E h \in Handlers :
    \/ \E a \in Artifacts : BeginAbort(h, a) \/ BeginDelete(h, a)
    \/ \E s \in Submissions : BeginDeleteSubmission(h, s)
    \/ BeginRemoveParticipant(h) \/ BeginDeleteEvent(h)
    \/ \E a \in Artifacts, status \in PatchStatuses : BeginPatch(h, a, status)
    \/ List(h) \/ MarkSubmission(h) \/ Mark(h) \/ Erase(h) \/ EraseFails(h)
    \/ Note(h) \/ Patch(h)

Maintenance == \E a \in Artifacts : Reclaim(a) \/ Sweep(a)

RelayRow == \E row \in outbox : Relay(row)

Verify(w) ==
  \/ \E a \in Artifacts : \E names \in Destinations[a] : TakeJob(w, a, names)
  \/ Read(w) \/ Start(w) \/ Quarantine(w) \/ Fail(w) \/ Reject(w)
  \/ Copy(w) \/ Lock(w) \/ Commit(w) \/ Undo(w)

Next ==
  \/ Client \/ Removal \/ Maintenance \/ RelayRow
  \/ \E w \in Workers : Verify(w) \/ Crash(w)
  \/ \E a \in Artifacts : Stall(a)

(* The relay runs every five seconds, the queue gives waiting jobs to      *)
(* workers, and a job whose worker is gone stalls.                         *)
Lost(a) == Stall(a) /\ worker[job[a].by] = Free

Fairness ==
  /\ WF_vars(RelayRow)
  /\ \A w \in Workers : WF_vars(Verify(w))
  /\ \A a \in Artifacts : WF_vars(Lost(a))

Spec == Init /\ [][Next]_vars
FairSpec == Spec /\ Fairness

-----------------------------------------------------------------------------
(* Properties *)

(* A file that is shown as ready can be downloaded, and is that file: its  *)
(* key has its own object, whatever verifications, crashes and files of    *)
(* the same name came before (verifier.ts, artifact-promotion.ts), while   *)
(* nobody removes any: two verifications of one removed file may both take *)
(* back their copy, the second that of a file promoted in between.         *)
(* An upload that began before its submission was removed may still add a  *)
(* file to it, which is nobody's any more.                                 *)
ReadyHasItsObject ==
  \A s \in Submissions : ~submission[s].deleted =>
    \A a \in FilesOf(s) : artifact[a].status = "ready" => object[artifact[a].key] = a

(* A submission is ready with the last of its files, not before and not    *)
(* never: the last two, verified at the same time, see each other; unless  *)
(* one has failed on the way, or the form wants more (verifier.ts, commit, *)
(* formFileRequirementsMet).                                               *)
AllReady(s) == \A a \in LiveFilesOf(s) : artifact[a].status = "ready"
NoneFailed(s) == \A a \in FilesOf(s) : ~\E r \in outbox : r.type = "failed" /\ r.id = a
SubmissionIsReadyIffWhole ==
  \A s \in Submissions :
    /\ submission[s].status = "ready" => AllReady(s)
    /\ /\ ~submission[s].deleted /\ NoneFailed(s)
       /\ AllReady(s) /\ LiveFilesOf(s) # {} /\ Cardinality(LiveFilesOf(s)) >= MinItems
       => submission[s].status = "ready"

(* A file that was removed stays removed: no upload, verification or       *)
(* recovery that was under way brings it back (verifier.ts, the updates    *)
(* with deletedAt null).                                                   *)
DeletedStaysDeleted ==
  [][\A a \in Artifacts : Exists(a) /\ artifact[a].deleted =>
       artifact'[a].deleted /\ artifact'[a].status = "deleted"]_vars

(* "A file that is ready cannot be aborted": an abort, whose last step     *)
(* marks the row, never finds it ready then (uploads.ts, abort).           *)
ReadyIsNotAborted ==
  [][\A h \in Handlers, a \in Artifacts :
       /\ request[h].todo = <<"mark">> /\ Mark(h)
       /\ artifact[a].status = "ready"
       => artifact'[a].status = "ready"]_vars

(* Every upload that is completed gets a verdict, although the queue may   *)
(* be down when it is completed and a worker may die, unless its job       *)
(* stalls more often than the queue allows.                                *)
Unsettled(a) == artifact[a].status \in {"uploaded", "verifying"}
EveryUploadIsSettled ==
  \A a \in Artifacts : Unsettled(a) ~> ~Unsettled(a) \/ job[a].state = "failed"
=============================================================================
