----------------------------- MODULE EventExports -----------------------------
(***************************************************************************)
(* The exports of an event: requested, built by a worker out of what the   *)
(* event holds at that moment, and invalidated when that changes           *)
(* (routes/admin-exports.ts, api/export-storage.ts, worker/exporter.ts,    *)
(* worker/maintenance.ts).                                                 *)
(*                                                                         *)
(* An event holds files and people.  What changes the files invalidates    *)
(* the exports after its own commit; the removal of a person does so in a  *)
(* first transaction and takes the person out in a last one.  The object   *)
(* of an export has a key of its own, and is known by what it contains.    *)
(***************************************************************************)
EXTENDS Naturals, FiniteSets, Sequences

CONSTANTS Exports,       \* exports, by identifier
          Kind,          \* zip, xlsx or csv
          Files, People, \* what the event may hold
          HeldAtFirst,   \* what it holds at first
          Handlers, Workers,   \* requests and builds in progress
          MaxTries,      \* attempts of a job
          Nothing        \* no object

ASSUME EventExportsAssumption ==
  /\ Files \cap People = {} /\ HeldAtFirst \subseteq Files \cup People
  /\ DOMAIN Kind = Exports
  /\ MaxTries \in Nat \ {0}

VARIABLES content,   \* what the event holds
          export,    \* export_jobs
          announced, \* rows export.requested the relay has not processed
          object,    \* the objects of exports
          job,       \* the queue of builds
          worker,    \* builds in progress
          request    \* requests in progress

vars == <<content, export, announced, object, job, worker, request>>

-----------------------------------------------------------------------------

Items == Files \cup People
Contents == SUBSET Items

(* stored: bucket and object_key are set; lapsed: its retention is over. *)
NoExport == [status |-> "none"]
Export == [status : {"queued", "processing", "ready", "failed", "expired"},
           stored : BOOLEAN, lapsed : BOOLEAN]

NoJob == [state |-> "none", tries |-> 0]
Job == [state : {"none", "waiting", "active", "completed", "failed"}, tries : 0 .. MaxTries]

Free == [stage |-> "free"]
Building == [stage : {"read", "started", "discard"}, export : Exports]
              \cup [stage : {"loaded", "uploaded"}, export : Exports, snapshot : Contents]

Idle == [todo |-> <<>>]
Step == {"invalidate", "purge", "purgeOrFail", "forget", "create", "leave"}

TypeOK ==
  /\ content \subseteq Items
  /\ export \in [Exports -> {NoExport} \cup Export]
  /\ announced \subseteq Exports
  /\ object \in [Exports -> {Nothing} \cup Contents]
  /\ job \in [Exports -> Job]
  /\ worker \in [Workers -> {Free} \cup Building]
  /\ \A h \in Handlers : \A i \in DOMAIN request[h].todo : request[h].todo[i] \in Step

Init ==
  /\ content = HeldAtFirst
  /\ export = [e \in Exports |-> NoExport]
  /\ announced = {}
  /\ object = [e \in Exports |-> Nothing]
  /\ job = [e \in Exports |-> NoJob]
  /\ worker = [w \in Workers |-> Free]
  /\ request = [h \in Handlers |-> Idle]

-----------------------------------------------------------------------------

Exists(e) == export[e] # NoExport

(* What an invalidation takes: exports that are not expired, or that still *)
(* have an object to erase.                                                *)
Invalidated(kinds) ==
  {e \in Exports : /\ Exists(e) /\ Kind[e] \in kinds
                   /\ export[e].status # "expired" \/ export[e].stored}

Expired(es) ==
  [e \in Exports |-> IF e \in es THEN [export[e] EXCEPT !.status = "expired", !.lapsed = TRUE]
                     ELSE export[e]]

Erased(es) == [e \in Exports |-> IF e \in es THEN Nothing ELSE object[e]]

Forgotten(es) ==
  [e \in Exports |-> IF e \in es THEN [export[e] EXCEPT !.stored = FALSE] ELSE export[e]]

Enqueued(e) == IF job[e].state = "none" THEN [job EXCEPT ![e].state = "waiting"] ELSE job

Kinds == {Kind[e] : e \in Exports}

-----------------------------------------------------------------------------
(* Requests *)

Take(h, r) == request[h] = Idle /\ request' = [request EXCEPT ![h] = r]
Doing(h, step) == request[h].todo # <<>> /\ Head(request[h].todo) = step

Skip(h, n) ==
  LET rest == SubSeq(request[h].todo, n + 1, Len(request[h].todo))
  IN request' = [request EXCEPT ![h] =
       IF rest = <<>> THEN Idle ELSE [request[h] EXCEPT !.todo = rest]]

(* An upload is reserved, verified or removed, a submission created or     *)
(* removed: the change is committed, and the exports are invalidated then. *)
Change(h, f) ==
  /\ content' = IF f \in content THEN content \ {f} ELSE content \cup {f}
  /\ Take(h, [todo |-> <<"invalidate", "purge", "forget">>, kinds |-> Kinds, files |-> {}])
  /\ UNCHANGED <<export, announced, object, job, worker>>

(* POST /admin/exports replaces the export of the same kind. *)
BeginExport(h, kind) ==
  /\ Take(h, [todo |-> <<"invalidate", "purge", "forget", "create">>, kinds |-> {kind},
              files |-> {}])
  /\ UNCHANGED <<content, export, announced, object, job, worker>>

(* DELETE /admin/events/:eventId/participants/:userId: the first           *)
(* transaction expires the exports; the last takes the person out.         *)
RemovePerson(h, p) ==
  LET es == {e \in Exports : Exists(e)}
  IN /\ p \in content
     /\ export' = Expired(es)
     /\ Take(h, [todo |-> <<"purgeOrFail", "forget", "leave">>, files |-> es, person |-> p])
     /\ UNCHANGED <<content, announced, object, job, worker>>

Invalidate(h) ==
  LET es == Invalidated(request[h].kinds)
  IN /\ Doing(h, "invalidate")
     /\ export' = Expired(es)
     /\ request' = [request EXCEPT ![h].todo = Tail(@), ![h].files = es]
     /\ UNCHANGED <<content, announced, object, job, worker>>

Purge(h) ==
  /\ Doing(h, "purge") \/ Doing(h, "purgeOrFail")
  /\ object' = Erased(request[h].files)
  /\ Skip(h, 1)
  /\ UNCHANGED <<content, export, announced, job, worker>>

(* The store fails: the cleanup is left to maintenance, or the removal to  *)
(* another request.                                                        *)
PurgeFails(h) ==
  /\ \/ Doing(h, "purge") /\ Skip(h, 2)
     \/ Doing(h, "purgeOrFail") /\ request' = [request EXCEPT ![h] = Idle]
  /\ UNCHANGED <<content, export, announced, object, job, worker>>

Forget(h) ==
  /\ Doing(h, "forget")
  /\ export' = Forgotten(request[h].files)
  /\ Skip(h, 1)
  /\ UNCHANGED <<content, announced, object, job, worker>>

Leave(h) ==
  /\ Doing(h, "leave")
  /\ content' = content \ {request[h].person}
  /\ Skip(h, 1)
  /\ UNCHANGED <<export, announced, object, job, worker>>

(* Bug a run must catch: the queue alone is told. *)
CreateUnannounced(h, e) ==
  /\ Doing(h, "create")
  /\ ~Exists(e) /\ Kind[e] \in request[h].kinds
  /\ export' = [export EXCEPT ![e] = [status |-> "queued", stored |-> FALSE, lapsed |-> FALSE]]
  /\ job' \in {job, Enqueued(e)}
  /\ Skip(h, 1)
  /\ UNCHANGED <<content, announced, object, worker>>

(* Queueing the build may fail: the outbox has it. *)
Create(h, e) ==
  /\ Doing(h, "create")
  /\ ~Exists(e) /\ Kind[e] \in request[h].kinds
  /\ export' = [export EXCEPT ![e] = [status |-> "queued", stored |-> FALSE, lapsed |-> FALSE]]
  /\ announced' = announced \cup {e}
  /\ job' \in {job, Enqueued(e)}
  /\ Skip(h, 1)
  /\ UNCHANGED <<content, object, worker>>

Relay(e) ==
  /\ e \in announced
  /\ announced' = announced \ {e}
  /\ job' = Enqueued(e)
  /\ UNCHANGED <<content, export, object, worker, request>>

-----------------------------------------------------------------------------
(* Time and maintenance *)

Lapse(e) ==
  /\ Exists(e) /\ export[e].status = "ready" /\ ~export[e].lapsed
  /\ export' = [export EXCEPT ![e].lapsed = TRUE]
  /\ UNCHANGED <<content, announced, object, job, worker, request>>

Maintain(e) ==
  /\ Exists(e) /\ export[e].stored /\ export[e].lapsed
  /\ export[e].status \in {"ready", "expired"}
  /\ object' = Erased({e})
  /\ export' = [export EXCEPT ![e].status = "expired", ![e].stored = FALSE]
  /\ UNCHANGED <<content, announced, job, worker, request>>

-----------------------------------------------------------------------------
(* buildExport *)

At(w, stage) == worker[w].stage = stage
Release(w) == worker' = [worker EXCEPT ![w] = Free]
Advance(w, r) == worker' = [worker EXCEPT ![w] = r]
Done(w, e) == Release(w) /\ job' = [job EXCEPT ![e].state = "completed"]

TakeJob(w, e) ==
  /\ At(w, "free") /\ job[e].state = "waiting"
  /\ job' = [job EXCEPT ![e].state = "active"]
  /\ Advance(w, [stage |-> "read", export |-> e])
  /\ UNCHANGED <<content, export, announced, object, request>>

(* An export that is ready is left alone; what an expired one may have     *)
(* left behind is erased, unless it expired between read and update.       *)
Start(w) ==
  LET e == worker[w].export
  IN /\ At(w, "read")
     /\ CASE export[e].status = "ready" -> Done(w, e) /\ UNCHANGED <<export, object>>
          [] export[e].status = "expired" ->
               Done(w, e) /\ object' \in {object, Erased({e})} /\ UNCHANGED export
          [] OTHER -> /\ export' = [export EXCEPT ![e].status = "processing"]
                      /\ Advance(w, [stage |-> "started", export |-> e])
                      /\ UNCHANGED <<object, job>>
     /\ UNCHANGED <<content, announced, request>>

Load(w) ==
  /\ At(w, "started")
  /\ Advance(w, [stage |-> "loaded", export |-> worker[w].export, snapshot |-> content])
  /\ UNCHANGED <<content, export, announced, object, job, request>>

Upload(w) ==
  /\ At(w, "loaded")
  /\ object' = [object EXCEPT ![worker[w].export] = worker[w].snapshot]
  /\ worker' = [worker EXCEPT ![w].stage = "uploaded"]
  /\ UNCHANGED <<content, export, announced, job, request>>

(* Bug a run must catch: what became of the row meanwhile is not looked at. *)
FinishAnyway(w) ==
  LET e == worker[w].export
  IN /\ At(w, "uploaded")
     /\ export' = [export EXCEPT ![e] = [status |-> "ready", stored |-> TRUE, lapsed |-> FALSE]]
     /\ Done(w, e)
     /\ UNCHANGED <<content, announced, object, request>>

Finish(w) ==
  LET e == worker[w].export
  IN /\ At(w, "uploaded")
     /\ IF export[e].status = "processing"
        THEN /\ export' = [export EXCEPT ![e] =
                            [status |-> "ready", stored |-> TRUE, lapsed |-> FALSE]]
             /\ Done(w, e)
        ELSE /\ Advance(w, [stage |-> "discard", export |-> e])
             /\ UNCHANGED <<export, job>>
     /\ UNCHANGED <<content, announced, object, request>>

Discard(w) ==
  /\ At(w, "discard")
  /\ object' = Erased({worker[w].export})
  /\ Done(w, worker[w].export)
  /\ UNCHANGED <<content, export, announced, request>>

Retried(e) ==
  [job EXCEPT ![e] = [state |-> IF @.tries + 1 = MaxTries THEN "failed" ELSE "waiting",
                      tries |-> @.tries + 1]]

(* Bug a run must catch: an error takes the export for its own. *)
FailAnyway(w) ==
  LET e == worker[w].export
  IN /\ worker[w].stage \in {"started", "loaded", "uploaded", "discard"}
     /\ export' = [export EXCEPT ![e].status = "failed"]
     /\ Release(w)
     /\ job' = Retried(e)
     /\ UNCHANGED <<content, announced, object, request>>

Fail(w) ==
  LET e == worker[w].export
  IN /\ worker[w].stage \in {"started", "loaded", "uploaded", "discard"}
     /\ export' = IF export[e].status = "processing"
                  THEN [export EXCEPT ![e].status = "failed"] ELSE export
     /\ Release(w)
     /\ job' = Retried(e)
     /\ UNCHANGED <<content, announced, object, request>>

(* The worker dies; the lock of its job runs out, which an alive one       *)
(* renews, and the job, which may stall once, is given to another.         *)
Crash(w) ==
  /\ ~At(w, "free")
  /\ Release(w)
  /\ job' = Retried(worker[w].export)
  /\ UNCHANGED <<content, export, announced, object, request>>

-----------------------------------------------------------------------------

Build(w) ==
  \/ \E e \in Exports : TakeJob(w, e)
  \/ Start(w) \/ Load(w) \/ Upload(w) \/ Finish(w) \/ Discard(w) \/ Fail(w) \/ Crash(w)

Next ==
  \/ \E h \in Handlers :
       \/ \E f \in Files : Change(h, f)
       \/ \E kind \in Kinds : BeginExport(h, kind)
       \/ \E p \in People : RemovePerson(h, p)
       \/ Invalidate(h) \/ Purge(h) \/ PurgeFails(h) \/ Forget(h) \/ Leave(h)
       \/ \E e \in Exports : Create(h, e)
  \/ \E e \in Exports : Relay(e) \/ Lapse(e) \/ Maintain(e)
  \/ \E w \in Workers : Build(w)

Spec == Init /\ [][Next]_vars

(* The relay polls and the queue has a worker.  Nothing else is certain.   *)
Fairness == (\A e \in Exports : WF_vars(Relay(e))) /\ (\A w \in Workers : WF_vars(Build(w)))
FairSpec == Spec /\ Fairness

-----------------------------------------------------------------------------
(* Properties *)

Downloadable(e) == Exists(e) /\ export[e].status = "ready" /\ ~export[e].lapsed

(* An export that can be downloaded has its object (exporter.ts,           *)
(* export-storage.ts and maintenance.ts erase and record in different      *)
(* orders), and that holds the files of the event as they are, but for a   *)
(* change whose invalidation is still to come: a build that read the event *)
(* before the change does not end after it as if nothing had happened.     *)
Invalidating == \E h \in Handlers : Doing(h, "invalidate")
ReadyExportIsCurrent ==
  \A e \in Exports : Downloadable(e) =>
    /\ export[e].stored /\ object[e] # Nothing
    /\ object[e] \cap Files = content \cap Files \/ Invalidating

(* Every export that is asked for is built, expires or fails for good.     *)
Pending(e) == Exists(e) /\ export[e].status \in {"queued", "processing"}
EveryExportIsSettled == \A e \in Exports : Pending(e) ~> ~Pending(e) \/ job[e].state = "failed"
===============================================================================
