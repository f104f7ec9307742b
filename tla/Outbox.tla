------------------------------- MODULE Outbox -------------------------------
(***************************************************************************)
(* Rows of outbox_events, the relay of the worker (worker/src/outbox.ts,   *)
(* index.ts) and the BullMQ queue it fills.  Shared by Broadcasts and      *)
(* CrmSync, which add the rows and what their jobs do.                     *)
(*                                                                         *)
(* A row is one (type, aggregate_type, aggregate_id), which is unique; its *)
(* job is named by the row.  Dispatches overlap: the lock of the relay     *)
(* lasts four seconds, and a batch of a hundred rows may last longer.      *)
(***************************************************************************)
EXTENDS Naturals, FiniteSets

CONSTANTS Rows,         \* what may be announced, a row of the table each
          Relays,       \* dispatches that may overlap
          Workers,      \* jobs that may be run at a time
          MaxTries,     \* attempts of a job
          Nobody

OutboxAssumption == MaxTries \in Nat \ {0} /\ Nobody \notin Workers \cup Rows

VARIABLES row,          \* row -> whether it is there, available, processed
          job,          \* row -> its job
          relay         \* dispatch -> the rows it read and did not deal with

outboxVars == <<row, job, relay>>

RowStatus == {"none", "later", "due", "processed"}
JobStatus == {"none", "waiting", "active", "completed", "failed"}

NoJob == [status |-> "none", tries |-> 0, stalled |-> FALSE, worker |-> Nobody]
Job == [status : JobStatus, tries : 0 .. MaxTries, stalled : BOOLEAN,
        worker : Workers \cup {Nobody}]

(* The rows read, and the one whose job was added and is not marked yet.   *)
Resting == [todo |-> {}, added |-> Nobody]
Dispatch == [todo : SUBSET Rows, added : Rows \cup {Nobody}]

OutboxTypeOK ==
  /\ row \in [Rows -> RowStatus]
  /\ job \in [Rows -> Job]
  /\ relay \in [Relays -> Dispatch]

OutboxInit ==
  /\ row = [r \in Rows |-> "none"]
  /\ job = [r \in Rows |-> NoJob]
  /\ relay = [p \in Relays |-> Resting]

-----------------------------------------------------------------------------

(* INSERT ... ON CONFLICT DO NOTHING, and ON CONFLICT DO UPDATE, which     *)
(* makes a processed row available again.                                  *)
Inserted(rows, status) ==
  [r \in Rows |-> IF r \in rows /\ row[r] = "none" THEN status ELSE row[r]]
Rearmed(rows) == [r \in Rows |-> IF r \in rows THEN "due" ELSE row[r]]

(* Queue.add with the id of a job that is there, be it finished, does      *)
(* nothing.                                                                *)
Added(r) == IF job[r].status = "none" THEN [job EXCEPT ![r].status = "waiting"] ELSE job

ReadRows(p) ==
  LET rows == {r \in Rows : row[r] = "due"}
  IN  /\ relay[p] = Resting /\ rows # {}
      /\ relay' = [relay EXCEPT ![p].todo = rows]
      /\ UNCHANGED <<row, job>>

AddJob(p, r) ==
  /\ r \in relay[p].todo /\ relay[p].added = Nobody
  /\ job' = Added(r)
  /\ relay' = [relay EXCEPT ![p].added = r]
  /\ UNCHANGED row

(* The row is marked processed, though it may have been armed again since. *)
MarkRow(p) ==
  LET r == relay[p].added
  IN  /\ r # Nobody
      /\ row' = [row EXCEPT ![r] = "processed"]
      /\ relay' = [relay EXCEPT ![p] = [todo |-> @.todo \ {r}, added |-> Nobody]]
      /\ UNCHANGED job

Postponed(r) == IF row[r] = "due" THEN [row EXCEPT ![r] = "later"] ELSE row

(* Redis refuses the job, or the database the mark: the row comes again,   *)
(* after a delay.                                                          *)
RelayFails(p, r) ==
  /\ r \in relay[p].todo /\ relay[p].added \in {Nobody, r}
  /\ row' = Postponed(r)
  /\ relay' = [relay EXCEPT ![p] = [todo |-> @.todo \ {r}, added |-> Nobody]]
  /\ UNCHANGED job

Ripen(r) ==
  /\ row[r] = "later"
  /\ row' = [row EXCEPT ![r] = "due"]
  /\ UNCHANGED <<job, relay>>

(* The queue keeps the last thousand jobs that ended.                      *)
Forget(r) ==
  /\ job[r].status \in {"completed", "failed"}
  /\ job' = [job EXCEPT ![r] = NoJob]
  /\ UNCHANGED <<row, relay>>

-----------------------------------------------------------------------------
(* What the consumers of the queue do to a job. *)

Started(r, w) == [job EXCEPT ![r].status = "active", ![r].worker = w]

(* Only the holder of its lock ends a job; to the others nothing happens.  *)
Completed(r, w) ==
  IF job[r].worker = w
  THEN [job EXCEPT ![r].status = "completed", ![r].worker = Nobody] ELSE job

Thrown(r, w) ==
  IF job[r].worker # w THEN job
  ELSE [job EXCEPT ![r].tries = @ + 1, ![r].worker = Nobody,
                   ![r].status = IF job[r].tries + 1 < MaxTries THEN "waiting" ELSE "failed"]

(* The lock of a job ran out: it is run once more, then given up.          *)
Stalled(rows) ==
  [r \in Rows |->
     IF r \notin rows \/ job[r].status # "active" THEN job[r]
     ELSE [job[r] EXCEPT !.stalled = TRUE, !.worker = Nobody,
             !.status = IF job[r].stalled THEN "failed" ELSE "waiting"]]
=============================================================================
