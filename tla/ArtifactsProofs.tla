---------------------------- MODULE ArtifactsProofs ----------------------------
(***************************************************************************)
(* Theorems about Artifacts: what was removed stays removed, a ready file  *)
(* has its object and a submission is ready with the last of its files,    *)
(* for any number of files, submissions, requests and workers.             *)
(***************************************************************************)
EXTENDS Artifacts, FiniteSetTheorems, SequenceTheorems, TLAPS

Erasure == {"mark", "markSubmission", "markAll", "list", "erase", "eraseOrFail", "note"}

Reserving == [todo : {<<"reserve">>}, artifact : Artifacts, submission : Submissions]
Patching == [todo : {<<"patch">>}, artifact : Artifacts, status : PatchStatuses]
Erasing == [todo : Seq(Erasure), files : SUBSET File]
             \cup [todo : Seq(Erasure), files : SUBSET File, submission : Submissions]

FileTypes ==
  /\ artifact \in [Artifacts -> {NoArtifact} \cup Artifact]
  /\ worker \in [Workers -> {Free} \cup Working]
  /\ request \in [Handlers -> {Idle} \cup Reserving \cup Patching \cup Erasing]

(* A row that is deleted says so twice; one that is being promoted is not. *)
FileInv ==
  /\ FileTypes
  /\ \A a \in Artifacts : artifact[a].deleted => artifact[a].status = "deleted"
  /\ \A w \in Committing : Live(worker[w].artifact)
  /\ \A h \in Handlers : request[h] \in Patching => Exists(request[h].artifact)

LEMMA InitFiles == Init => FileInv
<1> SUFFICES ASSUME Init PROVE FileInv
  OBVIOUS
<1>1. FileTypes /\ (\A a \in Artifacts : ~artifact[a].deleted) /\ Committing = {}
  BY DEF Init, FileTypes, NoArtifact, Free, Committing
<1>2. Idle \notin Patching
  BY DEF Idle, Patching
<1> QED BY <1>1, <1>2 DEF FileInv, Init

LEMMA NoRow == /\ [NoArtifact EXCEPT !.upload = FALSE, !.purged = TRUE] = NoArtifact
               /\ NoArtifact \notin Artifact
BY DEF NoArtifact, Artifact, ArtifactStatus

(* A verification that finds a name that fits takes one of its own names.  *)
LEMMA CandidateIsAName ==
  ASSUME NEW a \in Artifacts, NEW names \in NameLists, ArtifactsAssumption,
         \E j \in DOMAIN names : Fits(a, Stored(names[j]))
  PROVE  /\ Candidate(a, names) \in DOMAIN names
         /\ \A i \in DOMAIN names : Stored(names[i]) \in Keys
<1>1. names \in Seq(STRING)
  BY DEF NameLists, ArtifactsAssumption
<1> DEFINE Suits(i) == Fits(a, Stored(names[i])) \/ Owns(a, Stored(names[i]))
           able == {i \in DOMAIN names : Suits(i)}
<1>2. able \subseteq Nat /\ able # {}
  BY <1>1
<1>3. PICK i \in able : \A j \in able : i <= j
  <2> DEFINE before == OpToRel(<, Nat)
  <2>1. \A m, n \in Nat : m < n => <<m, n>> \in before
    BY DEF OpToRel
  <2>2. IsWellFoundedOn(before, Nat)
    BY NatLessThanWellFounded
  <2> HIDE DEF before, able
  <2>3. PICK i \in able : \A j \in able : ~(<<j, i>> \in before)
    BY <1>2, <2>2, WFMin
  <2>4. ASSUME NEW j \in able PROVE i <= j
    <3>1. i \in Nat /\ j \in Nat /\ ~(j < i)
      BY <1>2, <2>1, <2>3
    <3> QED BY <3>1
  <2> QED BY <2>4
<1>4. \A j \in 1 .. i - 1 : ~Suits(j)
  <2> SUFFICES ASSUME NEW j \in 1 .. i - 1, Suits(j) PROVE FALSE
    OBVIOUS
  <2>1. i \in 1 .. Len(names) /\ DOMAIN names = 1 .. Len(names) /\ Len(names) \in Nat
    BY <1>1, <1>3
  <2>2. j \in able /\ j < i
    BY <2>1
  <2> QED BY <1>2, <1>3, <2>2
<1>5. \E n \in DOMAIN names :
        /\ Fits(a, Stored(names[n])) \/ Owns(a, Stored(names[n]))
        /\ \A j \in 1 .. n - 1 : ~Fits(a, Stored(names[j])) /\ ~Owns(a, Stored(names[j]))
  BY <1>3, <1>4
<1>6. Candidate(a, names) \in DOMAIN names
  BY <1>5, Zenon DEF Candidate
<1>7. \A n \in DOMAIN names : Stored(names[n]) \in Keys
  BY DEF Keys, NameLists, Range
<1> QED BY <1>6, <1>7

LEMMA InKeys == \A a \in Artifacts : Incoming(a) \in Keys
BY DEF Keys

LivesOn(a) == artifact'[a] # NoArtifact /\ ~artifact'[a].deleted

(* Rows are changed, and none comes back or is taken from a promotion.     *)
RowsMove ==
  /\ artifact' \in [Artifacts -> {NoArtifact} \cup Artifact]
  /\ \A a \in Artifacts : Exists(a) => artifact'[a] # NoArtifact
  /\ \A a \in Artifacts : artifact[a].deleted => artifact'[a].deleted
  /\ \A a \in Artifacts : artifact'[a].deleted => artifact'[a].status = "deleted"
  /\ \A w \in Committing : LivesOn(worker[w].artifact)

LEMMA Committed ==
  ASSUME FileInv, NEW w \in Committing
  PROVE  /\ worker[w] \in Working /\ worker[w].artifact \in Artifacts
         /\ worker[w].target \in Keys /\ Live(worker[w].artifact)
BY DEF FileInv, FileTypes, Committing, Working, Free

LEMMA RowsUnchanged == FileInv /\ UNCHANGED artifact => RowsMove
BY Committed DEF FileInv, FileTypes, RowsMove, Live, LivesOn, Exists

LEMMA OneRow ==
  ASSUME FileInv, NEW a \in Artifacts,
         artifact' \in [Artifacts -> {NoArtifact} \cup Artifact],
         \A b \in Artifacts \ {a} : artifact'[b] = artifact[b],
         artifact'[a] # NoArtifact, LivesOn(a) \/ RowFree(a), artifact[a].deleted => artifact'[a].deleted,
         artifact'[a].deleted => artifact'[a].status = "deleted"
  PROVE  RowsMove
<1>1. ASSUME NEW w \in Committing PROVE LivesOn(worker[w].artifact)
  BY Committed DEF Live, LivesOn, Exists, RowFree
<1> QED BY <1>1 DEF FileInv, RowsMove, Exists

LEMMA MarkedRows ==
  ASSUME FileInv, NEW rows, \A a \in rows \cap Artifacts : RowFree(a), artifact' = Marked(rows)
  PROVE  RowsMove
<1>1. \A a \in Artifacts :
        \/ artifact'[a] = artifact[a]
        \/ /\ artifact'[a] \in Artifact /\ artifact'[a].deleted
           /\ artifact'[a].status = "deleted" /\ RowFree(a)
  <2>1. \A a \in Artifacts : Exists(a) => artifact[a] \in Artifact
    BY DEF FileInv, FileTypes, Exists
  <2>2. \A a \in Artifacts : Exists(a) =>
          LET marked == [artifact[a] EXCEPT !.status = "deleted", !.deleted = TRUE]
          IN marked \in Artifact /\ marked.deleted /\ marked.status = "deleted"
    BY <2>1 DEF Artifact, ArtifactStatus
  <2> QED BY <2>2 DEF Marked
<1>2. artifact' \in [Artifacts -> {NoArtifact} \cup Artifact]
  BY <1>1 DEF Marked, FileInv, FileTypes
<1>3. ASSUME NEW w \in Committing PROVE LivesOn(worker[w].artifact)
  BY <1>1, Committed DEF Live, LivesOn, Exists, RowFree, NoArtifact, Artifact
<1> QED BY <1>1, <1>2, <1>3, NoRow DEF RowsMove, FileInv, Exists

LEMMA PurgedRows ==
  ASSUME FileInv, NEW rows, artifact' = Purged(rows)
  PROVE  RowsMove
<1>1. \A a \in Artifacts : artifact[a] \in {NoArtifact} \cup Artifact
  BY DEF FileInv, FileTypes
<1>2. \A a \in Artifacts :
        \/ artifact'[a] = artifact[a]
        \/ artifact[a] # NoArtifact /\ artifact'[a] = [artifact[a] EXCEPT !.upload = FALSE,
                                                                       !.purged = TRUE]
  BY NoRow, Zenon DEF Purged
<1>3. \A a \in Artifacts :
        \/ artifact'[a] = artifact[a]
        \/ /\ artifact[a] \in Artifact /\ artifact'[a] \in Artifact
           /\ artifact'[a].deleted = artifact[a].deleted
           /\ artifact'[a].status = artifact[a].status
  <2>1. \A r \in Artifact :
          LET purged == [r EXCEPT !.upload = FALSE, !.purged = TRUE]
          IN purged \in Artifact /\ purged.deleted = r.deleted /\ purged.status = r.status
    BY DEF Artifact
  <2> QED BY <1>1, <1>2, <2>1
<1>4. artifact' \in [Artifacts -> {NoArtifact} \cup Artifact]
  BY <1>1, <1>3 DEF Purged
<1>5. ASSUME NEW w \in Committing PROVE LivesOn(worker[w].artifact)
  BY <1>3, Committed, NoRow DEF Live, LivesOn, Exists
<1> QED BY <1>3, <1>4, <1>5, NoRow DEF RowsMove, FileInv, Exists

LEMMA RequestOf ==
  ASSUME FileInv, NEW h \in Handlers, request[h].todo # <<>>
  PROVE  LET step == Head(request[h].todo)
         IN /\ request[h] # Idle
            /\ step = "reserve" <=> request[h] \in Reserving
            /\ step = "patch" <=> request[h] \in Patching
            /\ step \in Erasure <=> request[h] \in Erasing
            /\ request[h] \in Reserving \cup Patching \cup Erasing
<1>1. request[h] # Idle /\ request[h] \in Reserving \cup Patching \cup Erasing
  BY DEF FileInv, FileTypes, Idle
<1>2. request[h] \in Reserving => Head(request[h].todo) = "reserve"
  BY DEF Reserving
<1>3. request[h] \in Patching => Head(request[h].todo) = "patch"
  BY DEF Patching
<1>4. request[h] \in Erasing => Head(request[h].todo) \in Erasure
  BY HeadTailProperties DEF Erasing
<1>5. "reserve" \notin Erasure /\ "patch" \notin Erasure
  BY DEF Erasure
<1> QED BY <1>1, <1>2, <1>3, <1>4, <1>5

LEMMA RequestRows ==
  ASSUME FileInv, NEW h \in Handlers, Reserve(h) \/ Mark(h) \/ Note(h) \/ Patch(h),
         PatchStatuses \subseteq {"deleted"}
  PROVE  RowsMove
<1>1. CASE Reserve(h)
  <2>1. PICK a \in Artifacts, s \in Submissions :
          a = request[h].artifact /\ s = request[h].submission
    BY <1>1, RequestOf DEF Reserve, Doing, Reserving
  <2>2. /\ ~Exists(a)
        /\ artifact' = [artifact EXCEPT ![a] =
             [status |-> "uploading", submission |-> s, key |-> Incoming(a),
              upload |-> a \in Multipart, deleted |-> FALSE, purged |-> FALSE]]
    BY <1>1, <2>1 DEF Reserve
  <2>3. /\ artifact' \in [Artifacts -> {NoArtifact} \cup Artifact]
        /\ \A b \in Artifacts \ {a} : artifact'[b] = artifact[b]
        /\ ~artifact'[a].deleted /\ artifact'[a] # NoArtifact
    BY <2>2, InKeys DEF FileInv, FileTypes, Artifact, ArtifactStatus, NoArtifact
  <2>4. ~artifact[a].deleted
    BY <2>2 DEF Exists, NoArtifact
  <2> QED BY <2>3, <2>4, OneRow DEF LivesOn
<1>2. CASE Mark(h)
  BY <1>2, MarkedRows DEF Mark
<1>3. CASE Note(h)
  <2>1. PICK rows : artifact' = Purged(rows)
    BY <1>3 DEF Note
  <2> QED BY <2>1, PurgedRows
<1>4. CASE Patch(h)
  <2>1. request[h] \in Patching
    BY <1>4, RequestOf DEF Patch, Doing
  <2>2. PICK a \in Artifacts : a = request[h].artifact /\ RowFree(a) /\ Exists(a)
    BY <1>4, <2>1 DEF Patch, Patching, FileInv
  <2>3. request[h].status = "deleted"
    BY <2>1 DEF Patching
  <2>4. artifact' = [artifact EXCEPT ![a].status = "deleted", ![a].deleted = TRUE]
    BY <1>4, <2>2, <2>3 DEF Patch
  <2>5. /\ artifact' \in [Artifacts -> {NoArtifact} \cup Artifact]
        /\ \A b \in Artifacts \ {a} : artifact'[b] = artifact[b]
        /\ artifact'[a].deleted /\ artifact'[a].status = "deleted"
        /\ artifact'[a] # NoArtifact
    <3>1. artifact[a] \in Artifact
      BY <2>2 DEF FileInv, FileTypes, Exists
    <3>2. artifact \in [Artifacts -> {NoArtifact} \cup Artifact]
      BY DEF FileInv, FileTypes
    <3>3. [artifact[a] EXCEPT !.status = "deleted", !.deleted = TRUE] \in Artifact
      BY <3>1 DEF Artifact, ArtifactStatus
    <3>4. artifact'[a] = [artifact[a] EXCEPT !.status = "deleted", !.deleted = TRUE]
      BY <2>4, <3>2
    <3> QED BY <2>4, <3>1, <3>2, <3>3, <3>4, NoRow DEF Artifact
  <2> QED BY <2>2, <2>5, OneRow
<1> QED BY <1>1, <1>2, <1>3, <1>4

LEMMA OtherRows ==
  ASSUME FileInv,
         \/ \E h \in Handlers : BeginRemoveParticipant(h) \/ BeginDeleteEvent(h)
         \/ \E a \in Artifacts : Complete(a) \/ Reclaim(a) \/ Sweep(a)
  PROVE  RowsMove
<1>1. \A a \in Artifacts : artifact[a] \in {NoArtifact} \cup Artifact
  BY DEF FileInv, FileTypes
<1>2. ASSUME NEW rows, \A a \in rows \cap Artifacts : RowFree(a), artifact' = Marked(rows)
      PROVE  RowsMove
  BY <1>2, MarkedRows
<1>3. ASSUME NEW h \in Handlers, BeginRemoveParticipant(h) \/ BeginDeleteEvent(h)
      PROVE  RowsMove
  BY <1>2, <1>3 DEF BeginRemoveParticipant, BeginDeleteEvent
<1>4. ASSUME NEW a \in Artifacts, Complete(a) \/ Reclaim(a)
      PROVE  RowsMove
  <2>1. /\ Exists(a) /\ artifact[a].status = "uploading" /\ RowFree(a)
        /\ \/ artifact' = [artifact EXCEPT ![a].status = "uploaded", ![a].upload = FALSE]
           \/ artifact' = [artifact EXCEPT ![a].status = "failed", ![a].upload = FALSE,
                                           ![a].purged = TRUE]
    BY <1>4 DEF Complete, Reclaim, Live
  <2>2. artifact[a] \in Artifact
    BY <1>1, <2>1 DEF Exists
  <2>3. /\ artifact' \in [Artifacts -> {NoArtifact} \cup Artifact]
        /\ \A b \in Artifacts \ {a} : artifact'[b] = artifact[b]
        /\ artifact'[a] \in Artifact /\ artifact'[a].deleted = artifact[a].deleted
    BY <1>1, <2>1, <2>2 DEF FileInv, FileTypes, Artifact, ArtifactStatus
  <2>4. ~artifact[a].deleted
    BY <2>1 DEF FileInv
  <2> QED BY <2>1, <2>3, <2>4, NoRow, OneRow
<1>5. ASSUME NEW a \in Artifacts, Sweep(a) PROVE RowsMove
  <2>1. PICK rows : artifact' = Purged(rows)
    BY <1>5 DEF Sweep
  <2> QED BY <2>1, PurgedRows
<1> QED BY <1>3, <1>4, <1>5

LEMMA WorkerRows ==
  ASSUME FileInv, NEW w \in Workers, Start(w) \/ Quarantine(w) \/ Fail(w) \/ Commit(w)
  PROVE  RowsMove
<1>1. ASSUME NEW a \in Artifacts, NEW status \in ArtifactStatus, SetStatus(a, status), Live(a)
      PROVE  RowsMove
  <2>1. artifact[a] \in Artifact /\ ~artifact[a].deleted
    BY <1>1 DEF FileInv, FileTypes, Live, Exists
  <2>2. /\ artifact' \in [Artifacts -> {NoArtifact} \cup Artifact]
        /\ \A b \in Artifacts \ {a} : artifact'[b] = artifact[b]
        /\ artifact'[a] \in Artifact /\ ~artifact'[a].deleted
    BY <1>1, <2>1 DEF SetStatus, FileInv, FileTypes, Artifact
  <2> QED BY <2>1, <2>2, NoRow, OneRow DEF LivesOn
<1>2. CASE Commit(w)
  <2>1. PICK a \in Artifacts : a = worker[w].artifact /\ Live(a) /\ worker[w].target \in Keys
    BY <1>2, Committed DEF Commit, At, Committing
  <2>2. artifact' = [artifact EXCEPT ![a].key = worker[w].target, ![a].status = "ready"]
    BY <1>2, <2>1 DEF Commit
  <2>3. artifact[a] \in Artifact /\ ~artifact[a].deleted
    BY <2>1 DEF FileInv, FileTypes, Live, Exists
  <2>4. /\ artifact' \in [Artifacts -> {NoArtifact} \cup Artifact]
        /\ \A b \in Artifacts \ {a} : artifact'[b] = artifact[b]
        /\ artifact'[a] \in Artifact /\ ~artifact'[a].deleted
    BY <2>1, <2>2, <2>3 DEF FileInv, FileTypes, Artifact, ArtifactStatus
  <2> QED BY <2>3, <2>4, NoRow, OneRow DEF LivesOn
<1>3. CASE Start(w) \/ Quarantine(w) \/ Fail(w)
  <2>1. PICK a \in Artifacts : a = worker[w].artifact
    BY <1>3 DEF Start, Quarantine, Fail, At, FileInv, FileTypes, Working, Free
  <2>2. \/ artifact' = artifact
        \/ Live(a) /\ \E status \in ArtifactStatus : SetStatus(a, status)
    BY <1>3, <2>1 DEF Start, Quarantine, Fail, ArtifactStatus
  <2> QED BY <1>1, <2>2, RowsUnchanged
<1> QED BY <1>2, <1>3

LEMMA WorkerSteps ==
  ASSUME ArtifactsAssumption, FileInv, NEW w \in Workers, Verify(w) \/ Crash(w)
  PROVE  \E r \in {Free} \cup Working :
           /\ worker' = [worker EXCEPT ![w] = r]
           /\ r.stage = "locked" => Live(r.artifact) /\ UNCHANGED artifact
<1>1. worker \in [Workers -> {Free} \cup Working]
  BY DEF FileInv, FileTypes
<1>2. ASSUME Release(w)
      PROVE  \E r \in {Free} \cup Working :
               /\ worker' = [worker EXCEPT ![w] = r]
               /\ r.stage = "locked" => Live(r.artifact) /\ UNCHANGED artifact
  <2>1. Free.stage # "locked"
    BY DEF Free
  <2> QED BY <1>2, <2>1 DEF Release
<1>3. ASSUME NEW r \in Working, r.stage # "locked", worker' = [worker EXCEPT ![w] = r]
      PROVE  \E q \in {Free} \cup Working :
               /\ worker' = [worker EXCEPT ![w] = q]
               /\ q.stage = "locked" => Live(q.artifact) /\ UNCHANGED artifact
  BY <1>3
<1>4. ASSUME NEW a \in Artifacts, NEW names \in Destinations[a], TakeJob(w, a, names)
      PROVE  \E r \in Working : r.stage # "locked" /\ worker' = [worker EXCEPT ![w] = r]
  <2>1. names \in NameLists
    BY DEF NameLists
  <2>2. [stage |-> "taken", artifact |-> a, names |-> names] \in Working
    BY <2>1 DEF Working
  <2> QED BY <1>4, <2>2 DEF TakeJob, Advance
<1>5. CASE Read(w)
  <2>1. worker[w] \in [stage : {"taken"}, artifact : Artifacts, names : NameLists]
    BY <1>1, <1>5 DEF Read, At, Working, Free
  <2>2. CASE Release(w)
    BY <1>2, <2>2
  <2>3. CASE ~Release(w)
    <3>1. PICK a \in Artifacts, names \in NameLists :
            a = worker[w].artifact /\ names = worker[w].names
      BY <2>1
    <3>2. /\ artifact[a].status \in {"uploaded", "verifying", "failed"}
          /\ Advance(w, [stage |-> "read", artifact |-> a, key |-> artifact[a].key,
                         names |-> names])
      BY <1>5, <2>3, <3>1 DEF Read, Done, Throw
    <3>3. artifact[a].key \in Keys
      BY <3>2 DEF FileInv, FileTypes, Artifact, NoArtifact
    <3> DEFINE r == [stage |-> "read", artifact |-> a, key |-> artifact[a].key, names |-> names]
    <3>4. r \in Working /\ r.stage # "locked"
      BY <3>3 DEF Working
    <3>5. worker' = [worker EXCEPT ![w] = r]
      BY <3>2 DEF Advance
    <3> HIDE DEF r
    <3> QED BY <1>3, <3>4, <3>5
  <2> QED BY <2>2, <2>3
<1>6. CASE Start(w)
  <2>1. PICK a \in Artifacts, k \in Keys, names \in NameLists :
          worker[w] = [stage |-> "read", artifact |-> a, key |-> k, names |-> names]
    BY <1>1, <1>6 DEF Start, At, Working, Free
  <2>2. CASE worker' = [worker EXCEPT ![w].stage = "started"]
    <3> DEFINE r == [stage |-> "started", artifact |-> a, key |-> k, names |-> names]
    <3>1. r \in Working /\ r.stage # "locked"
      BY DEF Working
    <3>2. [worker[w] EXCEPT !.stage = "started"] = r
      BY <2>1
    <3>3. worker' = [worker EXCEPT ![w] = [worker[w] EXCEPT !.stage = "started"]]
      BY <2>2
    <3> HIDE DEF r
    <3> QED BY <1>3, <3>1, <3>2, <3>3
  <2> QED BY <1>2, <1>6, <2>2 DEF Start, Done
<1>7. CASE Quarantine(w) \/ Fail(w)
  <2>1. PICK a \in Artifacts : a = worker[w].artifact
    BY <1>1, <1>7 DEF Quarantine, Fail, At, Working, Free
  <2>2. ASSUME NEW again \in BOOLEAN,
               Advance(w, [stage |-> "reject", artifact |-> a, retry |-> again])
        PROVE  \E r \in Working : r.stage # "locked" /\ worker' = [worker EXCEPT ![w] = r]
    BY <2>2 DEF Advance, Working
  <2> QED BY <1>2, <1>3, <1>7, <2>1, <2>2 DEF Quarantine, Fail, Done
<1>8. CASE Copy(w)
  <2>1. PICK a \in Artifacts, k \in Keys, names \in NameLists :
          worker[w] = [stage |-> "started", artifact |-> a, key |-> k, names |-> names]
    BY <1>1, <1>8 DEF Copy, At, Working, Free
  <2>2. PICK i \in DOMAIN names : i = Candidate(a, names)
    BY <1>8, <2>1, CandidateIsAName DEF Copy
  <2>3. \A j \in DOMAIN names : Stored(names[j]) \in Keys
    BY <1>8, <2>1, CandidateIsAName DEF Copy
  <2>4. \A j \in 1 .. i : Stored(names[j]) \in Keys
    <3>1. names \in Seq(STRING)
      BY DEF NameLists, ArtifactsAssumption
    <3> QED BY <2>3, <3>1
  <2> DEFINE r == [stage |-> "copied", artifact |-> a, key |-> k, target |-> Stored(names[i]),
                   held |-> {Stored(names[j]) : j \in 1 .. i}, whole |-> FALSE]
  <2>5. r \in Working /\ r.stage # "locked"
    BY <2>3, <2>4 DEF Working
  <2>6. worker' = [worker EXCEPT ![w] = r]
    BY <1>8, <2>1, <2>2 DEF Copy, Advance
  <2> HIDE DEF r
  <2> QED BY <1>3, <2>5, <2>6
<1>9. CASE Lock(w)
  <2>1. PICK q \in Working :
          q = worker[w] /\ q \in [stage : {"copied", "locked", "undo"}, artifact : Artifacts,
                                  key : Keys, target : Keys, held : SUBSET Keys,
                                  whole : BOOLEAN]
    BY <1>1, <1>9 DEF Lock, At, Working, Free
  <2>2. PICK whole \in BOOLEAN : whole = Whole(q.artifact, artifact[q.artifact].submission)
    BY DEF Whole
  <2>3. [q EXCEPT !.stage = "locked", !.whole = whole] \in Working
        /\ [q EXCEPT !.stage = "undo"] \in Working
    BY <2>1 DEF Working
  <2>4. CASE Live(q.artifact)
    <3> DEFINE r == [q EXCEPT !.stage = "locked", !.whole = whole]
    <3>1. worker' = [worker EXCEPT ![w] = r] /\ UNCHANGED artifact
      BY <1>9, <2>1, <2>2, <2>4 DEF Lock, tables
    <3>2. r \in Working /\ r.artifact = q.artifact
      BY <2>1, <2>3
    <3> HIDE DEF r
    <3> QED BY <2>4, <3>1, <3>2
  <2>5. CASE ~Live(q.artifact)
    <3> DEFINE r == [q EXCEPT !.stage = "undo"]
    <3>1. worker' = [worker EXCEPT ![w] = r]
      BY <1>9, <2>1, <2>5 DEF Lock
    <3>2. r \in Working /\ r.stage # "locked"
      BY <2>1, <2>3
    <3> HIDE DEF r
    <3> QED BY <1>3, <3>1, <3>2
  <2> QED BY <2>4, <2>5
<1>10. CASE Reject(w) \/ Commit(w) \/ Undo(w) \/ Crash(w)
  BY <1>2, <1>10 DEF Reject, Commit, Undo, Crash, Done, Throw
<1> QED BY <1>3, <1>4, <1>5, <1>6, <1>7, <1>8, <1>9, <1>10 DEF Verify

LEMMA Orders ==
  /\ <<"erase", "note", "mark">> \in Seq(Erasure) /\ <<"mark", "erase", "note">> \in Seq(Erasure)
  /\ <<"markSubmission", "markAll", "erase", "note">> \in Seq(Erasure)
  /\ <<"eraseOrFail", "note">> \in Seq(Erasure)
  /\ <<"list", "eraseOrFail", "note">> \in Seq(Erasure) /\ <<"erase", "note">> \in Seq(Erasure)
BY DEF Erasure

LEMMA Apart == /\ Idle \notin Patching
               /\ \A r \in Reserving \cup Erasing : r \notin Patching
<1>1. Idle \notin Patching
  BY DEF Idle, Patching
<1>2. \A r \in Reserving : r \notin Patching
  BY DEF Reserving, Patching
<1>3. ASSUME NEW r \in Erasing, r \in Patching PROVE FALSE
  <2>1. r.todo \in Seq(Erasure) /\ r.todo = <<"patch">>
    BY <1>3 DEF Erasing, Patching
  <2>2. Head(r.todo) \in Erasure
    BY <2>1, HeadTailProperties
  <2> QED BY <2>1, <2>2 DEF Erasure
<1> QED BY <1>1, <1>2, <1>3

LEMMA FilesOfRows ==
  ASSUME FileInv
  PROVE  /\ \A a \in Artifacts : Exists(a) => FileOf(a) \in File
         /\ \A a \in Artifacts : [artifact |-> a, key |-> Incoming(a), upload |-> TRUE] \in File
<1>1. \A a \in Artifacts : Exists(a) => artifact[a] \in Artifact
  BY DEF FileInv, FileTypes, Exists
<1> QED BY <1>1, InKeys DEF FileOf, File, Artifact

(* A request is another, and patches a row that exists.                    *)
RequestMoves(h) ==
  \E r \in {Idle} \cup Reserving \cup Patching \cup Erasing :
    /\ request' = [request EXCEPT ![h] = r]
    /\ r \in Patching => Exists(r.artifact)

LEMMA Skipped ==
  ASSUME FileInv, NEW h \in Handlers, request[h] \in Erasing, NEW n \in {1, 2}, Skip(h, n)
  PROVE  RequestMoves(h)
<1> DEFINE rest == SubSeq(request[h].todo, n + 1, Len(request[h].todo))
<1>1. \/ request' = [request EXCEPT ![h] = Idle]
      \/ request' = [request EXCEPT ![h] = [request[h] EXCEPT !.todo = rest]]
  <2>1. CASE rest = <<>>
    BY <2>1, Zenon DEF Skip
  <2>2. CASE rest # <<>>
    BY <2>2, Zenon DEF Skip
  <2> QED BY <2>1, <2>2
<1>2. rest \in Seq(Erasure)
  BY SubSeqProperties, LenProperties DEF Erasing
<1> HIDE DEF rest
<1>3. [request[h] EXCEPT !.todo = rest] \in Erasing
  BY <1>2 DEF Erasing
<1> QED BY <1>1, <1>3, Apart DEF RequestMoves

LEMMA BegunErasing ==
  ASSUME NEW h \in Handlers, NEW r \in Erasing, Take(h, r)
  PROVE  RequestMoves(h)
BY Apart DEF Take, RequestMoves

LEMMA RequestSteps ==
  ASSUME FileInv, NEW h \in Handlers,
         \/ \E a \in Artifacts, s \in Submissions : BeginInit(h, a, s)
         \/ Reserve(h) \/ Refused(h)
         \/ \E a \in Artifacts : BeginAbort(h, a) \/ BeginDelete(h, a)
         \/ \E s \in Submissions : BeginDeleteSubmission(h, s)
         \/ BeginRemoveParticipant(h) \/ BeginDeleteEvent(h)
         \/ \E a \in Artifacts, status \in PatchStatuses : BeginPatch(h, a, status)
         \/ List(h) \/ MarkSubmission(h) \/ Mark(h) \/ Erase(h) \/ EraseFails(h)
         \/ Note(h) \/ Patch(h)
  PROVE  RequestMoves(h)
<1>1. ASSUME NEW a \in Artifacts, NEW s \in Submissions, BeginInit(h, a, s)
      PROVE  RequestMoves(h)
  <2>1. [todo |-> <<"reserve">>, artifact |-> a, submission |-> s] \in Reserving
    BY DEF Reserving
  <2> QED BY <1>1, <2>1, Apart DEF BeginInit, Take, RequestMoves
<1>2. ASSUME Drop(h) PROVE RequestMoves(h)
  BY <1>2, Apart DEF Drop, RequestMoves
<1>3. CASE Reserve(h) \/ Refused(h)
  BY <1>2, <1>3 DEF Reserve, Refused
<1>4. ASSUME NEW a \in Artifacts, BeginAbort(h, a) \/ BeginDelete(h, a)
      PROVE  RequestMoves(h)
  <2>1. Exists(a) /\ FileOf(a) \in File
    BY <1>4, FilesOfRows DEF BeginAbort, BeginDelete, Live
  <2>2. \A todo \in Seq(Erasure) : [todo |-> todo, files |-> {FileOf(a)}] \in Erasing
    BY <2>1 DEF Erasing
  <2> QED BY <1>4, <2>2, Orders, BegunErasing DEF BeginAbort, BeginDelete, Begin
<1>5. ASSUME NEW s \in Submissions, BeginDeleteSubmission(h, s)
      PROVE  RequestMoves(h)
  <2> DEFINE files == {FileOf(a) : a \in LiveFilesOf(s)}
  <2>1. files \in SUBSET File
    BY FilesOfRows DEF LiveFilesOf, FilesOf
  <2>2. Take(h, [todo |-> <<"markSubmission", "markAll", "erase", "note">>, files |-> files,
                 submission |-> s])
    BY <1>5 DEF BeginDeleteSubmission, Begin
  <2> HIDE DEF files
  <2>3. [todo |-> <<"markSubmission", "markAll", "erase", "note">>, files |-> files,
         submission |-> s] \in Erasing
    BY <2>1, Orders DEF Erasing
  <2> QED BY <2>2, <2>3, BegunErasing
<1>6. CASE BeginRemoveParticipant(h) \/ BeginDeleteEvent(h)
  <2>1. {FileOf(a) : a \in {b \in Artifacts : Exists(b)}} \in SUBSET File
    BY FilesOfRows
  <2>2. \A todo \in Seq(Erasure), files \in SUBSET File : [todo |-> todo, files |-> files] \in Erasing
    BY DEF Erasing
  <2>3. PICK todo \in Seq(Erasure), files \in SUBSET File :
          Take(h, [todo |-> todo, files |-> files])
    BY <1>6, <2>1, Orders DEF BeginRemoveParticipant, BeginDeleteEvent, Begin
  <2>4. PICK r \in Erasing : r = [todo |-> todo, files |-> files]
    BY <2>2
  <2> QED BY <2>3, <2>4, BegunErasing
<1>7. ASSUME NEW a \in Artifacts, NEW status \in PatchStatuses, BeginPatch(h, a, status)
      PROVE  RequestMoves(h)
  <2> DEFINE r == [todo |-> <<"patch">>, artifact |-> a, status |-> status]
  <2>1. r \in Patching
    BY DEF Patching
  <2>2. r.artifact = a
    OBVIOUS
  <2>3. Exists(a) /\ request' = [request EXCEPT ![h] = r]
    BY <1>7 DEF BeginPatch, Begin, Take
  <2> HIDE DEF r
  <2> QED BY <2>1, <2>2, <2>3 DEF RequestMoves
<1>8. CASE List(h)
  <2> DEFINE files == {FileOf(a) : a \in {b \in Artifacts : Exists(b)}}
                        \cup {[artifact |-> a, key |-> Incoming(a), upload |-> TRUE] :
                                a \in {b \in Artifacts : Exists(b)}}
  <2>1. files \in SUBSET File
    BY FilesOfRows
  <2>2. request[h] \in Erasing /\ request[h].todo # <<>>
    BY <1>8, RequestOf DEF List, Doing, Erasure
  <2>3. request' = [request EXCEPT ![h].todo = Tail(request[h].todo), ![h].files = files]
    BY <1>8 DEF List
  <2> HIDE DEF files
  <2>4. Tail(request[h].todo) \in Seq(Erasure)
    BY <2>2, HeadTailProperties DEF Erasing
  <2>5. [request[h] EXCEPT !.todo = Tail(request[h].todo), !.files = files] \in Erasing
    BY <2>1, <2>2, <2>4 DEF Erasing
  <2>6. request' = [request EXCEPT ![h] =
                      [request[h] EXCEPT !.todo = Tail(request[h].todo), !.files = files]]
    BY <2>3 DEF FileInv, FileTypes
  <2> QED BY <2>5, <2>6, Apart DEF RequestMoves
<1>9. CASE MarkSubmission(h) \/ Mark(h) \/ Erase(h) \/ EraseFails(h) \/ Note(h)
  <2>1. request[h] \in Erasing
    BY <1>9, RequestOf DEF MarkSubmission, Mark, Erase, EraseFails, Note, Doing, Erasure
  <2>2. Skip(h, 1) \/ Skip(h, 2) \/ Drop(h)
    BY <1>9 DEF MarkSubmission, Mark, Erase, EraseFails, Note
  <2> QED BY <1>2, <2>1, <2>2, Skipped
<1>10. CASE Patch(h)
  <2>1. request[h] \in Patching
    BY <1>10, RequestOf DEF Patch, Doing
  <2>2. PICK a \in Artifacts : a = request[h].artifact /\ Exists(a)
    BY <2>1 DEF Patching, FileInv
  <2>3. FileOf(a) \in File
    BY <2>2, FilesOfRows
  <2>4. [todo |-> <<"erase", "note">>, files |-> {FileOf(a)}] \in Erasing
    BY <2>3, Orders DEF Erasing
  <2>5. \/ request' = [request EXCEPT ![h] = [todo |-> <<"erase", "note">>, files |-> {FileOf(a)}]]
        \/ request' = [request EXCEPT ![h] = Idle]
    BY <1>10, <2>2, Zenon DEF Patch
  <2> QED BY <2>4, <2>5, Apart DEF RequestMoves
<1> QED BY <1>1, <1>3, <1>4, <1>5, <1>6, <1>7, <1>8, <1>9, <1>10

LEMMA NextFiles ==
  ASSUME ArtifactsAssumption, PatchStatuses \subseteq {"deleted"}, FileInv, [Next]_vars
  PROVE  FileInv' /\ RowsMove
<1>1. RowsMove
  <2>1. CASE UNCHANGED vars
    BY <2>1, RowsUnchanged DEF vars, tables
  <2>2. CASE \E h \in Handlers : Reserve(h) \/ Mark(h) \/ Note(h) \/ Patch(h)
    BY <2>2, RequestRows
  <2>3. CASE \/ \E h \in Handlers : BeginRemoveParticipant(h) \/ BeginDeleteEvent(h)
             \/ \E a \in Artifacts : Complete(a) \/ Reclaim(a) \/ Sweep(a)
    BY <2>3, OtherRows
  <2>4. CASE \E w \in Workers : Start(w) \/ Quarantine(w) \/ Fail(w) \/ Commit(w)
    BY <2>4, WorkerRows
  <2>5. ASSUME NEW h \in Handlers,
               \/ \E a \in Artifacts, s \in Submissions : BeginInit(h, a, s)
               \/ \E a \in Artifacts : BeginAbort(h, a) \/ BeginDelete(h, a)
               \/ \E s \in Submissions : BeginDeleteSubmission(h, s)
               \/ \E a \in Artifacts, status \in PatchStatuses : BeginPatch(h, a, status)
               \/ Refused(h) \/ List(h) \/ MarkSubmission(h) \/ Erase(h) \/ EraseFails(h)
        PROVE  UNCHANGED artifact
    BY <2>5 DEF BeginInit, BeginAbort, BeginDelete, BeginDeleteSubmission, BeginPatch, Refused,
       List, MarkSubmission, Erase, EraseFails, tables
  <2>6. ASSUME NEW w \in Workers,
               \/ \E a \in Artifacts : \E names \in Destinations[a] : TakeJob(w, a, names)
               \/ Read(w) \/ Reject(w) \/ Copy(w) \/ Lock(w) \/ Undo(w) \/ Crash(w)
        PROVE  UNCHANGED artifact
    BY <2>6 DEF TakeJob, Read, Reject, Copy, Lock, Undo, Crash, tables
  <2>7. (\E a \in Artifacts : Put(a) \/ Stall(a)) \/ RelayRow => UNCHANGED artifact
    BY DEF Put, Stall, RelayRow, Relay, tables
  <2> QED BY <2>1, <2>2, <2>3, <2>4, <2>5, <2>6, <2>7, RowsUnchanged
          DEF Next, Client, Removal, Maintenance, Verify
<1>2. \/ \E h \in Handlers : RequestMoves(h)
      \/ UNCHANGED request
  <2>1. CASE Client \/ Removal
    BY <2>1, RequestSteps DEF Client, Removal, Put, Complete
  <2>2. CASE Maintenance \/ RelayRow \/ \E a \in Artifacts : Stall(a)
    BY <2>2 DEF Maintenance, Reclaim, Sweep, RelayRow, Relay, Stall
  <2>3. CASE \E w \in Workers : Verify(w) \/ Crash(w)
    <3>1. PICK w \in Workers : Verify(w) \/ Crash(w)
      BY <2>3
    <3>2. UNCHANGED request
      BY <3>1 DEF Verify, TakeJob, Read, Start, Quarantine, Fail, Reject, Copy, Lock, Commit,
         Undo, Crash
    <3> QED BY <3>2
  <2> QED BY <2>1, <2>2, <2>3 DEF Next, vars
<1>3. \/ UNCHANGED worker
      \/ \E w \in Workers : \E r \in {Free} \cup Working :
           /\ worker' = [worker EXCEPT ![w] = r]
           /\ r.stage = "locked" => Live(r.artifact) /\ UNCHANGED artifact
  <2>1. CASE \E w \in Workers : Verify(w) \/ Crash(w)
    BY <2>1, WorkerSteps
  <2>2. CASE Client
    BY <2>2 DEF Client, BeginInit, Reserve, Refused, Put, Complete
  <2>3. CASE Removal
    BY <2>3 DEF Removal, BeginAbort, BeginDelete, BeginDeleteSubmission,
       BeginRemoveParticipant, BeginDeleteEvent, BeginPatch, List, MarkSubmission, Mark, Erase,
       EraseFails, Note, Patch
  <2>4. CASE Maintenance \/ RelayRow \/ \E a \in Artifacts : Stall(a)
    BY <2>4 DEF Maintenance, Reclaim, Sweep, RelayRow, Relay, Stall
  <2> QED BY <2>1, <2>2, <2>3, <2>4 DEF Next, vars
<1>4. FileTypes'
  <2>1. request' \in [Handlers -> {Idle} \cup Reserving \cup Patching \cup Erasing]
    BY <1>2 DEF FileInv, FileTypes, RequestMoves
  <2>2. worker' \in [Workers -> {Free} \cup Working]
    BY <1>3 DEF FileInv, FileTypes
  <2> QED BY <1>1, <2>1, <2>2 DEF RowsMove, FileTypes
<1>5. \A w \in Committing' : LivesOn(worker'[w].artifact)
  <2> SUFFICES ASSUME NEW w \in Workers, worker'[w].stage = "locked"
               PROVE  LivesOn(worker'[w].artifact)
    BY DEF Committing
  <2>1. CASE worker'[w] = worker[w]
    BY <1>1, <2>1 DEF RowsMove, Committing
  <2>2. CASE worker'[w] # worker[w]
    <3>1. PICK r \in {Free} \cup Working :
            worker'[w] = r /\ (r.stage = "locked" => Live(r.artifact) /\ UNCHANGED artifact)
      BY <1>3, <2>2 DEF FileInv, FileTypes
    <3> QED BY <3>1 DEF Live, Exists, LivesOn
  <2> QED BY <2>1, <2>2
<1>6. \A h \in Handlers : request'[h] \in Patching => artifact'[request'[h].artifact] # NoArtifact
  <2> SUFFICES ASSUME NEW h \in Handlers, request'[h] \in Patching
               PROVE  artifact'[request'[h].artifact] # NoArtifact
    OBVIOUS
  <2>1. Exists(request'[h].artifact)
    BY <1>2 DEF RequestMoves, FileInv, FileTypes
  <2>2. request'[h].artifact \in Artifacts
    BY DEF Patching
  <2> QED BY <1>1, <2>1, <2>2 DEF RowsMove
<1> QED BY <1>1, <1>4, <1>5, <1>6 DEF FileInv, RowsMove, LivesOn, Live, Exists

(* A file that was removed stays removed, if administrators only remove    *)
(* (the updates of verifier.ts with deletedAt null, and of uploads.ts and  *)
(* maintenance.ts with a status), whatever is under way.                   *)
THEOREM RemovedForGood ==
  ASSUME ArtifactsAssumption, PatchStatuses \subseteq {"deleted"}
  PROVE  Spec => DeletedStaysDeleted
<1>1. FileInv /\ [Next]_vars =>
        [\A a \in Artifacts : Exists(a) /\ artifact[a].deleted =>
           artifact'[a].deleted /\ artifact'[a].status = "deleted"]_vars
  BY NextFiles DEF RowsMove
<1>2. FileInv /\ [Next]_vars => FileInv'
  BY NextFiles
<1> QED BY InitFiles, <1>1, <1>2, PTL DEF Spec, DeletedStaysDeleted

-----------------------------------------------------------------------------
(* Files that nobody removes *)

IsName(k) == k[1] = "artifacts"

(* A row has its file where it was put, until it is promoted to a name.    *)
RowHolds(a) ==
  /\ ~artifact[a].deleted /\ artifact[a].status # "deleted"
  /\ Ready(a) => /\ IsName(artifact[a].key) /\ object[artifact[a].key] = a
                 /\ a \notin infected
  /\ ~Ready(a) => artifact[a].key = Incoming(a)

(* What is copied stays where it is while the promotion goes on.           *)
WorkHolds(w) ==
  LET a == worker[w].artifact
  IN /\ worker[w].stage # "undo"
     /\ worker[w].stage \in {"read", "started", "copied", "locked", "reject"} => Exists(a)
     /\ worker[w].stage \in {"read", "started", "copied", "locked"} =>
          worker[w].key = Incoming(a)
     /\ worker[w].stage \in {"copied", "locked"} =>
          /\ IsName(worker[w].target) /\ object[worker[w].target] = a
          /\ a \notin infected

PromotionInv ==
  /\ FileInv
  /\ outbox \subseteq Row
  /\ object \in [Keys -> Artifacts \cup {Nobody}]
  /\ \A h \in Handlers : request[h] \in {Idle} \cup Reserving
  /\ \A a \in Artifacts : Exists(a) => RowHolds(a)
  /\ \A w \in Workers : WorkHolds(w)
  /\ \A r \in outbox : r.type = "cleanup" => r.key = Incoming(r.id)

NoRemovals == Commands = {} /\ PatchStatuses = {}

LEMMA Names == /\ \A a \in Artifacts : ~IsName(Incoming(a))
               /\ \A n : IsName(Stored(n))
BY DEF IsName, Incoming, Stored

LEMMA InitPromotion == Init => PromotionInv
<1> SUFFICES ASSUME Init PROVE PromotionInv
  OBVIOUS
<1>1. FileInv
  BY InitFiles
<1>2. \A a \in Artifacts : ~Exists(a)
  BY DEF Init, Exists
<1>3. \A w \in Workers : WorkHolds(w)
  BY DEF Init, WorkHolds, Free
<1> QED BY <1>1, <1>2, <1>3 DEF Init, PromotionInv

(* What can happen then, but for what nobody sees.                         *)
LEMMA Steps ==
  ASSUME NoRemovals, PromotionInv, [Next]_vars
  PROVE  \/ \E h \in Handlers : \/ \E a \in Artifacts, s \in Submissions : BeginInit(h, a, s)
                                \/ Reserve(h) \/ Refused(h)
         \/ \E a \in Artifacts : Put(a) \/ Complete(a) \/ Reclaim(a) \/ Stall(a)
         \/ \E r \in outbox : Relay(r)
         \/ \E w \in Workers :
              \/ \E a \in Artifacts : \E names \in Destinations[a] : TakeJob(w, a, names)
              \/ Read(w) \/ Start(w) \/ Quarantine(w) \/ Fail(w) \/ Reject(w)
              \/ Copy(w) \/ Lock(w) \/ Commit(w) \/ Crash(w)
         \/ UNCHANGED vars
<1>1. ~Removal
  <2> SUFFICES ASSUME NEW h \in Handlers,
                      List(h) \/ MarkSubmission(h) \/ Mark(h) \/ Erase(h) \/ EraseFails(h)
                        \/ Note(h) \/ Patch(h)
               PROVE  FALSE
    BY DEF Removal, BeginAbort, BeginDelete, BeginDeleteSubmission, BeginRemoveParticipant,
           BeginDeleteEvent, BeginPatch, Begin, NoRemovals
  <2>1. request[h].todo # <<>> /\ Head(request[h].todo) # "reserve"
    BY DEF List, MarkSubmission, Mark, Erase, EraseFails, Note, Patch, Doing
  <2> QED BY <2>1 DEF PromotionInv, Idle, Reserving
<1>2. \A a \in Artifacts : ~Sweep(a)
  BY DEF Sweep, PromotionInv, RowHolds
<1>3. \A w \in Workers : ~Undo(w)
  BY DEF Undo, At, PromotionInv, WorkHolds
<1> QED BY <1>1, <1>2, <1>3 DEF Next, Client, Maintenance, RelayRow, Verify

(* An object that has a name keeps it: names are not given twice.          *)
NamesStay ==
  /\ object' \in [Keys -> Artifacts \cup {Nobody}]
  /\ \A k \in Keys : IsName(k) /\ object[k] # Nobody => object'[k] = object[k]
  /\ UNCHANGED infected

LEMMA Objects ==
  ASSUME ArtifactsAssumption, NoRemovals, PromotionInv, [Next]_vars
  PROVE  NamesStay
<1>1. ASSUME NEW a \in Artifacts, object' = [object EXCEPT ![Incoming(a)] = a], UNCHANGED infected
      PROVE  NamesStay
  BY <1>1, InKeys, Names DEF NamesStay, PromotionInv
<1>2. ASSUME NEW files, \A f \in files : f.key \in {Incoming(a) : a \in Artifacts},
             object' = ErasedObjects(files), UNCHANGED infected
      PROVE  NamesStay
  BY <1>2, Names DEF NamesStay, PromotionInv, ErasedObjects
<1>3. ASSUME NEW a \in Artifacts, Reclaim(a) PROVE NamesStay
  <2>1. artifact[a].key = Incoming(a)
    BY <1>3 DEF Reclaim, PromotionInv, RowHolds, Ready
  <2>2. CASE UNCHANGED object
    BY <1>3, <2>2 DEF NamesStay, PromotionInv, Reclaim, storage
  <2>3. CASE object' = ErasedObjects({FileOf(a)})
    <3>1. FileOf(a).key = Incoming(a)
      BY <2>1 DEF FileOf
    <3> QED BY <1>2, <1>3, <2>3, <3>1 DEF Reclaim, storage
  <2> QED BY <1>3, <2>2, <2>3 DEF Reclaim, storage
<1>4. ASSUME NEW r \in outbox, Relay(r) PROVE NamesStay
  <2>1. CASE UNCHANGED object
    BY <1>4, <2>1 DEF NamesStay, PromotionInv, Relay
  <2>2. CASE r.type = "cleanup" /\ object' = [object EXCEPT ![r.key] = Nobody]
    <3>1. r \in Row /\ r.id \in Artifacts /\ r.key = Incoming(r.id)
      BY <2>2 DEF PromotionInv, Row
    <3>2. UNCHANGED infected
      BY <1>4 DEF Relay
    <3>3. ~IsName(r.key)
      BY <3>1, Names
    <3>4. object' \in [Keys -> Artifacts \cup {Nobody}]
      BY <2>2 DEF PromotionInv
    <3> QED BY <2>2, <3>2, <3>3, <3>4 DEF NamesStay, PromotionInv
  <2> QED BY <1>4, <2>1, <2>2 DEF Relay
<1>5. ASSUME NEW w \in Workers, Copy(w) PROVE NamesStay
  <2>1. PICK a \in Artifacts, names \in NameLists :
          a = worker[w].artifact /\ names = worker[w].names
    BY <1>5 DEF Copy, At, PromotionInv, FileInv, FileTypes, Working, Free
  <2>2. PICK k \in Keys : k = Stored(names[Candidate(a, names)])
    BY <1>5, <2>1, CandidateIsAName DEF Copy
  <2>3. Fits(a, k) /\ object' = [object EXCEPT ![k] = a] /\ UNCHANGED infected
    BY <1>5, <2>1, <2>2 DEF Copy
  <2>4. object[k] \in {a, Nobody}
    BY <2>3 DEF Fits
  <2> QED BY <2>3, <2>4 DEF NamesStay, PromotionInv
<1>6. ASSUME UNCHANGED <<object, infected>> PROVE NamesStay
  BY <1>6 DEF NamesStay, PromotionInv
<1>7. ASSUME NEW h \in Handlers,
             \/ \E a \in Artifacts, s \in Submissions : BeginInit(h, a, s)
             \/ Reserve(h) \/ Refused(h)
      PROVE  UNCHANGED <<object, infected>>
  BY <1>7 DEF BeginInit, Reserve, Refused, storage
<1>8. ASSUME NEW w \in Workers,
             \/ \E a \in Artifacts : \E names \in Destinations[a] : TakeJob(w, a, names)
             \/ Read(w) \/ Start(w) \/ Quarantine(w) \/ Fail(w) \/ Reject(w)
             \/ Lock(w) \/ Commit(w) \/ Crash(w)
      PROVE  UNCHANGED <<object, infected>>
  BY <1>8 DEF TakeJob, Read, Start, Quarantine, Fail, Reject, Lock, Commit, Crash, storage
<1>9. \A a \in Artifacts : Complete(a) \/ Stall(a) => UNCHANGED <<object, infected>>
  BY DEF Complete, Stall, storage
<1>10. \A a \in Artifacts : Put(a) => NamesStay
  BY <1>1 DEF Put
<1>11. UNCHANGED vars => UNCHANGED <<object, infected>>
  BY DEF vars, storage
<1> QED BY Steps, <1>3, <1>4, <1>5, <1>6, <1>7, <1>8, <1>9, <1>10, <1>11

LEMMA RowsHold ==
  ASSUME ArtifactsAssumption, NoRemovals, PromotionInv, [Next]_vars,
         NEW b \in Artifacts, artifact'[b] # NoArtifact
  PROVE  RowHolds(b)'
<1>1. /\ NamesStay
      /\ artifact \in [Artifacts -> {NoArtifact} \cup Artifact]
      /\ artifact' \in [Artifacts -> {NoArtifact} \cup Artifact]
  BY Objects, NextFiles DEF NoRemovals, PromotionInv, RowsMove, FileInv, FileTypes
<1>2. ASSUME artifact'[b] = artifact[b] PROVE RowHolds(b)'
  <2>1. RowHolds(b) /\ artifact[b].key \in Keys
    BY <1>1, <1>2, NoRow DEF PromotionInv, Exists, Artifact
  <2>2. Ready(b) => object'[artifact[b].key] = b
    BY <1>1, <2>1 DEF RowHolds, NamesStay, ArtifactsAssumption
  <2> QED BY <1>1, <1>2, <2>1, <2>2 DEF RowHolds, Ready, NamesStay
<1>3. ASSUME Exists(b), ~Ready(b),
             artifact'[b].key = artifact[b].key /\ artifact'[b].deleted = artifact[b].deleted,
             artifact'[b].status \notin {"ready", "deleted"}
      PROVE  RowHolds(b)'
  BY <1>3 DEF RowHolds, Ready, PromotionInv
<1>4. ASSUME NEW a \in Artifacts, NEW status \in ArtifactStatus \ {"ready", "deleted"},
             SetStatus(a, status), Exists(a), ~Ready(a)
      PROVE  RowHolds(b)'
  <2>1. CASE a = b
    <3>1. artifact[b] \in Artifact
      BY <1>1, <1>4, <2>1 DEF Exists
    <3>2. /\ artifact'[b].key = artifact[b].key /\ artifact'[b].deleted = artifact[b].deleted
          /\ artifact'[b].status = status
      BY <1>1, <1>4, <2>1, <3>1 DEF SetStatus, Artifact
    <3> QED BY <1>3, <1>4, <2>1, <3>2
  <2>2. CASE a # b
    BY <1>1, <1>2, <1>4, <2>2 DEF SetStatus
  <2> QED BY <2>1, <2>2
<1>5. ASSUME NEW h \in Handlers, Reserve(h) PROVE RowHolds(b)'
  <2>1. PICK a : /\ a = request[h].artifact
                 /\ artifact' = [artifact EXCEPT ![a] =
                      [status |-> "uploading", submission |-> request[h].submission,
                       key |-> Incoming(a), upload |-> a \in Multipart, deleted |-> FALSE,
                       purged |-> FALSE]]
    BY <1>5 DEF Reserve
  <2>2. CASE a = b
    BY <1>1, <2>1, <2>2 DEF RowHolds, Ready
  <2>3. CASE a # b
    BY <1>1, <1>2, <2>1, <2>3
  <2> QED BY <2>2, <2>3
<1>6. ASSUME NEW a \in Artifacts, Complete(a) \/ Reclaim(a) PROVE RowHolds(b)'
  <2>1. /\ Exists(a) /\ ~Ready(a)
        /\ \/ artifact' = [artifact EXCEPT ![a].status = "uploaded", ![a].upload = FALSE]
           \/ artifact' = [artifact EXCEPT ![a].status = "failed", ![a].upload = FALSE,
                                           ![a].purged = TRUE]
    BY <1>6 DEF Complete, Reclaim, Live, Ready
  <2>2. CASE a = b
    <3>1. artifact[b] \in Artifact
      BY <1>1, <2>1, <2>2 DEF Exists
    <3>2. /\ artifact'[b].key = artifact[b].key /\ artifact'[b].deleted = artifact[b].deleted
          /\ artifact'[b].status \in {"uploaded", "failed"}
      BY <1>1, <2>1, <2>2, <3>1 DEF Artifact
    <3> QED BY <1>3, <2>1, <2>2, <3>2
  <2>3. CASE a # b
    BY <1>1, <1>2, <2>1, <2>3
  <2> QED BY <2>2, <2>3
<1>7. ASSUME NEW w \in Workers, Start(w) \/ Quarantine(w) \/ Fail(w) PROVE RowHolds(b)'
  <2>1. PICK a \in Artifacts : a = worker[w].artifact
    BY <1>7 DEF Start, Quarantine, Fail, At, PromotionInv, FileInv, FileTypes, Working, Free
  <2>2. CASE artifact' = artifact
    BY <1>2, <2>2
  <2>3. CASE artifact' # artifact
    <3>1. /\ Live(a)
          /\ \/ SetStatus(a, "verifying") /\ ~Ready(a)
             \/ SetStatus(a, "failed") /\ ~Ready(a)
             \/ SetStatus(a, "quarantined") /\ a \in infected
      BY <1>7, <2>1, <2>3 DEF Start, Quarantine, Fail, Ready
    <3>2. Exists(a) /\ ~Ready(a)
      BY <3>1 DEF Live, PromotionInv, RowHolds
    <3> QED BY <1>4, <3>1, <3>2 DEF ArtifactStatus
  <2> QED BY <2>2, <2>3
<1>8. ASSUME NEW w \in Workers, Commit(w) PROVE RowHolds(b)'
  <2>1. PICK a \in Artifacts, k \in Keys :
          a = worker[w].artifact /\ k = worker[w].target /\ Live(a)
    BY <1>8, Committed DEF Commit, At, Committing, PromotionInv
  <2>2. artifact' = [artifact EXCEPT ![a].key = k, ![a].status = "ready"]
    BY <1>8, <2>1 DEF Commit
  <2>3. CASE a = b
    <3>1. artifact[b] \in Artifact /\ ~artifact[b].deleted
      BY <1>1, <2>1, <2>3 DEF Live, Exists
    <3>2. artifact'[b].key = k /\ artifact'[b].status = "ready" /\ ~artifact'[b].deleted
      BY <1>1, <2>2, <2>3, <3>1 DEF Artifact
    <3>3. IsName(k) /\ object[k] = a /\ a \notin infected
      BY <1>8, <2>1 DEF Commit, At, PromotionInv, WorkHolds
    <3>4. object'[k] = a
      BY <1>1, <3>3 DEF NamesStay, ArtifactsAssumption
    <3> QED BY <1>1, <2>3, <3>2, <3>3, <3>4 DEF RowHolds, Ready, NamesStay
  <2>4. CASE a # b
    BY <1>1, <1>2, <2>2, <2>4
  <2> QED BY <2>3, <2>4
<1>9. ASSUME NEW h \in Handlers,
             (\E a \in Artifacts, s \in Submissions : BeginInit(h, a, s)) \/ Refused(h)
      PROVE  UNCHANGED artifact
  BY <1>9 DEF BeginInit, Refused, tables
<1>10. ASSUME NEW w \in Workers,
              \/ \E a \in Artifacts : \E names \in Destinations[a] : TakeJob(w, a, names)
              \/ Read(w) \/ Reject(w) \/ Copy(w) \/ Lock(w) \/ Crash(w)
       PROVE  UNCHANGED artifact
  BY <1>10 DEF TakeJob, Read, Reject, Copy, Lock, Crash, tables
<1>11. \A a \in Artifacts : Put(a) \/ Stall(a) => UNCHANGED artifact
  BY DEF Put, Stall, tables
<1>12. \A r \in outbox : Relay(r) => UNCHANGED artifact
  BY DEF Relay
<1>13. UNCHANGED vars => UNCHANGED artifact
  BY DEF vars, tables
<1> QED BY Steps, <1>2, <1>5, <1>6, <1>7, <1>8, <1>9, <1>10, <1>11, <1>12, <1>13

LEMMA WorkStays ==
  ASSUME ArtifactsAssumption, NamesStay, RowsMove, PromotionInv, NEW w \in Workers,
         worker'[w] = worker[w]
  PROVE  WorkHolds(w)'
<1>1. WorkHolds(w)
  BY DEF PromotionInv
<1>2. CASE worker[w] = Free
  BY <1>2 DEF WorkHolds, Free
<1>3. CASE worker[w] # Free
  <2>1. PICK a \in Artifacts : a = worker[w].artifact
    BY <1>3 DEF PromotionInv, FileInv, FileTypes, Working
  <2>2. Exists(a) => Exists(a)'
    BY DEF RowsMove, Exists
  <2>3. worker[w].stage \in {"copied", "locked"} => worker[w].target \in Keys
    BY <1>3 DEF PromotionInv, FileInv, FileTypes, Working
  <2>4. worker[w].stage \in {"copied", "locked"} =>
          object'[worker[w].target] = a /\ a \notin infected'
    BY <1>1, <2>1, <2>3 DEF WorkHolds, NamesStay, ArtifactsAssumption
  <2> QED BY <1>1, <2>1, <2>2, <2>4 DEF WorkHolds
<1> QED BY <1>2, <1>3

LEMMA WorkersHold ==
  ASSUME ArtifactsAssumption, NoRemovals, PromotionInv, [Next]_vars, NEW v \in Workers
  PROVE  WorkHolds(v)'
<1>1. NamesStay /\ RowsMove /\ worker \in [Workers -> {Free} \cup Working]
  BY Objects, NextFiles DEF NoRemovals, PromotionInv, FileInv, FileTypes
<1>2. CASE worker'[v] = worker[v]
  BY <1>1, <1>2, WorkStays
<1>3. CASE worker'[v] = Free
  BY <1>3 DEF WorkHolds, Free
<1>4. SUFFICES ASSUME worker'[v] # worker[v], worker'[v] # Free PROVE WorkHolds(v)'
  BY <1>2, <1>3
<1>5. PICK w \in Workers :
        \/ \E a \in Artifacts : \E names \in Destinations[a] : TakeJob(w, a, names)
        \/ Read(w) \/ Start(w) \/ Quarantine(w) \/ Fail(w) \/ Reject(w)
        \/ Copy(w) \/ Lock(w) \/ Commit(w) \/ Crash(w)
  BY Steps, <1>4 DEF BeginInit, Reserve, Refused, Put, Complete, Reclaim, Stall, Relay, vars
<1>6. v = w
  BY <1>1, <1>4, <1>5 DEF TakeJob, Read, Start, Quarantine, Fail, Reject, Copy, Lock, Commit,
     Crash, Done, Throw, Release, Advance
<1>7. ASSUME NEW r \in Working, worker' = [worker EXCEPT ![w] = r]
      PROVE  worker'[v] = r
  BY <1>1, <1>6, <1>7
<1>8. ~Reject(w) /\ ~Commit(w) /\ ~Crash(w)
  BY <1>1, <1>4, <1>6 DEF Reject, Commit, Crash, Done, Throw, Release
<1>9. ASSUME NEW a \in Artifacts, NEW names \in Destinations[a], TakeJob(w, a, names)
      PROVE  WorkHolds(v)'
  <2>1. worker'[v] = [stage |-> "taken", artifact |-> a, names |-> names]
    BY <1>1, <1>6, <1>9 DEF TakeJob, Advance
  <2> QED BY <2>1 DEF WorkHolds
<1>10. SUFFICES ASSUME Read(w) \/ Start(w) \/ Quarantine(w) \/ Fail(w) \/ Copy(w) \/ Lock(w)
                PROVE  WorkHolds(v)'
  BY <1>5, <1>8, <1>9
<1>11. PICK a \in Artifacts : a = worker[w].artifact
  BY <1>1, <1>10 DEF Read, Start, Quarantine, Fail, Copy, Lock, At, Working, Free
<1>12. WorkHolds(w) /\ (Exists(a) => artifact'[a] # NoArtifact)
  BY <1>1 DEF PromotionInv, RowsMove
<1>13. CASE Read(w)
  <2>1. /\ artifact[a].status \in {"uploaded", "verifying", "failed"}
        /\ worker' = [worker EXCEPT ![w] = [stage |-> "read", artifact |-> a,
                        key |-> artifact[a].key, names |-> worker[w].names]]
    BY <1>1, <1>4, <1>6, <1>11, <1>13 DEF Read, Done, Throw, Release, Advance
  <2>2. Exists(a) /\ ~Ready(a)
    BY <2>1 DEF Exists, NoArtifact, Ready
  <2>3. artifact[a].key = Incoming(a)
    BY <2>2 DEF PromotionInv, RowHolds
  <2>4. worker'[v] = [stage |-> "read", artifact |-> a, key |-> Incoming(a),
                      names |-> worker[w].names]
    BY <1>1, <1>6, <2>1, <2>3
  <2> QED BY <1>12, <2>2, <2>4 DEF WorkHolds, Exists
<1>14. CASE Start(w)
  <2>1. worker[w] \in [stage : {"read", "started"}, artifact : Artifacts, key : Keys,
                       names : NameLists]
        /\ worker[w].stage = "read"
    BY <1>1, <1>14 DEF Start, At, Working, Free
  <2>2. worker' = [worker EXCEPT ![w].stage = "started"]
    BY <1>1, <1>4, <1>6, <1>14 DEF Start, Done, Release
  <2>3. worker'[v].stage = "started" /\ worker'[v].artifact = a
        /\ worker'[v].key = worker[w].key
    BY <1>1, <1>6, <1>11, <2>1, <2>2
  <2> QED BY <1>11, <1>12, <2>1, <2>3 DEF WorkHolds, Exists
<1>15. CASE Quarantine(w) \/ Fail(w)
  <2>1. /\ Live(a)
        /\ \E again \in BOOLEAN :
             worker' = [worker EXCEPT ![w] =
                          [stage |-> "reject", artifact |-> a, retry |-> again]]
    BY <1>1, <1>4, <1>6, <1>11, <1>15 DEF Quarantine, Fail, Done, Release, Advance
  <2>2. worker'[v].stage = "reject" /\ worker'[v].artifact = a
    BY <1>1, <1>6, <2>1
  <2> QED BY <1>12, <2>1, <2>2 DEF WorkHolds, Live, Exists
<1>16. CASE Copy(w)
  <2>1. PICK names \in NameLists : names = worker[w].names
    BY <1>1, <1>16 DEF Copy, At, Working, Free
  <2>2. PICK k \in Keys : k = Stored(names[Candidate(a, names)])
    BY <1>11, <1>16, <2>1, CandidateIsAName DEF Copy
  <2>3. /\ object' = [object EXCEPT ![k] = a] /\ a \notin infected
        /\ \E held : worker' = [worker EXCEPT ![w] =
                       [stage |-> "copied", artifact |-> a, key |-> worker[w].key,
                        target |-> k, held |-> held, whole |-> FALSE]]
        /\ worker[w].stage = "started"
    BY <1>11, <1>16, <2>1, <2>2 DEF Copy, Advance, At
  <2>4. /\ worker'[v].stage = "copied" /\ worker'[v].artifact = a
        /\ worker'[v].key = worker[w].key /\ worker'[v].target = k
    BY <1>1, <1>6, <2>3
  <2>5. object'[k] = a /\ IsName(k) /\ a \notin infected'
    BY <1>1, <2>2, <2>3, Names DEF PromotionInv, NamesStay
  <2> QED BY <1>11, <1>12, <2>3, <2>4, <2>5 DEF WorkHolds, Exists
<1>17. CASE Lock(w)
  <2>1. PICK q \in Working :
          q = worker[w] /\ q.stage = "copied"
            /\ q \in [stage : {"copied", "locked", "undo"}, artifact : Artifacts,
                      key : Keys, target : Keys, held : SUBSET Keys, whole : BOOLEAN]
    BY <1>1, <1>17 DEF Lock, At, Working, Free
  <2>2. Live(a)
    BY <1>11, <1>12, <2>1 DEF PromotionInv, WorkHolds, RowHolds, Live, Exists
  <2>3. PICK whole : worker' = [worker EXCEPT ![w] = [q EXCEPT !.stage = "locked", !.whole = whole]]
    <3>1. PICK whole : worker' = [worker EXCEPT ![w].stage = "locked", ![w].whole = whole]
      BY <1>11, <1>17, <2>2 DEF Lock
    <3>2. worker' = [worker EXCEPT ![w] = [q EXCEPT !.stage = "locked", !.whole = whole]]
      BY <2>1, <3>1
    <3> QED BY <3>2
  <2>4. /\ worker'[v].stage = "locked" /\ worker'[v].artifact = a
        /\ worker'[v].key = q.key /\ worker'[v].target = q.target
    BY <1>1, <1>6, <1>11, <2>1, <2>3
  <2>5. /\ object[q.target] = a /\ IsName(q.target) /\ a \notin infected /\ q.key = Incoming(a)
        /\ q.target \in Keys /\ Exists(a)
    BY <1>11, <1>12, <2>1 DEF WorkHolds
  <2>6. object'[q.target] = a /\ a \notin infected'
    BY <1>1, <2>5 DEF NamesStay, ArtifactsAssumption
  <2> QED BY <1>12, <2>4, <2>5, <2>6 DEF WorkHolds, Exists
<1> QED BY <1>10, <1>13, <1>14, <1>15, <1>16, <1>17

(* The rows of the outbox: those of a cleanup name an object that came in. *)
LEMMA RowsOfOutbox ==
  ASSUME NoRemovals, PromotionInv, [Next]_vars
  PROVE  /\ outbox' \subseteq Row
         /\ \A r \in outbox' : r.type = "cleanup" => r.key = Incoming(r.id)
<1>1. outbox \subseteq Row /\ \A r \in outbox : r.type = "cleanup" => r.key = Incoming(r.id)
  BY DEF PromotionInv
<1>2. ASSUME NEW q \in Row, q.type = "cleanup" => q.key = Incoming(q.id), NEW rows,
             rows \subseteq Row, \A r \in rows : r.type = "cleanup" => r.key = Incoming(r.id)
      PROVE  /\ Insert(rows, q) \subseteq Row
             /\ \A r \in Insert(rows, q) : r.type = "cleanup" => r.key = Incoming(r.id)
  BY <1>2 DEF Insert
<1>3. ASSUME NEW a \in Artifacts, Complete(a) \/ Reclaim(a)
      PROVE  /\ outbox' \subseteq Row
             /\ \A r \in outbox' : r.type = "cleanup" => r.key = Incoming(r.id)
  <2> DEFINE q == [type |-> "uploaded", id |-> a, done |-> FALSE]
  <2>1. q \in Row /\ q.type # "cleanup"
    BY DEF Row
  <2>2. outbox' \in {outbox, Insert(outbox, q)}
    BY <1>3 DEF Complete, Reclaim, WithUploaded
  <2> HIDE DEF q
  <2> QED BY <1>1, <1>2, <2>1, <2>2
<1>4. ASSUME NEW q \in outbox, Relay(q)
      PROVE  /\ outbox' \subseteq Row
             /\ \A r \in outbox' : r.type = "cleanup" => r.key = Incoming(r.id)
  <2>1. \A r \in Row : [r EXCEPT !.done = TRUE] \in Row
    BY DEF Row
  <2>2. /\ [q EXCEPT !.done = TRUE].type = q.type /\ [q EXCEPT !.done = TRUE].id = q.id
        /\ q.type = "cleanup" => [q EXCEPT !.done = TRUE].key = q.key
    BY <1>1 DEF Row
  <2>3. outbox' = (outbox \ {q}) \cup {[q EXCEPT !.done = TRUE]}
    BY <1>4 DEF Relay
  <2>4. ASSUME NEW p \in Row, p = [q EXCEPT !.done = TRUE]
        PROVE  p.type = "cleanup" => p.key = Incoming(p.id)
    BY <1>1, <2>2, <2>4
  <2> QED BY <1>1, <2>1, <2>3, <2>4
<1>5. ASSUME NEW w \in Workers, Reject(w)
      PROVE  /\ outbox' \subseteq Row
             /\ \A r \in outbox' : r.type = "cleanup" => r.key = Incoming(r.id)
  <2>1. PICK a \in Artifacts : a = worker[w].artifact
    BY <1>5 DEF Reject, At, PromotionInv, FileInv, FileTypes, Working, Free
  <2> DEFINE q == [type |-> "failed", id |-> a, done |-> TRUE]
  <2>2. q \in Row /\ q.type # "cleanup"
    BY DEF Row
  <2>3. outbox' \in {outbox, Insert(outbox, q)}
    BY <1>5, <2>1 DEF Reject
  <2> HIDE DEF q
  <2> QED BY <1>1, <1>2, <2>2, <2>3
<1>6. ASSUME NEW w \in Workers, Commit(w)
      PROVE  /\ outbox' \subseteq Row
             /\ \A r \in outbox' : r.type = "cleanup" => r.key = Incoming(r.id)
  <2>1. PICK a \in Artifacts, k \in Keys :
          a = worker[w].artifact /\ k = worker[w].key /\ Live(a) /\ k = Incoming(a)
    <3>1. w \in Committing /\ worker[w].stage = "locked"
      BY <1>6 DEF Commit, At, Committing
    <3> QED BY <3>1, Committed, InKeys DEF PromotionInv, WorkHolds
  <2>2. PICK s \in Submissions : s = artifact[a].submission
    BY <2>1 DEF Live, Exists, PromotionInv, FileInv, FileTypes, Artifact
  <2> DEFINE cleanup == [type |-> "cleanup", id |-> a, key |-> k, done |-> FALSE]
             ready == [type |-> "ready", id |-> s, done |-> TRUE]
  <2>3. /\ cleanup \in Row /\ cleanup.key = Incoming(cleanup.id)
        /\ ready \in Row /\ ready.type # "cleanup"
    BY <2>1 DEF Row
  <2>4. \E rows \in {outbox, Insert(outbox, cleanup)} : outbox' \in {rows, Insert(rows, ready)}
    BY <1>6, <2>1, <2>2 DEF Commit
  <2> HIDE DEF cleanup, ready
  <2>5. PICK rows : /\ rows \subseteq Row
                    /\ \A r \in rows : r.type = "cleanup" => r.key = Incoming(r.id)
                    /\ outbox' \in {rows, Insert(rows, ready)}
    BY <1>1, <1>2, <2>3, <2>4
  <2> QED BY <1>2, <2>3, <2>5
<1>7. ASSUME NEW h \in Handlers,
             \/ \E a \in Artifacts, s \in Submissions : BeginInit(h, a, s)
             \/ Reserve(h) \/ Refused(h)
      PROVE  UNCHANGED outbox
  BY <1>7 DEF BeginInit, Reserve, Refused, tables
<1>8. ASSUME NEW w \in Workers,
             \/ \E a \in Artifacts : \E names \in Destinations[a] : TakeJob(w, a, names)
             \/ Read(w) \/ Start(w) \/ Quarantine(w) \/ Fail(w) \/ Copy(w) \/ Lock(w) \/ Crash(w)
      PROVE  UNCHANGED outbox
  BY <1>8 DEF TakeJob, Read, Start, Quarantine, Fail, Copy, Lock, Crash, tables
<1>9. \A a \in Artifacts : Put(a) \/ Stall(a) => UNCHANGED outbox
  BY DEF Put, Stall, tables
<1>10. UNCHANGED vars => UNCHANGED outbox
  BY DEF vars, tables
<1> QED BY Steps, <1>1, <1>3, <1>4, <1>5, <1>6, <1>7, <1>8, <1>9, <1>10

LEMMA NextPromotion ==
  ASSUME ArtifactsAssumption, NoRemovals, PromotionInv, [Next]_vars
  PROVE  PromotionInv'
<1>1. FileInv' /\ NamesStay
  BY NextFiles, Objects DEF NoRemovals, PromotionInv
<1>2. \A h \in Handlers : request'[h] \in {Idle} \cup Reserving
  <2>1. ASSUME NEW h \in Handlers,
               \/ \E a \in Artifacts, s \in Submissions : BeginInit(h, a, s)
               \/ Reserve(h) \/ Refused(h)
        PROVE  \E r \in {Idle} \cup Reserving : request' = [request EXCEPT ![h] = r]
    <3>1. \A a \in Artifacts, s \in Submissions :
            [todo |-> <<"reserve">>, artifact |-> a, submission |-> s] \in Reserving
      BY DEF Reserving
    <3> QED BY <2>1, <3>1 DEF BeginInit, Take, Reserve, Refused, Drop
  <2>2. \/ \E h \in Handlers : \E r \in {Idle} \cup Reserving : request' = [request EXCEPT ![h] = r]
        \/ UNCHANGED request
    <3>1. ASSUME NEW w \in Workers,
                 \/ \E a \in Artifacts : \E names \in Destinations[a] : TakeJob(w, a, names)
                 \/ Read(w) \/ Start(w) \/ Quarantine(w) \/ Fail(w) \/ Reject(w)
                 \/ Copy(w) \/ Lock(w) \/ Commit(w) \/ Crash(w)
          PROVE  UNCHANGED request
      BY <3>1 DEF TakeJob, Read, Start, Quarantine, Fail, Reject, Copy, Lock, Commit, Crash
    <3>2. \A a \in Artifacts : Put(a) \/ Complete(a) \/ Reclaim(a) \/ Stall(a) => UNCHANGED request
      BY DEF Put, Complete, Reclaim, Stall
    <3>3. \A r \in outbox : Relay(r) => UNCHANGED request
      BY DEF Relay
    <3> QED BY Steps, <2>1, <3>1, <3>2, <3>3 DEF vars
  <2> QED BY <2>2 DEF PromotionInv, FileInv, FileTypes
<1>3. \A a \in Artifacts : Exists(a)' => RowHolds(a)'
  BY RowsHold DEF Exists
<1>4. \A w \in Workers : WorkHolds(w)'
  BY WorkersHold
<1> QED BY <1>1, <1>2, <1>3, <1>4, RowsOfOutbox DEF PromotionInv, NamesStay

(* A file that is shown as ready can be downloaded, and is that file, as   *)
(* long as nobody removes any: however many files want one name, however   *)
(* often a verification stalls, is repeated or dies                        *)
(* (promoteArtifactObject and the relay's cleanup of what was promoted).   *)
THEOREM ReadyIsStored ==
  ASSUME ArtifactsAssumption, NoRemovals
  PROVE  Spec => []ReadyHasItsObject
<1>1. PromotionInv => ReadyHasItsObject
  BY DEF PromotionInv, ReadyHasItsObject, RowHolds, FilesOf, Ready
<1>2. PromotionInv /\ [Next]_vars => PromotionInv'
  BY NextPromotion
<1> QED BY InitPromotion, <1>1, <1>2, PTL DEF Spec

-----------------------------------------------------------------------------
(* Submissions *)

Failed(a) == \E r \in outbox : r.type = "failed" /\ r.id = a

WholeIsReady(s) ==
  /\ submission[s].status = "ready" => AllReady(s)
  /\ NoneFailed(s) /\ AllReady(s) /\ LiveFilesOf(s) # {}
     /\ Cardinality(LiveFilesOf(s)) >= MinItems => submission[s].status = "ready"

(* What a promotion saw of the submission is so until it commits, and no   *)
(* other promotion of the submission is under way.                         *)
LocksHold ==
  /\ \A w \in Committing, a \in Artifacts, s \in Submissions :
       worker[w].artifact = a /\ artifact[a].submission = s =>
         (worker[w].whole <=> Whole(a, s))
  /\ \A v, w \in Committing :
       artifact[worker[v].artifact].submission = artifact[worker[w].artifact].submission => v = w

WholeInv ==
  /\ PromotionInv
  /\ submission \in [Submissions ->
       [status : {"draft", "processing", "ready", "failed", "deleted"}, deleted : BOOLEAN]]
  /\ \A s \in Submissions : ~submission[s].deleted
  /\ LocksHold
  /\ \A s \in Submissions : WholeIsReady(s)

LEMMA InitWhole == Init => WholeInv
<1> SUFFICES ASSUME Init PROVE WholeInv
  OBVIOUS
<1>1. PromotionInv
  BY InitPromotion
<1>2. Committing = {}
  BY DEF Init, Committing, Free
<1>3. \A s \in Submissions : LiveFilesOf(s) = {} /\ submission[s].status = "draft"
  BY DEF Init, LiveFilesOf, FilesOf, Exists
<1> QED BY <1>1, <1>2, <1>3 DEF Init, WholeInv, LocksHold, WholeIsReady

(* A step that leaves a submission its files, and those that are ready.    *)
Has(a, s) == Exists(a) /\ artifact[a].submission = s
Alike(s) ==
  \A a \in Artifacts :
    /\ Has(a, s) <=> artifact'[a] # NoArtifact /\ artifact'[a].submission = s
    /\ Has(a, s) => (artifact'[a].status = "ready" <=> Ready(a))

LEMMA Views ==
  ASSUME PromotionInv, PromotionInv', NEW s, Alike(s)
  PROVE  /\ FilesOf(s)' = FilesOf(s) /\ LiveFilesOf(s)' = LiveFilesOf(s)
         /\ LiveFilesOf(s) = FilesOf(s)
         /\ AllReady(s)' <=> AllReady(s)
         /\ \A a : Whole(a, s)' <=> Whole(a, s)
<1>1. FilesOf(s)' = FilesOf(s)
  BY DEF Alike, Has, FilesOf, Exists
<1>2. LiveFilesOf(s) = FilesOf(s) /\ LiveFilesOf(s)' = FilesOf(s)'
  BY DEF LiveFilesOf, FilesOf, Live, PromotionInv, RowHolds
<1>3. \A a \in FilesOf(s) : Ready(a)' <=> Ready(a)
  BY DEF Alike, Has, FilesOf, Ready
<1>4. AllReady(s)' <=> AllReady(s)
  BY <1>1, <1>2, <1>3 DEF AllReady, Ready
<1>5. \A a : Whole(a, s)' <=> Whole(a, s)
  BY <1>1, <1>2, <1>3 DEF Whole
<1> QED BY <1>1, <1>2, <1>4, <1>5

LEMMA ViewStays ==
  ASSUME WholeInv, PromotionInv', NEW s \in Submissions, Alike(s),
         submission'[s] = submission[s], \A a \in Artifacts : Failed(a) => Failed(a)'
  PROVE  WholeIsReady(s)'
<1>1. NoneFailed(s)' => NoneFailed(s)
  BY Views DEF WholeInv, NoneFailed, Failed, FilesOf
<1> QED BY <1>1, Views DEF WholeInv, WholeIsReady

LEMMA SubmissionOf ==
  ASSUME WholeInv, NEW w \in Committing
  PROVE  \E a \in Artifacts, s \in Submissions :
           a = worker[w].artifact /\ Live(a) /\ s = artifact[a].submission
<1>1. PICK a \in Artifacts : a = worker[w].artifact /\ Live(a)
  BY Committed DEF WholeInv, PromotionInv
<1>2. artifact[a] \in Artifact
  BY <1>1 DEF WholeInv, PromotionInv, FileInv, FileTypes, Live, Exists
<1> QED BY <1>1, <1>2 DEF Artifact

LEMMA LocksStay ==
  ASSUME WholeInv, PromotionInv',
         \A w \in Committing' : w \in Committing /\ worker'[w] = worker[w],
         \A w \in Committing', s \in Submissions :
           artifact[worker[w].artifact].submission = s => Alike(s)
  PROVE  LocksHold'
<1>1. ASSUME NEW w \in Committing'
      PROVE  \E a \in Artifacts, s \in Submissions :
               /\ worker'[w] = worker[w] /\ w \in Committing /\ worker[w].artifact = a
               /\ artifact[a].submission = s /\ artifact'[a].submission = s
               /\ (worker[w].whole <=> Whole(a, s)')
  <2>1. PICK a \in Artifacts, s \in Submissions :
          a = worker[w].artifact /\ Live(a) /\ s = artifact[a].submission
    BY <1>1, SubmissionOf
  <2>2. Alike(s) /\ Has(a, s)
    BY <1>1, <2>1 DEF Has, Live
  <2>3. artifact'[a].submission = s
    BY <2>2 DEF Alike
  <2>4. worker[w].whole <=> Whole(a, s)
    BY <1>1, <2>1 DEF WholeInv, LocksHold
  <2>5. Whole(a, s)' <=> Whole(a, s)
    BY <2>2, Views DEF WholeInv
  <2> QED BY <1>1, <2>1, <2>3, <2>4, <2>5
<1>2. \A w \in Committing', a \in Artifacts, s \in Submissions :
        worker'[w].artifact = a /\ artifact'[a].submission = s =>
          (worker'[w].whole <=> Whole(a, s)')
  BY <1>1
<1>3. \A v, w \in Committing' :
        artifact'[worker'[v].artifact].submission = artifact'[worker'[w].artifact].submission
          => v = w
  <2> SUFFICES ASSUME NEW v \in Committing', NEW w \in Committing',
                      artifact'[worker'[v].artifact].submission
                        = artifact'[worker'[w].artifact].submission
               PROVE  v = w
    OBVIOUS
  <2>1. /\ artifact'[worker'[v].artifact].submission = artifact[worker[v].artifact].submission
        /\ artifact'[worker'[w].artifact].submission = artifact[worker[w].artifact].submission
        /\ v \in Committing /\ w \in Committing
    BY <1>1
  <2>2. artifact[worker[v].artifact].submission = artifact[worker[w].artifact].submission => v = w
    BY <2>1 DEF WholeInv, LocksHold
  <2> QED BY <2>1, <2>2
<1> QED BY <1>2, <1>3 DEF LocksHold

LEMMA FailedStays ==
  ASSUME NoRemovals, PromotionInv, [Next]_vars
  PROVE  \A a \in Artifacts : Failed(a) => Failed(a)'
<1>1. \A rows, q : rows \subseteq Insert(rows, q)
  BY DEF Insert
<1>2. ASSUME NEW r \in outbox, r.type = "failed" PROVE r \in outbox'
  <2>1. ASSUME NEW q \in outbox, Relay(q) PROVE q # r
    BY <1>2, <2>1 DEF Relay
  <2>2. \A q \in outbox : Relay(q) => r \in outbox'
    BY <2>1 DEF Relay
  <2>3. \A a \in Artifacts : Complete(a) \/ Reclaim(a) => r \in outbox'
    <3> SUFFICES ASSUME NEW a \in Artifacts, Complete(a) \/ Reclaim(a) PROVE r \in outbox'
      OBVIOUS
    <3>1. \E p : outbox' \in {outbox, Insert(outbox, p)}
      BY DEF Complete, Reclaim, WithUploaded
    <3> QED BY <1>1, <3>1
  <2>4. \A w \in Workers : Reject(w) => r \in outbox'
    <3> SUFFICES ASSUME NEW w \in Workers, Reject(w) PROVE r \in outbox'
      OBVIOUS
    <3>1. \E p : outbox' \in {outbox, Insert(outbox, p)}
      BY DEF Reject
    <3> QED BY <1>1, <3>1
  <2>5. \A w \in Workers : Commit(w) => r \in outbox'
    <3> SUFFICES ASSUME NEW w \in Workers, Commit(w) PROVE r \in outbox'
      OBVIOUS
    <3>1. \E p, q : outbox' \in {outbox, Insert(outbox, p), Insert(outbox, q),
                                 Insert(Insert(outbox, p), q)}
      BY DEF Commit
    <3> QED BY <1>1, <3>1
  <2>6. ASSUME NEW h \in Handlers,
               \/ \E a \in Artifacts, s \in Submissions : BeginInit(h, a, s)
               \/ Reserve(h) \/ Refused(h)
        PROVE  UNCHANGED outbox
    BY <2>6 DEF BeginInit, Reserve, Refused, tables
  <2>7. ASSUME NEW w \in Workers,
               \/ \E a \in Artifacts : \E names \in Destinations[a] : TakeJob(w, a, names)
               \/ Read(w) \/ Start(w) \/ Quarantine(w) \/ Fail(w) \/ Copy(w) \/ Lock(w) \/ Crash(w)
        PROVE  UNCHANGED outbox
    BY <2>7 DEF TakeJob, Read, Start, Quarantine, Fail, Copy, Lock, Crash, tables
  <2>8. \A a \in Artifacts : Put(a) \/ Stall(a) => UNCHANGED outbox
    BY DEF Put, Stall, tables
  <2>9. UNCHANGED vars => UNCHANGED outbox
    BY DEF vars, tables
  <2> QED BY Steps, <2>2, <2>3, <2>4, <2>5, <2>6, <2>7, <2>8, <2>9
<1> QED BY <1>2 DEF Failed

LEMMA OneAlike ==
  ASSUME NEW b \in Artifacts, Exists(b), artifact'[b] # NoArtifact,
         \A a \in Artifacts \ {b} : artifact'[a] = artifact[a],
         artifact'[b].submission = artifact[b].submission,
         artifact'[b].status = "ready" <=> Ready(b)
  PROVE  \A s \in Submissions : Alike(s)
BY DEF Alike, Has, Exists, Ready

LEMMA SameAlike == UNCHANGED artifact => \A s \in Submissions : Alike(s)
BY DEF Alike, Has, Exists, Ready

LEMMA Quiet ==
  ASSUME WholeInv, PromotionInv', UNCHANGED submission,
         \A a \in Artifacts : Failed(a) => Failed(a)',
         \A s \in Submissions : Alike(s),
         \A w \in Committing' : w \in Committing /\ worker'[w] = worker[w]
  PROVE  WholeInv'
<1>1. LocksHold'
  BY LocksStay
<1>2. \A s \in Submissions : WholeIsReady(s)'
  BY ViewStays
<1> QED BY <1>1, <1>2 DEF WholeInv

(* The steps of verification that touch one row do not make it ready.      *)
LEMMA RowChanges ==
  ASSUME ArtifactsAssumption, NoRemovals, PromotionInv, PromotionInv', NEW a \in Artifacts,
         \/ Complete(a) \/ Reclaim(a)
         \/ \E w \in Workers : /\ worker[w].artifact = a
                               /\ Start(w) \/ Quarantine(w) \/ Fail(w)
  PROVE  \A s \in Submissions : Alike(s)
<1>1. CASE UNCHANGED artifact
  BY <1>1, SameAlike
<1>2. CASE artifact' # artifact
  <2>1. /\ Live(a)
        /\ \/ /\ ~Ready(a)
              /\ \/ artifact' = [artifact EXCEPT ![a].status = "uploaded", ![a].upload = FALSE]
                 \/ artifact' = [artifact EXCEPT ![a].status = "failed", ![a].upload = FALSE,
                                                 ![a].purged = TRUE]
                 \/ artifact' = [artifact EXCEPT ![a].status = "verifying"]
                 \/ artifact' = [artifact EXCEPT ![a].status = "failed"]
           \/ a \in infected /\ artifact' = [artifact EXCEPT ![a].status = "quarantined"]
    <3>1. CASE Complete(a)
      BY <3>1 DEF Complete, Ready
    <3>2. CASE Reclaim(a)
      BY <3>2 DEF Reclaim, Ready, Live, PromotionInv, RowHolds
    <3>3. ASSUME NEW w \in Workers, worker[w].artifact = a, Start(w) \/ Fail(w)
          PROVE  /\ Live(a) /\ ~Ready(a)
                 /\ \/ artifact' = [artifact EXCEPT ![a].status = "verifying"]
                    \/ artifact' = [artifact EXCEPT ![a].status = "failed"]
      BY <1>2, <3>3 DEF Start, Fail, SetStatus, Ready
    <3>4. ASSUME NEW w \in Workers, worker[w].artifact = a, Quarantine(w)
          PROVE  /\ Live(a) /\ a \in infected
                 /\ artifact' = [artifact EXCEPT ![a].status = "quarantined"]
      BY <1>2, <3>4 DEF Quarantine, SetStatus
    <3> QED BY <3>1, <3>2, <3>3, <3>4
  <2>2. artifact[a] \in Artifact /\ artifact \in [Artifacts -> {NoArtifact} \cup Artifact]
    BY <2>1 DEF Live, Exists, PromotionInv, FileInv, FileTypes
  <2>3. ~Ready(a)
    BY <2>1 DEF PromotionInv, RowHolds, Live
  <2>4. /\ artifact'[a].submission = artifact[a].submission
        /\ artifact'[a].status # "ready" /\ artifact'[a] \in Artifact
        /\ \A b \in Artifacts \ {a} : artifact'[b] = artifact[b]
    BY <2>1, <2>2 DEF Artifact, ArtifactStatus
  <2> QED BY <2>1, <2>3, <2>4, OneAlike, NoRow DEF Live
<1> QED BY <1>1, <1>2

LEMMA ReserveWhole ==
  ASSUME ArtifactsAssumption, NoRemovals, WholeInv, PromotionInv', NEW h \in Handlers,
         Reserve(h), \A a \in Artifacts : Failed(a) => Failed(a)'
  PROVE  WholeInv'
<1>1. PICK a \in Artifacts, s \in Submissions :
        a = request[h].artifact /\ s = request[h].submission
  BY DEF Reserve, Doing, WholeInv, PromotionInv, Reserving, Idle
<1>2. /\ ~Exists(a) /\ SubmissionFree(s) /\ UNCHANGED worker
      /\ \A b \in Artifacts \ {a} : artifact'[b] = artifact[b]
      /\ artifact'[a] # NoArtifact /\ artifact'[a].submission = s
      /\ artifact'[a].status = "uploading" /\ ~artifact'[a].deleted
      /\ submission' = [submission EXCEPT ![s].status = "processing"]
  BY <1>1 DEF Reserve, WholeInv, PromotionInv, FileInv, FileTypes, NoArtifact
<1>3. \A t \in Submissions \ {s} : Alike(t)
  BY <1>2 DEF Alike, Has, Exists, Ready
<1>4. LocksHold'
  <2>1. \A w \in Committing' : /\ w \in Committing /\ worker'[w] = worker[w]
                               /\ artifact[worker[w].artifact].submission # s
    BY <1>2 DEF SubmissionFree, Committing
  <2> QED BY <1>3, <2>1, LocksStay
<1>5. /\ submission'[s].status = "processing" /\ ~submission'[s].deleted
      /\ \A t \in Submissions \ {s} : submission'[t] = submission[t]
      /\ submission' \in [Submissions ->
           [status : {"draft", "processing", "ready", "failed", "deleted"}, deleted : BOOLEAN]]
  BY <1>2 DEF WholeInv
<1>6. WholeIsReady(s)'
  <2>1. a \in LiveFilesOf(s)' /\ artifact'[a].status # "ready"
    BY <1>2 DEF LiveFilesOf, FilesOf, Live, Exists
  <2> QED BY <1>5, <2>1 DEF WholeIsReady, AllReady
<1>7. \A t \in Submissions \ {s} : WholeIsReady(t)'
  BY <1>3, <1>5, ViewStays
<1> QED BY <1>4, <1>5, <1>6, <1>7 DEF WholeInv

LEMMA LockWhole ==
  ASSUME ArtifactsAssumption, NoRemovals, WholeInv, PromotionInv', NEW w \in Workers, Lock(w),
         \A a \in Artifacts : Failed(a) => Failed(a)'
  PROVE  WholeInv'
<1>1. UNCHANGED <<artifact, submission>> /\ w \notin Committing
  BY DEF Lock, tables, At, Committing
<1>2. PICK a \in Artifacts : a = worker[w].artifact /\ Live(a)
  <2>1. worker[w] \in Working /\ WorkHolds(w) /\ worker[w].stage = "copied"
    BY DEF Lock, At, WholeInv, PromotionInv, FileInv, FileTypes, Free
  <2>2. worker[w].artifact \in Artifacts /\ Exists(worker[w].artifact)
    BY <2>1 DEF Working, WorkHolds
  <2> QED BY <2>2 DEF WholeInv, PromotionInv, RowHolds, Live
<1>3. PICK s \in Submissions : s = artifact[a].submission
  BY <1>2 DEF WholeInv, PromotionInv, FileInv, FileTypes, Live, Exists, Artifact
<1>4. /\ SubmissionFree(s)
      /\ worker' = [worker EXCEPT ![w].stage = "locked", ![w].whole = Whole(a, s)]
  BY <1>2, <1>3 DEF Lock
<1>5. \A t \in Submissions : Alike(t)
  BY <1>1, SameAlike
<1>6. \A t \in Submissions : WholeIsReady(t)'
  BY <1>1, <1>5, ViewStays
<1>7. /\ \A v \in Committing' : v # w => v \in Committing /\ worker'[v] = worker[v]
      /\ worker'[w].artifact = a /\ (worker'[w].whole <=> Whole(a, s))
  <2>1. worker \in [Workers -> {Free} \cup Working] /\ worker[w].stage = "copied"
    BY DEF Lock, At, WholeInv, PromotionInv, FileInv, FileTypes
  <2>2. PICK q \in [stage : {"copied", "locked", "undo"}, artifact : Artifacts,
                    key : Keys, target : Keys, held : SUBSET Keys, whole : BOOLEAN] :
          q = worker[w]
    BY <2>1 DEF Working, Free
  <2>3. PICK whole \in BOOLEAN : whole = Whole(a, s)
    BY DEF Whole
  <2>4. worker' = [worker EXCEPT ![w] = [q EXCEPT !.stage = "locked", !.whole = whole]]
    BY <1>4, <2>2, <2>3
  <2>5. worker'[w] = [q EXCEPT !.stage = "locked", !.whole = whole]
    BY <2>1, <2>4
  <2>6. worker'[w].artifact = a /\ worker'[w].whole = whole
    BY <1>2, <2>2, <2>5
  <2> QED BY <2>1, <2>3, <2>4, <2>6 DEF Committing
<1>8. \A b \in Artifacts, t \in Submissions : Whole(b, t)' <=> Whole(b, t)
  BY <1>5, Views DEF WholeInv
<1>9. LocksHold'
  <2>1. ASSUME NEW v \in Committing', NEW b \in Artifacts, NEW t \in Submissions,
               worker'[v].artifact = b, artifact'[b].submission = t
        PROVE  worker'[v].whole <=> Whole(b, t)'
    BY <1>1, <1>3, <1>7, <1>8, <2>1 DEF WholeInv, LocksHold
  <2>2. ASSUME NEW u \in Committing', NEW v \in Committing',
               artifact'[worker'[u].artifact].submission = artifact'[worker'[v].artifact].submission
        PROVE  u = v
    <3>1. artifact'[worker'[w].artifact].submission = s
      BY <1>1, <1>3, <1>7
    <3>2. ASSUME NEW x \in Committing', x # w
          PROVE  /\ artifact'[worker'[x].artifact].submission
                      = artifact[worker[x].artifact].submission
                 /\ x \in Committing /\ artifact[worker[x].artifact].submission # s
      BY <1>1, <1>4, <1>7, <3>2 DEF SubmissionFree
    <3>3. CASE u # w /\ v # w
      BY <2>2, <3>2, <3>3 DEF WholeInv, LocksHold
    <3>4. CASE u = w \/ v = w
      BY <2>2, <3>1, <3>2, <3>4
    <3> QED BY <3>3, <3>4
  <2> QED BY <2>1, <2>2 DEF LocksHold
<1> QED BY <1>1, <1>6, <1>9 DEF WholeInv

LEMMA CommitWhole ==
  ASSUME ArtifactsAssumption, NoRemovals, WholeInv, PromotionInv', NEW w \in Workers, Commit(w),
         \A a \in Artifacts : Failed(a) => Failed(a)'
  PROVE  WholeInv'
<1>1. w \in Committing
  BY DEF Commit, At, Committing
<1>2. PICK a \in Artifacts, s \in Submissions :
        a = worker[w].artifact /\ Live(a) /\ s = artifact[a].submission
  BY <1>1, SubmissionOf
<1>3. worker[w].whole <=> Whole(a, s)
  BY <1>1, <1>2 DEF WholeInv, LocksHold
<1>4. /\ artifact'[a].status = "ready" /\ artifact'[a].submission = s
      /\ artifact'[a] # NoArtifact
      /\ \A b \in Artifacts \ {a} : artifact'[b] = artifact[b]
  <2>1. PICK k \in Keys : k = worker[w].target
    BY <1>1, Committed DEF WholeInv, PromotionInv
  <2>2. artifact' = [artifact EXCEPT ![a].key = k, ![a].status = "ready"]
    BY <1>2, <2>1 DEF Commit
  <2>3. artifact[a] \in Artifact /\ artifact \in [Artifacts -> {NoArtifact} \cup Artifact]
    BY <1>2 DEF Live, Exists, WholeInv, PromotionInv, FileInv, FileTypes
  <2>4. artifact'[a].status = "ready" /\ artifact'[a].submission = s
    BY <1>2, <2>2, <2>3 DEF Artifact
  <2>5. NoArtifact.status # "ready"
    BY DEF NoArtifact
  <2> QED BY <2>2, <2>3, <2>4, <2>5
<1>5. \A t \in Submissions \ {s} : Alike(t)
  BY <1>2, <1>4 DEF Alike, Has, Exists, Ready, Live
<1>6. /\ \A t \in Submissions \ {s} : submission'[t] = submission[t]
      /\ Whole(a, s) => submission'[s].status = "ready"
      /\ ~Whole(a, s) => submission'[s] = submission[s]
      /\ ~submission'[s].deleted
      /\ submission' \in [Submissions ->
           [status : {"draft", "processing", "ready", "failed", "deleted"}, deleted : BOOLEAN]]
  <2>1. IF Whole(a, s) THEN submission' = [submission EXCEPT ![s].status = "ready"]
                       ELSE submission' = submission
    BY <1>2, <1>3 DEF Commit
  <2> QED BY <2>1 DEF WholeInv
<1>7. LocksHold'
  <2>1. \A v \in Committing' : v \in Committing /\ v # w /\ worker'[v] = worker[v]
    <3>1. worker' = [worker EXCEPT ![w] = Free] /\ Free.stage # "locked"
      BY DEF Commit, Done, Release, Free
    <3>2. worker \in [Workers -> {Free} \cup Working]
      BY DEF WholeInv, PromotionInv, FileInv, FileTypes
    <3> QED BY <3>1, <3>2 DEF Committing
  <2>2. \A v \in Committing' : artifact[worker[v].artifact].submission # s
    BY <1>1, <1>2, <2>1 DEF WholeInv, LocksHold
  <2> QED BY <1>5, <2>1, <2>2, LocksStay
<1>8. WholeIsReady(s)'
  <2>1. LiveFilesOf(s)' = LiveFilesOf(s) /\ a \in LiveFilesOf(s)
    <3>1. FilesOf(s)' = FilesOf(s) /\ a \in FilesOf(s)
      BY <1>2, <1>4 DEF FilesOf, Exists, Live
    <3>2. LiveFilesOf(s) = FilesOf(s) /\ LiveFilesOf(s)' = FilesOf(s)'
      BY DEF LiveFilesOf, FilesOf, Live, WholeInv, PromotionInv, RowHolds
    <3> QED BY <3>1, <3>2
  <2>2. AllReady(s)' <=> \A b \in LiveFilesOf(s) \ {a} : Ready(b)
    BY <1>4, <2>1 DEF AllReady, Ready, LiveFilesOf, FilesOf
  <2>3. LiveFilesOf(s) \cup {a} = LiveFilesOf(s)
    BY <2>1
  <2>4. Whole(a, s) <=> AllReady(s)' /\ Cardinality(LiveFilesOf(s)) >= MinItems
    BY <2>2, <2>3 DEF Whole
  <2>5. AllReady(s) => AllReady(s)'
    BY <2>2 DEF AllReady, Ready
  <2> QED BY <1>6, <2>1, <2>4, <2>5 DEF WholeInv, WholeIsReady
<1>9. \A t \in Submissions \ {s} : WholeIsReady(t)'
  BY <1>5, <1>6, ViewStays
<1> QED BY <1>6, <1>7, <1>8, <1>9 DEF WholeInv

LEMMA RejectWhole ==
  ASSUME ArtifactsAssumption, NoRemovals, WholeInv, PromotionInv', NEW w \in Workers, Reject(w),
         \A a \in Artifacts : Failed(a) => Failed(a)'
  PROVE  WholeInv'
<1>1. PICK a \in Artifacts : a = worker[w].artifact /\ Exists(a)
  BY DEF Reject, At, WholeInv, PromotionInv, WorkHolds, FileInv, FileTypes, Working, Free
<1>2. PICK s \in Submissions : s = artifact[a].submission
  BY <1>1 DEF WholeInv, PromotionInv, FileInv, FileTypes, Exists, Artifact
<1>3. /\ submission' = [submission EXCEPT ![s].status = "failed"]
      /\ outbox' = Insert(outbox, [type |-> "failed", id |-> a, done |-> TRUE])
      /\ UNCHANGED artifact
  BY <1>1, <1>2 DEF Reject, WholeInv
<1>4. \A t \in Submissions : Alike(t)
  BY <1>3, SameAlike
<1>5. /\ submission'[s].status = "failed" /\ ~submission'[s].deleted
      /\ \A t \in Submissions \ {s} : submission'[t] = submission[t]
      /\ submission' \in [Submissions ->
           [status : {"draft", "processing", "ready", "failed", "deleted"}, deleted : BOOLEAN]]
  BY <1>3 DEF WholeInv
<1>6. LocksHold'
  <2>1. worker' = [worker EXCEPT ![w] = Free]
    BY DEF Reject, Throw, Done, Release
  <2>2. \A v \in Committing' : v \in Committing /\ worker'[v] = worker[v]
    BY <2>1 DEF Committing, Free, WholeInv, PromotionInv, FileInv, FileTypes
  <2> QED BY <1>4, <2>2, LocksStay
<1>7. WholeIsReady(s)'
  <2>1. Failed(a)'
    <3> DEFINE q == [type |-> "failed", id |-> a, done |-> TRUE]
    <3>1. q.type = "failed" /\ q.id = a /\ outbox' = Insert(outbox, q)
      BY <1>3
    <3> HIDE DEF q
    <3> QED BY <3>1 DEF Failed, Insert
  <2>2. a \in FilesOf(s)'
    BY <1>1, <1>2, <1>3 DEF FilesOf, Exists
  <2>3. ~NoneFailed(s)'
    BY <2>1, <2>2 DEF NoneFailed, Failed
  <2> QED BY <1>5, <2>3 DEF WholeIsReady
<1>8. \A t \in Submissions \ {s} : WholeIsReady(t)'
  BY <1>4, <1>5, ViewStays
<1> QED BY <1>5, <1>6, <1>7, <1>8 DEF WholeInv

LEMMA NextWhole ==
  ASSUME ArtifactsAssumption, NoRemovals, WholeInv, [Next]_vars
  PROVE  WholeInv'
<1>1. PromotionInv' /\ \A a \in Artifacts : Failed(a) => Failed(a)'
  BY NextPromotion, FailedStays DEF WholeInv
<1>2. worker \in [Workers -> {Free} \cup Working]
  BY DEF WholeInv, PromotionInv, FileInv, FileTypes
<1>3. ASSUME NEW w \in Workers, NEW r, r.stage # "locked", worker' = [worker EXCEPT ![w] = r]
      PROVE  \A v \in Committing' : v \in Committing /\ worker'[v] = worker[v]
  BY <1>2, <1>3 DEF Committing
<1>4. ASSUME UNCHANGED worker
      PROVE  \A v \in Committing' : v \in Committing /\ worker'[v] = worker[v]
  BY <1>4 DEF Committing
<1>5. ASSUME NEW a \in Artifacts, Put(a) \/ Complete(a) \/ Reclaim(a) \/ Stall(a) PROVE WholeInv'
  <2>1. UNCHANGED <<submission, worker>>
    BY <1>5 DEF Put, Complete, Reclaim, Stall, tables
  <2>2. Put(a) \/ Stall(a) => UNCHANGED artifact
    BY DEF Put, Stall, tables
  <2>3. \A s \in Submissions : Alike(s)
    BY <1>1, <1>5, <2>2, SameAlike, RowChanges DEF WholeInv
  <2> QED BY <1>1, <1>4, <2>1, <2>3, Quiet
<1>6. ASSUME NEW h \in Handlers,
             (\E a \in Artifacts, s \in Submissions : BeginInit(h, a, s)) \/ Refused(h)
      PROVE  WholeInv'
  <2>1. UNCHANGED <<artifact, submission, worker>>
    BY <1>6 DEF BeginInit, Refused, tables
  <2> QED BY <1>1, <1>4, <2>1, SameAlike, Quiet
<1>7. ASSUME NEW r \in outbox, Relay(r) PROVE WholeInv'
  <2>1. UNCHANGED <<artifact, submission, worker>>
    BY <1>7 DEF Relay
  <2> QED BY <1>1, <1>4, <2>1, SameAlike, Quiet
<1>8. ASSUME NEW w \in Workers,
             \/ \E a \in Artifacts : \E names \in Destinations[a] : TakeJob(w, a, names)
             \/ Read(w) \/ Copy(w) \/ Crash(w)
      PROVE  WholeInv'
  <2>1. UNCHANGED <<artifact, submission>>
    BY <1>8 DEF TakeJob, Read, Copy, Crash, tables
  <2>2. \E r : r.stage # "locked" /\ worker' = [worker EXCEPT ![w] = r]
    BY <1>8 DEF TakeJob, Read, Copy, Crash, Done, Throw, Release, Advance, Free
  <2> QED BY <1>1, <1>3, <2>1, <2>2, SameAlike, Quiet
<1>9. ASSUME NEW w \in Workers, Start(w) \/ Quarantine(w) \/ Fail(w) PROVE WholeInv'
  <2>1. UNCHANGED submission
    BY <1>9 DEF Start, Quarantine, Fail
  <2>2. PICK a \in Artifacts : a = worker[w].artifact
    BY <1>2, <1>9 DEF Start, Quarantine, Fail, At, Working, Free
  <2>3. \A s \in Submissions : Alike(s)
    BY <1>1, <1>9, <2>2, RowChanges DEF WholeInv
  <2>4. \E r : r.stage # "locked" /\ worker' = [worker EXCEPT ![w] = r]
    <3>1. CASE Start(w)
      <4>1. PICK q \in [stage : {"read", "started"}, artifact : Artifacts, key : Keys,
                        names : NameLists] : q = worker[w]
        BY <1>2, <3>1 DEF Start, At, Working, Free
      <4>2. [q EXCEPT !.stage = "started"].stage = "started"
        OBVIOUS
      <4>3. worker' = [worker EXCEPT ![w] = [q EXCEPT !.stage = "started"]]
              \/ worker' = [worker EXCEPT ![w] = Free]
        BY <3>1, <4>1 DEF Start, Done, Release
      <4> QED BY <4>2, <4>3 DEF Free
    <3>2. CASE Quarantine(w) \/ Fail(w)
      BY <3>2 DEF Quarantine, Fail, Done, Release, Advance, Free
    <3> QED BY <1>9, <3>1, <3>2
  <2> QED BY <1>1, <1>3, <2>1, <2>3, <2>4, Quiet
<1>10. ASSUME UNCHANGED vars PROVE WholeInv'
  <2>1. UNCHANGED <<artifact, submission, worker>>
    BY <1>10 DEF vars, tables
  <2> QED BY <1>1, <1>4, <2>1, SameAlike, Quiet
<1>11. ASSUME NEW h \in Handlers, Reserve(h) PROVE WholeInv'
  BY <1>1, <1>11, ReserveWhole
<1>12. ASSUME NEW w \in Workers, Lock(w) \/ Commit(w) \/ Reject(w) PROVE WholeInv'
  BY <1>1, <1>12, LockWhole, CommitWhole, RejectWhole
<1>13. PromotionInv
  BY DEF WholeInv
<1> QED BY Steps, <1>5, <1>6, <1>7, <1>8, <1>9, <1>10, <1>11, <1>12, <1>13

(* A submission is ready with the last of its files, not before and not    *)
(* never, as long as nobody removes any: verifications of one submission   *)
(* that end together are serialised by the lock on its row, and the later  *)
(* one counts what the earlier one has promoted (verifier.ts, commit).     *)
THEOREM SubmissionsAreReadyWhenWhole ==
  ASSUME ArtifactsAssumption, NoRemovals
  PROVE  Spec => []SubmissionIsReadyIffWhole
<1>1. WholeInv => SubmissionIsReadyIffWhole
  BY DEF WholeInv, WholeIsReady, SubmissionIsReadyIffWhole
<1>2. WholeInv /\ [Next]_vars => WholeInv'
  BY NextWhole
<1> QED BY InitWhole, <1>1, <1>2, PTL DEF Spec

=============================================================================
