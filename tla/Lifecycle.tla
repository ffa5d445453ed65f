------------------------------ MODULE Lifecycle ------------------------------
(***************************************************************************)
(* The life of an avatar across the two programs: the server's upload and  *)
(* delete requests, the worker's consumers and its reconciler, over a      *)
(* PostgreSQL table, an S3 bucket and a RabbitMQ queue they share.         *)
(*                                                                         *)
(* One action is one remote call together with the local code up to the    *)
(* next call, so that requests, consumers and the reconciler interleave    *)
(* exactly where the program can be preempted.  Every call may also fail:  *)
(* with no effect, or after its effect took place (a lost answer).  Any    *)
(* process may crash between two calls.  A failure spends one unit of      *)
(* "faults"; FaultKinds says which kinds of failure an instance has.       *)
(***************************************************************************)
EXTENDS Domain, Retry, FiniteSets

CONSTANTS
  Avatars,        \* the ids uploads may draw (uuid.New: each is drawn once)
  MaxUploads,     \* bound: uploads in one behaviour
  Deleters,       \* delete requests the server serves at a time
  Workers,        \* goroutines of Consumer.Consume, over all worker processes
  DecodeSlots,    \* WORKER_DECODE_CONCURRENCY
  Broken,         \* avatars whose header is valid but whose pixels do not decode
  TimelyUploads,  \* an upload request ends before its row is StuckAfter old
  FaultKinds,     \* the kinds of failure this instance has
  MaxFaults,      \* bound: failures in one behaviour
  MaxCopies       \* bound: the reconciler adds no copy of an event beyond it

AllFaultKinds == {"db", "s3", "amqp", "crash", "timeout", "panic"}

ASSUME LifecycleAssumption ==
  /\ Avatars # {}
  /\ MaxUploads \in Nat
  /\ DecodeSlots \in Nat \ {0}
  /\ Broken \subseteq Avatars
  /\ TimelyUploads \in BOOLEAN
  /\ FaultKinds \subseteq AllFaultKinds
  /\ MaxFaults \in Nat
  /\ MaxCopies \in Nat \ {0}

VARIABLES
  row,     \* the avatars table
  store,   \* the keys of the bucket
  queue,   \* avatars.process and the retry levels: copies of each message
  dead,    \* the events in avatars.dlq, without headers
  up,      \* the upload request of each avatar: where it stands
  del,     \* the delete requests
  wrk,     \* the consumers
  rec,     \* the reconciler
  faults   \* failures left

vars == <<row, store, queue, dead, up, del, wrk, rec, faults>>
-----------------------------------------------------------------------------
\* An event's type is its routing key.  The body is the avatar's id: the keys
\* of a delete event are StorageKeys of that id.
EventTypes == {"avatar.uploaded", "avatar.deleted"}

Message == [type : EventTypes, avatar : Avatars, headers : Headers]

UploadEvent(a) == [type |-> "avatar.uploaded", avatar |-> a, headers |-> NoHeaders]

DeleteEvent(a) == [type |-> "avatar.deleted", avatar |-> a, headers |-> NoHeaders]

\* A row.  "upload" is "none" before the INSERT; "old" stands for
\* updated_at < now - StuckAfter; "thumbs" are the sizes in thumbnail_s3_keys.
\* retry_count is informational (only metadata shows it) and left out.
Rows ==
  [upload : UploadStatus \cup {"none"}, proc : ProcessingStatus,
   deleted : BOOLEAN, removed : BOOLEAN, thumbs : SUBSET ThumbnailSizes, old : BOOLEAN]

NoRow ==
  [upload |-> "none", proc |-> "pending", deleted |-> FALSE,
   removed |-> FALSE, thumbs |-> {}, old |-> FALSE]

UploadPC == {"idle", "put", "status", "publish", "mark", "acked", "failed", "crashed"}

DeletePC == {"idle", "soft", "publish", "delete", "mark"}

UploadedPC ==
  {"get", "start", "slot", "render", "put", "complete", "why", "cleanup", "count", "failed"}

DeletedPC == {"delete", "mark"}

WorkerPC == {"idle", "ack", "reroute"} \cup UploadedPC \cup DeletedPC

\* A consumer: the delivery it holds, the thumbnails it has put ("n"), whether
\* its error is ErrNonRetryable, whether its ProcessTimeout has run out.
Consumers ==
  [pc : WorkerPC, msg : Message, n : 0..NumSizes, fatal : BOOLEAN, expired : BOOLEAN]

\* The reconciler between two calls.  "cleanups" with nothing to do is the wait
\* for the next tick.
ReconcilerPC == {"select", "uploads", "cleanups"}

TypeOK ==
  /\ row \in [Avatars -> Rows]
  /\ store \in SUBSET (Avatars \X (0..NumSizes))
  /\ queue \in [Message -> Nat]
  /\ dead \in SUBSET (EventTypes \X Avatars)
  /\ up \in [Avatars -> UploadPC]
  /\ del \in [Deleters -> [pc : DeletePC, avatar : Avatars]]
  /\ wrk \in [Workers -> Consumers]
  /\ rec \in [pc : ReconcilerPC, todo : SUBSET Avatars]
  /\ faults \in 0..MaxFaults

AnyAvatar == CHOOSE a \in Avatars : TRUE

Idle ==
  [pc |-> "idle", msg |-> UploadEvent(AnyAvatar), n |-> 0, fatal |-> FALSE, expired |-> FALSE]

Init ==
  /\ row = [a \in Avatars |-> NoRow]
  /\ store = {}
  /\ queue = [m \in Message |-> 0]
  /\ dead = {}
  /\ up = [a \in Avatars |-> "idle"]
  /\ del = [d \in Deleters |-> [pc |-> "idle", avatar |-> AnyAvatar]]
  /\ wrk = [w \in Workers |-> Idle]
  /\ rec = [pc |-> "cleanups", todo |-> {}]
  /\ faults = MaxFaults
-----------------------------------------------------------------------------
(* Failures, and the calls every process makes. *)

Fault(kind) == kind \in FaultKinds /\ faults > 0 /\ faults' = faults - 1

Works == UNCHANGED faults

\* deleted_at IS NULL, which every query but the cleanup's asks for.
Live(a) == row[a].upload # "none" /\ ~row[a].deleted

SetRow(a, r) == row' = [row EXCEPT ![a] = r]

\* The UPDATEs move updated_at to now.
Touched(r) == [r EXCEPT !.old = FALSE]

\* SetUploadStatus and SetProcessingStatus: the WHERE clause and the new row.
MaySetUpload(a, s) == Live(a) /\ row[a].upload \in UploadAllowedFrom(s)

UploadSet(a, s) == Touched([row[a] EXCEPT !.upload = s])

MaySetProcessing(a, s) == Live(a) /\ row[a].proc \in ProcessingAllowedFrom(s)

ProcessingSet(a, s) == Touched([row[a] EXCEPT !.proc = s])

Completed(a) ==
  Touched([row[a] EXCEPT !.proc = "completed", !.thumbs = ThumbnailSizes])

\* The INSERT's defaults.
Created == [NoRow EXCEPT !.upload = "uploading"]

SoftDeleted(a) == Touched([row[a] EXCEPT !.deleted = TRUE])

\* MarkFilesRemoved leaves updated_at alone.
FilesRemoved(a) == [row[a] EXCEPT !.removed = TRUE]

\* An UPDATE whose answer was lost: applied if its WHERE clause held, or not.
MaybeSetRow(a, may, r) == UNCHANGED row \/ (may /\ SetRow(a, r))

Put(key) == store' = store \cup {key}

\* DeleteMany on success, and on failure: the batch was deleted in part.
DeleteMany(keys) == store' = store \ keys

DeleteSome(keys) == \E gone \in SUBSET keys : store' = store \ gone

Publish(m) == queue' = [queue EXCEPT ![m] = @ + 1]

\* A publication without a confirm: the broker has the message, or not.
MaybePublish(m) == UNCHANGED queue \/ Publish(m)
-----------------------------------------------------------------------------
(* Service.Upload, for the avatar id the request drew. *)

UploadStep(a, from, to) == up[a] = from /\ up' = [up EXCEPT ![a] = to]

\* repo.Create, after Validate.  Its context is still the client's.
Create(a) ==
  /\ Cardinality({b \in Avatars : up[b] # "idle"}) < MaxUploads
  /\ \/ UploadStep(a, "idle", "put") /\ SetRow(a, Created) /\ Works
     \/ UploadStep(a, "idle", "failed") /\ MaybeSetRow(a, TRUE, Created) /\ Fault("db")
  /\ UNCHANGED <<store, queue, dead, del, wrk, rec>>

\* Mutant: a failed Put is logged and the request goes on.
PutOriginal_ErrorIgnored(a) ==
  /\ UploadStep(a, "put", "status")
  /\ \/ Put(OriginalKey(a)) /\ Works
     \/ UNCHANGED store /\ Fault("s3")
  /\ UNCHANGED <<row, queue, dead, del, wrk, rec>>

PutOriginal(a) ==
  /\ \/ UploadStep(a, "put", "status") /\ Put(OriginalKey(a)) /\ Works
     \/ /\ UploadStep(a, "put", "mark")
        /\ Put(OriginalKey(a)) \/ UNCHANGED store
        /\ Fault("s3")
  /\ UNCHANGED <<row, queue, dead, del, wrk, rec>>

\* Mutant: the error of the status change does not end the request.
SetUploaded_ErrorIgnored(a) ==
  LET may == MaySetUpload(a, "uploaded")
      new == UploadSet(a, "uploaded")
  IN
  /\ UploadStep(a, "status", "publish")
  /\ \/ may /\ SetRow(a, new) /\ Works
     \/ ~may /\ UNCHANGED row /\ Works
     \/ MaybeSetRow(a, may, new) /\ Fault("db")
  /\ UNCHANGED <<store, queue, dead, del, wrk, rec>>

SetUploaded(a) ==
  LET may == MaySetUpload(a, "uploaded")
      new == UploadSet(a, "uploaded")
  IN
  /\ \/ may /\ UploadStep(a, "status", "publish") /\ SetRow(a, new) /\ Works
     \/ ~may /\ UploadStep(a, "status", "mark") /\ UNCHANGED row /\ Works
     \/ UploadStep(a, "status", "mark") /\ MaybeSetRow(a, may, new) /\ Fault("db")
  /\ UNCHANGED <<store, queue, dead, del, wrk, rec>>

\* The answer is 201 whether the event was published or not.
PublishUpload(a) ==
  /\ UploadStep(a, "publish", "acked")
  /\ \/ Publish(UploadEvent(a)) /\ Works
     \/ MaybePublish(UploadEvent(a)) /\ Fault("amqp")
  /\ UNCHANGED <<row, store, dead, del, wrk, rec>>

markFailed(a) ==
  LET may == MaySetUpload(a, "failed")
      new == UploadSet(a, "failed")
  IN
  /\ UploadStep(a, "mark", "failed")
  /\ \/ may /\ SetRow(a, new) /\ Works
     \/ ~may /\ UNCHANGED row /\ Works
     \/ MaybeSetRow(a, may, new) /\ Fault("db")
  /\ UNCHANGED <<store, queue, dead, del, wrk, rec>>

CrashUpload(a) ==
  /\ \E pc \in {"put", "status", "publish", "mark"} : UploadStep(a, pc, "crashed")
  /\ Fault("crash")
  /\ UNCHANGED <<row, store, queue, dead, del, wrk, rec>>

UploadRequest(a) ==
  Create(a) \/ PutOriginal(a) \/ SetUploaded(a) \/ PublishUpload(a) \/ markFailed(a)
-----------------------------------------------------------------------------
(* Service.Delete and Service.DeleteCurrent. *)

DeleteStep(d, from, to) == del[d].pc = from /\ del' = [del EXCEPT ![d].pc = to]

\* The read of the row and the owner's check.  Clients learn an id from the
\* answer 201 or from a list, and both show rows whose upload ended.  The
\* refusals (not found, forbidden) change nothing and are not steps.
BeginDelete(d, a) ==
  /\ del[d].pc = "idle" /\ Live(a) /\ row[a].upload = "uploaded"
  /\ del' = [del EXCEPT ![d] = [pc |-> "soft", avatar |-> a]]
  /\ UNCHANGED <<row, store, queue, dead, up, wrk, rec, faults>>

\* Mutant: the event is published although the row may not be deleted.
SoftDelete_ErrorIgnored(d) ==
  LET a == del[d].avatar IN
  /\ DeleteStep(d, "soft", "publish")
  /\ \/ Live(a) /\ SetRow(a, SoftDeleted(a)) /\ Works
     \/ MaybeSetRow(a, Live(a), SoftDeleted(a)) /\ Fault("db")
  /\ UNCHANGED <<store, queue, dead, up, wrk, rec>>

SoftDelete(d) ==
  LET a == del[d].avatar IN
  /\ \/ Live(a) /\ DeleteStep(d, "soft", "publish") /\ SetRow(a, SoftDeleted(a)) /\ Works
     \/ ~Live(a) /\ DeleteStep(d, "soft", "idle") /\ UNCHANGED row /\ Works
     \/ DeleteStep(d, "soft", "idle") /\ MaybeSetRow(a, Live(a), SoftDeleted(a)) /\ Fault("db")
  /\ UNCHANGED <<store, queue, dead, up, wrk, rec>>

\* A failed publication falls back to removing the files in the request.
PublishDelete(d) ==
  LET event == DeleteEvent(del[d].avatar) IN
  /\ \/ DeleteStep(d, "publish", "idle") /\ Publish(event) /\ Works
     \/ DeleteStep(d, "publish", "delete") /\ MaybePublish(event) /\ Fault("amqp")
  /\ UNCHANGED <<row, store, dead, up, wrk, rec>>

removeFiles(d) ==
  LET a == del[d].avatar IN
  /\ \/ DeleteStep(d, "delete", "mark") /\ DeleteMany(StorageKeys(a)) /\ UNCHANGED row /\ Works
     \/ /\ DeleteStep(d, "delete", "idle") /\ DeleteSome(StorageKeys(a))
        /\ UNCHANGED row /\ Fault("s3")
     \/ /\ DeleteStep(d, "mark", "idle") /\ UNCHANGED store
        /\ \/ SetRow(a, FilesRemoved(a)) /\ Works
           \/ MaybeSetRow(a, TRUE, FilesRemoved(a)) /\ Fault("db")
  /\ UNCHANGED <<queue, dead, up, wrk, rec>>

CrashDelete(d) ==
  /\ \E pc \in DeletePC \ {"idle"} : DeleteStep(d, pc, "idle")
  /\ Fault("crash")
  /\ UNCHANGED <<row, store, queue, dead, up, wrk, rec>>

DeleteRequest(d) ==
  SoftDelete(d) \/ PublishDelete(d) \/ removeFiles(d)
-----------------------------------------------------------------------------
(* Consumer.process and the handlers it calls. *)

Held(w) == wrk[w].msg

Target(w) == wrk[w].msg.avatar

At(w, pc) == wrk[w].pc = pc

Goto(w, pc) == wrk' = [wrk EXCEPT ![w].pc = pc]

Release(w) == wrk' = [wrk EXCEPT ![w] = Idle]

\* One context with ProcessTimeout serves the whole of Consumer.process: once
\* it has run out every database and storage call fails, without effect.
CallWorks(w) == ~wrk[w].expired /\ Works

CallFails(w, kind) == IF wrk[w].expired THEN Works ELSE Fault(kind)

\* Handler.failure, up to its database call: a repeat is counted, an error that
\* ends the work is recorded.
failure(w, fatal) ==
  wrk' = [wrk EXCEPT ![w].fatal = fatal,
                     ![w].pc = IF fatal \/ Final(Held(w).headers) THEN "failed" ELSE "count"]

\* Handler.dispatch: the type property of the message picks the handler.
Delivered(m) ==
  [Idle EXCEPT !.msg = m, !.pc = IF m.type = "avatar.uploaded" THEN "get" ELSE "delete"]

Deliver(w, m) ==
  /\ At(w, "idle") /\ queue[m] > 0
  /\ queue' = [queue EXCEPT ![m] = @ - 1]
  /\ wrk' = [wrk EXCEPT ![w] = Delivered(m)]
  /\ UNCHANGED <<row, store, dead, up, del, rec, faults>>

\* Handler.start: the read, and done(status).
GetRow(w) ==
  LET a == Target(w) IN
  /\ At(w, "get")
  /\ \/ /\ CallWorks(w)
        /\ Goto(w, IF Live(a) /\ row[a].proc \notin {"completed", "failed"} THEN "start" ELSE "ack")
     \/ CallFails(w, "db") /\ failure(w, FALSE)
  /\ UNCHANGED <<row, store, queue, dead, up, del, rec>>

\* Handler.start: the move to processing.
StartProcessing(w) ==
  LET a   == Target(w)
      may == MaySetProcessing(a, "processing")
      new == ProcessingSet(a, "processing")
  IN
  /\ At(w, "start")
  /\ \/ may /\ SetRow(a, new) /\ Goto(w, "slot") /\ CallWorks(w)
     \/ ~may /\ UNCHANGED row /\ Goto(w, "ack") /\ CallWorks(w)
     \/ /\ MaybeSetRow(a, may /\ ~wrk[w].expired, new)
        /\ failure(w, FALSE) /\ CallFails(w, "db")
  /\ UNCHANGED <<store, queue, dead, up, del, rec>>

\* Handler.render: the wait for a decode slot.
AcquireSlot(w) ==
  /\ At(w, "slot")
  /\ \/ Cardinality({o \in Workers : At(o, "render")}) < DecodeSlots /\ Goto(w, "render")
     \/ wrk[w].expired /\ failure(w, FALSE)
  /\ UNCHANGED <<row, store, queue, dead, up, del, rec, faults>>

\* Handler.render with the slot held: readOriginal, then Thumbnails.  A lost
\* original and undecodable pixels are not repeated; a panic of the decoder is
\* caught by Consumer.handle, past Handler.failure.
Render(w) ==
  LET a == Target(w) IN
  /\ At(w, "render")
  /\ \/ /\ CallWorks(w)
        /\ IF OriginalKey(a) \in store /\ a \notin Broken
           THEN Goto(w, "put")
           ELSE failure(w, TRUE)
     \/ CallFails(w, "s3") /\ failure(w, FALSE)
     \/ Fault("panic") /\ Goto(w, "reroute")
  /\ UNCHANGED <<row, store, queue, dead, up, del, rec>>

\* Mutant: the last size is left out.
ThumbnailStored_Early(c) ==
  [c EXCEPT !.n = @ + 1, !.pc = IF c.n + 2 = NumSizes THEN "complete" ELSE "put"]

\* Handler.process: one thumbnail after the other, in the order of the sizes.
ThumbnailStored(c) ==
  [c EXCEPT !.n = @ + 1, !.pc = IF c.n + 1 = NumSizes THEN "complete" ELSE "put"]

PutThumbnail(w) ==
  LET key == ThumbnailKey(Target(w), wrk[w].n + 1) IN
  /\ At(w, "put") /\ wrk[w].n < NumSizes
  /\ \/ /\ Put(key) /\ CallWorks(w)
        /\ wrk' = [wrk EXCEPT ![w] = ThumbnailStored(wrk[w])]
     \/ /\ UNCHANGED store \/ (Put(key) /\ ~wrk[w].expired)
        /\ failure(w, FALSE) /\ CallFails(w, "s3")
  /\ UNCHANGED <<row, queue, dead, up, del, rec>>

\* repo.CompleteProcessing.  When no row was updated a second query asks why.
CompleteProcessing(w) ==
  LET a   == Target(w)
      may == MaySetProcessing(a, "completed")
  IN
  /\ At(w, "complete")
  /\ \/ may /\ SetRow(a, Completed(a)) /\ Goto(w, "ack") /\ CallWorks(w)
     \/ ~may /\ UNCHANGED row /\ Goto(w, "why") /\ CallWorks(w)
     \/ /\ MaybeSetRow(a, may /\ ~wrk[w].expired, Completed(a))
        /\ failure(w, FALSE) /\ CallFails(w, "db")
  /\ UNCHANGED <<store, queue, dead, up, del, rec>>

\* Mutant: every conflict is taken for a deletion.
transitionError_AlwaysDeleted(w) ==
  /\ At(w, "why") /\ Goto(w, "cleanup") /\ CallWorks(w)
  /\ UNCHANGED <<row, store, queue, dead, up, del, rec>>

\* Repository.transitionError: a live row means another delivery ended the
\* work, otherwise the avatar was deleted and its thumbnails are orphans.
transitionError(w) ==
  /\ At(w, "why")
  /\ \/ CallWorks(w) /\ Goto(w, IF Live(Target(w)) THEN "ack" ELSE "cleanup")
     \/ CallFails(w, "db") /\ failure(w, FALSE)
  /\ UNCHANGED <<row, store, queue, dead, up, del, rec>>

\* Handler.removeThumbnails: its failure is only logged.
removeThumbnails(w) ==
  LET orphans == {ThumbnailKey(Target(w), s) : s \in 1..wrk[w].n} IN
  /\ At(w, "cleanup")
  /\ \/ DeleteMany(orphans) /\ CallWorks(w)
     \/ /\ IF wrk[w].expired THEN UNCHANGED store ELSE DeleteSome(orphans)
        /\ CallFails(w, "s3")
  /\ failure(w, TRUE)
  /\ UNCHANGED <<row, queue, dead, up, del, rec>>

\* Mutant: the message is acknowledged instead of being repeated.
countRetry_Acks(w) ==
  /\ At(w, "count") /\ Goto(w, "ack") /\ CallWorks(w)
  /\ UNCHANGED <<row, store, queue, dead, up, del, rec>>

\* Handler.countRetry: IncrementRetry, whose failure is only logged.
countRetry(w) ==
  LET a == Target(w) IN
  /\ At(w, "count")
  /\ \/ /\ IF Live(a) THEN SetRow(a, Touched(row[a])) ELSE UNCHANGED row
        /\ CallWorks(w)
     \/ /\ MaybeSetRow(a, Live(a) /\ ~wrk[w].expired, Touched(row[a]))
        /\ CallFails(w, "db")
  /\ Goto(w, "reroute")
  /\ UNCHANGED <<store, queue, dead, up, del, rec>>

\* Handler.failure: the terminal status.  When it cannot be written, an error
\* that is not the last attempt's turns into one that is repeated.
MarkProcessingFailed(w) ==
  LET a     == Target(w)
      may   == MaySetProcessing(a, "failed")
      new   == ProcessingSet(a, "failed")
      ended == IF wrk[w].fatal THEN "ack" ELSE "reroute"
  IN
  /\ At(w, "failed")
  /\ \/ may /\ SetRow(a, new) /\ Goto(w, ended) /\ CallWorks(w)
     \/ ~may /\ UNCHANGED row /\ Goto(w, ended) /\ CallWorks(w)
     \/ /\ MaybeSetRow(a, may /\ ~wrk[w].expired, new)
        /\ Goto(w, IF Final(Held(w).headers) THEN ended ELSE "reroute")
        /\ CallFails(w, "db")
  /\ UNCHANGED <<store, queue, dead, up, del, rec>>

\* Mutant: the row is marked although files are left.
DeleteFiles_ErrorIgnored(w) ==
  LET keys == StorageKeys(Target(w)) IN
  /\ At(w, "delete") /\ Goto(w, "mark")
  /\ \/ DeleteMany(keys) /\ CallWorks(w)
     \/ DeleteSome(keys) /\ CallFails(w, "s3")
  /\ UNCHANGED <<row, queue, dead, up, del, rec>>

\* Handler.deleted: the files, then the mark.
DeleteFiles(w) ==
  LET keys == StorageKeys(Target(w)) IN
  /\ At(w, "delete")
  /\ \/ DeleteMany(keys) /\ Goto(w, "mark") /\ CallWorks(w)
     \/ /\ IF wrk[w].expired THEN UNCHANGED store ELSE DeleteSome(keys)
        /\ Goto(w, "reroute") /\ CallFails(w, "s3")
  /\ UNCHANGED <<row, queue, dead, up, del, rec>>

MarkFilesRemoved(w) ==
  LET a == Target(w) IN
  /\ At(w, "mark")
  /\ \/ SetRow(a, FilesRemoved(a)) /\ Goto(w, "ack") /\ CallWorks(w)
     \/ /\ MaybeSetRow(a, ~wrk[w].expired, FilesRemoved(a))
        /\ Goto(w, "reroute") /\ CallFails(w, "db")
  /\ UNCHANGED <<store, queue, dead, up, del, rec>>

\* The copy that forward publishes, and the original after a Reject.
ForwardedCopy(m) == [m EXCEPT !.headers = Forwarded(@)]

RejectedBack(m) == [m EXCEPT !.headers = Rejected(@)]

\* Consumer.reroute.  publish does not look at its context before it sends, so
\* under an expired one the copy leaves and the wait for its confirm fails.
\* Whenever forward fails the original is rejected as well.
reroute(w) ==
  LET m     == Held(w)
      final == Final(m.headers)
      copy  == ForwardedCopy(m)
      back  == RejectedBack(m)
      Bury  == dead' = dead \cup {<<m.type, m.avatar>>}
  IN
  /\ At(w, "reroute")
  /\ \/ /\ CallWorks(w) /\ Goto(w, "ack")
        /\ IF final THEN Bury /\ UNCHANGED queue ELSE Publish(copy) /\ UNCHANGED dead
     \/ /\ CallFails(w, "amqp") /\ Release(w)
        /\ \/ ~wrk[w].expired /\ Publish(back) /\ UNCHANGED dead
           \/ IF final
              THEN Bury /\ Publish(back)
              ELSE /\ queue' = [[queue EXCEPT ![copy] = @ + 1] EXCEPT ![back] = @ + 1]
                   /\ UNCHANGED dead
  /\ UNCHANGED <<row, store, up, del, rec>>

Ack(w) ==
  /\ At(w, "ack") /\ Release(w)
  /\ UNCHANGED <<row, store, queue, dead, up, del, rec, faults>>

\* ProcessTimeout runs out while the message is handled.
Expired(c) == [c EXCEPT !.expired = TRUE]

Expire(w) ==
  /\ wrk[w].pc \notin {"idle", "ack"} /\ ~wrk[w].expired
  /\ wrk' = [wrk EXCEPT ![w] = Expired(wrk[w])]
  /\ Fault("timeout")
  /\ UNCHANGED <<row, store, queue, dead, up, del, rec>>

\* The process or its channel dies, or the acknowledgement is lost: the broker
\* delivers what was not acknowledged again, with the headers it had.
CrashWorker(w) ==
  /\ ~At(w, "idle") /\ Release(w)
  /\ Publish(Held(w))
  /\ Fault("crash")
  /\ UNCHANGED <<row, store, dead, up, del, rec>>

HandleUploaded(w) ==
  \/ GetRow(w) \/ StartProcessing(w) \/ AcquireSlot(w) \/ Render(w) \/ PutThumbnail(w)
  \/ CompleteProcessing(w) \/ transitionError(w) \/ removeThumbnails(w)
  \/ countRetry(w) \/ MarkProcessingFailed(w)

HandleDeleted(w) == DeleteFiles(w) \/ MarkFilesRemoved(w)

Consume(w) == HandleUploaded(w) \/ HandleDeleted(w) \/ reroute(w) \/ Ack(w)
-----------------------------------------------------------------------------
(* Reconciler.reconcile: three steps, each of which fails on its own. *)

\* Mutants: the queries leave out the rows whose event was never published, and
\* the uploads that failed.
Stuck_OnlyStarted(a) == Live(a) /\ row[a].upload = "uploaded" /\ row[a].proc = "processing"

Uncleaned_OnlyDeleted(a) == ~row[a].removed /\ row[a].deleted

\* A row the reconciler would select grows older than StuckAfter.  The age of
\* other rows is never looked at before the next UPDATE resets it.
Stuck(a) == Live(a) /\ row[a].upload = "uploaded" /\ row[a].proc = "pending"

Uncleaned(a) ==
  ~row[a].removed /\ (row[a].deleted \/ row[a].upload = "failed")

Aged(a) == [row[a] EXCEPT !.old = TRUE]

Age(a) ==
  /\ ~row[a].old /\ row[a].upload # "none"
  /\ row[a].upload = "uploading" \/ Stuck(a) \/ Uncleaned(a)
  /\ TimelyUploads => up[a] \notin {"put", "status", "mark"}
  /\ SetRow(a, Aged(a))
  /\ UNCHANGED <<store, queue, dead, up, del, wrk, rec, faults>>

\* Mutant: rows of uploads that never ended are left alone.
FailStaleUploads_Skipped ==
  /\ rec = [pc |-> "cleanups", todo |-> {}]
  /\ rec' = [rec EXCEPT !.pc = "select"]
  /\ UNCHANGED <<row, store, queue, dead, up, del, wrk, faults>>

FailStaleUploads ==
  LET stale == {a \in Avatars : MaySetUpload(a, "failed") /\ row[a].old}
      new   == [a \in Avatars |-> IF a \in stale THEN UploadSet(a, "failed") ELSE row[a]]
  IN
  /\ rec = [pc |-> "cleanups", todo |-> {}]
  /\ rec' = [rec EXCEPT !.pc = "select"]
  /\ \/ row' = new /\ Works
     \/ (UNCHANGED row \/ row' = new) /\ Fault("db")
  /\ UNCHANGED <<store, queue, dead, up, del, wrk>>

\* The two queries.  What is published later is what was true of a row when
\* the query ran.
SelectStuck ==
  /\ rec.pc = "select"
  /\ \/ rec' = [pc |-> "uploads", todo |-> {a \in Avatars : Stuck(a) /\ row[a].old}] /\ Works
     \/ rec' = [pc |-> "uploads", todo |-> {}] /\ Fault("db")
  /\ UNCHANGED <<row, store, queue, dead, up, del, wrk>>

SelectUncleaned ==
  /\ rec = [pc |-> "uploads", todo |-> {}]
  /\ \/ rec' = [pc |-> "cleanups", todo |-> {a \in Avatars : Uncleaned(a) /\ row[a].old}] /\ Works
     \/ rec' = [pc |-> "cleanups", todo |-> {}] /\ Fault("db")
  /\ UNCHANGED <<row, store, queue, dead, up, del, wrk>>

\* Publishing for the selected rows stops at the first failure.
Republish(a, event) ==
  /\ a \in rec.todo /\ queue[event] < MaxCopies
  /\ \/ Publish(event) /\ rec' = [rec EXCEPT !.todo = @ \ {a}] /\ Works
     \/ MaybePublish(event) /\ rec' = [rec EXCEPT !.todo = {}] /\ Fault("amqp")
  /\ UNCHANGED <<row, store, dead, up, del, wrk>>

republishUploads(a) == rec.pc = "uploads" /\ Republish(a, UploadEvent(a))

republishCleanups(a) == rec.pc = "cleanups" /\ Republish(a, DeleteEvent(a))

\* The worker process dies within a pass; the next one starts a new pass.
CrashReconciler ==
  /\ rec.pc # "cleanups" \/ rec.todo # {}
  /\ rec' = [pc |-> "cleanups", todo |-> {}]
  /\ Fault("crash")
  /\ UNCHANGED <<row, store, queue, dead, up, del, wrk>>

Reconcile ==
  \/ FailStaleUploads \/ SelectStuck \/ SelectUncleaned
  \/ \E a \in Avatars : republishUploads(a) \/ republishCleanups(a)
-----------------------------------------------------------------------------
Next ==
  \/ \E a \in Avatars : UploadRequest(a) \/ CrashUpload(a) \/ Age(a)
  \/ \E d \in Deleters :
       DeleteRequest(d) \/ CrashDelete(d) \/ \E a \in Avatars : BeginDelete(d, a)
  \/ \E w \in Workers :
       Consume(w) \/ Expire(w) \/ CrashWorker(w) \/ \E m \in Message : Deliver(w, m)
  \/ Reconcile \/ CrashReconciler

Spec == Init /\ [][Next]_vars

\* What the programs and their surroundings are relied on to do: a request and
\* a consumer go on to their next call, the broker hands a waiting message to an
\* idle consumer, the ticker fires, time passes.  Nothing is relied on to be
\* asked for (Create, BeginDelete) or to fail.
Fairness ==
  /\ \A a \in Avatars : WF_vars(UploadRequest(a) /\ up[a] # "idle") /\ WF_vars(Age(a))
  /\ \A d \in Deleters : WF_vars(DeleteRequest(d))
  /\ \A w \in Workers : WF_vars(Consume(w) \/ \E m \in Message : Deliver(w, m))
  /\ WF_vars(Reconcile)

FairSpec == Spec /\ Fairness
-----------------------------------------------------------------------------
(* Properties. *)

\* A row whose files are to be removed: the cleanups are about these only.
Gone(a) == row[a].deleted \/ row[a].upload = "failed"

\* An avatar that is served (live, upload ended) has its original in the store,
\* whatever crashed, failed or was delivered twice: Upload writes the status
\* after the file, and cleanups only ever reach rows that left this state.
LiveOriginal ==
  \A a \in Avatars : Live(a) /\ row[a].upload = "uploaded" => OriginalKey(a) \in store

\* A live completed avatar has every thumbnail recorded and every recorded
\* thumbnail stored: the key reaches the row after the object (uploaded.go), and
\* two deliveries of one event never undo each other's files.
CompletedServable ==
  \A a \in Avatars : Live(a) /\ row[a].proc = "completed" =>
    /\ row[a].thumbs = ThumbnailSizes
    /\ \A s \in row[a].thumbs : ThumbnailKey(a, s) \in store

\* The types, and Upload answers success only for a row that is uploaded and stays so: neither
\* the reconciler's FailStaleUploads nor a lost answer of the database takes it
\* back.
AckedUploaded ==
  /\ TypeOK
  /\ \A a \in Avatars : up[a] = "acked" => row[a].upload = "uploaded"

\* Once files_removed_at is set the original is gone for good, so that the
\* reconciler, which skips such rows, leaves no file behind (uploads that end
\* within StuckAfter).
RemovedOriginalGone ==
  TimelyUploads => \A a \in Avatars : row[a].removed => OriginalKey(a) \notin store

\* The events of an avatar a consumer works on or the broker keeps.
InWork(a) == \E w \in Workers : ~At(w, "idle") /\ Held(w).type = "avatar.uploaded" /\ Target(w) = a

Waiting(a) == \E m \in Message : m.type = "avatar.uploaded" /\ m.avatar = a /\ queue[m] > 0

\* files_removed_at says what the column's description says: once no upload event
\* of the avatar is left, neither at a consumer nor in the broker, no file of it
\* is left either.
NothingLeftBehind ==
  \A a \in Avatars :
    row[a].removed /\ ~InWork(a) /\ ~Waiting(a) => store \cap StorageKeys(a) = {}

Dead(a) == <<"avatar.uploaded", a>> \in dead

\* Started work on an image that decodes is never lost: a live row in "processing",
\* which the reconciler does not look at, has its event at a consumer or in a queue
\* of the broker, if only in that of the dead letters.  (An image that does not decode
\* is ProcessingLeavesTrace's.)
ProcessingIsOwned ==
  \A a \in Avatars \ Broken :
    Live(a) /\ row[a].proc = "processing" => InWork(a) \/ Waiting(a) \/ Dead(a)

\* The same of an image that does not decode, as the comment on Handler.failure has it:
\* when "failed" cannot be written the event is repeated, for an error that is not
\* repeated is acknowledged and forgotten, and the row would stay in "processing".
ProcessingLeavesTrace ==
  \A a \in Broken :
    Live(a) /\ row[a].proc = "processing" => InWork(a) \/ Waiting(a) \/ Dead(a)

\* An upload event in the dead letter queue belongs to a row whose processing
\* ended: after the last attempt the status is "failed", whatever else becomes of the
\* event (a copy may be dead while the original is on its way to another attempt).
DeadMeansSettled ==
  \A a \in Avatars : Dead(a) => ~Live(a) \/ row[a].proc \in {"completed", "failed"}

\* No step deletes a file of a live uploaded avatar: neither a cleanup event, nor
\* a delete request, nor the removal of orphaned thumbnails by a late delivery.
FilesOutliveUse ==
  [][\A a \in Avatars : Live(a) /\ row[a].upload = "uploaded"
       => store \cap StorageKeys(a) \subseteq store']_vars

\* Decisions last: an ended upload, an ended processing, a deletion and a
\* finished cleanup are never taken back by a late or repeated writer.
DecisionsLast ==
  [][\A a \in Avatars :
       /\ row[a].upload \in {"uploaded", "failed"} => row'[a].upload = row[a].upload
       /\ row[a].proc \in {"completed", "failed"} => row'[a].proc = row[a].proc
       /\ row[a].deleted => row'[a].deleted
       /\ row[a].removed => row'[a].removed]_vars

\* The abstract row: the age is a means, not a promise.
AbstractState(r) ==
  [upload |-> r.upload, proc |-> r.proc, deleted |-> r.deleted,
   removed |-> r.removed, thumbs |-> r.thumbs]

Abstract == INSTANCE Avatar WITH
  state <- [a \in Avatars |-> AbstractState(row[a])], files <- store

\* Whatever requests, deliveries, the reconciler and failures do to a row and its
\* files together is a step of the avatar's life as Avatar describes it, or none
\* (uploads that end within StuckAfter).
Implements == Abstract!AvatarSpec

\* The three below say of each avatar that it leads from one state to another.  They
\* are written with []<>, which says the same where the first state lasts, or until
\* the second is reached (DecisionsLast): once "uploaded" or gone, always so.

\* Every upload request's row leaves "uploading", crashed requests included.
UploadsEnd == \A a \in Avatars : []<>(row[a].upload # "uploading")

\* An uploaded avatar is eventually processed, failed or deleted, or its event is
\* among the dead letters, though the request may never have published it.
UploadSettles ==
  \A a \in Avatars : []<>(row[a].upload = "uploaded" =>
    row[a].deleted \/ row[a].proc \in {"completed", "failed"} \/ Dead(a))

\* The files of a deleted avatar, and of a failed upload, are eventually removed.
CleanupHappens == \A a \in Avatars : []<>(Gone(a) => row[a].removed)
-----------------------------------------------------------------------------
(* The inductive invariant behind the safety properties.  It says which rows *)
(* each request, message and selection may be about: once work on an avatar  *)
(* is under way, the status that allowed it never goes away.                 *)

\* What holds of the row of every event's avatar, in the broker or at work.
About(m) ==
  IF m.type = "avatar.uploaded" THEN row[m.avatar].upload = "uploaded" ELSE Gone(m.avatar)

RowsSound ==
  \A a \in Avatars :
    /\ row[a].deleted => row[a].upload = "uploaded"
    /\ row[a].removed => Gone(a)
    /\ row[a].proc # "pending" => row[a].upload = "uploaded"
    /\ up[a] = "idle" => row[a].upload = "none"
    /\ up[a] \in {"publish", "acked"} => row[a].upload = "uploaded"

DeletersSound ==
  \A d \in Deleters :
    /\ del[d].pc # "idle" => row[del[d].avatar].upload = "uploaded"
    /\ del[d].pc \in {"publish", "delete", "mark"} => row[del[d].avatar].deleted

EventsSound == \A m \in Message : queue[m] > 0 => About(m)

WorkersSound ==
  \A w \in Workers :
    /\ ~At(w, "idle") => About(Held(w))
    /\ wrk[w].pc \in UploadedPC => Held(w).type = "avatar.uploaded"
    /\ wrk[w].pc \in DeletedPC => Held(w).type = "avatar.deleted"
    /\ At(w, "cleanup") => row[Target(w)].deleted

SelectionSound ==
  \A a \in rec.todo :
    /\ rec.pc = "uploads" => row[a].upload = "uploaded"
    /\ rec.pc = "cleanups" => Gone(a)
    /\ rec.pc # "select"

Sound == RowsSound /\ DeletersSound /\ EventsSound /\ WorkersSound /\ SelectionSound

\* What the store holds while a row is on its way.
OriginalSound ==
  \A a \in Avatars : up[a] = "status" /\ row[a].upload = "uploading" => OriginalKey(a) \in store

ThumbnailsSound ==
  \A w \in Workers :
    /\ wrk[w].pc \in {"get", "start", "slot", "render"} => wrk[w].n = 0
    /\ At(w, "complete") => wrk[w].n = NumSizes
    /\ wrk[w].pc \in {"put", "complete"} /\ ~row[Target(w)].deleted =>
         \A s \in 1..wrk[w].n : ThumbnailKey(Target(w), s) \in store

\* The keys of thumbnails are recorded together with the status.
RecordsSound == \A a \in Avatars : row[a].thumbs # {} => row[a].proc = "completed"

\* With timely uploads nobody puts the original of a row that is cleaned up.
RemovalSound ==
  TimelyUploads =>
    /\ \A a \in Avatars : up[a] = "put" => row[a].upload = "uploading" /\ ~row[a].old
    /\ \A w \in Workers : At(w, "mark") => OriginalKey(Target(w)) \notin store
    /\ \A d \in Deleters : del[d].pc = "mark" => OriginalKey(del[d].avatar) \notin store

\* Whoever acknowledges an event has settled its row or passed the event on.
Carried(a) ==
  \/ \E w \in Workers : wrk[w].pc \notin {"idle", "ack"} /\ Held(w).type = "avatar.uploaded" /\ Target(w) = a
  \/ Waiting(a) \/ Dead(a)

OwnersSound ==
  /\ \A w \in Workers :
       /\ wrk[w].pc \in {"slot", "render", "put", "complete"} => row[Target(w)].proc # "pending"
       /\ At(w, "why") => row[Target(w)].deleted \/ row[Target(w)].proc \in {"completed", "failed"}
       /\ wrk[w].fatal => row[Target(w)].deleted \/ Target(w) \in Broken
  /\ \A a \in Avatars \ Broken : Live(a) /\ row[a].proc = "processing" => Carried(a)

IInv ==
  /\ TypeOK /\ Sound
  /\ OriginalSound /\ ThumbnailsSound /\ RecordsSound /\ RemovalSound
  /\ LiveOriginal /\ CompletedServable /\ RemovedOriginalGone
=============================================================================
