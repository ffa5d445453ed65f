--------------------------- MODULE LifecycleProofs ---------------------------
(***************************************************************************)
(* Proofs about Lifecycle, for any number of avatars, requests, consumers  *)
(* and failures.                                                           *)
(***************************************************************************)
EXTENDS Lifecycle, TLAPS

\* There is an avatar.
LEMMA AnyAvatarType == AnyAvatar \in Avatars
BY LifecycleAssumption DEF AnyAvatar

\* Dead-lettering and forwarding a message keep its headers within the counted range.
LEMMA HeaderTypes ==
  ASSUME NEW h \in Headers
  PROVE  /\ NoHeaders \in Headers
         /\ Rejected(h) \in Headers
         /\ ~Final(h) => Forwarded(h) \in Headers
<1>1. \A g \in Headers : Died(g) \in Headers
  BY MaxAttemptsAssumption DEF Headers, Died, MaxDeaths
<1>2. Rejected(h) \in Headers BY <1>1 DEF Rejected
<1>3. NoHeaders \in Headers /\ (~Final(h) => Forwarded(h) \in Headers)
  BY MaxAttemptsAssumption
  DEF Headers, NoHeaders, Final, Forwarded, attemptNumber, isFinalAttempt, MaxDeaths
<1> QED BY <1>2, <1>3

\* The two events are messages.
LEMMA EventType ==
  ASSUME NEW a \in Avatars
  PROVE  UploadEvent(a) \in Message /\ DeleteEvent(a) \in Message
BY MaxAttemptsAssumption
   DEF UploadEvent, DeleteEvent, Message, EventTypes, NoHeaders, Headers, MaxDeaths

\* A consumer without a delivery has its type.
LEMMA IdleType == Idle \in Consumers
BY AnyAvatarType, EventType DEF Idle, Consumers, WorkerPC, NumSizes

\* The rows the UPDATEs write.
LEMMA RowTypes ==
  ASSUME TypeOK, NEW a \in Avatars
  PROVE  /\ row[a] \in Rows
         /\ Created \in Rows
         /\ Touched(row[a]) \in Rows
         /\ UploadSet(a, "uploaded") \in Rows /\ UploadSet(a, "failed") \in Rows
         /\ ProcessingSet(a, "processing") \in Rows /\ ProcessingSet(a, "failed") \in Rows
         /\ Completed(a) \in Rows /\ FilesRemoved(a) \in Rows
         /\ SoftDeleted(a) \in Rows /\ Aged(a) \in Rows
<1> DEFINE r == row[a]
<1>1. r \in Rows BY DEF TypeOK
<1> HIDE DEF r
<1>2. /\ Touched(r) \in Rows
      /\ Touched([r EXCEPT !.upload = "uploaded"]) \in Rows
      /\ Touched([r EXCEPT !.upload = "failed"]) \in Rows
  BY <1>1 DEF Rows, UploadStatus, Touched
<1>3. /\ Touched([r EXCEPT !.proc = "processing"]) \in Rows
      /\ Touched([r EXCEPT !.proc = "failed"]) \in Rows
      /\ Touched([r EXCEPT !.proc = "completed", !.thumbs = ThumbnailSizes]) \in Rows
  BY <1>1 DEF Rows, ProcessingStatus, Touched
<1>4. /\ Touched([r EXCEPT !.deleted = TRUE]) \in Rows
      /\ [r EXCEPT !.removed = TRUE] \in Rows
      /\ [r EXCEPT !.old = TRUE] \in Rows
  BY <1>1 DEF Rows, Touched
<1>5. Created \in Rows
  BY DEF Created, NoRow, Rows, UploadStatus, ProcessingStatus
<1> QED BY <1>1, <1>2, <1>3, <1>4, <1>5 DEF r, UploadSet, ProcessingSet, Completed, FilesRemoved, SoftDeleted, Aged

\* The ways a consumer moves.
LEMMA ConsumerTypes ==
  ASSUME TypeOK, NEW w \in Workers
  PROVE  /\ wrk[w] \in Consumers /\ Held(w) \in Message /\ Target(w) \in Avatars
         /\ \A pc \in WorkerPC : Goto(w, pc) => wrk' \in [Workers -> Consumers]
         /\ \A fatal \in BOOLEAN : failure(w, fatal) => wrk' \in [Workers -> Consumers]
         /\ Release(w) => wrk' \in [Workers -> Consumers]
<1>1. wrk \in [Workers -> Consumers] BY DEF TypeOK
<1>2. wrk[w] \in Consumers BY <1>1
<1>3. Held(w) \in Message /\ Target(w) \in Avatars
  BY <1>2 DEF Consumers, Held, Target, Message
<1>4. \A c \in Consumers, pc \in WorkerPC : [c EXCEPT !.pc = pc] \in Consumers
  BY DEF Consumers
<1>5. \A c \in Consumers, f \in BOOLEAN, pc \in WorkerPC : [c EXCEPT !.fatal = f, !.pc = pc] \in Consumers
  BY DEF Consumers
<1>6. ASSUME NEW pc \in WorkerPC, Goto(w, pc) PROVE wrk' \in [Workers -> Consumers]
  BY <1>1, <1>2, <1>4, <1>6 DEF Goto
<1>7. ASSUME NEW f \in BOOLEAN, failure(w, f) PROVE wrk' \in [Workers -> Consumers]
  <2> DEFINE pc == IF f \/ Final(Held(w).headers) THEN "failed" ELSE "count"
  <2>1. pc \in WorkerPC BY DEF WorkerPC, UploadedPC
  <2>2. wrk' = [wrk EXCEPT ![w] = [@ EXCEPT !.fatal = f, !.pc = pc]]
    BY <1>7 DEF failure
  <2> HIDE DEF pc
  <2> QED BY <1>1, <1>2, <1>5, <2>1, <2>2
<1>8. Release(w) => wrk' \in [Workers -> Consumers]
  BY <1>1, IdleType DEF Release
<1> QED BY <1>2, <1>3, <1>6, <1>7, <1>8

\* A failed call spends a unit of faults and never more than there are.
LEMMA Spend ==
  ASSUME TypeOK
  PROVE  /\ \A kind : Fault(kind) => faults' \in 0..MaxFaults
         /\ Works => faults' \in 0..MaxFaults
         /\ \A w \in Workers : CallWorks(w) => faults' \in 0..MaxFaults
         /\ \A kind : \A w \in Workers : CallFails(w, kind) => faults' \in 0..MaxFaults
BY LifecycleAssumption DEF TypeOK, Fault, Works, CallWorks, CallFails

\* The first state has its types.
LEMMA InitType == Init => TypeOK
BY MaxAttemptsAssumption, LifecycleAssumption, AnyAvatarType, IdleType
DEF Init, TypeOK, NoRow, Rows, UploadStatus, ProcessingStatus, UploadPC, DeletePC, ReconcilerPC

\* Every action keeps the types.
LEMMA StepType ==
  ASSUME TypeOK, [Next]_vars
  PROVE  TypeOK'
<1>a. \A a \in Avatars :
        /\ Created \in Rows /\ Touched(row[a]) \in Rows
        /\ UploadSet(a, "uploaded") \in Rows /\ UploadSet(a, "failed") \in Rows
        /\ ProcessingSet(a, "processing") \in Rows /\ ProcessingSet(a, "failed") \in Rows
        /\ Completed(a) \in Rows /\ FilesRemoved(a) \in Rows
        /\ SoftDeleted(a) \in Rows /\ Aged(a) \in Rows
  BY RowTypes
<1>b. \A w \in Workers :
        /\ wrk[w] \in Consumers /\ Held(w) \in Message /\ Target(w) \in Avatars
        /\ \A pc \in WorkerPC : Goto(w, pc) => wrk' \in [Workers -> Consumers]
        /\ \A fatal \in BOOLEAN : failure(w, fatal) => wrk' \in [Workers -> Consumers]
        /\ Release(w) => wrk' \in [Workers -> Consumers]
  BY ConsumerTypes
<1>c. /\ \A kind : Fault(kind) => faults' \in 0..MaxFaults
      /\ Works => faults' \in 0..MaxFaults
      /\ \A w \in Workers : CallWorks(w) => faults' \in 0..MaxFaults
      /\ \A kind : \A w \in Workers : CallFails(w, kind) => faults' \in 0..MaxFaults
  BY Spend
<1> USE <1>c DEF TypeOK
<1>1. ASSUME NEW a \in Avatars, UploadRequest(a) PROVE TypeOK'
  <2> USE <1>a DEF UploadStep, UploadPC, SetRow, MaybeSetRow
  <2>1. CASE Create(a) BY <2>1 DEF Create
  <2>2. CASE PutOriginal(a) BY <2>2 DEF PutOriginal, Put, OriginalKey, NumSizes
  <2>3. CASE SetUploaded(a) BY <2>3 DEF SetUploaded
  <2>4. CASE PublishUpload(a) BY <2>4, EventType DEF PublishUpload, Publish, MaybePublish
  <2>5. CASE markFailed(a) BY <2>5 DEF markFailed
  <2> QED BY <1>1, <2>1, <2>2, <2>3, <2>4, <2>5 DEF UploadRequest
<1>2. ASSUME NEW a \in Avatars, CrashUpload(a) PROVE TypeOK'
  BY <1>2 DEF CrashUpload, UploadStep, UploadPC
<1>3. ASSUME NEW a \in Avatars, Age(a) PROVE TypeOK'
  BY <1>3, <1>a DEF Age, SetRow
<1>4. ASSUME NEW d \in Deleters, DeleteRequest(d) PROVE TypeOK'
  <2> USE <1>a DEF DeleteStep, DeletePC, SetRow, MaybeSetRow
  <2>1. CASE SoftDelete(d) BY <2>1 DEF SoftDelete
  <2>2. CASE PublishDelete(d) BY <2>2, EventType DEF PublishDelete, Publish, MaybePublish
  <2>3. CASE removeFiles(d) BY <2>3 DEF removeFiles, DeleteMany, DeleteSome
  <2> QED BY <1>4, <2>1, <2>2, <2>3 DEF DeleteRequest
<1>5. ASSUME NEW d \in Deleters, CrashDelete(d) PROVE TypeOK'
  BY <1>5 DEF CrashDelete, DeleteStep, DeletePC
<1>6. ASSUME NEW d \in Deleters, NEW a \in Avatars, BeginDelete(d, a) PROVE TypeOK'
  BY <1>6 DEF BeginDelete, DeletePC
<1>7. ASSUME NEW w \in Workers, HandleUploaded(w) PROVE TypeOK'
  <2> USE <1>a, <1>b DEF WorkerPC, UploadedPC, SetRow, MaybeSetRow
  <2>1. CASE GetRow(w) BY <2>1 DEF GetRow
  <2>2. CASE StartProcessing(w)
    <3>0. row \in [Avatars -> Rows] /\ ProcessingSet(Target(w), "processing") \in Rows OBVIOUS
    <3>1. row' \in [Avatars -> Rows] BY ONLY <2>2, <3>0 DEF StartProcessing, SetRow, MaybeSetRow
    <3>2. wrk' \in [Workers -> Consumers] BY <2>2 DEF StartProcessing
    <3> QED BY <2>2, <3>1, <3>2 DEF StartProcessing
  <2>3. CASE AcquireSlot(w) BY <2>3 DEF AcquireSlot
  <2>4. CASE Render(w) BY <2>4 DEF Render
  <2>5. CASE PutThumbnail(w)
    <3>1. wrk[w].n + 1 \in 0..NumSizes /\ ThumbnailStored(wrk[w]) \in Consumers
      <4>1. ASSUME NEW c \in Consumers, c.n < NumSizes
            PROVE  c.n + 1 \in 0..NumSizes /\ ThumbnailStored(c) \in Consumers
        <5> DEFINE pc == IF c.n + 1 = NumSizes THEN "complete" ELSE "put"
        <5>1. pc \in WorkerPC OBVIOUS
        <5>2. c.n + 1 \in 0..NumSizes BY <4>1 DEF Consumers, NumSizes
        <5> HIDE DEF pc
        <5>3. [c EXCEPT !.n = c.n + 1, !.pc = pc] \in Consumers BY <5>1, <5>2 DEF Consumers
        <5> QED BY <5>2, <5>3 DEF ThumbnailStored, pc
      <4> QED BY <2>5, <4>1 DEF PutThumbnail
    <3>2. store' \in SUBSET (Avatars \X (0..NumSizes))
      <4>1. ThumbnailKey(Target(w), wrk[w].n + 1) \in Avatars \X (0..NumSizes)
        BY <1>b, <3>1 DEF ThumbnailKey
      <4>2. store' \subseteq store \cup {ThumbnailKey(Target(w), wrk[w].n + 1)}
        BY ONLY <2>5 DEF PutThumbnail, Put
      <4> QED BY <4>1, <4>2
    <3>3. wrk' \in [Workers -> Consumers] BY <2>5, <3>1 DEF PutThumbnail
    <3> QED BY <2>5, <3>2, <3>3 DEF PutThumbnail
  <2>6. CASE CompleteProcessing(w)
    <3>0. row \in [Avatars -> Rows] /\ Completed(Target(w)) \in Rows OBVIOUS
    <3>1. row' \in [Avatars -> Rows] BY ONLY <2>6, <3>0 DEF CompleteProcessing, SetRow, MaybeSetRow
    <3>2. wrk' \in [Workers -> Consumers] BY <2>6 DEF CompleteProcessing
    <3> QED BY <2>6, <3>1, <3>2 DEF CompleteProcessing
  <2>7. CASE transitionError(w) BY <2>7 DEF transitionError
  <2>8. CASE removeThumbnails(w) BY <2>8 DEF removeThumbnails, DeleteMany, DeleteSome
  <2>9. CASE countRetry(w) BY <2>9 DEF countRetry
  <2>10. CASE MarkProcessingFailed(w) BY <2>10 DEF MarkProcessingFailed
  <2> QED BY ONLY <1>7, <2>1, <2>2, <2>3, <2>4, <2>5, <2>6, <2>7, <2>8, <2>9, <2>10 DEF HandleUploaded
<1>8. ASSUME NEW w \in Workers, HandleDeleted(w) PROVE TypeOK'
  <2> USE <1>a, <1>b DEF WorkerPC, DeletedPC, SetRow, MaybeSetRow
  <2>1. CASE DeleteFiles(w) BY <2>1 DEF DeleteFiles, DeleteMany, DeleteSome
  <2>2. CASE MarkFilesRemoved(w) BY <2>2 DEF MarkFilesRemoved
  <2> QED BY <1>8, <2>1, <2>2 DEF HandleDeleted
<1>9. ASSUME NEW w \in Workers, reroute(w) PROVE TypeOK'
  <2> DEFINE m    == Held(w)
             copy == ForwardedCopy(m)
             back == RejectedBack(m)
  <2>1. m \in Message BY <1>b
  <2>2. /\ m.type \in EventTypes /\ m.avatar \in Avatars
        /\ back \in Message /\ (~Final(m.headers) => copy \in Message)
    BY <2>1, HeaderTypes DEF Message, ForwardedCopy, RejectedBack
  <2>3. wrk' \in [Workers -> Consumers]
    BY <1>9, <1>b DEF reroute, WorkerPC
  <2> HIDE DEF m
  <2>4. queue' \in [Message -> Nat] /\ dead' \in SUBSET (EventTypes \X Avatars)
    BY <1>9, <2>1, <2>2 DEF reroute, Publish, m
  <2> QED BY <1>9, <2>3, <2>4 DEF reroute
<1>10. ASSUME NEW w \in Workers, Ack(w) PROVE TypeOK'
  BY <1>10, <1>b DEF Ack
<1>11. ASSUME NEW w \in Workers, Expire(w) PROVE TypeOK'
  <2>1. \A c \in Consumers : Expired(c) \in Consumers BY DEF Consumers, Expired
  <2> QED BY <1>11, <2>1 DEF Expire
<1>12. ASSUME NEW w \in Workers, CrashWorker(w) PROVE TypeOK'
  BY <1>12, <1>b DEF CrashWorker, Publish
<1>13. ASSUME NEW w \in Workers, NEW m \in Message, Deliver(w, m) PROVE TypeOK'
  <2>1. Delivered(m) \in Consumers
    BY IdleType DEF Consumers, Delivered, WorkerPC, UploadedPC, DeletedPC
  <2> QED BY <1>13, <2>1 DEF Deliver
<1>14. CASE Reconcile
  <2>1. CASE FailStaleUploads BY <2>1, <1>a DEF FailStaleUploads, ReconcilerPC
  <2>2. CASE SelectStuck \/ SelectUncleaned
    BY <2>2 DEF SelectStuck, SelectUncleaned, ReconcilerPC
  <2>3. ASSUME NEW a \in Avatars, republishUploads(a) \/ republishCleanups(a) PROVE TypeOK'
    BY <2>3, EventType DEF republishUploads, republishCleanups, Republish, Publish, MaybePublish
  <2> QED BY <1>14, <2>1, <2>2, <2>3 DEF Reconcile
<1>15. CASE CrashReconciler
  BY <1>15 DEF CrashReconciler, ReconcilerPC
<1>16. CASE UNCHANGED vars
  BY <1>16 DEF vars
<1> QED
  BY ONLY [Next]_vars, <1>1, <1>2, <1>3, <1>4, <1>5, <1>6, <1>7, <1>8, <1>9, <1>10, <1>11, <1>12, <1>13, <1>14, <1>15, <1>16
  DEF Next, Consume

(***************************************************************************)
(* Every variable keeps its type, whatever fails: in particular no message *)
(* ever carries more attempts than the ladder has.                         *)
(***************************************************************************)
THEOREM TypeCorrect == Spec => []TypeOK
BY InitType, StepType, PTL DEF Spec
-----------------------------------------------------------------------------
(* What the writes do, field by field. *)

\* What each statement of the repository writes to a row, column by column.
LEMMA RowFields ==
  ASSUME TypeOK, NEW a \in Avatars
  PROVE  /\ /\ Created.upload = "uploading" /\ Created.proc = "pending"
            /\ ~Created.deleted /\ ~Created.removed /\ ~Created.old /\ Created.thumbs = {}
         /\ \A s : LET r == UploadSet(a, s) IN
              /\ r.upload = s /\ ~r.old
              /\ r.proc = row[a].proc /\ r.deleted = row[a].deleted
              /\ r.removed = row[a].removed /\ r.thumbs = row[a].thumbs
         /\ \A s : LET r == ProcessingSet(a, s) IN
              /\ r.proc = s
              /\ r.upload = row[a].upload /\ r.deleted = row[a].deleted
              /\ r.removed = row[a].removed /\ r.thumbs = row[a].thumbs
         /\ LET r == Completed(a) IN
              /\ r.proc = "completed" /\ r.thumbs = ThumbnailSizes
              /\ r.upload = row[a].upload /\ r.deleted = row[a].deleted
              /\ r.removed = row[a].removed
         /\ LET r == Touched(row[a]) IN
              /\ r.upload = row[a].upload /\ r.deleted = row[a].deleted /\ r.proc = row[a].proc
              /\ r.removed = row[a].removed /\ r.thumbs = row[a].thumbs
         /\ LET r == SoftDeleted(a) IN
              /\ r.deleted
              /\ r.upload = row[a].upload /\ r.proc = row[a].proc
              /\ r.removed = row[a].removed /\ r.thumbs = row[a].thumbs
         /\ LET r == FilesRemoved(a) IN
              /\ r.removed
              /\ r.upload = row[a].upload /\ r.deleted = row[a].deleted /\ r.proc = row[a].proc
              /\ r.old = row[a].old /\ r.thumbs = row[a].thumbs
         /\ LET r == Aged(a) IN
              /\ r.upload = row[a].upload /\ r.deleted = row[a].deleted /\ r.proc = row[a].proc
              /\ r.removed = row[a].removed /\ r.thumbs = row[a].thumbs
<1> DEFINE r == row[a]
<1>1. r \in Rows BY RowTypes
<1> HIDE DEF r
<1>2. /\ Created.upload = "uploading" /\ Created.proc = "pending"
      /\ ~Created.deleted /\ ~Created.removed /\ ~Created.old /\ Created.thumbs = {}
  BY DEF Created, NoRow
<1>3. \A s : LET q == Touched([r EXCEPT !.upload = s]) IN
        /\ q.upload = s /\ ~q.old
        /\ q.proc = r.proc /\ q.deleted = r.deleted /\ q.removed = r.removed /\ q.thumbs = r.thumbs
  BY <1>1 DEF Rows, Touched
<1>4. \A s : LET q == Touched([r EXCEPT !.proc = s]) IN
        /\ q.proc = s
        /\ q.upload = r.upload /\ q.deleted = r.deleted /\ q.removed = r.removed /\ q.thumbs = r.thumbs
  BY <1>1 DEF Rows, Touched
<1>5. LET q == Touched([r EXCEPT !.proc = "completed", !.thumbs = ThumbnailSizes]) IN
        /\ q.proc = "completed" /\ q.thumbs = ThumbnailSizes
        /\ q.upload = r.upload /\ q.deleted = r.deleted /\ q.removed = r.removed
  BY <1>1 DEF Rows, Touched
<1>6. LET q == Touched(r) IN
        /\ q.upload = r.upload /\ q.deleted = r.deleted /\ q.proc = r.proc
        /\ q.removed = r.removed /\ q.thumbs = r.thumbs
  BY <1>1 DEF Rows, Touched
<1>7. LET q == Touched([r EXCEPT !.deleted = TRUE]) IN
        /\ q.deleted
        /\ q.upload = r.upload /\ q.proc = r.proc /\ q.removed = r.removed /\ q.thumbs = r.thumbs
  BY <1>1 DEF Rows, Touched
<1>8. LET q == [r EXCEPT !.removed = TRUE] IN
        /\ q.removed
        /\ q.upload = r.upload /\ q.deleted = r.deleted /\ q.proc = r.proc
        /\ q.old = r.old /\ q.thumbs = r.thumbs
  BY <1>1 DEF Rows
<1>9. LET q == [r EXCEPT !.old = TRUE] IN
        /\ q.upload = r.upload /\ q.deleted = r.deleted /\ q.proc = r.proc
        /\ q.removed = r.removed /\ q.thumbs = r.thumbs
  BY <1>1 DEF Rows
<1> QED
  BY <1>2, <1>3, <1>4, <1>5, <1>6, <1>7, <1>8, <1>9
  DEF r, UploadSet, ProcessingSet, Completed, SoftDeleted, FilesRemoved, Aged

\* Consumer w moves to pc with n thumbnails put, and keeps its delivery.
Moves(w, pc, n) ==
  /\ wrk'[w].pc = pc /\ wrk'[w].n = n /\ wrk'[w].msg = wrk[w].msg
  /\ \A v \in Workers \ {w} : wrk'[v] = wrk[v]

\* What each local step of a consumer changes in its state.
LEMMA ConsumerFields ==
  ASSUME TypeOK, NEW w \in Workers
  PROVE  /\ \A pc \in WorkerPC : Goto(w, pc) => Moves(w, pc, wrk[w].n)
         /\ \A f \in BOOLEAN :
              failure(w, f) => \E pc \in {"failed", "count"} : Moves(w, pc, wrk[w].n)
         /\ wrk' = [wrk EXCEPT ![w] = Expired(wrk[w])] => Moves(w, wrk[w].pc, wrk[w].n)
         /\ wrk' = [wrk EXCEPT ![w] = ThumbnailStored(wrk[w])] =>
              Moves(w, IF wrk[w].n + 1 = NumSizes THEN "complete" ELSE "put", wrk[w].n + 1)
         /\ Release(w) => wrk'[w].pc = "idle" /\ \A v \in Workers \ {w} : wrk'[v] = wrk[v]
<1>1. wrk \in [Workers -> Consumers] /\ wrk[w] \in Consumers BY ConsumerTypes DEF TypeOK
<1>2. ASSUME NEW c \in Consumers, NEW pc, NEW f
      PROVE  /\ [c EXCEPT !.pc = pc].pc = pc /\ [c EXCEPT !.pc = pc].n = c.n
             /\ [c EXCEPT !.pc = pc].msg = c.msg
             /\ [c EXCEPT !.fatal = f, !.pc = pc].pc = pc
             /\ [c EXCEPT !.fatal = f, !.pc = pc].n = c.n
             /\ [c EXCEPT !.fatal = f, !.pc = pc].msg = c.msg
             /\ Expired(c).pc = c.pc /\ Expired(c).n = c.n /\ Expired(c).msg = c.msg
             /\ ThumbnailStored(c).pc = IF c.n + 1 = NumSizes THEN "complete" ELSE "put"
             /\ ThumbnailStored(c).n = c.n + 1 /\ ThumbnailStored(c).msg = c.msg
  BY DEF Consumers, Expired, ThumbnailStored
<1>3. ASSUME NEW pc \in WorkerPC, Goto(w, pc) PROVE Moves(w, pc, wrk[w].n)
  BY <1>1, <1>2, <1>3 DEF Goto, Moves
<1>4. ASSUME NEW f \in BOOLEAN, failure(w, f)
      PROVE  \E pc \in {"failed", "count"} : Moves(w, pc, wrk[w].n)
  <2> DEFINE pc == IF f \/ Final(Held(w).headers) THEN "failed" ELSE "count"
  <2>1. pc \in {"failed", "count"} OBVIOUS
  <2>2. wrk' = [wrk EXCEPT ![w] = [@ EXCEPT !.fatal = f, !.pc = pc]] BY <1>4 DEF failure
  <2> HIDE DEF pc
  <2> QED BY <1>1, <1>2, <2>1, <2>2 DEF Moves
<1>5. ASSUME wrk' = [wrk EXCEPT ![w] = Expired(wrk[w])] PROVE Moves(w, wrk[w].pc, wrk[w].n)
  BY <1>1, <1>2, <1>5 DEF Moves
<1>6. ASSUME wrk' = [wrk EXCEPT ![w] = ThumbnailStored(wrk[w])]
      PROVE  Moves(w, IF wrk[w].n + 1 = NumSizes THEN "complete" ELSE "put", wrk[w].n + 1)
  BY <1>1, <1>2, <1>6 DEF Moves
<1>7. Release(w) => wrk'[w].pc = "idle" /\ \A v \in Workers \ {w} : wrk'[v] = wrk[v]
  BY <1>1 DEF Release, Idle
<1> QED BY <1>3, <1>4, <1>5, <1>6, <1>7
-----------------------------------------------------------------------------
(* Every step keeps the row invariant and takes no decision back. *)

\* A decision about a row that a step may not take back.
Advances(a) ==
  /\ row[a].upload \in {"uploaded", "failed"} => row'[a].upload = row[a].upload
  /\ row[a].proc \in {"completed", "failed"} => row'[a].proc = row[a].proc
  /\ row[a].deleted => row'[a].deleted
  /\ row[a].removed => row'[a].removed

\* What any step may do to a row, and that rows stay sound.
LEMMA RowStep ==
  ASSUME TypeOK, Sound, [Next]_vars
  PROVE  RowsSound' /\ \A a \in Avatars : Advances(a)
<1> DEFINE Goal == RowsSound' /\ \A a \in Avatars : Advances(a)
<1>a. row \in [Avatars -> Rows] /\ up \in [Avatars -> UploadPC] BY DEF TypeOK
<1>b. RowsSound BY DEF Sound
\* A step that writes at most the row of one avatar, keeping what is decided,
\* and moves the upload request of no other.
<1>c. ASSUME NEW a \in Avatars,
             \A b \in Avatars \ {a} : row'[b] = row[b] /\ up'[b] = up[b],
             Advances(a),
             /\ row'[a].deleted => row'[a].upload = "uploaded"
             /\ row'[a].removed => row'[a].deleted \/ row'[a].upload = "failed"
             /\ row'[a].proc # "pending" => row'[a].upload = "uploaded"
             /\ up'[a] = "idle" => row'[a].upload = "none"
             /\ up'[a] \in {"publish", "acked"} => row'[a].upload = "uploaded"
      PROVE  Goal
  BY <1>b, <1>c DEF RowsSound, Advances, Gone
<1>d. ASSUME UNCHANGED row, UNCHANGED up PROVE Goal
  BY <1>b, <1>d DEF RowsSound, Advances, Gone
<1> SUFFICES Goal OBVIOUS
<1> HIDE DEF Goal
<1>1. ASSUME NEW a \in Avatars, UploadRequest(a) PROVE Goal
  <2>0. \A b \in Avatars \ {a} : row'[b] = row[b] /\ up'[b] = up[b]
    BY <1>1, <1>a DEF UploadRequest, Create, PutOriginal, SetUploaded, PublishUpload, markFailed,
       UploadStep, SetRow, MaybeSetRow
  <2> USE <1>a, <1>b, <1>c, <2>0, RowFields DEF RowsSound, Gone, Advances, UploadStep, SetRow, MaybeSetRow
  <2>1. CASE Create(a) BY <2>1 DEF Create
  <2>2. CASE PutOriginal(a) BY <2>2 DEF PutOriginal
  <2>3. CASE SetUploaded(a) BY <2>3 DEF SetUploaded, MaySetUpload, UploadAllowedFrom
  <2>4. CASE PublishUpload(a) BY <2>4 DEF PublishUpload
  <2>5. CASE markFailed(a) BY <2>5 DEF markFailed, MaySetUpload, UploadAllowedFrom
  <2> QED BY ONLY <1>1, <2>1, <2>2, <2>3, <2>4, <2>5 DEF UploadRequest
<1>2. ASSUME NEW a \in Avatars, CrashUpload(a) PROVE Goal
  BY <1>2, <1>a, <1>b, <1>c DEF CrashUpload, UploadStep, RowsSound, Gone, Advances
<1>3. ASSUME NEW a \in Avatars, Age(a) PROVE Goal
  BY <1>3, <1>a, <1>b, <1>c, RowFields DEF Age, SetRow, RowsSound, Gone, Advances
<1>4. ASSUME NEW d \in Deleters, DeleteRequest(d) PROVE Goal
  <2>0. del[d].avatar \in Avatars BY DEF TypeOK
  <2>1. CASE SoftDelete(d)
    <3>1. DeletersSound BY DEF Sound
    <3> QED BY <2>0, <2>1, <3>1, <1>a, <1>b, <1>c, RowFields
        DEF SoftDelete, DeleteStep, DeletersSound, Live, SetRow, MaybeSetRow, RowsSound, Gone, Advances
  <2>2. CASE PublishDelete(d) BY <2>2, <1>d DEF PublishDelete
  <2>3. CASE removeFiles(d)
    <3>1. DeletersSound BY DEF Sound
    <3> QED BY <2>0, <2>3, <3>1, <1>a, <1>b, <1>c, RowFields
        DEF removeFiles, DeleteStep, DeletersSound, SetRow, MaybeSetRow, RowsSound, Gone, Advances
  <2> QED BY <1>4, <2>1, <2>2, <2>3 DEF DeleteRequest
<1>5. ASSUME NEW d \in Deleters, CrashDelete(d) \/ \E a \in Avatars : BeginDelete(d, a) PROVE Goal
  BY <1>5, <1>d DEF CrashDelete, BeginDelete
<1>6. ASSUME NEW w \in Workers, HandleUploaded(w) PROVE Goal
  <2>0. /\ Target(w) \in Avatars
        /\ wrk[w].pc \in UploadedPC => row[Target(w)].upload = "uploaded"
    BY ConsumerTypes DEF Sound, WorkersSound, About, Held, Target, At, UploadedPC
  <2> DEFINE a == Target(w)
  <2>1. ASSUME row' = row \/ row' = [row EXCEPT ![a] = Touched(row[a])], UNCHANGED up PROVE Goal
    BY <2>0, <2>1, <1>a, <1>b, <1>c, RowFields DEF RowsSound, Gone, Advances
  <2>2. ASSUME NEW s \in {"processing", "failed"}, MaySetProcessing(a, s), wrk[w].pc \in UploadedPC,
               row' = [row EXCEPT ![a] = ProcessingSet(a, s)], UNCHANGED up
        PROVE  Goal
    BY <2>0, <2>2, <1>a, <1>b, <1>c, RowFields
    DEF RowsSound, Gone, Advances, MaySetProcessing, ProcessingAllowedFrom
  <2>3. ASSUME MaySetProcessing(a, "completed"), wrk[w].pc \in UploadedPC,
               row' = [row EXCEPT ![a] = Completed(a)], UNCHANGED up
        PROVE  Goal
    BY <2>0, <2>3, <1>a, <1>b, <1>c, RowFields
    DEF RowsSound, Gone, Advances, MaySetProcessing, ProcessingAllowedFrom
  <2> HIDE DEF a
  <2>4. CASE StartProcessing(w)
    BY ONLY <2>1, <2>2, <2>4 DEF StartProcessing, SetRow, MaybeSetRow, At, UploadedPC, a
  <2>5. CASE CompleteProcessing(w)
    BY ONLY <2>1, <2>3, <2>5 DEF CompleteProcessing, SetRow, MaybeSetRow, At, UploadedPC, a
  <2>6. CASE countRetry(w)
    BY ONLY <2>1, <2>6 DEF countRetry, SetRow, MaybeSetRow, a
  <2>7. CASE MarkProcessingFailed(w)
    BY ONLY <2>1, <2>2, <2>7 DEF MarkProcessingFailed, SetRow, MaybeSetRow, At, UploadedPC, a
  <2>8. CASE GetRow(w) \/ AcquireSlot(w) \/ Render(w) \/ PutThumbnail(w) \/ transitionError(w) \/ removeThumbnails(w)
    BY ONLY <1>d, <2>8 DEF GetRow, AcquireSlot, Render, PutThumbnail, transitionError, removeThumbnails
  <2> QED BY ONLY <1>6, <2>4, <2>5, <2>6, <2>7, <2>8 DEF HandleUploaded
<1>7. ASSUME NEW w \in Workers, HandleDeleted(w) PROVE Goal
  <2>0. Target(w) \in Avatars /\ (At(w, "mark") => Gone(Target(w)))
    BY ConsumerTypes DEF Sound, WorkersSound, About, Held, Target, At, DeletedPC
  <2>1. CASE DeleteFiles(w) BY <2>1, <1>d DEF DeleteFiles
  <2>2. CASE MarkFilesRemoved(w)
    BY <2>0, <2>2, <1>a, <1>b, <1>c, RowFields
    DEF MarkFilesRemoved, SetRow, MaybeSetRow, RowsSound, Gone, Advances
  <2> QED BY <1>7, <2>1, <2>2 DEF HandleDeleted
<1>8. ASSUME NEW w \in Workers,
             reroute(w) \/ Ack(w) \/ Expire(w) \/ CrashWorker(w) \/ \E m \in Message : Deliver(w, m)
      PROVE  Goal
  BY <1>8, <1>d DEF reroute, Ack, Expire, CrashWorker, Deliver
<1>9. CASE FailStaleUploads
  <2>1. \A a \in Avatars :
          \/ row'[a] = row[a]
          \/ MaySetUpload(a, "failed") /\ row'[a] = UploadSet(a, "failed")
    BY <1>9, <1>a DEF FailStaleUploads
  <2>2. up' = up BY <1>9 DEF FailStaleUploads
  <2> QED BY <1>a, <1>b, <2>1, <2>2, RowFields
      DEF Goal, RowsSound, Gone, Advances, MaySetUpload, UploadAllowedFrom
<1>10. CASE \/ SelectStuck \/ SelectUncleaned \/ CrashReconciler
            \/ \E a \in Avatars : republishUploads(a) \/ republishCleanups(a)
  BY <1>10, <1>d DEF SelectStuck, SelectUncleaned, CrashReconciler, republishUploads, republishCleanups, Republish
<1>11. CASE UNCHANGED vars BY <1>11, <1>d DEF vars
<1> QED
  BY ONLY [Next]_vars, <1>1, <1>2, <1>3, <1>4, <1>5, <1>6, <1>7, <1>8, <1>9, <1>10, <1>11
  DEF Next, Consume, Reconcile
-----------------------------------------------------------------------------
(* Requests, messages and selections stay about the rows they may be about. *)

\* What was fit for an event stays fit for it.
LEMMA AboutLasts ==
  ASSUME \A a \in Avatars : Advances(a), NEW m \in Message, About(m)
  PROVE  About(m)'
BY DEF About, Gone, Advances, Message

\* A part of the state that a step leaves alone stays sound while rows advance.
LEMMA Frames ==
  ASSUME TypeOK, Sound, \A a \in Avatars : Advances(a)
  PROVE  /\ UNCHANGED del => DeletersSound'
         /\ UNCHANGED queue => EventsSound'
         /\ UNCHANGED wrk => WorkersSound'
         /\ UNCHANGED rec => SelectionSound'
<1>1. UNCHANGED del => DeletersSound'
  BY DEF Sound, DeletersSound, Advances, TypeOK
<1>2. UNCHANGED queue => EventsSound'
  BY AboutLasts DEF Sound, EventsSound
<1>3. ASSUME UNCHANGED wrk PROVE WorkersSound'
  <2> SUFFICES ASSUME NEW w \in Workers
               PROVE  /\ ~(wrk[w].pc = "idle") => About(wrk[w].msg)'
                      /\ wrk[w].pc \in UploadedPC => wrk[w].msg.type = "avatar.uploaded"
                      /\ wrk[w].pc \in DeletedPC => wrk[w].msg.type = "avatar.deleted"
                      /\ wrk[w].pc = "cleanup" => row'[wrk[w].msg.avatar].deleted
    BY <1>3 DEF WorkersSound, At, Held, Target, About, Gone
  <2>1. wrk[w].msg \in Message /\ wrk[w].msg.avatar \in Avatars
    BY ConsumerTypes DEF Held, Target
  <2>2. ~(wrk[w].pc = "idle") => About(wrk[w].msg)
    BY DEF Sound, WorkersSound, At, Held
  <2>3. ~(wrk[w].pc = "idle") => About(wrk[w].msg)'
    BY <1>3, <2>1, <2>2 DEF About, Gone, Advances
  <2> QED BY <2>1, <2>3 DEF Sound, WorkersSound, At, Held, Target, Advances
<1>4. UNCHANGED rec => SelectionSound'
  BY DEF Sound, SelectionSound, Advances, Gone, TypeOK
<1> QED BY <1>1, <1>2, <1>3, <1>4

\* Publishing an event that is fit to be published.
LEMMA PublishSound ==
  ASSUME TypeOK, Sound, \A a \in Avatars : Advances(a), NEW m \in Message, About(m)',
         Publish(m)
  PROVE  EventsSound'
<1>1. \A k \in Message : queue'[k] > 0 => k = m \/ queue[k] > 0
  BY DEF Publish, TypeOK
<1> QED BY <1>1, AboutLasts DEF Sound, EventsSound

\* A consumer that keeps its delivery goes where its handler may go.
LEMMA MoveSound ==
  ASSUME TypeOK, Sound, \A a \in Avatars : Advances(a), NEW w \in Workers, NEW pc, NEW n,
         Moves(w, pc, n), ~At(w, "idle"),
         pc \in UploadedPC => Held(w).type = "avatar.uploaded",
         pc \in DeletedPC => Held(w).type = "avatar.deleted",
         pc = "cleanup" => row'[Target(w)].deleted
  PROVE  WorkersSound'
<1> SUFFICES ASSUME NEW v \in Workers
             PROVE  /\ ~(wrk'[v].pc = "idle") => About(wrk[v].msg)'
                    /\ wrk'[v].pc \in UploadedPC => wrk'[v].msg.type = "avatar.uploaded"
                    /\ wrk'[v].pc \in DeletedPC => wrk'[v].msg.type = "avatar.deleted"
                    /\ wrk'[v].pc = "cleanup" => row'[wrk'[v].msg.avatar].deleted
  BY DEF WorkersSound, At, Held, Target, About, Gone
<1>1. wrk[v].msg \in Message /\ wrk[v].msg.avatar \in Avatars
  BY ConsumerTypes DEF Held, Target
<1>2. wrk'[v].msg = wrk[v].msg /\ (v # w => wrk'[v] = wrk[v])
  BY DEF Moves
<1>3. ~(wrk'[v].pc = "idle") => About(wrk[v].msg)
  BY <1>2 DEF Sound, WorkersSound, At, Held
<1>4. ~(wrk'[v].pc = "idle") => About(wrk[v].msg)'
  BY <1>1, <1>2, <1>3 DEF About, Gone, Advances
<1>5. CASE v = w
  BY <1>2, <1>4, <1>5 DEF Moves, Held, Target
<1>6. CASE v # w
  BY <1>1, <1>2, <1>4, <1>6 DEF Sound, WorkersSound, At, Held, Target, Advances
<1> QED BY <1>5, <1>6

\* A consumer that lets go of its delivery leaves the others sound.
LEMMA ReleaseSound ==
  ASSUME TypeOK, Sound, \A a \in Avatars : Advances(a), NEW w \in Workers, Release(w)
  PROVE  WorkersSound'
<1> SUFFICES ASSUME NEW v \in Workers
             PROVE  /\ ~(wrk'[v].pc = "idle") => About(wrk[v].msg)' /\ wrk'[v].msg = wrk[v].msg
                    /\ wrk'[v].pc \in UploadedPC => wrk'[v].msg.type = "avatar.uploaded"
                    /\ wrk'[v].pc \in DeletedPC => wrk'[v].msg.type = "avatar.deleted"
                    /\ wrk'[v].pc = "cleanup" => row'[wrk'[v].msg.avatar].deleted
  BY DEF WorkersSound, At, Held, Target, About, Gone
<1>1. wrk'[w].pc = "idle" /\ (v # w => wrk'[v] = wrk[v])
  BY ConsumerFields
<1>2. CASE v = w
  BY <1>1, <1>2 DEF UploadedPC, DeletedPC
<1>3. CASE v # w
  <2>1. wrk[v].msg \in Message /\ wrk[v].msg.avatar \in Avatars
    BY ConsumerTypes DEF Held, Target
  <2>2. ~(wrk[v].pc = "idle") => About(wrk[v].msg)
    BY DEF Sound, WorkersSound, At, Held
  <2>3. ~(wrk[v].pc = "idle") => About(wrk[v].msg)'
    BY <1>1, <1>3, <2>1, <2>2 DEF About, Gone, Advances
  <2> QED BY <1>1, <1>3, <2>1, <2>3 DEF Sound, WorkersSound, At, Held, Target, Advances
<1> QED BY <1>2, <1>3

\* Every action keeps Sound.
LEMMA SoundStep ==
  ASSUME TypeOK, Sound, [Next]_vars
  PROVE  Sound'
<1>a. RowsSound' /\ \A a \in Avatars : Advances(a) BY RowStep
<1>b. /\ UNCHANGED del => DeletersSound'
      /\ UNCHANGED queue => EventsSound'
      /\ UNCHANGED wrk => WorkersSound'
      /\ UNCHANGED rec => SelectionSound'
  BY <1>a, Frames
<1>c. ASSUME NEW m \in Message, About(m)', Publish(m) PROVE EventsSound'
  BY <1>a, <1>c, PublishSound
<1>d. \A a \in Avatars : UploadEvent(a) \in Message /\ DeleteEvent(a) \in Message
  BY EventType
<1>e. \A a \in Avatars :
        /\ (About(UploadEvent(a))' <=> row'[a].upload = "uploaded")
        /\ (About(DeleteEvent(a))' <=> row'[a].deleted \/ row'[a].upload = "failed")
  BY DEF About, UploadEvent, DeleteEvent, Gone
<1>f. ASSUME NEW w \in Workers, NEW pc \in WorkerPC, NEW n, Moves(w, pc, n), ~At(w, "idle"),
             pc \in UploadedPC => Held(w).type = "avatar.uploaded",
             pc \in DeletedPC => Held(w).type = "avatar.deleted",
             pc = "cleanup" => row'[Target(w)].deleted
      PROVE  WorkersSound'
  BY <1>a, <1>f, MoveSound
<1>1. ASSUME NEW a \in Avatars, UploadRequest(a) PROVE Sound'
  <2>1. CASE PublishUpload(a)
    <3>1. row'[a].upload = "uploaded" BY <1>a, <2>1 DEF PublishUpload, UploadStep, RowsSound, TypeOK
    <3>2. EventsSound' BY <1>b, <1>c, <1>d, <1>e, <2>1, <3>1 DEF PublishUpload, MaybePublish
    <3> QED BY <1>a, <1>b, <2>1, <3>2 DEF PublishUpload, Sound
  <2>2. CASE Create(a) \/ PutOriginal(a) \/ SetUploaded(a) \/ markFailed(a)
    BY <1>a, <1>b, <2>2 DEF Create, PutOriginal, SetUploaded, markFailed, Sound
  <2> QED BY <1>1, <2>1, <2>2 DEF UploadRequest
<1>2. ASSUME NEW a \in Avatars, CrashUpload(a) \/ Age(a) PROVE Sound'
  BY <1>a, <1>b, <1>2 DEF CrashUpload, Age, Sound
<1>3. ASSUME NEW d \in Deleters,
             \/ DeleteRequest(d) \/ CrashDelete(d) \/ \E a \in Avatars : BeginDelete(d, a)
      PROVE  Sound'
  <2>0. del \in [Deleters -> [pc : DeletePC, avatar : Avatars]] /\ DeletersSound BY DEF TypeOK, Sound
  <2>1. CASE SoftDelete(d)
    <3>1. row \in [Avatars -> Rows] BY DEF TypeOK
    <3>2. DeletersSound'
      BY <1>a, <2>0, <2>1, <3>1, RowFields
      DEF SoftDelete, DeleteStep, DeletersSound, Advances, SetRow, MaybeSetRow
    <3> QED BY <1>a, <1>b, <2>1, <3>2 DEF SoftDelete, Sound
  <2>2. CASE PublishDelete(d)
    <3>1. DeletersSound' BY <2>0, <2>2 DEF PublishDelete, DeleteStep, DeletersSound
    <3>2. row[del[d].avatar].deleted /\ row' = row BY <2>0, <2>2 DEF PublishDelete, DeleteStep, DeletersSound
    <3>3. EventsSound' BY <1>b, <1>c, <1>d, <1>e, <2>0, <2>2, <3>2 DEF PublishDelete, MaybePublish
    <3> QED BY <1>a, <1>b, <2>2, <3>1, <3>3 DEF PublishDelete, Sound
  <2>3. CASE removeFiles(d)
    <3>1. /\ del[d].pc \in {"delete", "mark"}
          /\ \E pc \in {"idle", "mark"} : del' = [del EXCEPT ![d].pc = pc]
      BY ONLY <2>3 DEF removeFiles, DeleteStep
    <3>2. DeletersSound'
      BY ONLY <1>a, <2>0, <3>1 DEF DeletersSound, Advances
    <3> QED BY <1>a, <1>b, <2>3, <3>2 DEF removeFiles, Sound
  <2>4. CASE CrashDelete(d)
    <3>1. DeletersSound' BY <2>0, <2>4 DEF CrashDelete, DeleteStep, DeletersSound
    <3> QED BY <1>a, <1>b, <2>4, <3>1 DEF CrashDelete, Sound
  <2>5. ASSUME NEW a \in Avatars, BeginDelete(d, a) PROVE Sound'
    <3>1. DeletersSound' BY <2>0, <2>5 DEF BeginDelete, DeletersSound
    <3> QED BY <1>a, <1>b, <2>5, <3>1 DEF BeginDelete, Sound
  <2> QED BY <1>3, <2>1, <2>2, <2>3, <2>4, <2>5 DEF DeleteRequest
<1>4. ASSUME NEW w \in Workers, HandleUploaded(w) PROVE Sound'
  <2>1. wrk[w].pc \in UploadedPC /\ UNCHANGED <<queue, del, rec>>
    BY <1>4 DEF HandleUploaded, GetRow, StartProcessing, AcquireSlot, Render, PutThumbnail, CompleteProcessing,
       transitionError, removeThumbnails, countRetry, MarkProcessingFailed, At, UploadedPC
  <2>2. Held(w).type = "avatar.uploaded" /\ ~At(w, "idle")
    BY <2>1 DEF Sound, WorkersSound, At, UploadedPC
  <2>3. ASSUME NEW pc \in {"ack", "start", "slot", "render", "put", "complete", "why", "count", "failed", "reroute"},
               NEW n, Moves(w, pc, n)
        PROVE  WorkersSound'
    BY <1>f, <2>2, <2>3 DEF WorkerPC, UploadedPC, DeletedPC
  <2>4. ASSUME NEW pc \in {"ack", "start", "slot", "render", "put", "why", "reroute"}, Goto(w, pc)
        PROVE  WorkersSound'
    BY <2>3, <2>4, ConsumerFields DEF WorkerPC, UploadedPC
  <2>5. ASSUME NEW f \in BOOLEAN, failure(w, f) PROVE WorkersSound'
    BY <2>3, <2>5, ConsumerFields
  <2>6. WorkersSound'
    <3>1. CASE GetRow(w) BY ONLY <2>4, <2>5, <3>1 DEF GetRow
    <3>2. CASE StartProcessing(w) BY ONLY <2>4, <2>5, <3>2 DEF StartProcessing
    <3>3. CASE AcquireSlot(w) BY ONLY <2>4, <2>5, <3>3 DEF AcquireSlot
    <3>4. CASE Render(w) BY ONLY <2>4, <2>5, <3>4 DEF Render
    <3>5. CASE PutThumbnail(w)
      BY ONLY TypeOK, <2>3, <2>5, <3>5, ConsumerFields DEF PutThumbnail
    <3>6. CASE CompleteProcessing(w) BY ONLY <2>4, <2>5, <3>6 DEF CompleteProcessing
    <3>7. CASE transitionError(w)
      <4>1. CASE Live(Target(w)) BY ONLY <2>4, <2>5, <3>7, <4>1 DEF transitionError
      <4>2. CASE ~Live(Target(w))
        <5>1. Target(w) \in Avatars /\ row[Target(w)].upload = "uploaded"
          BY <2>2, ConsumerTypes DEF Sound, WorkersSound, About, Held, Target
        <5>2. row'[Target(w)].deleted
          BY <1>a, <4>2, <5>1 DEF Live, Advances
        <5>3. Goto(w, "cleanup") => WorkersSound'
          BY <1>f, <2>2, <5>2, ConsumerFields DEF WorkerPC, UploadedPC, DeletedPC
        <5> QED BY ONLY <2>5, <3>7, <4>2, <5>3 DEF transitionError
      <4> QED BY <4>1, <4>2
    <3>8. CASE removeThumbnails(w) BY ONLY <2>5, <3>8 DEF removeThumbnails
    <3>9. CASE countRetry(w) BY ONLY <2>4, <3>9 DEF countRetry
    <3>10. CASE MarkProcessingFailed(w) BY ONLY <2>4, <3>10 DEF MarkProcessingFailed
    <3> QED BY ONLY <1>4, <3>1, <3>2, <3>3, <3>4, <3>5, <3>6, <3>7, <3>8, <3>9, <3>10 DEF HandleUploaded
  <2> QED BY <1>a, <1>b, <2>1, <2>6 DEF Sound
<1>5. ASSUME NEW w \in Workers, HandleDeleted(w) PROVE Sound'
  <2>1. wrk[w].pc \in DeletedPC /\ UNCHANGED <<queue, del, rec>>
    BY <1>5 DEF HandleDeleted, DeleteFiles, MarkFilesRemoved, At, DeletedPC
  <2>2. Held(w).type = "avatar.deleted" /\ ~At(w, "idle")
    BY <2>1 DEF Sound, WorkersSound, At, DeletedPC
  <2>3. ASSUME NEW pc \in {"ack", "mark", "reroute"}, Goto(w, pc) PROVE WorkersSound'
    BY <1>f, <2>2, <2>3, ConsumerFields DEF WorkerPC, UploadedPC, DeletedPC
  <2>4. WorkersSound' BY ONLY <1>5, <2>3 DEF HandleDeleted, DeleteFiles, MarkFilesRemoved
  <2> QED BY <1>a, <1>b, <2>1, <2>4 DEF Sound
<1>6. ASSUME NEW w \in Workers, reroute(w) PROVE Sound'
  <2> DEFINE m == Held(w)
  <2>1. m \in Message /\ About(m) /\ ~At(w, "idle")
    BY <1>6, ConsumerTypes DEF reroute, Sound, WorkersSound, At
  <2>2. RejectedBack(m) \in Message /\ (~Final(m.headers) => ForwardedCopy(m) \in Message)
    BY <2>1, HeaderTypes DEF Message, ForwardedCopy, RejectedBack
  <2>3. \A k \in {RejectedBack(m), ForwardedCopy(m)} : k.type = m.type /\ k.avatar = m.avatar
    BY <2>1 DEF Message, ForwardedCopy, RejectedBack
  <2>4. \A k \in {RejectedBack(m), ForwardedCopy(m)} : About(k)'
    <3>1. row' = row BY <1>6 DEF reroute
    <3> HIDE DEF m
    <3> QED BY <2>1, <2>3, <3>1 DEF About, Gone
  <2>5. EventsSound'
    <3> HIDE DEF m
    <3>1. \A k \in Message : queue'[k] > 0 =>
            \/ queue[k] > 0 \/ k \in {RejectedBack(m), ForwardedCopy(m)}
      BY <1>6, <2>2 DEF reroute, Publish, TypeOK, m
    <3> QED BY <1>a, <2>4, <3>1, AboutLasts DEF Sound, EventsSound
  <2>6. WorkersSound'
    <3>1. Release(w) => WorkersSound' BY <1>a, ReleaseSound
    <3>2. Goto(w, "ack") => WorkersSound'
      BY <1>f, <2>1, ConsumerFields DEF WorkerPC, UploadedPC, DeletedPC
    <3> QED BY ONLY <1>6, <3>1, <3>2 DEF reroute
  <2> QED BY <1>6, <1>a, <1>b, <2>5, <2>6 DEF reroute, Sound
<1>7. ASSUME NEW w \in Workers, Ack(w) PROVE Sound'
  <2>1. WorkersSound' BY <1>a, <1>7, ReleaseSound DEF Ack
  <2> QED BY <1>7, <1>a, <1>b, <2>1 DEF Ack, Sound
<1>8. ASSUME NEW w \in Workers, Expire(w) PROVE Sound'
  <2>1. /\ wrk[w].pc \in WorkerPC /\ ~At(w, "idle") /\ row' = row
        /\ Moves(w, wrk[w].pc, wrk[w].n)
    BY <1>8, ConsumerTypes, ConsumerFields DEF Expire, At, Consumers
  <2>2. WorkersSound'
    BY <1>f, <2>1 DEF Sound, WorkersSound, At
  <2> QED BY <1>8, <1>a, <1>b, <2>2 DEF Expire, Sound
<1>9. ASSUME NEW w \in Workers, CrashWorker(w) PROVE Sound'
  <2>1. WorkersSound' BY <1>a, <1>9, ReleaseSound DEF CrashWorker
  <2>2. \A k \in Message : queue'[k] > 0 => queue[k] > 0 \/ k = Held(w)
    BY <1>9 DEF CrashWorker, Publish, TypeOK
  <2>3. About(Held(w)) BY <1>9 DEF CrashWorker, Sound, WorkersSound
  <2>4. EventsSound' BY <1>a, <2>2, <2>3, AboutLasts DEF Sound, EventsSound
  <2> QED BY <1>9, <1>a, <1>b, <2>1, <2>4 DEF CrashWorker, Sound
<1>10. ASSUME NEW w \in Workers, NEW m \in Message, Deliver(w, m) PROVE Sound'
  <2>1. \A k \in Message : queue'[k] > 0 => queue[k] > 0
    BY <1>10 DEF Deliver, TypeOK
  <2>2. EventsSound' BY <1>a, <2>1, AboutLasts DEF Sound, EventsSound
  <2>3. Delivered(m).msg = m /\ Delivered(m).pc = IF m.type = "avatar.uploaded" THEN "get" ELSE "delete"
    BY DEF Delivered, Idle
  <2>4. About(m)' BY <1>10, <1>a, AboutLasts DEF Deliver, Sound, EventsSound
  <2>5. ASSUME NEW v \in Workers
        PROVE  /\ wrk'[v].pc # "idle" => About(wrk[v].msg)'
               /\ wrk'[v].pc \in UploadedPC => wrk'[v].msg.type = "avatar.uploaded"
               /\ wrk'[v].pc \in DeletedPC => wrk'[v].msg.type = "avatar.deleted"
               /\ wrk'[v].pc = "cleanup" => row'[wrk'[v].msg.avatar].deleted
    <3>1. wrk'[w] = Delivered(m) /\ (v # w => wrk'[v] = wrk[v]) /\ row' = row
      BY <1>10 DEF Deliver, TypeOK
    <3>2. CASE v = w
      BY <2>3, <2>4, <3>1, <3>2 DEF About, Gone, UploadedPC, DeletedPC, Message, EventTypes
    <3>3. CASE v # w
      BY <3>1, <3>3 DEF Sound, WorkersSound, At, Held, Target, About, Gone
    <3> QED BY <3>2, <3>3
  <2>6. WorkersSound' BY <2>5 DEF WorkersSound, At, Held, Target, About, Gone
  <2> QED BY <1>10, <1>a, <1>b, <2>2, <2>6 DEF Deliver, Sound
<1>11. CASE FailStaleUploads \/ SelectStuck \/ SelectUncleaned \/ CrashReconciler
  <2>1. UNCHANGED <<queue, del, wrk>>
    BY <1>11 DEF FailStaleUploads, SelectStuck, SelectUncleaned, CrashReconciler
  <2>2. SelectionSound'
    BY <1>11, <1>a DEF FailStaleUploads, SelectStuck, SelectUncleaned, CrashReconciler, SelectionSound,
       Stuck, Uncleaned, Gone, Advances, TypeOK
  <2> QED BY <1>a, <1>b, <2>1, <2>2 DEF Sound
<1>12. ASSUME NEW a \in Avatars, republishUploads(a) \/ republishCleanups(a) PROVE Sound'
  <2>1. UNCHANGED <<row, del, wrk>> BY <1>12 DEF republishUploads, republishCleanups, Republish
  <2>2. SelectionSound'
    BY <1>12, <2>1 DEF republishUploads, republishCleanups, Republish, Sound, SelectionSound, Gone, TypeOK
  <2>3. CASE republishUploads(a)
    <3>1. row'[a].upload = "uploaded"
      BY <2>1, <2>3 DEF republishUploads, Republish, Sound, SelectionSound
    <3>2. EventsSound'
      BY <1>b, <1>c, <1>d, <1>e, <2>3, <3>1 DEF republishUploads, Republish, MaybePublish
    <3> QED BY <1>a, <1>b, <2>1, <2>2, <3>2 DEF Sound
  <2>4. CASE republishCleanups(a)
    <3>1. row'[a].deleted \/ row'[a].upload = "failed"
      BY <2>1, <2>4 DEF republishCleanups, Republish, Sound, SelectionSound, Gone
    <3>2. EventsSound'
      BY <1>b, <1>c, <1>d, <1>e, <2>4, <3>1 DEF republishCleanups, Republish, MaybePublish
    <3> QED BY <1>a, <1>b, <2>1, <2>2, <3>2 DEF Sound
  <2> QED BY <1>12, <2>3, <2>4
<1>13. CASE UNCHANGED vars BY <1>13, <1>a, <1>b DEF vars, Sound
<1> QED
  BY ONLY [Next]_vars, <1>1, <1>2, <1>3, <1>4, <1>5, <1>6, <1>7, <1>8, <1>9, <1>10, <1>11, <1>12, <1>13
  DEF Next, Consume, Reconcile

\* The first state is sound.
LEMMA InitSound == Init => Sound
BY DEF Init, Sound, RowsSound, DeletersSound, EventsSound, WorkersSound, SelectionSound,
   NoRow, Idle, At, Gone, UploadedPC, DeletedPC

(***************************************************************************)
(* Every request, message, delivery and selection in the system is about a *)
(* row that allows it, whatever interleaving, failure or crash led there.  *)
(***************************************************************************)
THEOREM WorkIsSound == Spec => [](TypeOK /\ Sound)
<1>1. Init => TypeOK /\ Sound
  BY InitType, InitSound
<1>2. TypeOK /\ Sound /\ [Next]_vars => (TypeOK /\ Sound)'
  BY StepType, SoundStep
<1> QED BY <1>1, <1>2, PTL DEF Spec

(***************************************************************************)
(* Upload answers success only for a row that is uploaded, and no failure, *)
(* crash or pass of the reconciler ever takes that back.                   *)
(***************************************************************************)
THEOREM AckedStaysUploaded == Spec => []AckedUploaded
<1>1. TypeOK /\ Sound => AckedUploaded BY DEF Sound, RowsSound, AckedUploaded
<1> QED BY <1>1, WorkIsSound, PTL

(***************************************************************************)
(* No step takes back an ended upload, an ended processing, a deletion or  *)
(* a finished cleanup.                                                     *)
(***************************************************************************)
THEOREM DecisionsAreFinal == Spec => DecisionsLast
<1>1. TypeOK /\ Sound /\ [Next]_vars => \A a \in Avatars : Advances(a)
  BY RowStep
<1> QED BY <1>1, WorkIsSound, PTL DEF Spec, DecisionsLast, Advances
-----------------------------------------------------------------------------
(* The files, the owners of started work and the refinement of Avatar. *)

(***************************************************************************)
(* What a step does to the table and the bucket.  Every write of a row or  *)
(* of a file in Lifecycle is one of these, under the condition on the      *)
(* writer that the proofs need; a step never writes both.                  *)
(***************************************************************************)
Writes(a, r) == row' = [row EXCEPT ![a] = r] /\ store' = store

\* updated_at alone.
Dates(a) ==
  \/ row[a].upload = "uploaded" /\ Writes(a, Touched(row[a]))
  \/ (TimelyUploads => up[a] # "put") /\ Writes(a, Aged(a))

Registers(a) == up[a] = "idle" /\ Writes(a, Created)

PutsOriginal(a) == up[a] = "put" /\ row' = row /\ Put(OriginalKey(a))

Finishes(a) ==
  up[a] = "status" /\ MaySetUpload(a, "uploaded") /\ Writes(a, UploadSet(a, "uploaded"))

GivesUp(a) ==
  up[a] = "mark" /\ MaySetUpload(a, "failed") /\ Writes(a, UploadSet(a, "failed"))

GiveUpStale(stale) ==
  /\ \A a \in stale : MaySetUpload(a, "failed") /\ row[a].old
  /\ row' = [a \in Avatars |-> IF a \in stale THEN UploadSet(a, "failed") ELSE row[a]]
  /\ store' = store

Starts(a) ==
  /\ \E w \in Workers : StartProcessing(w) /\ Target(w) = a
  /\ row[a].upload = "uploaded" /\ MaySetProcessing(a, "processing")
  /\ Writes(a, ProcessingSet(a, "processing"))

Fails(a) ==
  /\ row[a].upload = "uploaded" /\ MaySetProcessing(a, "failed")
  /\ Writes(a, ProcessingSet(a, "failed"))

PutsThumbnail(w) ==
  At(w, "put") /\ wrk[w].n < NumSizes /\ row' = row /\ Put(ThumbnailKey(Target(w), wrk[w].n + 1))

Completes(w) ==
  At(w, "complete") /\ MaySetProcessing(Target(w), "completed") /\ Writes(Target(w), Completed(Target(w)))

Deletes(a) == Live(a) /\ row[a].upload = "uploaded" /\ Writes(a, SoftDeleted(a))

RemovesFiles(a) ==
  Gone(a) /\ row' = row /\ \E keys \in SUBSET StorageKeys(a) : store' = store \ keys

MarkedBy(a) ==
  \/ \E w \in Workers : At(w, "mark") /\ Target(w) = a
  \/ \E d \in Deleters : del[d].pc = "mark" /\ del[d].avatar = a

Marks(a) == Gone(a) /\ MarkedBy(a) /\ Writes(a, FilesRemoved(a))

Effect ==
  \/ row' = row /\ store' = store
  \/ \E a \in Avatars :
       \/ Dates(a) \/ Registers(a) \/ PutsOriginal(a) \/ Finishes(a) \/ GivesUp(a)
       \/ Starts(a) \/ Fails(a) \/ Deletes(a) \/ RemovesFiles(a) \/ Marks(a)
  \/ \E w \in Workers : PutsThumbnail(w) \/ Completes(w)
  \/ \E stale \in SUBSET Avatars : GiveUpStale(stale)

\* Every action has one of the effects on rows and bucket that Effect lists.
LEMMA StepEffect ==
  ASSUME TypeOK, Sound, [Next]_vars
  PROVE  Effect
<1>1. ASSUME NEW a \in Avatars, UploadRequest(a) PROVE Effect
  <2> USE DEF Effect, UploadStep, SetRow, MaybeSetRow, Writes
  <2>1. CASE Create(a) BY <2>1 DEF Create, Registers
  <2>2. CASE PutOriginal(a) BY <2>2 DEF PutOriginal, PutsOriginal
  <2>3. CASE SetUploaded(a) BY <2>3 DEF SetUploaded, Finishes
  <2>4. CASE PublishUpload(a) BY <2>4 DEF PublishUpload
  <2>5. CASE markFailed(a) BY <2>5 DEF markFailed, GivesUp
  <2> QED BY ONLY <1>1, <2>1, <2>2, <2>3, <2>4, <2>5 DEF UploadRequest
<1>2. ASSUME NEW a \in Avatars, CrashUpload(a) PROVE Effect
  BY <1>2 DEF CrashUpload, Effect
<1>3. ASSUME NEW a \in Avatars, Age(a) PROVE Effect
  BY <1>3 DEF Age, SetRow, Effect, Dates, Writes
<1>4. ASSUME NEW d \in Deleters, DeleteRequest(d) PROVE Effect
  <2>0. /\ del[d].avatar \in Avatars
        /\ del[d].pc # "idle" => row[del[d].avatar].upload = "uploaded"
        /\ del[d].pc \in {"delete", "mark"} => Gone(del[d].avatar)
    BY DEF TypeOK, Sound, DeletersSound, Gone
  <2>1. CASE SoftDelete(d)
    BY <2>0, <2>1 DEF SoftDelete, DeleteStep, SetRow, MaybeSetRow, Effect, Deletes, Writes
  <2>2. CASE PublishDelete(d) BY <2>2 DEF PublishDelete, Effect
  <2>3. CASE removeFiles(d)
    <3> DEFINE a == del[d].avatar
    <3>1. CASE del[d].pc = "delete"
      <4>1. row' = row /\ \E keys \in SUBSET StorageKeys(a) : store' = store \ keys
        BY <2>3, <3>1 DEF removeFiles, DeleteStep, DeleteMany, DeleteSome
      <4> QED BY <2>0, <3>1, <4>1 DEF Effect, RemovesFiles
    <3>2. CASE del[d].pc = "mark"
      <4>1. store' = store /\ (row' = row \/ row' = [row EXCEPT ![a] = FilesRemoved(a)])
        BY <2>3, <3>2 DEF removeFiles, DeleteStep, SetRow, MaybeSetRow
      <4> QED BY <2>0, <3>2, <4>1 DEF Effect, Marks, MarkedBy, Writes
    <3> QED BY <2>3, <3>1, <3>2 DEF removeFiles, DeleteStep
  <2> QED BY <1>4, <2>1, <2>2, <2>3 DEF DeleteRequest
<1>5. ASSUME NEW d \in Deleters, CrashDelete(d) \/ \E a \in Avatars : BeginDelete(d, a) PROVE Effect
  BY <1>5 DEF CrashDelete, BeginDelete, Effect
<1>6. ASSUME NEW w \in Workers, HandleUploaded(w) PROVE Effect
  <2> DEFINE a == Target(w)
  <2>0. a \in Avatars /\ row[a].upload = "uploaded"
    <3>1. wrk[w].pc \in UploadedPC
      BY <1>6 DEF HandleUploaded, GetRow, StartProcessing, AcquireSlot, Render, PutThumbnail, CompleteProcessing,
         transitionError, removeThumbnails, countRetry, MarkProcessingFailed, At, UploadedPC
    <3> QED BY <3>1, ConsumerTypes DEF Sound, WorkersSound, About, Held, Target, At, UploadedPC
  <2> HIDE DEF a
  <2>1. CASE GetRow(w) \/ AcquireSlot(w) \/ Render(w) \/ transitionError(w)
    BY ONLY <2>1 DEF GetRow, AcquireSlot, Render, transitionError, Effect
  <2>2. CASE StartProcessing(w)
    <3>1. \/ row' = row /\ store' = store
          \/ MaySetProcessing(a, "processing") /\ Writes(a, ProcessingSet(a, "processing"))
      BY ONLY <2>2 DEF StartProcessing, SetRow, MaybeSetRow, Writes, a
    <3> QED BY ONLY <2>0, <2>2, <3>1, w \in Workers DEF Effect, Starts, a
  <2>3. CASE PutThumbnail(w)
    BY ONLY <2>3, w \in Workers DEF PutThumbnail, Effect, PutsThumbnail
  <2>4. CASE CompleteProcessing(w)
    BY ONLY <2>4, w \in Workers DEF CompleteProcessing, SetRow, MaybeSetRow, Effect, Completes, Writes
  <2>5. CASE removeThumbnails(w)
    <3> DEFINE orphans == {ThumbnailKey(a, s) : s \in 1..wrk[w].n}
    <3>0. At(w, "cleanup") /\ row' = row
      BY ONLY <2>5 DEF removeThumbnails
    <3>1. \E keys \in SUBSET orphans : store' = store \ keys
      <4>1. \/ store' = store \/ store' = store \ orphans
            \/ \E gone \in SUBSET orphans : store' = store \ gone
        BY ONLY <2>5 DEF removeThumbnails, DeleteMany, DeleteSome, a
      <4> HIDE DEF orphans
      <4>2. store' = store => store' = store \ {} OBVIOUS
      <4> QED BY <4>1, <4>2
    <3>2. orphans \subseteq StorageKeys(a)
      <4>1. wrk[w].n \in 0..NumSizes BY ConsumerTypes DEF Consumers
      <4> QED BY <4>1 DEF StorageKeys, ThumbnailSizes, NumSizes
    <3>3. Gone(a) BY <3>0 DEF Sound, WorkersSound, Gone, a
    <3> HIDE DEF orphans
    <3> QED BY <2>0, <3>0, <3>1, <3>2, <3>3 DEF Effect, RemovesFiles
  <2>6. CASE countRetry(w)
    <3>1. (row' = row /\ store' = store) \/ Writes(a, Touched(row[a]))
      BY ONLY <2>6 DEF countRetry, SetRow, MaybeSetRow, Writes, a
    <3> QED BY ONLY <2>0, <3>1 DEF Effect, Dates
  <2>7. CASE MarkProcessingFailed(w)
    <3>1. \/ row' = row /\ store' = store
          \/ MaySetProcessing(a, "failed") /\ Writes(a, ProcessingSet(a, "failed"))
      BY ONLY <2>7 DEF MarkProcessingFailed, SetRow, MaybeSetRow, Writes, a
    <3> QED BY ONLY <2>0, <3>1 DEF Effect, Fails
  <2> QED BY ONLY <1>6, <2>1, <2>2, <2>3, <2>4, <2>5, <2>6, <2>7 DEF HandleUploaded
<1>7. ASSUME NEW w \in Workers, HandleDeleted(w) PROVE Effect
  <2> DEFINE a == Target(w)
  <2>0. a \in Avatars /\ Gone(a)
    <3>1. wrk[w].pc \in DeletedPC
      BY <1>7 DEF HandleDeleted, DeleteFiles, MarkFilesRemoved, At, DeletedPC
    <3> QED BY <3>1, ConsumerTypes DEF Sound, WorkersSound, About, Held, Target, At, DeletedPC
  <2>1. CASE DeleteFiles(w)
    <3>1. row' = row /\ \E keys \in SUBSET StorageKeys(a) : store' = store \ keys
      <4>1. row' = row /\ (store' = store \/ DeleteMany(StorageKeys(a)) \/ DeleteSome(StorageKeys(a)))
        BY ONLY <2>1 DEF DeleteFiles
      <4>2. store' = store => store' = store \ {} OBVIOUS
      <4> QED BY <4>1, <4>2 DEF DeleteMany, DeleteSome
    <3> QED BY <2>0, <3>1 DEF Effect, RemovesFiles
  <2>2. CASE MarkFilesRemoved(w)
    <3> HIDE DEF a
    <3>1. At(w, "mark") /\ ((row' = row /\ store' = store) \/ Writes(a, FilesRemoved(a)))
      BY ONLY <2>2 DEF MarkFilesRemoved, SetRow, MaybeSetRow, Writes, a
    <3> QED BY <2>0, <3>1 DEF Effect, Marks, MarkedBy, a
  <2> QED BY <1>7, <2>1, <2>2 DEF HandleDeleted
<1>8. ASSUME NEW w \in Workers,
             reroute(w) \/ Ack(w) \/ Expire(w) \/ CrashWorker(w) \/ \E m \in Message : Deliver(w, m)
      PROVE  Effect
  BY <1>8 DEF reroute, Ack, Expire, CrashWorker, Deliver, Effect
<1>9. CASE FailStaleUploads
  <2> DEFINE stale == {a \in Avatars : MaySetUpload(a, "failed") /\ row[a].old}
  <2>1. stale \in SUBSET Avatars OBVIOUS
  <2>2. (row' = row /\ store' = store) \/ GiveUpStale(stale)
    BY <1>9 DEF FailStaleUploads, GiveUpStale
  <2> HIDE DEF stale
  <2> QED BY <2>1, <2>2 DEF Effect
<1>10. CASE \/ SelectStuck \/ SelectUncleaned \/ CrashReconciler
            \/ \E a \in Avatars : republishUploads(a) \/ republishCleanups(a)
  BY <1>10 DEF SelectStuck, SelectUncleaned, CrashReconciler, republishUploads, republishCleanups, Republish, Effect
<1>11. CASE UNCHANGED vars BY <1>11 DEF vars, Effect
<1> QED
  BY ONLY [Next]_vars, <1>1, <1>2, <1>3, <1>4, <1>5, <1>6, <1>7, <1>8, <1>9, <1>10, <1>11
  DEF Next, Consume, Reconcile
-----------------------------------------------------------------------------
(* No step deletes a file that is in use. *)

Keeps(a) == \A i \in 0..NumSizes : <<a, i>> \in store => <<a, i>> \in store'

\* Files disappear only from rows that are to be cleaned up, and an original
\* appears only where a request is about to put it.
LEMMA StoreStep ==
  ASSUME TypeOK, Effect, NEW a \in Avatars
  PROVE  /\ ~Gone(a) => Keeps(a)
         /\ OriginalKey(a) \in store' => OriginalKey(a) \in store \/ (up[a] = "put" /\ row' = row)
<1> DEFINE Goal ==
      /\ ~Gone(a) => Keeps(a)
      /\ OriginalKey(a) \in store' => OriginalKey(a) \in store \/ (up[a] = "put" /\ row' = row)
<1> SUFFICES Goal OBVIOUS
<1>1. CASE store' = store BY <1>1 DEF Keeps
<1>2. ASSUME NEW b \in Avatars, PutsOriginal(b) PROVE Goal
  BY <1>2 DEF PutsOriginal, Put, Keeps, OriginalKey
<1>3. ASSUME NEW w \in Workers, PutsThumbnail(w) PROVE Goal
  <2>1. wrk[w].n \in 0..NumSizes BY ConsumerTypes DEF Consumers
  <2>2. OriginalKey(a) # ThumbnailKey(Target(w), wrk[w].n + 1)
    BY <2>1 DEF OriginalKey, ThumbnailKey, NumSizes
  <2> QED BY <1>3, <2>2 DEF PutsThumbnail, Put, Keeps
<1>4. ASSUME NEW b \in Avatars, RemovesFiles(b) PROVE Goal
  <2>1. \A i : <<a, i>> \in StorageKeys(b) => a = b
    BY DEF StorageKeys, OriginalKey, ThumbnailKey
  <2> QED BY <1>4, <2>1 DEF RemovesFiles, Keeps
<1> HIDE DEF Goal
<1> QED
  BY <1>1, <1>2, <1>3, <1>4
  DEF Effect, Writes, Dates, Registers, Finishes, GivesUp, GiveUpStale, Starts, Fails, Completes, Deletes, Marks

(***************************************************************************)
(* No step deletes a file of a live uploaded avatar: neither a cleanup     *)
(* event, nor a delete request, nor the removal of orphaned thumbnails by  *)
(* a delivery that comes late, after however many failures and retries.    *)
(***************************************************************************)
THEOREM FilesInUseStay == Spec => FilesOutliveUse
<1>1. ASSUME TypeOK, Sound, [Next]_vars, NEW a \in Avatars, Live(a), row[a].upload = "uploaded"
      PROVE  store \cap StorageKeys(a) \subseteq store'
  <2>1. Keeps(a) BY <1>1, StepEffect, StoreStep DEF Live, Gone
  <2>2. \A key \in StorageKeys(a) : \E i \in 0..NumSizes : key = <<a, i>>
    BY DEF StorageKeys, OriginalKey, ThumbnailKey, ThumbnailSizes, NumSizes
  <2> QED BY <2>1, <2>2 DEF Keeps
<1>2. TypeOK /\ Sound /\ [Next]_vars =>
        \A a \in Avatars : Live(a) /\ row[a].upload = "uploaded"
          => store \cap StorageKeys(a) \subseteq store'
  BY <1>1
<1> QED BY <1>2, WorkIsSound, PTL DEF Spec, FilesOutliveUse
-----------------------------------------------------------------------------
(* The files a row needs are there, and those of a removed row are not. *)

\* How a row gets the statuses the invariants are about.
RowMoves(a) ==
  /\ row'[a].upload = "uploaded" =>
       \/ row[a].upload = "uploaded"
       \/ up[a] = "status" /\ row[a].upload = "uploading" /\ store' = store
  /\ row'[a].upload = "uploading" => row[a].upload = "uploading" \/ up[a] = "idle"
  /\ row'[a].proc = "completed" =>
       \/ row[a].proc = "completed" /\ row'[a].thumbs = row[a].thumbs
       \/ /\ row'[a].thumbs = ThumbnailSizes /\ ~row[a].deleted /\ store' = store
          /\ \E w \in Workers : At(w, "complete") /\ Target(w) = a
  /\ row'[a].thumbs # {} => row[a].thumbs # {} \/ row'[a].proc = "completed"
  /\ row[a].proc # "pending" => row'[a].proc # "pending"
  /\ row'[a].proc = "processing" =>
       row[a].proc = "processing" \/ \E w \in Workers : StartProcessing(w) /\ Target(w) = a
  /\ row'[a].removed => row[a].removed \/ (MarkedBy(a) /\ store' = store)
  /\ TimelyUploads /\ up[a] = "put" /\ row[a].upload = "uploading" /\ ~row[a].old =>
       row'[a].upload = "uploading" /\ ~row'[a].old

\* What an effect does to one row and to its files.
LEMMA RowEffect ==
  ASSUME TypeOK, Sound, Effect, NEW a \in Avatars
  PROVE  RowMoves(a)
<1>0. row \in [Avatars -> Rows] /\ RowsSound BY DEF TypeOK, Sound
<1>1. CASE row'[a] = row[a] BY <1>1 DEF RowMoves
<1>2. ASSUME NEW b \in Avatars, NEW r, Writes(b, r), b # a PROVE RowMoves(a)
  BY <1>0, <1>1, <1>2 DEF Writes
<1>3. ASSUME NEW r, Writes(a, r) PROVE row'[a] = r /\ store' = store
  BY <1>0, <1>3 DEF Writes
<1>4. ASSUME NEW b \in Avatars,
             \/ Dates(b) \/ Registers(b) \/ Finishes(b) \/ GivesUp(b)
             \/ Starts(b) \/ Fails(b) \/ Deletes(b) \/ Marks(b)
      PROVE  RowMoves(a)
  <2>1. CASE b # a
    BY ONLY <1>2, <1>4, <2>1
    DEF Dates, Registers, Finishes, GivesUp, Starts, Fails, Deletes, Marks
  <2>2. CASE b = a
    <3> USE <1>0, <1>3, <2>2, RowFields DEF RowMoves
    <3>1. CASE Dates(b) BY <3>1 DEF Dates
    <3>2. CASE Registers(b) BY <3>2 DEF Registers, RowsSound
    <3>3. CASE Finishes(b) BY <3>3 DEF Finishes, MaySetUpload, UploadAllowedFrom
    <3>4. CASE GivesUp(b) BY <3>4 DEF GivesUp, MaySetUpload, UploadAllowedFrom
    <3>5. CASE Starts(b) BY <3>5 DEF Starts
    <3>6. CASE Fails(b) BY <3>6 DEF Fails
    <3>7. CASE Deletes(b) BY <3>7 DEF Deletes
    <3>8. CASE Marks(b) BY <3>8 DEF Marks
    <3> QED BY ONLY <1>4, <3>1, <3>2, <3>3, <3>4, <3>5, <3>6, <3>7, <3>8
  <2> QED BY <2>1, <2>2
<1>5. ASSUME NEW w \in Workers, Completes(w) PROVE RowMoves(a)
  <2>0. Target(w) \in Avatars BY ConsumerTypes
  <2>1. CASE Target(w) # a BY <1>2, <1>5, <2>0, <2>1 DEF Completes
  <2>2. CASE Target(w) = a
    <3>1. row'[a] = Completed(a) /\ store' = store BY <1>3, <1>5, <2>2 DEF Completes
    <3>2. /\ At(w, "complete") /\ ~row[a].deleted /\ row[a].proc = "processing"
      BY <1>5, <2>2 DEF Completes, MaySetProcessing, Live, ProcessingAllowedFrom
    <3>3. row[a].upload = "uploaded" BY <1>0, <3>2 DEF RowsSound
    <3> QED BY <2>2, <3>1, <3>2, <3>3, RowFields DEF RowMoves
  <2> QED BY <2>1, <2>2
<1>6. ASSUME NEW stale \in SUBSET Avatars, GiveUpStale(stale) PROVE RowMoves(a)
  BY <1>0, <1>1, <1>6, RowFields DEF GiveUpStale, RowMoves, MaySetUpload, UploadAllowedFrom
<1>7. CASE row' = row BY <1>1, <1>7
<1> QED
  BY <1>4, <1>5, <1>6, <1>7 DEF Effect, PutsOriginal, PutsThumbnail, RemovesFiles

\* The properties of the table and the bucket alone.
LEMMA ServableStep ==
  ASSUME IInv, Effect, \A a \in Avatars : Advances(a), Sound'
  PROVE  LiveOriginal' /\ CompletedServable' /\ RemovedOriginalGone'
<1>0. TypeOK /\ Sound /\ RowsSound BY DEF IInv, Sound
<1>1. ASSUME NEW a \in Avatars
      PROVE  /\ RowMoves(a) /\ Advances(a) /\ (~Gone(a) => Keeps(a))
             /\ OriginalKey(a) \in store' => OriginalKey(a) \in store \/ (up[a] = "put" /\ row' = row)
  BY <1>0, RowEffect, StoreStep
<1>2. ASSUME NEW a \in Avatars, row'[a].upload # "none", ~row'[a].deleted, row'[a].upload = "uploaded"
      PROVE  OriginalKey(a) \in store'
  <2>1. ~row[a].deleted BY <1>1, <1>2 DEF Advances
  <2>2. CASE row[a].upload = "uploaded"
    <3>1. OriginalKey(a) \in store BY <2>1, <2>2 DEF IInv, LiveOriginal, Live
    <3>2. Keeps(a) BY <1>1, <2>1, <2>2 DEF Gone
    <3>3. 0 \in 0..NumSizes BY DEF NumSizes
    <3> QED BY <3>1, <3>2, <3>3 DEF Keeps, OriginalKey
  <2>3. CASE row[a].upload # "uploaded"
    BY <1>1, <1>2, <2>3 DEF RowMoves, IInv, OriginalSound
  <2> QED BY <2>2, <2>3
<1>3. ASSUME NEW a \in Avatars, row'[a].upload # "none", ~row'[a].deleted, row'[a].proc = "completed"
      PROVE  /\ row'[a].thumbs = ThumbnailSizes
             /\ \A s \in ThumbnailSizes : ThumbnailKey(a, s) \in store'
  <2>1. ~row[a].deleted BY <1>1, <1>3 DEF Advances
  <2>2. CASE row[a].proc = "completed" /\ row'[a].thumbs = row[a].thumbs
    <3>1. row[a].upload = "uploaded" BY <1>0, <2>2 DEF RowsSound
    <3>2. row[a].thumbs = ThumbnailSizes /\ \A s \in row[a].thumbs : ThumbnailKey(a, s) \in store
      BY <2>1, <2>2, <3>1 DEF IInv, CompletedServable, Live
    <3>3. Keeps(a) BY <1>1, <2>1, <3>1 DEF Gone
    <3> QED BY <2>2, <3>2, <3>3 DEF Keeps, ThumbnailKey, ThumbnailSizes, NumSizes
  <2>3. CASE /\ row'[a].thumbs = ThumbnailSizes /\ ~row[a].deleted /\ store' = store
             /\ \E w \in Workers : At(w, "complete") /\ Target(w) = a
    <3>1. PICK w \in Workers : At(w, "complete") /\ Target(w) = a BY <2>3
    <3>2. \A s \in 1..NumSizes : ThumbnailKey(a, s) \in store
      BY <2>3, <3>1 DEF IInv, ThumbnailsSound, At
    <3> QED BY <2>3, <3>2 DEF ThumbnailSizes
  <2> QED BY <1>1, <1>3, <2>2, <2>3 DEF RowMoves
<1>4. ASSUME TimelyUploads, NEW a \in Avatars, row'[a].removed PROVE OriginalKey(a) \notin store'
  <2>1. CASE row[a].removed
    <3>1. Gone(a) /\ up[a] # "put"
      BY <1>0, <1>4, <2>1 DEF RowsSound, Gone, IInv, RemovalSound
    <3> QED BY <1>1, <1>4, <2>1, <3>1 DEF IInv, RemovedOriginalGone
  <2>2. CASE MarkedBy(a) /\ store' = store
    BY <1>4, <2>2 DEF MarkedBy, IInv, RemovalSound
  <2> QED BY <1>1, <1>4, <2>1, <2>2 DEF RowMoves
<1>5. LiveOriginal' BY <1>2 DEF LiveOriginal, Live
<1>6. CompletedServable' BY <1>3 DEF CompletedServable, Live
<1>7. RemovedOriginalGone' BY <1>4 DEF RemovedOriginalGone
<1> QED BY <1>5, <1>6, <1>7

\* How requests and consumers get to the points the invariants are about.
RequestMoves(a) ==
  /\ up'[a] = "status" => up[a] = "status" \/ OriginalKey(a) \in store'
  /\ up'[a] = "put" => up[a] = "put" \/ row'[a] = Created

\* How the upload request of an avatar moves in a step.
LEMMA RequestStep ==
  ASSUME TypeOK, [Next]_vars, NEW a \in Avatars
  PROVE  RequestMoves(a)
<1>0. row \in [Avatars -> Rows] /\ up \in [Avatars -> UploadPC] BY DEF TypeOK
<1>1. CASE UNCHANGED up BY <1>1 DEF RequestMoves
<1>2. ASSUME NEW b \in Avatars, UploadRequest(b) PROVE RequestMoves(a)
  <2>1. CASE b # a
    <3>1. up'[a] = up[a]
      BY <1>0, <1>2, <2>1
      DEF UploadRequest, Create, PutOriginal, SetUploaded, PublishUpload, markFailed, UploadStep
    <3> QED BY <3>1 DEF RequestMoves
  <2>2. CASE b = a
    <3> USE <1>0, <2>2 DEF RequestMoves, UploadStep
    <3>1. CASE Create(b) BY <3>1 DEF Create, SetRow
    <3>2. CASE PutOriginal(b) BY <3>2 DEF PutOriginal, Put
    <3>3. CASE SetUploaded(b) \/ PublishUpload(b) \/ markFailed(b)
      BY <3>3 DEF SetUploaded, PublishUpload, markFailed
    <3> QED BY ONLY <1>2, <3>1, <3>2, <3>3 DEF UploadRequest
  <2> QED BY <2>1, <2>2
<1>3. ASSUME NEW b \in Avatars, CrashUpload(b) PROVE RequestMoves(a)
  BY <1>0, <1>3 DEF CrashUpload, UploadStep, RequestMoves
<1>4. CASE \/ \E b \in Avatars : Age(b)
           \/ \E d \in Deleters :
                DeleteRequest(d) \/ CrashDelete(d) \/ \E b \in Avatars : BeginDelete(d, b)
  BY <1>1, <1>4
  DEF Age, DeleteRequest, SoftDelete, PublishDelete, removeFiles, CrashDelete, BeginDelete
<1>5. ASSUME NEW w \in Workers,
             Consume(w) \/ Expire(w) \/ CrashWorker(w) \/ \E m \in Message : Deliver(w, m)
      PROVE  UNCHANGED up
  BY <1>5
  DEF Consume, HandleUploaded, HandleDeleted, GetRow, StartProcessing, AcquireSlot, Render, PutThumbnail,
      CompleteProcessing, transitionError, removeThumbnails, countRetry, MarkProcessingFailed,
      DeleteFiles, MarkFilesRemoved, reroute, Ack, Expire, CrashWorker, Deliver
<1>6. CASE Reconcile \/ CrashReconciler \/ UNCHANGED vars
  BY <1>1, <1>6
  DEF Reconcile, FailStaleUploads, SelectStuck, SelectUncleaned, republishUploads, republishCleanups,
      Republish, CrashReconciler, vars
<1> QED BY ONLY [Next]_vars, <1>1, <1>2, <1>3, <1>4, <1>5, <1>6 DEF Next

DeleterMoves(d) ==
  del'[d].pc = "mark" =>
    /\ del'[d].avatar = del[d].avatar
    /\ del[d].pc = "mark" \/ OriginalKey(del[d].avatar) \notin store'

\* How a delete request moves in a step.
LEMMA DeleterStep ==
  ASSUME TypeOK, [Next]_vars, NEW d \in Deleters
  PROVE  DeleterMoves(d)
<1>0. del \in [Deleters -> [pc : DeletePC, avatar : Avatars]] BY DEF TypeOK
<1>1. CASE UNCHANGED del BY <1>1 DEF DeleterMoves
<1>2. ASSUME NEW e \in Deleters, SoftDelete(e) \/ PublishDelete(e) \/ CrashDelete(e) PROVE DeleterMoves(d)
  BY <1>0, <1>2 DEF SoftDelete, PublishDelete, CrashDelete, DeleteStep, DeleterMoves
<1>3. ASSUME NEW e \in Deleters, removeFiles(e) PROVE DeleterMoves(d)
  <2>1. CASE d # e BY <1>0, <1>3, <2>1 DEF removeFiles, DeleteStep, DeleterMoves
  <2>2. CASE d = e
    BY <1>0, <1>3, <2>2 DEF removeFiles, DeleteStep, DeleterMoves, DeleteMany, StorageKeys
  <2> QED BY <2>1, <2>2
<1>4. ASSUME NEW e \in Deleters, NEW a \in Avatars, BeginDelete(e, a) PROVE DeleterMoves(d)
  BY <1>0, <1>4 DEF BeginDelete, DeleterMoves
<1>5. ASSUME NEW a \in Avatars, UploadRequest(a) \/ CrashUpload(a) \/ Age(a) PROVE UNCHANGED del
  BY <1>5 DEF UploadRequest, Create, PutOriginal, SetUploaded, PublishUpload, markFailed, CrashUpload, Age
<1>6. ASSUME NEW w \in Workers,
             Consume(w) \/ Expire(w) \/ CrashWorker(w) \/ \E m \in Message : Deliver(w, m)
      PROVE  UNCHANGED del
  BY <1>6
  DEF Consume, HandleUploaded, HandleDeleted, GetRow, StartProcessing, AcquireSlot, Render, PutThumbnail,
      CompleteProcessing, transitionError, removeThumbnails, countRetry, MarkProcessingFailed,
      DeleteFiles, MarkFilesRemoved, reroute, Ack, Expire, CrashWorker, Deliver
<1>7. CASE Reconcile \/ CrashReconciler \/ UNCHANGED vars
  BY <1>1, <1>7
  DEF Reconcile, FailStaleUploads, SelectStuck, SelectUncleaned, republishUploads, republishCleanups,
      Republish, CrashReconciler, vars
<1> QED BY ONLY [Next]_vars, <1>1, <1>2, <1>3, <1>4, <1>5, <1>6, <1>7 DEF Next, DeleteRequest

\* A consumer stays where it is, or is past its files, or takes a new delivery, or
\* takes the next step of its handler.
ConsumerMoves(w) ==
  \/ wrk'[w].pc = wrk[w].pc /\ wrk'[w].n = wrk[w].n /\ wrk'[w].msg = wrk[w].msg
  \/ wrk'[w].pc \in {"idle", "ack", "reroute", "why", "cleanup", "count", "failed"}
  \/ wrk'[w].pc \in {"get", "delete"} /\ wrk'[w].n = 0
  \/ /\ wrk[w].pc \in {"get", "start", "slot", "render"}
     /\ wrk'[w].pc \in {"start", "slot", "render", "put"}
     /\ wrk'[w].n = wrk[w].n /\ wrk'[w].msg = wrk[w].msg
  \/ /\ At(w, "put") /\ wrk'[w].n = wrk[w].n + 1 /\ wrk'[w].msg = wrk[w].msg
     /\ wrk'[w].pc = IF wrk[w].n + 1 = NumSizes THEN "complete" ELSE "put"
     /\ store' = store \cup {ThumbnailKey(Target(w), wrk[w].n + 1)}
  \/ /\ At(w, "delete") /\ wrk'[w].pc = "mark" /\ wrk'[w].msg = wrk[w].msg
     /\ store' = store \ StorageKeys(Target(w))

\* How a consumer moves in a step.
LEMMA ConsumerStep ==
  ASSUME TypeOK, [Next]_vars, NEW w \in Workers
  PROVE  ConsumerMoves(w)
<1>0. wrk \in [Workers -> Consumers] BY DEF TypeOK
<1>1. CASE wrk'[w] = wrk[w] BY <1>1 DEF ConsumerMoves
<1>2. ASSUME NEW v \in Workers, NEW c, wrk' = [wrk EXCEPT ![v] = c], v # w PROVE ConsumerMoves(w)
  BY <1>0, <1>1, <1>2
<1>4. ASSUME NEW f \in BOOLEAN, failure(w, f) PROVE ConsumerMoves(w)
  BY <1>4, ConsumerFields DEF Moves, ConsumerMoves
<1>5. ASSUME NEW pc \in {"ack", "reroute", "why", "cleanup"}, Goto(w, pc) PROVE ConsumerMoves(w)
  BY <1>5, ConsumerFields DEF Moves, ConsumerMoves, WorkerPC, UploadedPC
<1>6. ASSUME NEW pc \in {"start", "slot", "render", "put"}, Goto(w, pc),
             wrk[w].pc \in {"get", "start", "slot", "render"}
      PROVE ConsumerMoves(w)
  BY <1>6, ConsumerFields DEF Moves, ConsumerMoves, WorkerPC, UploadedPC
<1>7. ASSUME HandleUploaded(w) PROVE ConsumerMoves(w)
  <2>1. CASE GetRow(w) BY ONLY <1>4, <1>5, <1>6, <2>1 DEF GetRow, At
  <2>2. CASE StartProcessing(w) BY ONLY <1>4, <1>5, <1>6, <2>2 DEF StartProcessing, At
  <2>3. CASE AcquireSlot(w) BY ONLY <1>4, <1>5, <1>6, <2>3 DEF AcquireSlot, At
  <2>4. CASE Render(w) BY ONLY <1>4, <1>5, <1>6, <2>4 DEF Render, At
  <2>5. CASE PutThumbnail(w)
    <3>1. CASE failure(w, FALSE) BY <1>4, <3>1
    <3>2. CASE /\ wrk' = [wrk EXCEPT ![w] = ThumbnailStored(wrk[w])]
               /\ Put(ThumbnailKey(Target(w), wrk[w].n + 1))
      BY <2>5, <3>2, ConsumerFields DEF PutThumbnail, Put, Moves, ConsumerMoves
    <3> QED BY ONLY <2>5, <3>1, <3>2 DEF PutThumbnail
  <2>6. CASE CompleteProcessing(w) BY ONLY <1>4, <1>5, <2>6 DEF CompleteProcessing
  <2>7. CASE transitionError(w) BY ONLY <1>4, <1>5, <2>7 DEF transitionError
  <2>8. CASE removeThumbnails(w) BY ONLY <1>4, <2>8 DEF removeThumbnails
  <2>9. CASE countRetry(w) BY ONLY <1>5, <2>9 DEF countRetry
  <2>10. CASE MarkProcessingFailed(w) BY ONLY <1>5, <2>10 DEF MarkProcessingFailed
  <2> QED BY ONLY <1>7, <2>1, <2>2, <2>3, <2>4, <2>5, <2>6, <2>7, <2>8, <2>9, <2>10 DEF HandleUploaded
<1>8. ASSUME HandleDeleted(w) PROVE ConsumerMoves(w)
  <2>1. CASE DeleteFiles(w)
    <3>1. CASE Goto(w, "reroute") BY <1>5, <3>1
    <3>2. CASE Goto(w, "mark") /\ DeleteMany(StorageKeys(Target(w)))
      BY <2>1, <3>2, ConsumerFields
      DEF DeleteFiles, DeleteMany, Moves, ConsumerMoves, WorkerPC, DeletedPC
    <3> QED BY ONLY <2>1, <3>1, <3>2 DEF DeleteFiles
  <2>2. CASE MarkFilesRemoved(w) BY ONLY <1>5, <2>2 DEF MarkFilesRemoved
  <2> QED BY <1>8, <2>1, <2>2 DEF HandleDeleted
<1>9. ASSUME reroute(w) \/ Ack(w) \/ CrashWorker(w) PROVE ConsumerMoves(w)
  <2>1. Release(w) => ConsumerMoves(w) BY ConsumerFields DEF ConsumerMoves
  <2> QED BY ONLY <1>9, <1>5, <2>1 DEF reroute, Ack, CrashWorker
<1>10. ASSUME Expire(w) PROVE ConsumerMoves(w)
  BY <1>10, ConsumerFields DEF Expire, Moves, ConsumerMoves
<1>11. ASSUME NEW m \in Message, Deliver(w, m) PROVE ConsumerMoves(w)
  <2>1. Delivered(m).n = 0 /\ Delivered(m).pc \in {"get", "delete"}
    BY DEF Delivered, Idle
  <2> QED BY <1>0, <1>11, <2>1 DEF Deliver, ConsumerMoves
<1>12. ASSUME NEW v \in Workers, v # w,
              Consume(v) \/ Expire(v) \/ CrashWorker(v) \/ \E m \in Message : Deliver(v, m)
       PROVE  ConsumerMoves(w)
  <2>1. \E c : wrk' = [wrk EXCEPT ![v] = c]
    BY ONLY <1>12
    DEF Consume, HandleUploaded, HandleDeleted, GetRow, StartProcessing, AcquireSlot, Render, PutThumbnail,
        CompleteProcessing, transitionError, removeThumbnails, countRetry, MarkProcessingFailed,
        DeleteFiles, MarkFilesRemoved, reroute, Ack, Expire, CrashWorker, Deliver, Goto, failure, Release
  <2> QED BY <1>2, <1>12, <2>1
<1>13. ASSUME NEW a \in Avatars, UploadRequest(a) \/ CrashUpload(a) \/ Age(a) PROVE UNCHANGED wrk
  BY <1>13 DEF UploadRequest, Create, PutOriginal, SetUploaded, PublishUpload, markFailed, CrashUpload, Age
<1>14. CASE \E d \in Deleters :
              DeleteRequest(d) \/ CrashDelete(d) \/ \E b \in Avatars : BeginDelete(d, b)
  BY <1>1, <1>14 DEF DeleteRequest, SoftDelete, PublishDelete, removeFiles, CrashDelete, BeginDelete
<1>15. CASE Reconcile \/ CrashReconciler \/ UNCHANGED vars
  BY <1>1, <1>15
  DEF Reconcile, FailStaleUploads, SelectStuck, SelectUncleaned, republishUploads, republishCleanups,
      Republish, CrashReconciler, vars
<1> QED
  BY ONLY [Next]_vars, <1>1, <1>7, <1>8, <1>9, <1>10, <1>11, <1>12, <1>13, <1>14, <1>15, w \in Workers
  DEF Next, Consume

\* The first state satisfies the invariant about files.
LEMMA InitFiles == Init => IInv
<1>1. Init => TypeOK /\ Sound BY InitType, InitSound
<1>2. Init => /\ OriginalSound /\ RecordsSound
              /\ LiveOriginal /\ CompletedServable /\ RemovedOriginalGone
  BY DEF Init, OriginalSound, RecordsSound, LiveOriginal, CompletedServable, RemovedOriginalGone, NoRow, Live
<1>3. Init => ThumbnailsSound /\ RemovalSound
  BY DEF Init, ThumbnailsSound, RemovalSound, Idle, At
<1> QED BY <1>1, <1>2, <1>3 DEF IInv

\* Every action keeps the invariant about files.
LEMMA FilesStep ==
  ASSUME IInv, [Next]_vars
  PROVE  IInv'
<1>0. TypeOK /\ Sound /\ RowsSound /\ WorkersSound /\ DeletersSound BY DEF IInv, Sound
<1>1. TypeOK' /\ Sound' /\ (\A a \in Avatars : Advances(a)) /\ Effect
  BY <1>0, StepType, SoundStep, RowStep, StepEffect
<1>2. LiveOriginal' /\ CompletedServable' /\ RemovedOriginalGone'
  BY <1>1, ServableStep
<1>3. ASSUME NEW a \in Avatars
      PROVE  /\ RowMoves(a) /\ RequestMoves(a) /\ (~Gone(a) => Keeps(a))
             /\ OriginalKey(a) \in store' => OriginalKey(a) \in store \/ (up[a] = "put" /\ row' = row)
  BY <1>0, <1>1, RowEffect, RequestStep, StoreStep
<1>4. OriginalSound'
  <2>1. ASSUME NEW a \in Avatars, up'[a] = "status", row'[a].upload = "uploading"
        PROVE  OriginalKey(a) \in store'
    <3>1. CASE up[a] = "status"
      <4>1. row[a].upload = "uploading" BY <1>3, <2>1, <3>1 DEF RowMoves
      <4>2. OriginalKey(a) \in store BY <3>1, <4>1 DEF IInv, OriginalSound
      <4>3. Keeps(a) BY <1>0, <1>3, <4>1 DEF RowsSound, Gone
      <4>4. 0 \in 0..NumSizes BY DEF NumSizes
      <4> QED BY <4>2, <4>3, <4>4 DEF Keeps, OriginalKey
    <3> QED BY <1>3, <2>1, <3>1 DEF RequestMoves
  <2> QED BY <2>1 DEF OriginalSound
<1>5. ThumbnailsSound'
  <2>1. ASSUME NEW w \in Workers
        PROVE  /\ wrk'[w].pc \in {"get", "start", "slot", "render"} => wrk'[w].n = 0
               /\ wrk'[w].pc = "complete" => wrk'[w].n = NumSizes
               /\ wrk'[w].pc \in {"put", "complete"} /\ ~row'[wrk'[w].msg.avatar].deleted =>
                    \A s \in 1..wrk'[w].n : ThumbnailKey(wrk'[w].msg.avatar, s) \in store'
    <3> DEFINE a == Target(w)
    <3>0. a \in Avatars /\ wrk[w].n \in 0..NumSizes BY <1>0, ConsumerTypes DEF Consumers
    <3>1. ConsumerMoves(w) BY <1>0, ConsumerStep
    <3>2. /\ wrk[w].pc \in {"get", "start", "slot", "render"} => wrk[w].n = 0
          /\ wrk[w].pc = "complete" => wrk[w].n = NumSizes
          /\ wrk[w].pc \in {"put", "complete"} /\ ~row[a].deleted =>
               \A s \in 1..wrk[w].n : ThumbnailKey(a, s) \in store
      BY DEF IInv, ThumbnailsSound, At
    <3>3. ASSUME wrk[w].pc \in {"put", "complete"}, ~row'[a].deleted
          PROVE  \A s \in 1..wrk[w].n : ThumbnailKey(a, s) \in store'
      <4>1. row[a].upload = "uploaded"
        BY <1>0, <3>3 DEF WorkersSound, About, Held, Target, At, UploadedPC
      <4>2. ~row[a].deleted BY <1>1, <3>0, <3>3 DEF Advances
      <4>3. Keeps(a) BY <1>3, <3>0, <4>1, <4>2 DEF Gone
      <4>4. 1..wrk[w].n \subseteq 0..NumSizes BY <3>0 DEF NumSizes
      <4> QED BY <3>2, <3>3, <4>2, <4>3, <4>4 DEF Keeps, ThumbnailKey
    <3>4. CASE wrk'[w].pc = wrk[w].pc /\ wrk'[w].n = wrk[w].n /\ wrk'[w].msg = wrk[w].msg
      BY <3>2, <3>3, <3>4 DEF Target
    <3>5. CASE \/ wrk'[w].pc \in {"idle", "ack", "reroute", "why", "cleanup", "count", "failed"}
               \/ wrk'[w].pc \in {"get", "delete"} /\ wrk'[w].n = 0
               \/ wrk'[w].pc = "mark"
      BY <3>5
    <3>6. CASE /\ wrk[w].pc \in {"get", "start", "slot", "render"}
               /\ wrk'[w].pc \in {"start", "slot", "render", "put"}
               /\ wrk'[w].n = wrk[w].n
      BY <3>2, <3>6
    <3>7. CASE /\ At(w, "put") /\ wrk'[w].n = wrk[w].n + 1 /\ wrk'[w].msg = wrk[w].msg
               /\ wrk'[w].pc = IF wrk[w].n + 1 = NumSizes THEN "complete" ELSE "put"
               /\ store' = store \cup {ThumbnailKey(Target(w), wrk[w].n + 1)}
      <4>1. \A s \in 1..(wrk[w].n + 1) : s \in 1..wrk[w].n \/ s = wrk[w].n + 1
        BY <3>0 DEF NumSizes
      <4>2. ~row'[a].deleted => \A s \in 1..(wrk[w].n + 1) : ThumbnailKey(a, s) \in store'
        BY <3>3, <3>7, <4>1 DEF At
      <4>3. wrk'[w].msg.avatar = a BY <3>7 DEF Target
      <4> QED BY <3>7, <4>2, <4>3
    <3> HIDE DEF a
    <3> QED BY <3>1, <3>4, <3>5, <3>6, <3>7 DEF ConsumerMoves
  <2> QED BY <2>1 DEF ThumbnailsSound, At, Target
<1>6. RemovalSound'
  <2> SUFFICES ASSUME TimelyUploads
               PROVE  /\ \A a \in Avatars : up'[a] = "put" => row'[a].upload = "uploading" /\ ~row'[a].old
                      /\ \A w \in Workers : wrk'[w].pc = "mark" => OriginalKey(wrk'[w].msg.avatar) \notin store'
                      /\ \A d \in Deleters : del'[d].pc = "mark" => OriginalKey(del'[d].avatar) \notin store'
    BY DEF RemovalSound, At, Target
  <2>1. ASSUME NEW a \in Avatars, up'[a] = "put" PROVE row'[a].upload = "uploading" /\ ~row'[a].old
    <3>1. CASE up[a] = "put" BY <1>3, <2>1, <3>1 DEF RowMoves, IInv, RemovalSound
    <3>2. CASE row'[a] = Created BY <1>0, <3>2, RowFields
    <3> QED BY <1>3, <2>1, <3>1, <3>2 DEF RequestMoves
  <2>2. ASSUME NEW a \in Avatars, Gone(a), OriginalKey(a) \notin store PROVE OriginalKey(a) \notin store'
    <3>1. up[a] # "put" BY <1>0, <2>2 DEF RowsSound, Gone, IInv, RemovalSound
    <3> QED BY <1>3, <2>2, <3>1
  <2>3. ASSUME NEW w \in Workers, wrk'[w].pc = "mark" PROVE OriginalKey(wrk'[w].msg.avatar) \notin store'
    <3>1. ConsumerMoves(w) /\ Target(w) \in Avatars BY <1>0, ConsumerStep, ConsumerTypes
    <3>2. CASE wrk[w].pc = "mark" /\ wrk'[w].msg = wrk[w].msg
      <4>1. Gone(Target(w)) BY <1>0, <3>2 DEF WorkersSound, About, Held, Target, At, DeletedPC
      <4>2. OriginalKey(Target(w)) \notin store BY <3>2 DEF IInv, RemovalSound, At
      <4>3. wrk'[w].msg.avatar = Target(w) BY <3>2 DEF Target
      <4> QED BY <2>2, <3>1, <4>1, <4>2, <4>3
    <3>3. CASE wrk'[w].msg = wrk[w].msg /\ store' = store \ StorageKeys(Target(w))
      BY <3>3 DEF Target, StorageKeys
    <3> QED BY <2>3, <3>1, <3>2, <3>3 DEF ConsumerMoves, At
  <2>4. ASSUME NEW d \in Deleters, del'[d].pc = "mark" PROVE OriginalKey(del'[d].avatar) \notin store'
    <3>1. DeleterMoves(d) /\ del[d].avatar \in Avatars BY <1>0, DeleterStep DEF TypeOK
    <3>2. CASE del[d].pc = "mark"
      <4>1. Gone(del[d].avatar) BY <1>0, <3>2 DEF DeletersSound, Gone
      <4>2. OriginalKey(del[d].avatar) \notin store BY <3>2 DEF IInv, RemovalSound
      <4> QED BY <2>2, <2>4, <3>1, <4>1, <4>2 DEF DeleterMoves
    <3> QED BY <2>4, <3>1, <3>2 DEF DeleterMoves
  <2> QED BY <2>1, <2>3, <2>4
<1>7. RecordsSound'
  BY <1>1, <1>3 DEF RecordsSound, RowMoves, Advances, IInv
<1> QED BY <1>1, <1>2, <1>4, <1>5, <1>6, <1>7 DEF IInv

(***************************************************************************)
(* The inductive invariant of the files: what each request and consumer    *)
(* has put or removed is there or gone for as long as it relies on it.     *)
(***************************************************************************)
THEOREM FilesAreSound == Spec => []IInv
BY InitFiles, FilesStep, PTL DEF Spec

(***************************************************************************)
(* An avatar that is served has its original in the bucket, whatever       *)
(* crashed, failed or was delivered twice.                                 *)
(***************************************************************************)
THEOREM LiveHasOriginal == Spec => []LiveOriginal
<1>1. IInv => LiveOriginal BY DEF IInv
<1> QED BY <1>1, FilesAreSound, PTL

(***************************************************************************)
(* A live completed avatar has all its thumbnails recorded and stored, for *)
(* any number of concurrent deliveries of its event.                       *)
(***************************************************************************)
THEOREM CompletedIsServable == Spec => []CompletedServable
<1>1. IInv => CompletedServable BY DEF IInv
<1> QED BY <1>1, FilesAreSound, PTL

(***************************************************************************)
(* Once files_removed_at is set the original is gone and no request brings *)
(* it back, provided uploads end within StuckAfter.                        *)
(***************************************************************************)
THEOREM RemovedIsGone == Spec => []RemovedOriginalGone
<1>1. IInv => RemovedOriginalGone BY DEF IInv
<1> QED BY <1>1, FilesAreSound, PTL
-----------------------------------------------------------------------------
(* Lifecycle implements Avatar. *)

\* The abstract specification speaks of the same statuses and keys.
LEMMA SameVocabulary ==
  /\ Abstract!UploadStatus = UploadStatus /\ Abstract!ProcessingStatus = ProcessingStatus
  /\ Abstract!NumSizes = NumSizes /\ Abstract!ThumbnailSizes = ThumbnailSizes
  /\ \A s : Abstract!ProcessingAllowedFrom(s) = ProcessingAllowedFrom(s)
  /\ \A a : Abstract!OriginalKey(a) = OriginalKey(a) /\ Abstract!StorageKeys(a) = StorageKeys(a)
  /\ \A a, s : Abstract!ThumbnailKey(a, s) = ThumbnailKey(a, s)
BY DEF Abstract!UploadStatus, UploadStatus, Abstract!ProcessingStatus, ProcessingStatus,
   Abstract!NumSizes, NumSizes, Abstract!ThumbnailSizes, ThumbnailSizes,
   Abstract!ProcessingAllowedFrom, ProcessingAllowedFrom, Abstract!OriginalKey, OriginalKey,
   Abstract!StorageKeys, StorageKeys, Abstract!ThumbnailKey, ThumbnailKey

\* Two abstract states with equal columns are equal.
LEMMA SameState ==
  ASSUME NEW x \in Abstract!States, NEW y \in Abstract!States,
         x.upload = y.upload, x.proc = y.proc, x.deleted = y.deleted, x.removed = y.removed,
         x.thumbs = y.thumbs
  PROVE  x = y
BY DEF Abstract!States

\* The abstract state of a row has the columns of the row.
LEMMA AbstractFields ==
  ASSUME NEW r \in Rows
  PROVE  LET s == AbstractState(r) IN
         /\ s \in Abstract!States
         /\ s.upload = r.upload /\ s.proc = r.proc /\ s.deleted = r.deleted
         /\ s.removed = r.removed /\ s.thumbs = r.thumbs
BY SameVocabulary DEF AbstractState, Rows, Abstract!States

\* What the writes of a row are in Avatar.
LEMMA AbstractWrites ==
  ASSUME TypeOK, NEW a \in Avatars
  PROVE  LET s == AbstractState(row[a]) IN
         /\ row[a].thumbs = {} /\ row[a].proc = "pending" /\ ~row[a].deleted /\ ~row[a].removed =>
              AbstractState(Created) = [s EXCEPT !.upload = "uploading"]
         /\ \A u \in {"uploaded", "failed"} : AbstractState(UploadSet(a, u)) = [s EXCEPT !.upload = u]
         /\ \A p \in {"processing", "failed"} : AbstractState(ProcessingSet(a, p)) = [s EXCEPT !.proc = p]
         /\ AbstractState(Completed(a)) = [s EXCEPT !.proc = "completed", !.thumbs = ThumbnailSizes]
         /\ AbstractState(SoftDeleted(a)) = [s EXCEPT !.deleted = TRUE]
         /\ AbstractState(FilesRemoved(a)) = [s EXCEPT !.removed = TRUE]
         /\ AbstractState(Touched(row[a])) = s /\ AbstractState(Aged(a)) = s
<1> DEFINE s == AbstractState(row[a])
<1>1. /\ s \in Abstract!States
      /\ s.upload = row[a].upload /\ s.proc = row[a].proc /\ s.deleted = row[a].deleted
      /\ s.removed = row[a].removed /\ s.thumbs = row[a].thumbs
      /\ s.deleted \in BOOLEAN /\ s.removed \in BOOLEAN
  BY RowTypes, AbstractFields DEF Abstract!States
<1> HIDE DEF s
\* An abstract row is what its fields are.
<1>2. ASSUME NEW r \in Rows, NEW q \in Abstract!States,
             q.upload = r.upload, q.proc = r.proc, q.deleted <=> r.deleted, q.removed <=> r.removed,
             q.thumbs = r.thumbs
      PROVE  AbstractState(r) = q
  <2>1. /\ AbstractState(r) \in Abstract!States
        /\ AbstractState(r).upload = r.upload /\ AbstractState(r).proc = r.proc
        /\ AbstractState(r).deleted = r.deleted /\ AbstractState(r).removed = r.removed
        /\ AbstractState(r).thumbs = r.thumbs
    BY <1>2, AbstractFields
  <2>2. q.deleted = r.deleted /\ q.removed = r.removed
    BY <1>2 DEF Rows, Abstract!States
  <2> QED BY <1>2, <2>1, <2>2, SameState
<1>3. "uploading" \in UploadStatus /\ {"uploaded", "failed"} \subseteq UploadStatus
      /\ {"processing", "failed"} \subseteq ProcessingStatus
  BY DEF UploadStatus, ProcessingStatus
<1>4. ASSUME row[a].thumbs = {}, row[a].proc = "pending", ~row[a].deleted, ~row[a].removed
      PROVE  AbstractState(Created) = [s EXCEPT !.upload = "uploading"]
  <2> DEFINE q == [s EXCEPT !.upload = "uploading"]
  <2>1. q \in Abstract!States /\ q.upload = "uploading"
        /\ q.proc = s.proc /\ q.deleted = s.deleted /\ q.removed = s.removed /\ q.thumbs = s.thumbs
    BY <1>1, <1>3, SameVocabulary DEF Abstract!States
  <2> HIDE DEF q
  <2>2. /\ Created \in Rows /\ Created.upload = "uploading" /\ Created.proc = "pending"
        /\ ~Created.deleted /\ ~Created.removed /\ Created.thumbs = {}
    BY RowTypes, RowFields
  <2>3. AbstractState(Created) = q BY <1>1, <1>2, <1>4, <2>1, <2>2
  <2> QED BY <2>3 DEF q
<1>5. ASSUME NEW u \in {"uploaded", "failed"}
      PROVE  AbstractState(UploadSet(a, u)) = [s EXCEPT !.upload = u]
  <2> DEFINE q == [s EXCEPT !.upload = u]
  <2>1. q \in Abstract!States /\ q.upload = u
        /\ q.proc = s.proc /\ q.deleted = s.deleted /\ q.removed = s.removed /\ q.thumbs = s.thumbs
    BY <1>1, <1>3, SameVocabulary DEF Abstract!States
  <2> HIDE DEF q
  <2>2. AbstractState(UploadSet(a, u)) = q BY <1>1, <1>2, <1>5, <2>1, RowTypes, RowFields
  <2> QED BY <2>2 DEF q
<1>6. ASSUME NEW p \in {"processing", "failed"}
      PROVE  AbstractState(ProcessingSet(a, p)) = [s EXCEPT !.proc = p]
  <2> DEFINE q == [s EXCEPT !.proc = p]
  <2>1. q \in Abstract!States /\ q.proc = p /\ q.upload = s.upload
        /\ q.deleted = s.deleted /\ q.removed = s.removed /\ q.thumbs = s.thumbs
    BY <1>1, <1>3, SameVocabulary DEF Abstract!States
  <2> HIDE DEF q
  <2>2. AbstractState(ProcessingSet(a, p)) = q BY <1>1, <1>2, <1>6, <2>1, RowTypes, RowFields
  <2> QED BY <2>2 DEF q
<1>7. AbstractState(Completed(a)) = [s EXCEPT !.proc = "completed", !.thumbs = ThumbnailSizes]
  <2> DEFINE q == [s EXCEPT !.proc = "completed", !.thumbs = ThumbnailSizes]
  <2>1. q \in Abstract!States /\ q.proc = "completed" /\ q.upload = s.upload
        /\ q.deleted = s.deleted /\ q.removed = s.removed /\ q.thumbs = ThumbnailSizes
    BY <1>1, SameVocabulary DEF Abstract!States, ProcessingStatus
  <2> HIDE DEF q
  <2>2. AbstractState(Completed(a)) = q BY <1>1, <1>2, <2>1, RowTypes, RowFields
  <2> QED BY <2>2 DEF q
<1>8. AbstractState(SoftDeleted(a)) = [s EXCEPT !.deleted = TRUE]
  <2> DEFINE q == [s EXCEPT !.deleted = TRUE]
  <2>1. q \in Abstract!States /\ q.deleted /\ q.upload = s.upload
        /\ q.proc = s.proc /\ q.removed = s.removed /\ q.thumbs = s.thumbs
    BY <1>1, SameVocabulary DEF Abstract!States, ProcessingStatus
  <2> HIDE DEF q
  <2>2. AbstractState(SoftDeleted(a)) = q BY <1>1, <1>2, <2>1, RowTypes, RowFields
  <2> QED BY <2>2 DEF q
<1>9. AbstractState(FilesRemoved(a)) = [s EXCEPT !.removed = TRUE]
  <2> DEFINE q == [s EXCEPT !.removed = TRUE]
  <2>1. q \in Abstract!States /\ q.removed /\ q.upload = s.upload
        /\ q.proc = s.proc /\ q.deleted = s.deleted /\ q.thumbs = s.thumbs
    BY <1>1, SameVocabulary DEF Abstract!States, ProcessingStatus
  <2> HIDE DEF q
  <2>2. AbstractState(FilesRemoved(a)) = q BY <1>1, <1>2, <2>1, RowTypes, RowFields
  <2> QED BY <2>2 DEF q
<1>10. AbstractState(Touched(row[a])) = s /\ AbstractState(Aged(a)) = s
  BY <1>1, <1>2, RowTypes, RowFields
<1> QED BY <1>4, <1>5, <1>6, <1>7, <1>8, <1>9, <1>10 DEF s

\* Every effect is a step of Avatar, or none.
LEMMA AbstractStep ==
  ASSUME IInv, Effect, TimelyUploads
  PROVE  [Abstract!AvatarNext]_(Abstract!avatarVars)
<1> DEFINE state == [a \in Avatars |-> AbstractState(row[a])]
<1> DEFINE Goal == [Abstract!AvatarNext]_(Abstract!avatarVars)
<1> SUFFICES Goal OBVIOUS
<1>0. TypeOK /\ RowsSound /\ WorkersSound /\ row \in [Avatars -> Rows] BY DEF IInv, Sound, TypeOK
<1>1. ASSUME NEW a \in Avatars
      PROVE  /\ state[a] = AbstractState(row[a])
             /\ state[a].upload = row[a].upload /\ state[a].proc = row[a].proc
             /\ state[a].deleted = row[a].deleted
             /\ Abstract!Alive(a) <=> Live(a)
             /\ Abstract!Shown(a) <=> Live(a) /\ row[a].upload = "uploaded"
             /\ Abstract!Doomed(a) <=> Gone(a)
  BY <1>0, AbstractFields DEF Abstract!Alive, Abstract!Shown, Abstract!Doomed, Live, Gone
<1>2. ASSUME NEW a \in Avatars, NEW r, Writes(a, r)
      PROVE  Abstract!Become(a, AbstractState(r))
  BY <1>0, <1>2 DEF Writes, Abstract!Become
<1>3. ASSUME row' = row, store' = store PROVE Goal
  BY <1>3 DEF Abstract!avatarVars
<1>4. ASSUME NEW a \in Avatars, Abstract!AvatarStep(a) \/ Abstract!Delete(a) PROVE Goal
  BY <1>4 DEF Abstract!AvatarNext
<1> HIDE DEF Goal, state
<1>5. ASSUME NEW a \in Avatars, Dates(a) PROVE Goal
  <2>1. PICK r : Writes(a, r) /\ AbstractState(r) = AbstractState(row[a])
    BY <1>0, <1>5, AbstractWrites DEF Dates
  <2>2. state' = state /\ store' = store BY <1>0, <2>1 DEF Writes, state
  <2> QED BY <2>2 DEF Goal, state, Abstract!avatarVars
<1>6. ASSUME NEW a \in Avatars, Registers(a) PROVE Goal
  <2>1. row[a].upload = "none" BY <1>0, <1>6 DEF RowsSound, Registers
  <2>2. row[a].thumbs = {} /\ row[a].proc = "pending" /\ ~row[a].deleted /\ ~row[a].removed
    BY <1>0, <2>1 DEF RowsSound, Gone, IInv, RecordsSound
  <2>3. AbstractState(Created) = [state[a] EXCEPT !.upload = "uploading"]
    BY <1>0, <1>1, <2>2, AbstractWrites
  <2>4. Abstract!Register(a) BY <1>1, <1>2, <1>6, <2>1, <2>3 DEF Registers, Abstract!Register, state
  <2> QED BY <1>4, <2>4 DEF Abstract!AvatarStep
<1>7. ASSUME NEW a \in Avatars, PutsOriginal(a) PROVE Goal
  <2>1. row[a].upload = "uploading" BY <1>7 DEF PutsOriginal, IInv, RemovalSound
  <2>2. Abstract!StoreOriginal(a)
    BY <1>1, <1>7, <2>1, SameVocabulary DEF PutsOriginal, Put, Abstract!StoreOriginal, state
  <2> QED BY <1>4, <2>2 DEF Abstract!AvatarStep
<1>8. ASSUME NEW a \in Avatars, Finishes(a) PROVE Goal
  <2>1. row[a].upload = "uploading" /\ OriginalKey(a) \in store
    BY <1>8 DEF Finishes, MaySetUpload, UploadAllowedFrom, IInv, OriginalSound
  <2>2. AbstractState(UploadSet(a, "uploaded")) = [state[a] EXCEPT !.upload = "uploaded"]
    BY <1>0, <1>1, AbstractWrites
  <2>3. Abstract!FinishUpload(a)
    BY <1>1, <1>2, <1>8, <2>1, <2>2, SameVocabulary DEF Finishes, Abstract!FinishUpload, state
  <2> QED BY <1>4, <2>3 DEF Abstract!AvatarStep
<1>9. ASSUME NEW stale \in SUBSET Avatars, GiveUpStale(stale) PROVE Goal
  <2>1. \A a \in stale : state[a].upload = "uploading"
    BY <1>1, <1>9 DEF GiveUpStale, MaySetUpload, UploadAllowedFrom
  <2>2. \A a \in Avatars :
          AbstractState(row'[a]) = IF a \in stale THEN [state[a] EXCEPT !.upload = "failed"] ELSE state[a]
    BY <1>0, <1>1, <1>9, AbstractWrites DEF GiveUpStale
  <2>3. CASE stale # {}
    <3>1. Abstract!FailUploads(stale) BY <1>9, <2>1, <2>2, <2>3 DEF GiveUpStale, Abstract!FailUploads, state
    <3> QED BY <3>1 DEF Goal, Abstract!AvatarNext
  <2>4. CASE stale = {}
    <3>1. row' = row /\ store' = store BY <1>0, <1>9, <2>4 DEF GiveUpStale
    <3> QED BY <1>3, <3>1
  <2> QED BY <2>3, <2>4
<1>10. ASSUME NEW a \in Avatars, GivesUp(a) PROVE Goal
  <2>1. state[a].upload = "uploading"
    BY <1>1, <1>10 DEF GivesUp, MaySetUpload, UploadAllowedFrom
  <2>2. \A b \in Avatars :
          AbstractState(row'[b]) = IF b \in {a} THEN [state[b] EXCEPT !.upload = "failed"] ELSE state[b]
    BY <1>0, <1>1, <1>10, AbstractWrites DEF GivesUp, Writes
  <2>3. Abstract!FailUploads({a}) BY <1>10, <2>1, <2>2 DEF GivesUp, Writes, Abstract!FailUploads, state
  <2> QED BY <2>3 DEF Goal, Abstract!AvatarNext
<1>11. ASSUME NEW a \in Avatars, Starts(a) \/ Fails(a) PROVE Goal
  <2>1. /\ AbstractState(ProcessingSet(a, "processing")) = [state[a] EXCEPT !.proc = "processing"]
        /\ AbstractState(ProcessingSet(a, "failed")) = [state[a] EXCEPT !.proc = "failed"]
    BY <1>0, <1>1, AbstractWrites
  <2>2. Abstract!Start(a) \/ Abstract!FailProcessing(a)
    BY <1>1, <1>2, <1>11, <2>1, SameVocabulary
    DEF Starts, Fails, MaySetProcessing, Abstract!Start, Abstract!FailProcessing, state
  <2> QED BY <1>4, <2>2 DEF Abstract!AvatarStep
<1>12. ASSUME NEW a \in Avatars, Deletes(a) PROVE Goal
  <2>1. AbstractState(SoftDeleted(a)) = [state[a] EXCEPT !.deleted = TRUE]
    BY <1>0, <1>1, AbstractWrites
  <2>2. Abstract!Shown(a) /\ Abstract!Become(a, AbstractState(SoftDeleted(a)))
    BY <1>1, <1>2, <1>12 DEF Deletes
  <2>3. Abstract!Delete(a) BY <2>1, <2>2, Zenon DEF Abstract!Delete, state
  <2> QED BY <1>4, <2>3
<1>13. ASSUME NEW a \in Avatars, RemovesFiles(a) PROVE Goal
  <2>1. PICK keys \in SUBSET StorageKeys(a) : store' = store \ keys BY <1>13 DEF RemovesFiles
  <2>2. Abstract!RemoveFiles(a, keys)
    BY <1>1, <1>13, <2>1, SameVocabulary DEF RemovesFiles, Abstract!RemoveFiles, state
  <2> QED BY <1>4, <2>2, SameVocabulary DEF Abstract!AvatarStep
<1>14. ASSUME NEW a \in Avatars, Marks(a) PROVE Goal
  <2>1. AbstractState(FilesRemoved(a)) = [state[a] EXCEPT !.removed = TRUE]
    BY <1>0, <1>1, AbstractWrites
  <2>2. OriginalKey(a) \notin store BY <1>14 DEF Marks, MarkedBy, IInv, RemovalSound
  <2>3. /\ Abstract!Doomed(a) /\ Abstract!OriginalKey(a) \notin store
        /\ Abstract!Become(a, AbstractState(FilesRemoved(a)))
    BY <1>1, <1>2, <1>14, <2>2, SameVocabulary DEF Marks
  <2>4. Abstract!MarkRemoved(a) BY <2>1, <2>3, Zenon DEF Abstract!MarkRemoved, state
  <2> QED BY <1>4, <2>4 DEF Abstract!AvatarStep
<1>15. ASSUME NEW w \in Workers, PutsThumbnail(w) PROVE Goal
  <2>1. Target(w) \in Avatars /\ row[Target(w)].upload = "uploaded" /\ wrk[w].n + 1 \in ThumbnailSizes
    <3>1. Target(w) \in Avatars /\ wrk[w].n \in 0..NumSizes BY <1>0, ConsumerTypes DEF Consumers
    <3>2. row[Target(w)].upload = "uploaded"
      BY <1>0, <1>15 DEF PutsThumbnail, WorkersSound, About, Held, Target, At, UploadedPC
    <3> QED BY <1>15, <3>1, <3>2 DEF PutsThumbnail, ThumbnailSizes, NumSizes
  <2>2. Abstract!StoreThumbnail(Target(w), wrk[w].n + 1)
    BY <1>1, <1>15, <2>1, SameVocabulary DEF PutsThumbnail, Put, Abstract!StoreThumbnail, state
  <2> QED BY <1>4, <2>1, <2>2, SameVocabulary DEF Abstract!AvatarStep
<1>16. ASSUME NEW w \in Workers, Completes(w) PROVE Goal
  <2> DEFINE a == Target(w)
  <2>1. a \in Avatars BY <1>0, ConsumerTypes
  <2>2. /\ row[a].upload = "uploaded" /\ Live(a)
        /\ row[a].proc \in ProcessingAllowedFrom("completed")
    BY <1>0, <1>16 DEF Completes, MaySetProcessing, WorkersSound, About, Held, Target, At, UploadedPC
  <2>3. \A s \in ThumbnailSizes : ThumbnailKey(a, s) \in store
    BY <1>16, <2>2 DEF Completes, IInv, ThumbnailsSound, At, Live, ThumbnailSizes
  <2>4. AbstractState(Completed(a)) = [state[a] EXCEPT !.proc = "completed", !.thumbs = ThumbnailSizes]
    BY <1>0, <1>1, <2>1, AbstractWrites
  <2>5. Abstract!Become(a, AbstractState(Completed(a))) BY <1>2, <1>16, <2>1 DEF Completes
  <2> HIDE DEF a
  <2>6. Abstract!Complete(a)
    BY <1>1, <2>1, <2>2, <2>3, <2>4, <2>5, SameVocabulary DEF Abstract!Complete, state
  <2> QED BY <1>4, <2>1, <2>6 DEF Abstract!AvatarStep
<1> QED
  BY ONLY Effect, <1>3, <1>5, <1>6, <1>7, <1>8, <1>9, <1>10, <1>11, <1>12, <1>13, <1>14, <1>15, <1>16
  DEF Effect

(***************************************************************************)
(* What requests, deliveries, the reconciler and failures do to the table  *)
(* and the bucket is the life of an avatar that Avatar describes, provided *)
(* uploads end within StuckAfter.                                          *)
(***************************************************************************)
THEOREM LifecycleImplementsAvatar ==
  ASSUME TimelyUploads
  PROVE  Spec => Implements
<1>1. Init => Abstract!AvatarInit
  <2>1. AbstractState(NoRow) = Abstract!Unknown
    BY DEF AbstractState, NoRow, Abstract!Unknown
  <2> QED BY <2>1 DEF Init, Abstract!AvatarInit
<1>2. IInv /\ [Next]_vars => [Abstract!AvatarNext]_(Abstract!avatarVars)
  <2> SUFFICES ASSUME IInv, [Next]_vars PROVE [Abstract!AvatarNext]_(Abstract!avatarVars) OBVIOUS
  <2>1. Effect BY StepEffect DEF IInv
  <2> QED BY <2>1, AbstractStep
<1> QED BY <1>1, <1>2, FilesAreSound, PTL DEF Spec, Implements, Abstract!AvatarSpec
-----------------------------------------------------------------------------
(* Started work keeps an owner. *)

\* A live row in processing: the reconciler does not look at it.
Busy(a) == Live(a) /\ row[a].proc = "processing"

OwnerFacts(w) ==
  /\ wrk[w].pc \in {"slot", "render", "put", "complete"} => row[Target(w)].proc # "pending"
  /\ At(w, "why") => row[Target(w)].deleted \/ row[Target(w)].proc \in {"completed", "failed"}
  /\ wrk[w].fatal => row[Target(w)].deleted \/ Target(w) \in Broken

\* Which local steps of a consumer set or clear the final error.
LEMMA FatalFields ==
  ASSUME TypeOK, NEW w \in Workers
  PROVE  /\ \A pc \in WorkerPC : Goto(w, pc) => wrk'[w].fatal = wrk[w].fatal
         /\ \A f \in BOOLEAN : failure(w, f) => wrk'[w].fatal = f
         /\ wrk' = [wrk EXCEPT ![w] = Expired(wrk[w])] => wrk'[w].fatal = wrk[w].fatal
         /\ wrk' = [wrk EXCEPT ![w] = ThumbnailStored(wrk[w])] => wrk'[w].fatal = wrk[w].fatal
         /\ Release(w) => ~wrk'[w].fatal
         /\ \A m \in Message : wrk' = [wrk EXCEPT ![w] = Delivered(m)] => ~wrk'[w].fatal
<1>1. wrk \in [Workers -> Consumers] /\ wrk[w] \in Consumers BY ConsumerTypes DEF TypeOK
<1>2. ASSUME NEW c \in Consumers, NEW pc, NEW f
      PROVE  /\ [c EXCEPT !.pc = pc].fatal = c.fatal
             /\ [c EXCEPT !.fatal = f, !.pc = pc].fatal = f
             /\ Expired(c).fatal = c.fatal /\ ThumbnailStored(c).fatal = c.fatal
  BY DEF Consumers, Expired, ThumbnailStored
<1>3. ~Idle.fatal /\ \A m : ~Delivered(m).fatal BY DEF Idle, Delivered
<1>4. ASSUME NEW pc \in WorkerPC, Goto(w, pc) PROVE wrk'[w].fatal = wrk[w].fatal
  BY <1>1, <1>2, <1>4 DEF Goto
<1>5. ASSUME NEW f \in BOOLEAN, failure(w, f) PROVE wrk'[w].fatal = f
  <2> DEFINE pc == IF f \/ Final(Held(w).headers) THEN "failed" ELSE "count"
  <2>1. wrk' = [wrk EXCEPT ![w] = [@ EXCEPT !.fatal = f, !.pc = pc]] BY <1>5 DEF failure
  <2> HIDE DEF pc
  <2> QED BY <1>1, <1>2, <2>1
<1>6. Release(w) => ~wrk'[w].fatal BY <1>1, <1>3 DEF Release
<1> QED BY <1>1, <1>2, <1>3, <1>4, <1>5, <1>6

\* What holds of a consumer's row keeps holding.
LEMMA OwnerFactsLast ==
  ASSUME IInv, \A a \in Avatars : RowMoves(a) /\ Advances(a), NEW v \in Workers,
         wrk'[v].msg = wrk[v].msg, OwnerFacts(v)
  PROVE  /\ wrk[v].pc \in {"slot", "render", "put", "complete"} => row'[wrk'[v].msg.avatar].proc # "pending"
         /\ At(v, "why") =>
              row'[wrk'[v].msg.avatar].deleted \/ row'[wrk'[v].msg.avatar].proc \in {"completed", "failed"}
         /\ wrk[v].fatal => row'[wrk'[v].msg.avatar].deleted \/ wrk'[v].msg.avatar \in Broken
<1>1. Target(v) \in Avatars /\ wrk'[v].msg.avatar = Target(v)
  BY ConsumerTypes DEF IInv, Target
<1>2. RowMoves(Target(v)) /\ Advances(Target(v)) BY <1>1
<1> QED BY <1>1, <1>2 DEF OwnerFacts, RowMoves, Advances

\* A step of consumer w, or of none, loses no event: what was carried by another
\* consumer, waited in the broker or was buried stays so.
LEMMA CarryOn ==
  ASSUME TypeOK, NEW a \in Avatars, NEW w \in Workers, Carried(a),
         \A v \in Workers \ {w} : wrk'[v] = wrk[v],
         dead \subseteq dead', \A m \in Message : queue[m] > 0 => queue'[m] > 0,
         /\ wrk[w].pc \notin {"idle", "ack"} /\ Held(w).type = "avatar.uploaded" /\ Target(w) = a
         => Carried(a)'
  PROVE  Carried(a)'
<1>1. CASE Waiting(a) \/ Dead(a) BY <1>1 DEF Carried, Waiting, Dead
<1>2. CASE \E v \in Workers : /\ wrk[v].pc \notin {"idle", "ack"}
                             /\ Held(v).type = "avatar.uploaded" /\ Target(v) = a
  BY <1>2 DEF Carried, Held, Target
<1> QED BY <1>1, <1>2 DEF Carried

\* A row that needs no more work.
Settled(a) == row'[a].deleted \/ row'[a].proc \in {"completed", "failed"}

\* A handler keeps its delivery, knows what it relies on, and asks for the
\* acknowledgement only once the row needs no more work.
Handles(w) ==
  LET a == Target(w) IN
  /\ wrk'[w].msg = wrk[w].msg /\ wrk'[w].pc # "idle"
  /\ \A v \in Workers \ {w} : wrk'[v] = wrk[v]
  /\ wrk'[w].pc \in {"slot", "render", "put", "complete"} => row'[a].proc # "pending"
  /\ wrk'[w].pc = "why" => Settled(a)
  /\ wrk'[w].fatal => row'[a].deleted \/ a \in Broken
  /\ wrk'[w].pc = "ack" /\ Held(w).type = "avatar.uploaded" => Settled(a) \/ a \in Broken

\* A step of a handler keeps its work, passes it on or settles the row.
LEMMA HandlerSettles ==
  ASSUME IInv, \A a \in Avatars : RowMoves(a) /\ Advances(a), NEW w \in Workers, OwnerFacts(w),
         HandleUploaded(w) \/ HandleDeleted(w)
  PROVE  Handles(w)
<1> DEFINE a == Target(w)
<1>0. TypeOK /\ WorkersSound /\ a \in Avatars /\ row \in [Avatars -> Rows] /\ row[a] \in Rows
  BY ConsumerTypes DEF IInv, Sound, TypeOK
<1>1. RowMoves(a) /\ Advances(a) BY <1>0
<1>2. ASSUME NEW pc, NEW n, Moves(w, pc, n), pc # "idle",
             pc \in {"slot", "render", "put", "complete"} => row'[a].proc # "pending",
             pc = "why" => Settled(a),
             wrk'[w].fatal => row'[a].deleted \/ a \in Broken,
             pc = "ack" /\ Held(w).type = "avatar.uploaded" => Settled(a) \/ a \in Broken
      PROVE  Handles(w)
  BY <1>2 DEF Moves, Handles
<1>3. wrk[w].fatal => row'[a].deleted \/ a \in Broken
  BY <1>0, <1>1 DEF OwnerFacts, Advances
<1>4. ASSUME failure(w, FALSE) PROVE Handles(w)
  BY <1>0, <1>2, <1>4, ConsumerFields, FatalFields
<1>5. ASSUME failure(w, TRUE), row'[a].deleted \/ a \in Broken PROVE Handles(w)
  BY <1>0, <1>2, <1>5, ConsumerFields, FatalFields
<1>6. ASSUME NEW pc \in WorkerPC \ {"idle"}, Goto(w, pc),
             pc \in {"slot", "render", "put", "complete"} => row'[a].proc # "pending",
             pc = "why" => Settled(a),
             pc = "ack" /\ Held(w).type = "avatar.uploaded" => Settled(a) \/ a \in Broken
      PROVE  Handles(w)
  BY <1>0, <1>2, <1>3, <1>6, ConsumerFields, FatalFields
<1>7. ASSUME NEW pc \in {"start", "cleanup", "reroute", "mark"}, Goto(w, pc) PROVE Handles(w)
  BY <1>6, <1>7 DEF WorkerPC, UploadedPC, DeletedPC
<1>8. ASSUME Goto(w, "ack"), Settled(a) \/ a \in Broken PROVE Handles(w)
  BY <1>6, <1>8 DEF WorkerPC
<1>9. ASSUME NEW pc \in {"slot", "render", "put", "complete"}, Goto(w, pc), row'[a].proc # "pending"
      PROVE  Handles(w)
  BY <1>6, <1>9 DEF WorkerPC, UploadedPC
<1>10. row[a].deleted \/ row[a].proc \in {"completed", "failed"} => Settled(a)
  BY <1>1 DEF Advances, Settled
<1>11. CASE HandleUploaded(w)
  <2>0. row[a].upload = "uploaded" /\ (Live(a) <=> ~row[a].deleted)
    <3>1. wrk[w].pc \in UploadedPC
      BY <1>11 DEF HandleUploaded, GetRow, StartProcessing, AcquireSlot, Render, PutThumbnail, CompleteProcessing,
         transitionError, removeThumbnails, countRetry, MarkProcessingFailed, At, UploadedPC
    <3> QED BY <1>0, <3>1 DEF WorkersSound, About, Held, Target, At, UploadedPC, Live
  <2>a. row[a].proc \in ProcessingStatus BY <1>0 DEF Rows
  <2> HIDE DEF a
  <2>1. CASE GetRow(w)
    <3>1. ~(Live(a) /\ row[a].proc \notin {"completed", "failed"}) => Settled(a)
      BY <1>10, <2>0
    <3> QED BY ONLY <1>4, <1>7, <1>8, <2>1, <3>1 DEF GetRow, a
  <2>2. CASE StartProcessing(w)
    <3>1. CASE failure(w, FALSE) BY <1>4, <3>1
    <3>2. CASE ~MaySetProcessing(a, "processing") /\ Goto(w, "ack")
      <4>1. Settled(a)
        BY <1>10, <2>0, <2>a, <3>2 DEF MaySetProcessing, ProcessingAllowedFrom, ProcessingStatus
      <4> QED BY <1>8, <3>2, <4>1
    <3>3. CASE row' = [row EXCEPT ![a] = ProcessingSet(a, "processing")] /\ Goto(w, "slot")
      <4>1. row'[a].proc = "processing" BY <1>0, <3>3, RowFields DEF a
      <4> QED BY <1>9, <3>3, <4>1
    <3> QED BY ONLY <2>2, <3>1, <3>2, <3>3 DEF StartProcessing, SetRow, a
  <2>3. CASE AcquireSlot(w)
    <3>1. row'[a].proc # "pending" BY <1>1, <2>3 DEF AcquireSlot, OwnerFacts, At, RowMoves, a
    <3> QED BY ONLY <1>4, <1>9, <2>3, <3>1 DEF AcquireSlot
  <2>4. CASE Render(w)
    <3>1. row'[a].proc # "pending" BY <1>1, <2>4 DEF Render, OwnerFacts, At, RowMoves, a
    <3>2. OriginalKey(a) \notin store => row'[a].deleted
      BY <1>0, <1>1, <2>0 DEF IInv, LiveOriginal, Advances, a
    <3>3. CASE failure(w, TRUE) /\ ~(OriginalKey(a) \in store /\ a \notin Broken)
      BY <1>5, <3>2, <3>3
    <3> QED BY ONLY <1>4, <1>7, <1>9, <2>4, <3>1, <3>3 DEF Render, a
  <2>5. CASE PutThumbnail(w)
    <3>1. row'[a].proc # "pending" BY <1>1, <2>5 DEF PutThumbnail, OwnerFacts, At, RowMoves, a
    <3>2. CASE wrk' = [wrk EXCEPT ![w] = ThumbnailStored(wrk[w])]
      <4>1. \E pc \in {"put", "complete"} : Moves(w, pc, wrk[w].n + 1)
        BY <1>0, <3>2, ConsumerFields
      <4>2. wrk'[w].fatal = wrk[w].fatal BY <1>0, <3>2, FatalFields
      <4> QED BY <1>2, <1>3, <3>1, <4>1, <4>2 DEF Moves
    <3> QED BY ONLY <1>4, <2>5, <3>2 DEF PutThumbnail
  <2>6. CASE CompleteProcessing(w)
    <3>1. CASE failure(w, FALSE) BY <1>4, <3>1
    <3>2. CASE ~MaySetProcessing(a, "completed") /\ Goto(w, "why")
      <4>1. row[a].proc # "pending" BY <2>6 DEF CompleteProcessing, OwnerFacts, At, a
      <4>2. Settled(a)
        BY <1>10, <2>0, <2>a, <3>2, <4>1 DEF MaySetProcessing, ProcessingAllowedFrom, ProcessingStatus
      <4> QED BY <1>6, <3>2, <4>2 DEF WorkerPC, UploadedPC
    <3>3. CASE row' = [row EXCEPT ![a] = Completed(a)] /\ Goto(w, "ack")
      <4>1. row'[a].proc = "completed" BY <1>0, <3>3, RowFields DEF a
      <4> QED BY <1>8, <3>3, <4>1 DEF Settled
    <3> QED BY ONLY <2>6, <3>1, <3>2, <3>3 DEF CompleteProcessing, SetRow, a
  <2>7. CASE transitionError(w)
    <3>1. Settled(a) BY <1>10, <2>7 DEF transitionError, OwnerFacts, a
    <3> QED BY ONLY <1>4, <1>7, <1>8, <2>7, <3>1 DEF transitionError
  <2>8. CASE removeThumbnails(w)
    <3>1. row'[a].deleted BY <1>0, <1>1, <2>8 DEF removeThumbnails, WorkersSound, Advances, a
    <3> QED BY ONLY <1>5, <2>8, <3>1 DEF removeThumbnails
  <2>9. CASE countRetry(w) BY ONLY <1>7, <2>9 DEF countRetry
  <2>10. CASE MarkProcessingFailed(w)
    <3>1. wrk[w].fatal => Settled(a) \/ a \in Broken BY <1>3 DEF Settled
    <3>2. CASE ~wrk[w].fatal BY ONLY <1>7, <2>10, <3>2 DEF MarkProcessingFailed
    <3>3. CASE wrk[w].fatal BY ONLY <1>7, <1>8, <2>10, <3>1, <3>3 DEF MarkProcessingFailed
    <3> QED BY <3>2, <3>3
  <2> QED BY ONLY <1>11, <2>1, <2>2, <2>3, <2>4, <2>5, <2>6, <2>7, <2>8, <2>9, <2>10 DEF HandleUploaded
<1>12. CASE HandleDeleted(w)
  <2>1. Held(w).type = "avatar.deleted"
    BY <1>0, <1>12 DEF HandleDeleted, DeleteFiles, MarkFilesRemoved, WorkersSound, At, DeletedPC
  <2>2. Goto(w, "ack") => Handles(w) BY <1>6, <2>1 DEF WorkerPC
  <2> QED BY ONLY <1>7, <1>12, <2>2 DEF HandleDeleted, DeleteFiles, MarkFilesRemoved
<1> QED BY <1>11, <1>12

\* Whoever starts the work carries it.
LEMMA StartCarries ==
  ASSUME IInv, NEW w \in Workers, NEW a \in Avatars, StartProcessing(w), Target(w) = a, row'[a] # row[a]
  PROVE  Carried(a)'
<1>0. TypeOK /\ Held(w).type = "avatar.uploaded"
  BY DEF IInv, Sound, WorkersSound, StartProcessing, At, UploadedPC
<1>1. Goto(w, "slot") \/ failure(w, FALSE) BY DEF StartProcessing
<1>2. \E pc \in {"slot", "failed", "count"} : Moves(w, pc, wrk[w].n)
  BY <1>0, <1>1, ConsumerFields DEF WorkerPC, UploadedPC
<1> QED BY <1>0, <1>2 DEF Moves, Carried, Held, Target

\* A row is in processing because it was, or because a consumer just started it.
LEMMA BusyStep ==
  ASSUME IInv, \A a \in Avatars : RowMoves(a) /\ Advances(a), NEW a \in Avatars, Busy(a)'
  PROVE  Busy(a) \/ Carried(a)'
<1>1. RowMoves(a) /\ Advances(a) /\ row'[a].proc = "processing" /\ ~row'[a].deleted
  BY DEF Busy, Live
<1>2. CASE row[a].proc = "processing"
  BY <1>1, <1>2 DEF IInv, Sound, RowsSound, Advances, Busy, Live
<1>3. CASE row[a].proc # "processing"
  <2>1. PICK w \in Workers : StartProcessing(w) /\ Target(w) = a BY <1>1, <1>3 DEF RowMoves
  <2> QED BY <1>1, <1>3, <2>1, StartCarries
<1> QED BY <1>2, <1>3

\* A message the broker takes is kept.
LEMMA PublishKeeps ==
  ASSUME TypeOK, NEW m \in Message, Publish(m)
  PROVE  queue'[m] > 0 /\ \A k \in Message : queue[k] > 0 => queue'[k] > 0
BY DEF TypeOK, Publish

\* Every action leaves each row in processing an owner.
LEMMA OwnersStep ==
  ASSUME IInv, OwnersSound, [Next]_vars
  PROVE  OwnersSound'
<1>0. TypeOK /\ Sound /\ TypeOK' BY StepType DEF IInv
<1>1. \A a \in Avatars : RowMoves(a) /\ Advances(a)
  BY <1>0, StepEffect, RowEffect, RowStep
<1>2. \A w \in Workers : OwnerFacts(w) BY DEF OwnersSound, OwnerFacts
<1>3. \A a \in Avatars \ Broken : Busy(a)' => Carried(a) \/ Carried(a)'
  BY <1>1, BusyStep DEF OwnersSound, Busy
<1>4. \A v \in Workers : wrk'[v] = wrk[v] => OwnerFacts(v)'
  BY <1>1, <1>2, OwnerFactsLast DEF OwnerFacts, At, Target
<1> DEFINE Kept == \A m \in Message : queue[m] > 0 => queue'[m] > 0
<1>5. ASSUME NEW w \in Workers, \A v \in Workers \ {w} : wrk'[v] = wrk[v], OwnerFacts(w)',
             dead \subseteq dead', Kept,
             \A a \in Avatars \ Broken :
               wrk[w].pc \notin {"idle", "ack"} /\ Held(w).type = "avatar.uploaded" /\ Target(w) = a
               => ~Busy(a)' \/ Carried(a)'
      PROVE  OwnersSound'
  <2>1. \A v \in Workers : OwnerFacts(v)' BY <1>4, <1>5
  <2>2. ASSUME NEW a \in Avatars \ Broken, Busy(a)' PROVE Carried(a)'
    <3>1. Carried(a) \/ Carried(a)' BY <1>3, <2>2
    <3>2. wrk[w].pc \notin {"idle", "ack"} /\ Held(w).type = "avatar.uploaded" /\ Target(w) = a => Carried(a)'
      BY <1>5, <2>2
    <3> QED BY <1>0, <1>5, <3>1, <3>2, CarryOn
  <2> QED BY <2>1, <2>2 DEF OwnersSound, OwnerFacts, Busy
<1>6. ASSUME wrk' = wrk, dead' = dead, Kept PROVE OwnersSound'
  <2>1. \A v \in Workers : OwnerFacts(v)' BY <1>4, <1>6
  <2>2. \A a \in Avatars \ Broken : Busy(a)' => Carried(a)'
    BY <1>3, <1>6 DEF Carried, Waiting, Dead, Held, Target
  <2> QED BY <2>1, <2>2 DEF OwnersSound, OwnerFacts, Busy
<1>7. ASSUME NEW w \in Workers, HandleUploaded(w) \/ HandleDeleted(w) PROVE OwnersSound'
  <2>1. Handles(w) BY <1>1, <1>2, <1>7, HandlerSettles
  <2>2. dead' = dead /\ queue' = queue
    BY ONLY <1>7
    DEF HandleUploaded, HandleDeleted, GetRow, StartProcessing, AcquireSlot, Render, PutThumbnail,
        CompleteProcessing, transitionError, removeThumbnails, countRetry, MarkProcessingFailed,
        DeleteFiles, MarkFilesRemoved
  <2>3. OwnerFacts(w)' BY <2>1 DEF Handles, Settled, OwnerFacts, At, Target
  <2>4. ASSUME NEW a \in Avatars \ Broken, Held(w).type = "avatar.uploaded", Target(w) = a
        PROVE  ~Busy(a)' \/ Carried(a)'
    <3>1. CASE wrk'[w].pc = "ack" BY <2>1, <2>4, <3>1 DEF Handles, Settled, Busy, Live
    <3>2. CASE wrk'[w].pc # "ack" BY <2>1, <2>4, <3>2 DEF Handles, Carried, Held, Target
    <3> QED BY <3>1, <3>2
  <2> QED BY <1>5, <2>1, <2>2, <2>3, <2>4 DEF Handles
<1>8. ASSUME NEW w \in Workers, Release(w) PROVE OwnerFacts(w)' /\ \A v \in Workers \ {w} : wrk'[v] = wrk[v]
  <2>1. ~wrk'[w].fatal /\ wrk'[w].pc = "idle" BY <1>0, <1>8, ConsumerFields, FatalFields
  <2> QED BY <1>0, <1>8, <2>1, ConsumerFields DEF OwnerFacts, At
<1>9. \A a \in Avatars, m \in Message :
        queue'[m] > 0 /\ m.type = "avatar.uploaded" /\ m.avatar = a => Carried(a)'
  BY DEF Carried, Waiting
<1>10. ASSUME NEW w \in Workers, reroute(w) PROVE OwnersSound'
  <2> DEFINE m == Held(w)
             copy == ForwardedCopy(m)
             back == RejectedBack(m)
  <2>1. m \in Message BY <1>0, ConsumerTypes
  <2>2. /\ back \in Message /\ back.type = m.type /\ back.avatar = m.avatar
        /\ ~Final(m.headers) => copy \in Message /\ copy.type = m.type /\ copy.avatar = m.avatar
    BY <2>1, HeaderTypes DEF Message, ForwardedCopy, RejectedBack
  <2>3. /\ \A v \in Workers \ {w} : wrk'[v] = wrk[v]
        /\ OwnerFacts(w)'
    <3>1. CASE Goto(w, "ack")
      <4>1. Moves(w, "ack", wrk[w].n) /\ wrk'[w].fatal = wrk[w].fatal
        BY <1>0, <3>1, ConsumerFields, FatalFields DEF WorkerPC
      <4> QED BY <1>1, <1>2, <4>1, OwnerFactsLast DEF Moves, OwnerFacts, At, Target
    <3> QED BY <1>8, <1>10, <3>1 DEF reroute
  <2> HIDE DEF m, copy, back
  <2>4. /\ dead \subseteq dead' /\ Kept
        /\ \/ queue'[back] > 0
           \/ ~Final(m.headers) /\ queue'[copy] > 0
           \/ <<m.type, m.avatar>> \in dead'
    <3>0. queue \in [Message -> Nat] BY <1>0 DEF TypeOK
    <3>1. CASE dead' = dead \cup {<<m.type, m.avatar>>} /\ (queue' = queue \/ Publish(back))
      BY <1>0, <2>2, <3>1, PublishKeeps
    <3>2. CASE dead' = dead /\ (Publish(back) \/ (~Final(m.headers) /\ Publish(copy)))
      BY <1>0, <2>2, <3>2, PublishKeeps
    <3>3. CASE /\ ~Final(m.headers) /\ dead' = dead
               /\ queue' = [[queue EXCEPT ![copy] = @ + 1] EXCEPT ![back] = @ + 1]
      <4> DEFINE q == [queue EXCEPT ![copy] = @ + 1]
      <4>1. q \in [Message -> Nat] /\ \A k \in Message : q[k] >= queue[k] BY <2>2, <3>0, <3>3
      <4>2. queue' = [q EXCEPT ![back] = @ + 1] BY <3>3
      <4> HIDE DEF q
      <4>3. queue'[back] > 0 /\ \A k \in Message : queue'[k] >= q[k] BY <2>2, <4>1, <4>2
      <4> QED BY <3>0, <3>3, <4>1, <4>3, <1>0 DEF TypeOK
    <3> QED BY ONLY <1>10, <3>1, <3>2, <3>3 DEF reroute, m, copy, back
  <2>5. Held(w) = m /\ Target(w) = m.avatar BY DEF m, Held, Target
  <2>6. ASSUME NEW a \in Avatars, m.type = "avatar.uploaded", m.avatar = a PROVE Carried(a)'
    BY <1>9, <2>2, <2>4, <2>6 DEF Carried, Dead
  <2> QED BY <1>5, <2>3, <2>4, <2>5, <2>6
<1>11. ASSUME NEW w \in Workers, Ack(w) PROVE OwnersSound'
  BY <1>5, <1>8, <1>11 DEF Ack, At
<1>12. ASSUME NEW w \in Workers, Expire(w) PROVE OwnersSound'
  <2>1. Moves(w, wrk[w].pc, wrk[w].n) /\ wrk'[w].fatal = wrk[w].fatal
    BY <1>0, <1>12, ConsumerFields, FatalFields DEF Expire
  <2>2. OwnerFacts(w)' BY <1>1, <1>2, <2>1, OwnerFactsLast DEF Moves, OwnerFacts, At, Target
  <2>3. \A a \in Avatars : Held(w).type = "avatar.uploaded" /\ Target(w) = a => Carried(a)'
    BY <1>12, <2>1 DEF Expire, Moves, Carried, Held, Target
  <2> QED BY <1>5, <1>12, <2>1, <2>2, <2>3 DEF Expire, Moves
<1>13. ASSUME NEW w \in Workers, CrashWorker(w) PROVE OwnersSound'
  <2>1. Held(w) \in Message /\ Publish(Held(w)) /\ Release(w) /\ dead' = dead
    BY <1>0, <1>13, ConsumerTypes DEF CrashWorker
  <2>2. queue'[Held(w)] > 0 /\ Kept BY <1>0, <2>1, PublishKeeps
  <2>3. \A a \in Avatars : Held(w).type = "avatar.uploaded" /\ Target(w) = a => Carried(a)'
    BY <1>9, <2>1, <2>2 DEF Held, Target
  <2> QED BY <1>5, <1>8, <2>1, <2>2, <2>3
<1>14. ASSUME NEW w \in Workers, NEW m \in Message, Deliver(w, m) PROVE OwnersSound'
  <2>1. /\ wrk[w].pc = "idle" /\ dead' = dead
        /\ wrk' = [wrk EXCEPT ![w] = Delivered(m)]
        /\ queue' = [queue EXCEPT ![m] = @ - 1]
    BY <1>14 DEF Deliver, At
  <2>2. Delivered(m).pc \in {"get", "delete"} /\ Delivered(m).msg = m /\ ~Delivered(m).fatal
    BY DEF Delivered, Idle
  <2>3. wrk'[w] = Delivered(m) /\ \A v \in Workers \ {w} : wrk'[v] = wrk[v]
    BY <1>0, <2>1 DEF TypeOK
  <2>4. OwnerFacts(w)' BY <2>2, <2>3 DEF OwnerFacts, At
  <2>5. \A v \in Workers : OwnerFacts(v)' BY <1>4, <2>3, <2>4
  <2>6. ASSUME NEW a \in Avatars, Carried(a) PROVE Carried(a)'
    <3>1. CASE Dead(a) BY <2>1, <3>1 DEF Carried, Dead
    <3>2. CASE Waiting(a)
      <4>1. PICK k \in Message : k.type = "avatar.uploaded" /\ k.avatar = a /\ queue[k] > 0
        BY <3>2 DEF Waiting
      <4>2. CASE k = m BY <2>2, <2>3, <4>1, <4>2 DEF Carried, Held, Target
      <4>3. CASE k # m
        <5>1. queue'[k] > 0 BY <1>0, <2>1, <4>1, <4>3 DEF TypeOK
        <5> QED BY <1>9, <4>1, <5>1
      <4> QED BY <4>2, <4>3
    <3>3. CASE \E v \in Workers : /\ wrk[v].pc \notin {"idle", "ack"}
                                 /\ Held(v).type = "avatar.uploaded" /\ Target(v) = a
      BY <2>1, <2>3, <3>3 DEF Carried, Held, Target
    <3> QED BY <2>6, <3>1, <3>2, <3>3 DEF Carried
  <2> QED BY <1>3, <2>5, <2>6 DEF OwnersSound, OwnerFacts, Busy
<1>15. ASSUME NEW m \in Message, queue' = queue \/ Publish(m) \/ MaybePublish(m) PROVE Kept
  BY <1>0, <1>15, PublishKeeps DEF MaybePublish
<1>16. ASSUME NEW a \in Avatars, UploadRequest(a) \/ CrashUpload(a) \/ Age(a) PROVE OwnersSound'
  BY <1>6, <1>15, <1>16, EventType
  DEF UploadRequest, Create, PutOriginal, SetUploaded, PublishUpload, markFailed, CrashUpload, Age
<1>17. ASSUME NEW d \in Deleters,
              DeleteRequest(d) \/ CrashDelete(d) \/ \E b \in Avatars : BeginDelete(d, b)
       PROVE  OwnersSound'
  <2>1. DeleteEvent(del[d].avatar) \in Message BY <1>0, EventType DEF TypeOK
  <2> QED BY <1>6, <1>15, <1>17, <2>1
      DEF DeleteRequest, SoftDelete, PublishDelete, removeFiles, CrashDelete, BeginDelete
<1>18. CASE Reconcile \/ CrashReconciler \/ UNCHANGED vars
  BY <1>6, <1>15, <1>18, EventType
  DEF Reconcile, FailStaleUploads, SelectStuck, SelectUncleaned, republishUploads, republishCleanups,
      Republish, CrashReconciler, vars
<1> QED
  BY ONLY [Next]_vars, <1>7, <1>10, <1>11, <1>12, <1>13, <1>14, <1>16, <1>17, <1>18
  DEF Next, Consume

(***************************************************************************)
(* Started work on an image that decodes is never lost: a live row in      *)
(* "processing", which the reconciler does not look at, has its event at a *)
(* consumer, in the broker or among the dead letters, for any number of    *)
(* consumers, crashes, timeouts and lost confirmations.                    *)
(***************************************************************************)
THEOREM StartedWorkIsOwned == Spec => []ProcessingIsOwned
<1>1. Init => OwnersSound
  BY DEF Init, OwnersSound, Idle, At, NoRow, Live
<1>2. OwnersSound => ProcessingIsOwned
  BY DEF OwnersSound, ProcessingIsOwned, Carried, InWork, At
<1>3. IInv /\ OwnersSound /\ [Next]_vars => OwnersSound' BY OwnersStep
<1> QED BY <1>1, <1>2, <1>3, FilesAreSound, PTL DEF Spec
=============================================================================
