------------------------------- MODULE Avatar -------------------------------
(***************************************************************************)
(* What the system promises about an avatar, whoever does the work: the    *)
(* states its row goes through and when each of its files may appear and   *)
(* disappear.  There are no requests, messages, retries or failures here.  *)
(* Lifecycle implements this specification, and Serving reads over it.     *)
(***************************************************************************)
EXTENDS Domain

CONSTANT Avatars

VARIABLES
  state,   \* the columns of a row that decide what is served and cleaned up
  files    \* the keys of the bucket

avatarVars == <<state, files>>

States ==
  [upload : UploadStatus \cup {"none"}, proc : ProcessingStatus, deleted : BOOLEAN,
   removed : BOOLEAN, thumbs : SUBSET ThumbnailSizes]

AvatarTypeOK ==
  /\ state \in [Avatars -> States]
  /\ files \in SUBSET (Avatars \X (0..NumSizes))

Unknown ==
  [upload |-> "none", proc |-> "pending", deleted |-> FALSE, removed |-> FALSE, thumbs |-> {}]

AvatarInit == state = [a \in Avatars |-> Unknown] /\ files = {}

\* A row the API shows: Get, GetCurrent and ListByUser leave out the rest.
Alive(a) == state[a].upload # "none" /\ ~state[a].deleted

Shown(a) == Alive(a) /\ state[a].upload = "uploaded"

\* A row whose files are to be removed.
Doomed(a) == state[a].deleted \/ state[a].upload = "failed"

Become(a, s) == state' = [state EXCEPT ![a] = s] /\ UNCHANGED files

Register(a) ==
  /\ state[a].upload = "none"
  /\ Become(a, [state[a] EXCEPT !.upload = "uploading"])

StoreOriginal(a) ==
  /\ state[a].upload = "uploading"
  /\ files' = files \cup {OriginalKey(a)} /\ UNCHANGED state

\* A row is called uploaded when its original is there.
FinishUpload(a) ==
  /\ state[a].upload = "uploading" /\ OriginalKey(a) \in files
  /\ Become(a, [state[a] EXCEPT !.upload = "uploaded"])

\* One upload gives up, or the reconciler gives up several at once.
FailUploads(as) ==
  /\ as # {} /\ \A a \in as : state[a].upload = "uploading"
  /\ state' = [a \in Avatars |-> IF a \in as THEN [state[a] EXCEPT !.upload = "failed"]
                                 ELSE state[a]]
  /\ UNCHANGED files

Start(a) ==
  /\ Shown(a) /\ state[a].proc \in ProcessingAllowedFrom("processing")
  /\ Become(a, [state[a] EXCEPT !.proc = "processing"])

\* A late delivery may still put a thumbnail of a deleted avatar.
StoreThumbnail(a, s) ==
  /\ state[a].upload = "uploaded"
  /\ files' = files \cup {ThumbnailKey(a, s)} /\ UNCHANGED state

\* The keys are recorded together with the status, and after the objects.
Complete(a) ==
  /\ Shown(a) /\ state[a].proc \in ProcessingAllowedFrom("completed")
  /\ \A s \in ThumbnailSizes : ThumbnailKey(a, s) \in files
  /\ Become(a, [state[a] EXCEPT !.proc = "completed", !.thumbs = ThumbnailSizes])

FailProcessing(a) ==
  /\ Shown(a) /\ state[a].proc \in ProcessingAllowedFrom("failed")
  /\ Become(a, [state[a] EXCEPT !.proc = "failed"])

Delete(a) == Shown(a) /\ Become(a, [state[a] EXCEPT !.deleted = TRUE])

\* Files disappear only from rows that are not shown any more.
RemoveFiles(a, keys) ==
  /\ Doomed(a) /\ keys \subseteq StorageKeys(a)
  /\ files' = files \ keys /\ UNCHANGED state

\* files_removed_at: the row is never cleaned up again.
MarkRemoved(a) ==
  /\ Doomed(a) /\ OriginalKey(a) \notin files
  /\ Become(a, [state[a] EXCEPT !.removed = TRUE])

\* Everything that happens to an avatar but its deletion.
AvatarStep(a) ==
  \/ Register(a) \/ StoreOriginal(a) \/ FinishUpload(a)
  \/ Start(a) \/ Complete(a) \/ FailProcessing(a) \/ MarkRemoved(a)
  \/ \E s \in ThumbnailSizes : StoreThumbnail(a, s)
  \/ \E keys \in SUBSET StorageKeys(a) : RemoveFiles(a, keys)

AvatarNext ==
  \/ \E a \in Avatars : AvatarStep(a) \/ Delete(a)
  \/ \E as \in SUBSET Avatars : FailUploads(as)

AvatarSpec == AvatarInit /\ [][AvatarNext]_avatarVars
-----------------------------------------------------------------------------
(* What follows from it for a reader of the row. *)

\* The files a row refers to are there while the row is shown: the original since
\* the upload ended, every recorded thumbnail since it was recorded.
FilesServable ==
  \A a \in Avatars : Shown(a) =>
    /\ OriginalKey(a) \in files
    /\ \A s \in state[a].thumbs : ThumbnailKey(a, s) \in files

\* Why it lasts: what each status says about the rest of the row.
StatesSound ==
  \A a \in Avatars :
    /\ state[a].deleted => state[a].upload = "uploaded"
    /\ state[a].proc # "pending" => state[a].upload = "uploaded"
    /\ state[a].thumbs # {} => state[a].proc = "completed"
    /\ state[a].removed => Doomed(a)

AvatarInv == AvatarTypeOK /\ StatesSound /\ FilesServable
=============================================================================
