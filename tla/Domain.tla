------------------------------- MODULE Domain -------------------------------
(***************************************************************************)
(* The vocabulary of internal/domain: the two status machines of an avatar *)
(* row and the keys its files have in the object store.                    *)
(***************************************************************************)
EXTENDS Naturals

UploadStatus == {"uploading", "uploaded", "failed"}

ProcessingStatus == {"pending", "processing", "completed", "failed"}

\* Mutant: an upload that ended may still be failed.
UploadAllowedFrom_Ended(s) ==
  IF s \in {"uploaded", "failed"} THEN {"uploading", "uploaded"} ELSE {}

\* UploadStatus.AllowedFrom: the statuses a row may be moved to s from.
UploadAllowedFrom(s) == IF s \in {"uploaded", "failed"} THEN {"uploading"} ELSE {}

\* ProcessingStatus.AllowedFrom. "processing" is its own predecessor: a
\* redelivered event starts the work again.
ProcessingAllowedFrom(s) ==
  CASE s = "processing" -> {"pending", "processing"}
    [] s = "completed"  -> {"processing"}
    [] s = "failed"     -> {"pending", "processing"}
    [] OTHER            -> {}

\* The number of thumbnail sizes, and the sizes as positions in
\* domain.ThumbnailSizes(): 100x100 is 1, 300x300 is 2.
NumSizes == 2

ThumbnailSizes == 1..NumSizes

\* Keys are built from the avatar's id: the original is file 0 of the avatar.
OriginalKey(a) == <<a, 0>>

ThumbnailKey(a, size) == <<a, size>>

\* Avatar.StorageKeys: the original and the thumbnails of every size, recorded
\* in the row or not.
StorageKeys(a) == {OriginalKey(a)} \cup {ThumbnailKey(a, s) : s \in ThumbnailSizes}
=============================================================================
