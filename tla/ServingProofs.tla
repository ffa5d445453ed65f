---------------------------- MODULE ServingProofs ----------------------------
(***************************************************************************)
(* Proofs about Avatar, for any number of avatars, and about Serving, for  *)
(* any number of avatars, users and requests.                              *)
(***************************************************************************)
EXTENDS Serving, TLAPS

(* Avatar: rows keep their meaning and the files of a shown row stay. *)

\* A step that changes one row.
LEMMA BecomeFields ==
  ASSUME AvatarTypeOK, NEW a \in Avatars, NEW s \in States, Become(a, s)
  PROVE  /\ state' \in [Avatars -> States] /\ files' = files
         /\ state'[a] = s
         /\ \A b \in Avatars : b # a => state'[b] = state[b]
BY DEF AvatarTypeOK, Become

\* What every step keeps of a row: decisions are final, and a file disappears
\* only from a doomed row.
Kept(a) ==
  /\ state[a].upload \in {"uploaded", "failed"} => state'[a].upload = state[a].upload
  /\ state[a].upload # "none" => state'[a].upload # "none"
  /\ state[a].deleted => state'[a].deleted
  /\ state[a].thumbs \subseteq state'[a].thumbs
  /\ state[a].proc = "failed" => state'[a].proc = "failed"
  /\ Doomed(a) \/ \A i \in 0..NumSizes : <<a, i>> \in files => <<a, i>> \in files'

\* A step of the avatars keeps the invariant, and nothing final is undone (Kept).
LEMMA StepSafe ==
  ASSUME AvatarInv, [AvatarNext]_avatarVars
  PROVE  AvatarInv' /\ \A a \in Avatars : Kept(a)
<1> DEFINE Goal == AvatarInv' /\ \A a \in Avatars : Kept(a)
<1>t. state \in [Avatars -> States] /\ files \in SUBSET (Avatars \X (0..NumSizes))
  BY DEF AvatarInv, AvatarTypeOK
<1>f. \A a \in Avatars : state[a] \in States BY <1>t
<1>s. \A a \in Avatars : Alive(a) <=> state[a].upload # "none" /\ ~state[a].deleted
  BY DEF Alive
<1> SUFFICES Goal OBVIOUS
\* A step that writes one row and leaves the files alone.
<1>w. ASSUME NEW a \in Avatars, NEW s \in States, Become(a, s),
             s.upload # "none",
             state[a].upload \in {"uploaded", "failed"} => s.upload = state[a].upload,
             state[a].deleted => s.deleted,
             state[a].thumbs \subseteq s.thumbs,
             state[a].proc = "failed" => s.proc = "failed",
             s.deleted => s.upload = "uploaded",
             s.proc # "pending" => s.upload = "uploaded",
             s.thumbs # {} => s.proc = "completed",
             s.removed => s.deleted \/ s.upload = "failed",
             s.upload = "uploaded" /\ ~s.deleted => OriginalKey(a) \in files,
             s.upload = "uploaded" /\ ~s.deleted => \A i \in s.thumbs : ThumbnailKey(a, i) \in files
      PROVE  Goal
  <2>1. /\ state' \in [Avatars -> States] /\ files' = files
        /\ state'[a] = s
        /\ \A b \in Avatars : b # a => state'[b] = state[b]
    BY <1>w, BecomeFields DEF AvatarInv
  <2>2. AvatarTypeOK' BY <2>1, <1>t DEF AvatarTypeOK
  <2>3. StatesSound' BY <2>1, <1>w DEF StatesSound, AvatarInv, Doomed
  <2>4. FilesServable'
    BY <2>1, <1>w DEF FilesServable, AvatarInv, Shown, Alive
  <2>5. \A b \in Avatars : Kept(b) BY <2>1, <1>w DEF Kept
  <2> QED BY <2>2, <2>3, <2>4, <2>5 DEF AvatarInv
\* A step that leaves the rows alone and removes only files of doomed rows.
<1>k. ASSUME state' = state, files' \in SUBSET (Avatars \X (0..NumSizes)),
             \A a \in Avatars, i \in 0..NumSizes :
               <<a, i>> \in files /\ ~Doomed(a) => <<a, i>> \in files'
      PROVE  Goal
  <2>1. AvatarTypeOK' BY <1>k, <1>t DEF AvatarTypeOK
  <2>2. StatesSound' BY <1>k DEF StatesSound, AvatarInv, Doomed
  <2>3. FilesServable'
    <3>1. ASSUME NEW a \in Avatars, Shown(a)'
          PROVE  /\ OriginalKey(a) \in files'
                 /\ \A s \in state'[a].thumbs : ThumbnailKey(a, s) \in files'
      <4>1. Shown(a) /\ ~Doomed(a) BY <3>1, <1>k DEF Shown, Alive, Doomed
      <4>2. OriginalKey(a) \in files /\ \A s \in state[a].thumbs : ThumbnailKey(a, s) \in files
        BY <4>1 DEF AvatarInv, FilesServable
      <4>3. state[a].thumbs \subseteq 1..NumSizes BY <1>f DEF States, ThumbnailSizes
      <4>4. 0 \in 0..NumSizes /\ 1..NumSizes \subseteq 0..NumSizes BY DEF NumSizes
      <4> QED BY <4>1, <4>2, <4>3, <4>4, <1>k DEF OriginalKey, ThumbnailKey
    <3> QED BY <3>1 DEF FilesServable
  <2>4. \A a \in Avatars : Kept(a) BY <1>k DEF Kept
  <2> QED BY <2>1, <2>2, <2>3, <2>4 DEF AvatarInv
<1>1. ASSUME NEW a \in Avatars, Register(a) PROVE Goal
  <2> DEFINE r == state[a]
  <2> DEFINE s == [r EXCEPT !.upload = "uploading"]
  <2>r. r \in States BY <1>f
  <2> HIDE DEF r
  <2>1. /\ s \in States /\ s.upload = "uploading" /\ s.proc = r.proc
        /\ s.deleted = r.deleted /\ s.removed = r.removed /\ s.thumbs = r.thumbs
    BY <2>r DEF States, UploadStatus, ProcessingStatus
  <2> USE DEF r
  <2>2. Become(a, s) /\ state[a].upload = "none" BY <1>1 DEF Register
  <2> HIDE DEF s
  <2> QED BY <2>1, <2>2, <1>w DEF AvatarInv, StatesSound, Doomed
<1>2. ASSUME NEW a \in Avatars, StoreOriginal(a) PROVE Goal
  BY <1>2, <1>k, <1>t DEF StoreOriginal, OriginalKey, NumSizes
<1>3. ASSUME NEW a \in Avatars, FinishUpload(a) PROVE Goal
  <2> DEFINE r == state[a]
  <2> DEFINE s == [r EXCEPT !.upload = "uploaded"]
  <2>r. r \in States BY <1>f
  <2> HIDE DEF r
  <2>1. /\ s \in States /\ s.upload = "uploaded" /\ s.proc = r.proc
        /\ s.deleted = r.deleted /\ s.removed = r.removed /\ s.thumbs = r.thumbs
    BY <2>r DEF States, UploadStatus, ProcessingStatus
  <2> USE DEF r
  <2>2. Become(a, s) /\ state[a].upload = "uploading" /\ OriginalKey(a) \in files
    BY <1>3 DEF FinishUpload
  <2> HIDE DEF s
  <2> QED BY <2>1, <2>2, <1>w DEF AvatarInv, StatesSound, Doomed
<1>4. ASSUME NEW as \in SUBSET Avatars, FailUploads(as) PROVE Goal
  <2>1. \A b \in Avatars : state'[b] \in States /\
          IF b \in as
          THEN /\ state[b].upload = "uploading" /\ state'[b].upload = "failed"
               /\ state'[b].proc = state[b].proc /\ state'[b].deleted = state[b].deleted
               /\ state'[b].removed = state[b].removed /\ state'[b].thumbs = state[b].thumbs
          ELSE state'[b] = state[b]
    <3>1. ASSUME NEW b \in Avatars
          PROVE  LET t == [state[b] EXCEPT !.upload = "failed"] IN
                 /\ t \in States /\ t.upload = "failed" /\ t.proc = state[b].proc
                 /\ t.deleted = state[b].deleted /\ t.removed = state[b].removed
                 /\ t.thumbs = state[b].thumbs
      <4> DEFINE r == state[b]
      <4>1. r \in States BY <1>f
      <4> HIDE DEF r
      <4>2. LET t == [r EXCEPT !.upload = "failed"] IN
            /\ t \in States /\ t.upload = "failed" /\ t.proc = r.proc
            /\ t.deleted = r.deleted /\ t.removed = r.removed /\ t.thumbs = r.thumbs
        BY <4>1 DEF States, UploadStatus
      <4> QED BY <4>2 DEF r
    <3> QED BY <3>1, <1>4, <1>f DEF FailUploads
  <2>2. state' \in [Avatars -> States] /\ files' = files
    <3>1. files' = files /\ DOMAIN state' = Avatars /\ state' = [b \in Avatars |-> state'[b]]
      BY <1>4 DEF FailUploads
    <3> QED BY <3>1, <2>1
  <2>3. AvatarTypeOK' BY <2>2, <1>t DEF AvatarTypeOK
  <2>4. StatesSound' BY <2>1 DEF StatesSound, AvatarInv, Doomed
  <2>5. FilesServable' BY <2>1, <2>2 DEF FilesServable, AvatarInv, Shown, Alive
  <2>6. \A b \in Avatars : Kept(b) BY <2>1, <2>2 DEF Kept
  <2> QED BY <2>3, <2>4, <2>5, <2>6 DEF AvatarInv
<1>5. ASSUME NEW a \in Avatars, Start(a) PROVE Goal
  <2> DEFINE r == state[a]
  <2> DEFINE s == [r EXCEPT !.proc = "processing"]
  <2>r. r \in States BY <1>f
  <2> HIDE DEF r
  <2>1. /\ s \in States /\ s.proc = "processing" /\ s.upload = r.upload
        /\ s.deleted = r.deleted /\ s.removed = r.removed /\ s.thumbs = r.thumbs
    BY <2>r DEF States, UploadStatus, ProcessingStatus
  <2> USE DEF r
  <2>2. /\ Become(a, s) /\ state[a].upload = "uploaded" /\ ~state[a].deleted
        /\ state[a].proc \in {"pending", "processing"}
    BY <1>5 DEF Start, Shown, Alive, ProcessingAllowedFrom
  <2> HIDE DEF s
  <2> QED BY <2>1, <2>2, <1>w DEF AvatarInv, StatesSound, Doomed, FilesServable, Shown, Alive
<1>6. ASSUME NEW a \in Avatars, NEW s \in ThumbnailSizes, StoreThumbnail(a, s) PROVE Goal
  BY <1>6, <1>k, <1>t DEF StoreThumbnail, ThumbnailKey, ThumbnailSizes, NumSizes
<1>7. ASSUME NEW a \in Avatars, Complete(a) PROVE Goal
  <2> DEFINE r == state[a]
  <2> DEFINE s == [r EXCEPT !.proc = "completed", !.thumbs = ThumbnailSizes]
  <2>r. r \in States BY <1>f
  <2> HIDE DEF r
  <2>1. /\ s \in States /\ s.proc = "completed" /\ s.thumbs = ThumbnailSizes
        /\ s.upload = r.upload /\ s.deleted = r.deleted /\ s.removed = r.removed
    BY <2>r DEF States, UploadStatus, ProcessingStatus
  <2> USE DEF r
  <2>2. /\ Become(a, s) /\ state[a].upload = "uploaded" /\ ~state[a].deleted
        /\ state[a].proc = "processing" /\ \A i \in ThumbnailSizes : ThumbnailKey(a, i) \in files
    BY <1>7 DEF Complete, Shown, Alive, ProcessingAllowedFrom
  <2>3. state[a].thumbs \subseteq ThumbnailSizes BY <1>f DEF States
  <2> HIDE DEF s
  <2> QED BY <2>1, <2>2, <2>3, <1>w DEF AvatarInv, StatesSound, Doomed, FilesServable, Shown, Alive
<1>8. ASSUME NEW a \in Avatars, FailProcessing(a) PROVE Goal
  <2> DEFINE r == state[a]
  <2> DEFINE s == [r EXCEPT !.proc = "failed"]
  <2>r. r \in States BY <1>f
  <2> HIDE DEF r
  <2>1. /\ s \in States /\ s.proc = "failed" /\ s.upload = r.upload
        /\ s.deleted = r.deleted /\ s.removed = r.removed /\ s.thumbs = r.thumbs
    BY <2>r DEF States, UploadStatus, ProcessingStatus
  <2> USE DEF r
  <2>2. /\ Become(a, s) /\ state[a].upload = "uploaded" /\ ~state[a].deleted
        /\ state[a].proc \in {"pending", "processing"}
    BY <1>8 DEF FailProcessing, Shown, Alive, ProcessingAllowedFrom
  <2> HIDE DEF s
  <2> QED BY <2>1, <2>2, <1>w DEF AvatarInv, StatesSound, Doomed, FilesServable, Shown, Alive
<1>9. ASSUME NEW a \in Avatars, Delete(a) PROVE Goal
  <2> DEFINE r == state[a]
  <2> DEFINE s == [r EXCEPT !.deleted = TRUE]
  <2>r. r \in States BY <1>f
  <2> HIDE DEF r
  <2>1. /\ s \in States /\ s.deleted /\ s.upload = r.upload
        /\ s.proc = r.proc /\ s.removed = r.removed /\ s.thumbs = r.thumbs
    BY <2>r DEF States, UploadStatus, ProcessingStatus
  <2> USE DEF r
  <2>2. Become(a, s) /\ state[a].upload = "uploaded" BY <1>9 DEF Delete, Shown
  <2> HIDE DEF s
  <2> QED BY <2>1, <2>2, <1>w DEF AvatarInv, StatesSound, Doomed
<1>10. ASSUME NEW a \in Avatars, NEW keys \in SUBSET StorageKeys(a), RemoveFiles(a, keys) PROVE Goal
  <2>1. \A b \in Avatars, i \in 0..NumSizes : <<b, i>> \in keys => b = a
    BY DEF StorageKeys, OriginalKey, ThumbnailKey
  <2> QED BY <1>10, <2>1, <1>k, <1>t DEF RemoveFiles
<1>11. ASSUME NEW a \in Avatars, MarkRemoved(a) PROVE Goal
  <2> DEFINE r == state[a]
  <2> DEFINE s == [r EXCEPT !.removed = TRUE]
  <2>r. r \in States BY <1>f
  <2> HIDE DEF r
  <2>1. /\ s \in States /\ s.removed /\ s.upload = r.upload
        /\ s.proc = r.proc /\ s.deleted = r.deleted /\ s.thumbs = r.thumbs
    BY <2>r DEF States, UploadStatus, ProcessingStatus
  <2> USE DEF r
  <2>2. Become(a, s) /\ Doomed(a) BY <1>11 DEF MarkRemoved
  <2> HIDE DEF s
  <2> QED BY <2>1, <2>2, <1>w DEF AvatarInv, StatesSound, Doomed, FilesServable, Shown, Alive
<1>12. CASE UNCHANGED avatarVars
  BY <1>12, <1>k, <1>t DEF avatarVars
<1> QED
  BY <1>1, <1>2, <1>3, <1>4, <1>5, <1>6, <1>7, <1>8, <1>9, <1>10, <1>11, <1>12
  DEF AvatarNext, AvatarStep

\* Whatever order the steps of an avatar's life come in, a row that is shown has
\* the files it refers to: the original since the upload ended, the thumbnails
\* since they were recorded (content.go opens them without asking again).
THEOREM ShownIsServable == AvatarSpec => []FilesServable
<1>1. AvatarInit => AvatarInv
  BY DEF AvatarInit, AvatarInv, AvatarTypeOK, StatesSound, FilesServable, Unknown, States,
         UploadStatus, ProcessingStatus, Shown, Alive, Doomed
<1>2. AvatarInv /\ [AvatarNext]_avatarVars => AvatarInv' BY StepSafe
<1>3. AvatarInv => FilesServable BY DEF AvatarInv
<1> QED BY <1>1, <1>2, <1>3, PTL DEF AvatarSpec
-----------------------------------------------------------------------------
(* Serving. *)

\* The idle request has its type.
LEMMA AnyRequestType == AnyRequest \in WellTyped /\ AnyRequest.pc = "idle"
<1>1. (CHOOSE a \in Avatars : TRUE) \in Avatars /\ (CHOOSE u \in Users : TRUE) \in Users
  BY ServingAssumption
<1> DEFINE b == CHOOSE a \in Avatars : TRUE
           v == CHOOSE u \in Users : TRUE
<1>2. AnyRequest = [pc |-> "idle", by |-> v, avatar |-> b, size |-> 0, key |-> OriginalKey(b),
                    age |-> "day", current |-> FALSE, shown |-> FALSE, result |-> "none"]
  BY DEF AnyRequest
<1>3. b \in Avatars /\ v \in Users BY <1>1
<1> HIDE DEF b, v
<1>4. OriginalKey(b) \in Keys /\ 0 \in Sizes
  BY <1>3 DEF OriginalKey, Keys, Sizes, NumSizes
<1> QED BY <1>2, <1>3, <1>4 DEF WellTyped, Request, RequestPC, Ages, Results

\* What a request becomes.
LEMMA RequestTypes ==
  /\ \A result \in Results :
       LET q == [AnyRequest EXCEPT !.result = result] IN q \in WellTyped /\ q.pc = "idle"
  /\ \A u \in Users, a \in Avatars :
       LET q == [AnyRequest EXCEPT !.pc = "soft", !.by = u, !.avatar = a] IN
       q \in WellTyped /\ q.pc = "soft"
<1> DEFINE x == AnyRequest
<1>1. x \in WellTyped /\ x.pc = "idle" BY AnyRequestType
<1>2. x.current => x.age # "day" BY <1>1 DEF WellTyped
<1> HIDE DEF x
<1>3. x \in Request BY <1>1 DEF WellTyped
<1>4. ASSUME NEW result \in Results
      PROVE  LET q == [x EXCEPT !.result = result] IN q \in WellTyped /\ q.pc = "idle"
  BY <1>1, <1>2, <1>3 DEF WellTyped, Request
<1>5. ASSUME NEW u \in Users, NEW a \in Avatars
      PROVE  LET q == [x EXCEPT !.pc = "soft", !.by = u, !.avatar = a] IN
             q \in WellTyped /\ q.pc = "soft"
  BY <1>2, <1>3 DEF WellTyped, Request, RequestPC
<1> QED BY <1>4, <1>5 DEF x

\* Avatar.Thumbnail's look at the status leaves out no recorded key.
LEMMA ReadySizes ==
  ASSUME IInv, NEW a \in Avatars
  PROVE  Thumbnail(a) = state[a].thumbs
BY DEF IInv, AvatarInv, StatesSound, Thumbnail

\* A request that has read its row is sound at that moment.
LEMMA OpeningSound ==
  ASSUME IInv, NEW a \in Avatars, NEW size \in Sizes, Alive(a)
  PROVE  /\ Opening(a, size, FALSE) \in WellTyped /\ RequestSound(Opening(a, size, FALSE))
         /\ Capped(Opening(a, size, TRUE)) \in WellTyped
         /\ RequestSound(Capped(Opening(a, size, TRUE)))
<1> DEFINE c == Chosen(a, size)
           k == c.key
           age == c.age
           x == AnyRequest
<1>1. /\ k \in Keys /\ age \in {"day", "minute"}
      /\ Refers(a, k)
      /\ age = "day" => Decided(a, size, k)
  <2>1. state[a].upload # "none" BY DEF Alive
  <2>2. size = 0 \/ size \in 1..NumSizes BY DEF Sizes, ThumbnailSizes
  <2>3. <<a, size>> \in Keys /\ <<a, 0>> \in Keys BY <2>2 DEF Keys, NumSizes
  <2>4. CASE size = 0 \/ size \in state[a].thumbs
    <3>1. k = <<a, size>> /\ age = "day" BY <2>4, ReadySizes DEF Chosen
    <3> QED BY <3>1, <2>1, <2>3, <2>4 DEF Refers, Decided, OriginalKey, ThumbnailKey
  <2>5. CASE ~(size = 0 \/ size \in state[a].thumbs)
    <3>1. /\ k = <<a, 0>>
          /\ age = IF state[a].proc # "failed" THEN "minute" ELSE "day"
      BY <2>5, ReadySizes DEF Chosen, OriginalKey
    <3> QED BY <3>1, <2>1, <2>3, <2>5 DEF Refers, Decided, OriginalKey
  <2> QED BY <2>4, <2>5
<1>2. Shown(a) => state[a].upload = "uploaded" BY DEF Shown
<1>3. Shown(a) \in BOOLEAN BY DEF Shown, Alive
<1>4. x \in Request BY AnyRequestType DEF WellTyped
<1>5. \A current \in BOOLEAN :
        Opening(a, size, current) =
          [x EXCEPT !.pc = "open", !.avatar = a, !.size = size, !.current = current,
                    !.key = k, !.age = age, !.shown = Shown(a)]
  BY DEF Opening
<1> HIDE DEF c, k, age, x
<1>6. ASSUME NEW current \in BOOLEAN
      PROVE  LET q == Opening(a, size, current) IN
             /\ q \in Request /\ q.pc = "open" /\ q.avatar = a /\ q.size = size
             /\ q.current = current /\ q.key = k /\ q.age = age /\ q.shown = Shown(a)
  <2> DEFINE sh == Shown(a)
  <2>1. sh \in BOOLEAN BY <1>3
  <2>2. Opening(a, size, current) =
          [x EXCEPT !.pc = "open", !.avatar = a, !.size = size, !.current = current,
                    !.key = k, !.age = age, !.shown = sh]
    BY <1>5
  <2> HIDE DEF sh
  <2>3. LET q == [x EXCEPT !.pc = "open", !.avatar = a, !.size = size, !.current = current,
                           !.key = k, !.age = age, !.shown = sh] IN
        /\ q \in Request /\ q.pc = "open" /\ q.avatar = a /\ q.size = size
        /\ q.current = current /\ q.key = k /\ q.age = age /\ q.shown = sh
    BY <1>1, <1>4, <2>1 DEF Request, RequestPC, Ages
  <2> QED BY <2>2, <2>3 DEF sh
<1>7. Opening(a, size, FALSE) \in WellTyped /\ RequestSound(Opening(a, size, FALSE))
  BY <1>1, <1>2, <1>6 DEF WellTyped, RequestSound
<1>8. /\ Capped(Opening(a, size, TRUE)) \in WellTyped
      /\ RequestSound(Capped(Opening(a, size, TRUE)))
  <2> DEFINE q == Opening(a, size, TRUE)
  <2>1. /\ q \in Request /\ q.pc = "open" /\ q.avatar = a /\ q.size = size
        /\ q.current = TRUE /\ q.key = k /\ q.age = age /\ q.shown = Shown(a)
    BY <1>6
  <2> HIDE DEF q
  <2>2. CASE q.age = "day"
    <3> DEFINE p == [q EXCEPT !.age = "minutes"]
    <3>1. /\ p \in Request /\ p.pc = "open" /\ p.avatar = a /\ p.age = "minutes"
          /\ p.key = k /\ p.shown = Shown(a)
      BY <2>1 DEF Request, Ages
    <3>2. Capped(q) = p BY <2>2 DEF Capped
    <3> HIDE DEF p
    <3>3. p \in WellTyped /\ RequestSound(p)
      BY <3>1, <1>1, <1>2 DEF WellTyped, RequestSound
    <3> QED BY <3>2, <3>3 DEF q
  <2>3. CASE q.age # "day"
    <3>1. Capped(q) = q BY <2>3 DEF Capped
    <3>2. q \in WellTyped /\ RequestSound(q)
      BY <2>1, <2>3, <1>1, <1>2 DEF WellTyped, RequestSound
    <3> QED BY <3>1, <3>2 DEF q
  <2> QED BY <2>2, <2>3
<1> QED BY <1>7, <1>8

\* What was true of a request's row when it was read stays true.
LEMMA SoundLasts ==
  ASSUME \A a \in Avatars : Kept(a)
  PROVE  /\ \A q \in Request : RequestSound(q) => RequestSound(q)'
         /\ GivenSound /\ given \in SUBSET Answers =>
              \A g \in given : Decided(g.avatar, g.size, g.key)'
<1>1. \A a \in Avatars : \A key : Refers(a, key) => Refers(a, key)'
  BY DEF Kept, Refers
<1>2. \A a \in Avatars : \A size, key : Decided(a, size, key) => Decided(a, size, key)'
  BY DEF Kept, Decided
<1>3. \A a \in Avatars : state[a].upload = "uploaded" => state'[a].upload = "uploaded"
  BY DEF Kept
<1>4. \A q \in Request : q.avatar \in Avatars BY DEF Request
<1>5. ASSUME NEW q \in Request, RequestSound(q) PROVE RequestSound(q)'
  <2>1. q.avatar \in Avatars BY <1>4
  <2> QED BY <2>1, <1>1, <1>2, <1>3, <1>5 DEF RequestSound
<1>6. ASSUME GivenSound, given \in SUBSET Answers, NEW g \in given
      PROVE  Decided(g.avatar, g.size, g.key)'
  BY <1>2, <1>6 DEF GivenSound, Answers
<1> QED BY <1>5, <1>6

\* Every step is a step of the avatars' lives, or none, together with a change of
\* at most one request to one that is sound.
LEMMA SafeStep ==
  ASSUME IInv, [AvatarNext]_avatarVars, created' \in Seq(Avatars),
         req' \in [Requests -> WellTyped],
         \A r \in Requests : req'[r] = req[r] \/ RequestSound(req[r])',
         given' \in SUBSET Answers,
         \A g \in given' : g \in given \/ Decided(g.avatar, g.size, g.key)'
  PROVE  IInv'
<1>1. AvatarInv' /\ \A a \in Avatars : Kept(a) BY StepSafe DEF IInv
<1>2. TypeOK' BY <1>1 DEF TypeOK, AvatarInv
<1>3. RequestsSound'
  <2>1. ASSUME NEW r \in Requests PROVE RequestSound(req[r])'
    <3>1. CASE req'[r] = req[r]
      <4>1. req[r] \in Request /\ RequestSound(req[r])
        BY DEF IInv, TypeOK, WellTyped, RequestsSound
      <4>2. \A q \in Request : RequestSound(q) => RequestSound(q)' BY <1>1, SoundLasts
      <4> QED BY <4>1, <4>2, <3>1 DEF RequestSound
    <3>2. CASE RequestSound(req[r])' BY <3>2
    <3> QED BY <3>1, <3>2
  <2> QED BY <2>1 DEF RequestsSound
<1>4. GivenSound'
  <2>1. \A g \in given : Decided(g.avatar, g.size, g.key)'
    BY <1>1, SoundLasts DEF IInv, TypeOK
  <2> QED BY <2>1 DEF GivenSound
<1> QED BY <1>1, <1>2, <1>3, <1>4 DEF IInv

\* A request moves on and nothing else changes.
LEMMA RequestMoves ==
  ASSUME IInv, NEW r \in Requests, NEW q \in WellTyped, RequestSound(q),
         req' = [req EXCEPT ![r] = q],
         UNCHANGED <<state, files, created>>,
         given' \in SUBSET Answers,
         \A g \in given' : g \in given \/ Decided(g.avatar, g.size, g.key)
  PROVE  IInv'
<1>1. req \in [Requests -> WellTyped] /\ created \in Seq(Avatars) BY DEF IInv, TypeOK
<1>2. req' \in [Requests -> WellTyped] BY <1>1
<1>3. req'[r] = q /\ \A o \in Requests : o # r => req'[o] = req[o] BY <1>1
<1>4. RequestSound(req[r])' BY <1>3 DEF RequestSound, Refers, Decided
<1>5. \A g \in given' : g \in given \/ Decided(g.avatar, g.size, g.key)'
  BY DEF Decided
<1> QED BY <1>1, <1>2, <1>3, <1>4, <1>5, SafeStep DEF avatarVars

\* The current avatar of a user is one that is alive.
LEMMA QueryTypes ==
  ASSUME TypeOK, NEW u
  PROVE  \A a \in GetCurrent(u) : a \in Avatars /\ Alive(a)
<1>1. \A i \in DOMAIN created : created[i] \in Avatars BY DEF TypeOK
<1> QED BY <1>1 DEF GetCurrent, Positions, Shown

\* An address that is given out leads to the thumbnail it stands for.
LEMMA LinkStep ==
  ASSUME IInv, NEW as \in SUBSET Avatars, \A a \in as : Alive(a), KeepLink(as)
  PROVE  IInv'
<1>1. PICK a \in as : \E g \in newMetadataResponse(a) : given' = given \cup {g}
  BY DEF KeepLink
<1>2. PICK s \in Thumbnail(a) :
        given' = given \cup {[avatar |-> a, size |-> s, key |-> ThumbnailKey(a, s)]}
  BY <1>1 DEF newMetadataResponse
<1>3. a \in Avatars /\ state[a].upload # "none" BY DEF Alive
<1>4. s \in state[a].thumbs BY <1>3, ReadySizes
<1>5. s \in ThumbnailSizes
  BY <1>3, <1>4 DEF IInv, AvatarInv, AvatarTypeOK, States
<1> DEFINE g == [avatar |-> a, size |-> s, key |-> ThumbnailKey(a, s)]
<1>6. g \in Answers
  BY <1>3, <1>5 DEF Answers, Sizes, Keys, ThumbnailKey, ThumbnailSizes, NumSizes
<1>7. Decided(g.avatar, g.size, g.key) BY <1>3, <1>4 DEF Decided
<1>8. given' = given \cup {g} BY <1>2
<1> HIDE DEF g
<1>9. /\ given \in SUBSET Answers /\ req \in [Requests -> WellTyped]
      /\ created \in Seq(Avatars)
  BY DEF IInv, TypeOK
<1>10. UNCHANGED <<state, files, created, req>> BY DEF KeepLink
<1>11. \A h \in given' : h \in given \/ Decided(h.avatar, h.size, h.key)'
  BY <1>7, <1>8, <1>10 DEF Decided
<1> QED BY <1>6, <1>8, <1>9, <1>10, <1>11, SafeStep DEF avatarVars

\* An answer keeps the invariant when what it gives away is decided.
LEMMA AnswerStep ==
  ASSUME IInv, NEW r \in Requests, NEW result \in Results, Answer(r, result),
         UNCHANGED <<state, files, created>>,
         given' \in SUBSET Answers,
         \A g \in given' : g \in given \/ Decided(g.avatar, g.size, g.key)
  PROVE  IInv'
<1> DEFINE q == [AnyRequest EXCEPT !.result = result]
<1>1. q \in WellTyped /\ q.pc = "idle" BY RequestTypes
<1>2. req' = [req EXCEPT ![r] = q] BY DEF Answer
<1> HIDE DEF q
<1>3. RequestSound(q) BY <1>1 DEF RequestSound
<1> QED BY <1>1, <1>2, <1>3, RequestMoves

\* Every step of requests, rows and files keeps the invariant.
LEMMA NextSafe ==
  ASSUME IInv, [Next]_vars
  PROVE  IInv'
<1>t. /\ given \in SUBSET Answers /\ req \in [Requests -> WellTyped]
      /\ created \in Seq(Avatars)
  BY DEF IInv, TypeOK
<1>r. {"image", "placeholder", "not found", "forbidden", "error", "deleted"} \subseteq Results
  BY DEF Results
<1>1. CASE Live
  <2>1. [AvatarNext]_avatarVars BY <1>1 DEF Live, AvatarNext
  <2>2. created' \in Seq(Avatars) BY <1>1, <1>t DEF Live
  <2> QED BY <1>1, <1>t, <2>1, <2>2, SafeStep DEF Live
<1>2. ASSUME NEW r \in Requests, Open(r) PROVE IInv'
  <2> DEFINE q == req[r]
             g == [avatar |-> q.avatar, size |-> q.size, key |-> q.key]
  <2>1. q \in Request /\ RequestSound(q)
    BY <1>t DEF IInv, RequestsSound, WellTyped
  <2>2. /\ UNCHANGED <<state, files, created>>
        /\ \E result \in Results : Answer(r, result)
        /\ given' = given \/ (q.pc = "open" /\ q.age = "day" /\ given' = given \cup {g})
    BY <1>2, <1>r DEF Open
  <2> HIDE DEF q
  <2>3. g \in Answers /\ g.avatar = q.avatar /\ g.size = q.size /\ g.key = q.key
    BY <2>1 DEF Request, Answers
  <2> HIDE DEF g
  <2>4. q.pc = "open" /\ q.age = "day" => Decided(g.avatar, g.size, g.key)
    BY <2>1, <2>3 DEF RequestSound
  <2>5. given' \in SUBSET Answers BY <1>t, <2>2, <2>3
  <2>6. \A h \in given' : h \in given \/ Decided(h.avatar, h.size, h.key)
    BY <2>2, <2>4
  <2> QED BY <2>2, <2>5, <2>6, AnswerStep
<1>3. ASSUME NEW r \in Requests, SoftDelete(r) PROVE IInv'
  <2>1. UNCHANGED <<created, given>> BY <1>3 DEF SoftDelete
  <2>2. PICK result \in Results : Answer(r, result) BY <1>3, <1>r DEF SoftDelete
  <2>3. [AvatarNext]_avatarVars
    <3>1. req[r].avatar \in Avatars BY <1>t DEF WellTyped, Request
    <3> QED BY <3>1, <1>3 DEF SoftDelete, AvatarNext
  <2> DEFINE q == [AnyRequest EXCEPT !.result = result]
  <2>4. q \in WellTyped /\ q.pc = "idle" BY RequestTypes
  <2>5. req' = [req EXCEPT ![r] = q] BY <2>2 DEF Answer
  <2> HIDE DEF q
  <2>6. req' \in [Requests -> WellTyped] /\ req'[r] = q
        /\ \A o \in Requests : o # r => req'[o] = req[o]
    BY <1>t, <2>4, <2>5
  <2>7. RequestSound(req[r])' BY <2>4, <2>6 DEF RequestSound
  <2> QED BY <1>t, <2>1, <2>3, <2>6, <2>7, SafeStep
<1>4. ASSUME NEW r \in Requests, NEW a \in Avatars, NEW size \in Sizes, AvatarContent(r, a, size)
      PROVE  IInv'
  <2>1. UNCHANGED <<state, files, created, given>> BY <1>4 DEF AvatarContent
  <2>2. CASE Alive(a) /\ req' = [req EXCEPT ![r] = Opening(a, size, FALSE)]
    BY <1>t, <2>1, <2>2, OpeningSound, RequestMoves
  <2>3. CASE \E result \in Results : Answer(r, result)
    BY <1>t, <2>1, <2>3, AnswerStep
  <2> QED BY <1>4, <1>r, <2>2, <2>3 DEF AvatarContent, Get
<1>5. ASSUME NEW r \in Requests, NEW u \in Users, NEW size \in Sizes, UserAvatarContent(r, u, size)
      PROVE  IInv'
  <2>1. UNCHANGED <<state, files, created, given>> BY <1>5 DEF UserAvatarContent
  <2>2. ASSUME NEW a \in GetCurrent(u),
               req' = [req EXCEPT ![r] = Capped(Opening(a, size, TRUE))]
        PROVE  IInv'
    <3>1. a \in Avatars /\ Alive(a) BY QueryTypes DEF IInv
    <3> QED BY <1>t, <2>1, <2>2, <3>1, OpeningSound, RequestMoves
  <2>3. CASE \E result \in Results : Answer(r, result)
    BY <1>t, <2>1, <2>3, AnswerStep
  <2> QED BY <1>5, <1>r, <2>2, <2>3 DEF UserAvatarContent
<1>6. ASSUME NEW r \in Requests, NEW u \in Users, NEW a \in Avatars, remove(r, u, a),
             UNCHANGED <<state, files, created, given>>
      PROVE  IInv'
  <2>1. CASE Answer(r, "forbidden") BY <1>t, <1>r, <1>6, <2>1, AnswerStep
  <2>2. CASE req' = [req EXCEPT ![r] = [AnyRequest EXCEPT !.pc = "soft", !.by = u, !.avatar = a]]
    <3> DEFINE q == [AnyRequest EXCEPT !.pc = "soft", !.by = u, !.avatar = a]
    <3>1. q \in WellTyped /\ q.pc = "soft" BY RequestTypes
    <3>2. req' = [req EXCEPT ![r] = q] BY <2>2
    <3> HIDE DEF q
    <3>3. RequestSound(q) BY <3>1 DEF RequestSound
    <3> QED BY <1>t, <1>6, <3>1, <3>2, <3>3, RequestMoves
  <2> QED BY <1>6, <2>1, <2>2 DEF remove
<1>7. ASSUME NEW r \in Requests, NEW u \in Users, NEW a \in Avatars, BeginDelete(r, u, a)
      PROVE  IInv'
  <2>1. UNCHANGED <<state, files, created, given>> BY <1>7 DEF BeginDelete
  <2>2. CASE \E result \in Results : Answer(r, result)
    BY <1>t, <2>1, <2>2, AnswerStep
  <2> QED BY <1>7, <1>r, <1>6, <2>1, <2>2 DEF BeginDelete
<1>8. ASSUME NEW r \in Requests, NEW u \in Users, NEW of \in Users, DeleteCurrent(r, u, of)
      PROVE  IInv'
  <2>1. UNCHANGED <<state, files, created, given>> BY <1>8 DEF DeleteCurrent
  <2>2. CASE \E result \in Results : Answer(r, result)
    BY <1>t, <2>1, <2>2, AnswerStep
  <2>3. \A a \in GetCurrent(of) : a \in Avatars BY QueryTypes DEF IInv
  <2> QED BY <1>8, <1>r, <1>6, <2>1, <2>2, <2>3 DEF DeleteCurrent
<1>9. ASSUME NEW a \in Avatars, Metadata(a) PROVE IInv'
  BY <1>9, LinkStep DEF Metadata, Get
<1>10. ASSUME NEW u \in Users, ListByUser(u) PROVE IInv'
  <2>1. \A i \in Positions(u) : created[i] \in Avatars /\ Alive(created[i])
    BY <1>t DEF Positions, Shown
  <2> QED BY <1>10, <2>1, LinkStep DEF ListByUser
<1>11. CASE UNCHANGED vars
  BY <1>11, <1>t, SafeStep DEF vars, avatarVars
<1> QED BY <1>1, <1>2, <1>3, <1>4, <1>5, <1>7, <1>8, <1>9, <1>10, <1>11 DEF Next

\* Before the first request the invariant holds.
LEMMA InitSafe == Init => IInv
<1> SUFFICES ASSUME Init PROVE IInv OBVIOUS
<1>1. AvatarInv
  BY DEF Init, AvatarInit, AvatarInv, AvatarTypeOK, StatesSound, FilesServable, Unknown, States,
         UploadStatus, ProcessingStatus, Shown, Alive, Doomed
<1>2. TypeOK BY <1>1, AnyRequestType DEF Init, TypeOK, AvatarInv
<1>3. RequestsSound /\ GivenSound
  BY AnyRequestType DEF Init, RequestsSound, RequestSound, GivenSound
<1> QED BY <1>1, <1>2, <1>3 DEF IInv

\* The invariant of reads holds in every behaviour.
LEMMA AlwaysIInv == Spec => []IInv
<1>1. IInv /\ [Next]_vars => IInv' BY NextSafe
<1> QED BY <1>1, InitSafe, PTL DEF Spec

\* The type invariant, for every number of avatars, users and requests; with it
\* that UserAvatarContent never hands out an answer to be kept for a day.
THEOREM ServingTypes == Spec => []TypeOK
<1>1. IInv => TypeOK BY DEF IInv
<1> QED BY <1>1, AlwaysIInv, PTL

\* A file that was read about in a shown row and is missing when it is opened was
\* removed because of a deletion: content.go may answer "not found", and the
\* placeholder, without looking again.
THEOREM MissingOnlyWhenGone == Spec => []MissingMeansGone
<1>1. IInv => MissingMeansGone
  <2> SUFFICES ASSUME IInv, NEW r \in Requests,
                      req[r].pc = "open", req[r].shown, req[r].key \notin files
               PROVE  Doomed(req[r].avatar)
    BY DEF MissingMeansGone, IInv
  <2> DEFINE a == req[r].avatar
  <2>1. a \in Avatars BY DEF IInv, TypeOK, WellTyped, Request
  <2>2. state[a].upload = "uploaded" /\ Refers(a, req[r].key)
    BY DEF IInv, RequestsSound, RequestSound
  <2>3. ASSUME ~state[a].deleted PROVE FALSE
    <3>1. Shown(a) BY <2>2, <2>3 DEF Shown, Alive
    <3> QED BY <2>1, <2>2, <3>1 DEF IInv, AvatarInv, FilesServable, Refers
  <2> QED BY <2>3 DEF Doomed
<1> QED BY <1>1, AlwaysIInv, PTL

\* What content.go lets caches keep for a day is what the server would answer for
\* as long as the avatar is shown.
THEOREM DayOldStaysTrue == Spec => []DayOldIsTrue
<1>1. IInv => DayOldIsTrue
  <2> SUFFICES ASSUME IInv, NEW g \in given, Shown(g.avatar)
               PROVE  Chosen(g.avatar, g.size).key = g.key
    BY DEF DayOldIsTrue
  <2> DEFINE a == g.avatar
  <2>1. a \in Avatars /\ g.size \in Sizes BY DEF IInv, TypeOK, Answers
  <2>2. Decided(a, g.size, g.key) BY DEF IInv, GivenSound
  <2>3. state[a].thumbs # {} => state[a].proc = "completed"
    BY <2>1 DEF IInv, AvatarInv, StatesSound
  <2>4. CASE g.size = 0 /\ g.key = OriginalKey(a) BY <2>4 DEF Chosen, OriginalKey
  <2>5. CASE g.size \in state[a].thumbs /\ g.key = ThumbnailKey(a, g.size)
    BY <2>1, <2>5, ReadySizes DEF Chosen, ThumbnailKey
  <2>6. CASE g.size # 0 /\ state[a].proc = "failed" /\ g.key = OriginalKey(a)
    <3>1. g.size \notin state[a].thumbs BY <2>3, <2>6
    <3> QED BY <2>1, <2>6, <3>1, ReadySizes DEF Chosen, OriginalKey
  <2> QED BY <2>2, <2>4, <2>5, <2>6 DEF Decided
<1> QED BY <1>1, AlwaysIInv, PTL
=============================================================================
