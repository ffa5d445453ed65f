------------------------------- MODULE Serving -------------------------------
(***************************************************************************)
(* The requests that read and delete avatars (service/content.go,          *)
(* delete.go, metadata.go), each a read of the table followed by a second  *)
(* call that acts on what was read, over rows and files that meanwhile     *)
(* live the life Avatar describes.                                         *)
(***************************************************************************)
EXTENDS Avatar, Sequences, FiniteSets

CONSTANTS
  Users,
  Owner,      \* user_id of each avatar
  Requests,   \* requests served at a time
  MayFail,    \* the object store and the database may fail
  MaxKept     \* bound: answers kept; a cache keeps an answer or does not

ASSUME ServingAssumption ==
  /\ Avatars # {} /\ Users # {}
  /\ Owner \in [Avatars -> Users] /\ MayFail \in BOOLEAN /\ MaxKept \in Nat

VARIABLES
  created,    \* the avatars in the order of created_at
  req,        \* the requests
  given       \* what clients keep, answers for a day and addresses of thumbnails:
              \* whose, what size, which file

vars == <<state, files, created, req, given>>

\* A size as ParseThumbnailSize returns it: 0 is the original.
Sizes == {0} \cup ThumbnailSizes

Keys == Avatars \X (0..NumSizes)

Ages == {"day", "minutes", "minute"}

\* "open" is a request for an image before storage.Get, "soft" one for a deletion
\* before SoftDelete.  "shown" remembers what the row was when it was read.
RequestPC == {"idle", "open", "soft"}

Results == {"none", "image", "placeholder", "not found", "forbidden", "error", "deleted"}

Request ==
  [pc : RequestPC, by : Users, avatar : Avatars, size : Sizes, key : Keys, age : Ages,
   current : BOOLEAN, shown : BOOLEAN, result : Results]

Answers == [avatar : Avatars, size : Sizes, key : Keys]

\* An answer at a user's address is never kept for a day.
WellTyped == {q \in Request : q.current => q.age # "day"}

TypeOK ==
  /\ AvatarTypeOK
  /\ created \in Seq(Avatars)
  /\ req \in [Requests -> WellTyped]
  /\ given \in SUBSET Answers

AnyRequest ==
  LET a == CHOOSE a \in Avatars : TRUE IN
  [pc |-> "idle", by |-> CHOOSE u \in Users : TRUE, avatar |-> a, size |-> 0,
   key |-> OriginalKey(a), age |-> "day", current |-> FALSE, shown |-> FALSE, result |-> "none"]

Init == AvatarInit /\ created = <<>> /\ req = [r \in Requests |-> AnyRequest] /\ given = {}
-----------------------------------------------------------------------------
(* The queries. *)

\* The user's avatars that are shown, as positions in created.
Positions(u) == {i \in DOMAIN created : Owner[created[i]] = u /\ Shown(created[i])}

\* ORDER BY created_at DESC LIMIT 1: one avatar, or none.
GetCurrent(u) ==
  {created[i] : i \in {j \in Positions(u) : \A k \in Positions(u) : k <= j}}

\* Get, for an id: a live row whatever its upload status.
Get(a) == {b \in {a} : Alive(b)}

\* Avatar.Thumbnail: the sizes that are ready.
Thumbnail(a) == IF state[a].proc = "completed" THEN state[a].thumbs ELSE {}

\* Mutants: a thumbnail that is being made is cached for a day as the original;
\* a thumbnail is looked for before its key is recorded.
Chosen_ProcessingKept(a, size) ==
  IF size = 0 \/ size \in Thumbnail(a)
  THEN [key |-> <<a, size>>, age |-> "day"]
  ELSE [key |-> OriginalKey(a),
        age |-> IF state[a].proc = "pending" THEN "minute" ELSE "day"]

Chosen_Unrecorded(a, size) ==
  [key |-> <<a, size>>, age |-> IF state[a].proc = "failed" THEN "day" ELSE "minute"]

\* Service.content: the file and the age it may reach in a cache.
Chosen(a, size) ==
  IF size = 0 \/ size \in Thumbnail(a)
  THEN [key |-> <<a, size>>, age |-> "day"]
  ELSE [key |-> OriginalKey(a),
        age |-> IF state[a].proc # "failed" THEN "minute" ELSE "day"]
-----------------------------------------------------------------------------
(* The requests. *)

Answer(r, result) == req' = [req EXCEPT ![r] = [AnyRequest EXCEPT !.result = result]]

Opening(a, size, current) ==
  [AnyRequest EXCEPT !.pc = "open", !.avatar = a, !.size = size, !.current = current,
                 !.key = Chosen(a, size).key, !.age = Chosen(a, size).age,
                 !.shown = Shown(a)]

\* AvatarContent: the row.
AvatarContent(r, a, size) ==
  /\ req[r].pc = "idle"
  /\ \/ /\ a \in Get(a)
        /\ req' = [req EXCEPT ![r] = Opening(a, size, FALSE)]
     \/ Get(a) = {} /\ Answer(r, "not found")
     \/ MayFail /\ Answer(r, "error")
  /\ UNCHANGED <<state, files, created, given>>

\* UserAvatarContent: the row of the current avatar.  min(maxAge, cacheCurrent)
\* leaves "minute" and turns "day" into "minutes".
Capped(q) == IF q.age = "day" THEN [q EXCEPT !.age = "minutes"] ELSE q

UserAvatarContent(r, u, size) ==
  /\ req[r].pc = "idle"
  /\ \/ \E a \in GetCurrent(u) :
          req' = [req EXCEPT ![r] = Capped(Opening(a, size, TRUE))]
     \/ GetCurrent(u) = {} /\ Answer(r, "placeholder")
     \/ MayFail /\ Answer(r, "error")
  /\ UNCHANGED <<state, files, created, given>>

\* storage.Get.  A missing object is 404, or the placeholder for the current avatar.
Open(r) ==
  LET q == req[r] IN
  /\ q.pc = "open"
  /\ \/ /\ q.key \in files /\ Answer(r, "image")
        /\ \/ UNCHANGED given
           \/ /\ q.age = "day" /\ Cardinality(given) < MaxKept
              /\ given' = given \cup {[avatar |-> q.avatar, size |-> q.size, key |-> q.key]}
     \/ /\ q.key \notin files
        /\ Answer(r, IF q.current THEN "placeholder" ELSE "not found")
        /\ UNCHANGED given
     \/ MayFail /\ Answer(r, "error") /\ UNCHANGED given
  /\ UNCHANGED <<state, files, created>>

\* newMetadataResponse: the address of every thumbnail that is ready.
newMetadataResponse(a) ==
  {[avatar |-> a, size |-> s, key |-> ThumbnailKey(a, s)] : s \in Thumbnail(a)}

\* A client keeps one of the addresses it was answered with.
KeepLink(as) ==
  /\ Cardinality(given) < MaxKept
  /\ \E a \in as : \E g \in newMetadataResponse(a) : given' = given \cup {g}
  /\ UNCHANGED <<state, files, created, req>>

\* One query each.
Metadata(a) == KeepLink(Get(a))

ListByUser(u) == KeepLink({created[i] : i \in Positions(u)})

\* Service.remove up to SoftDelete.
remove(r, u, a) ==
  IF Owner[a] # u
  THEN Answer(r, "forbidden")
  ELSE req' = [req EXCEPT ![r] = [AnyRequest EXCEPT !.pc = "soft", !.by = u, !.avatar = a]]

\* Delete and DeleteCurrent: the row.  An id that was learned from an answer is
\* one of an upload that ended.
BeginDelete(r, u, a) ==
  /\ req[r].pc = "idle" /\ state[a].upload = "uploaded"
  /\ \/ a \in Get(a) /\ remove(r, u, a)
     \/ Get(a) = {} /\ Answer(r, "not found")
     \/ MayFail /\ Answer(r, "error")
  /\ UNCHANGED <<state, files, created, given>>

DeleteCurrent(r, u, of) ==
  /\ req[r].pc = "idle"
  /\ \/ \E a \in GetCurrent(of) : remove(r, u, a)
     \/ GetCurrent(of) = {} /\ Answer(r, "not found")
     \/ MayFail /\ Answer(r, "error")
  /\ UNCHANGED <<state, files, created, given>>

\* repo.SoftDelete; its answer may get lost.
SoftDelete(r) ==
  LET a == req[r].avatar IN
  /\ req[r].pc = "soft"
  /\ \/ Delete(a) /\ (Answer(r, "deleted") \/ (MayFail /\ Answer(r, "error")))
     \/ ~Alive(a) /\ Answer(r, "not found") /\ UNCHANGED avatarVars
     \/ MayFail /\ Answer(r, "error") /\ UNCHANGED avatarVars
  /\ UNCHANGED <<created, given>>

\* Everything else that happens to the avatars meanwhile.
Live ==
  /\ \/ \E a \in Avatars :
          AvatarStep(a) /\ created' = IF Register(a) THEN Append(created, a) ELSE created
     \/ \E as \in SUBSET Avatars : FailUploads(as) /\ UNCHANGED created
  /\ UNCHANGED <<req, given>>

Next ==
  \/ Live
  \/ \E a \in Avatars : Metadata(a)
  \/ \E u \in Users : ListByUser(u)
  \/ \E r \in Requests :
       \/ Open(r) \/ SoftDelete(r)
       \/ \E a \in Avatars, size \in Sizes : AvatarContent(r, a, size)
       \/ \E u \in Users, size \in Sizes : UserAvatarContent(r, u, size)
       \/ \E u \in Users, a \in Avatars : BeginDelete(r, u, a)
       \/ \E u \in Users, of \in Users : DeleteCurrent(r, u, of)

Spec == Init /\ [][Next]_vars
-----------------------------------------------------------------------------
(* Properties. *)

\* What a client keeps, a cached answer for a day or the address of a thumbnail that
\* metadata and lists gave it, stays true: as long as the avatar is shown the
\* server would answer the same request with the same file, although processing
\* went on, failed or was repeated after the answer was given.
DayOldIsTrue ==
  \A g \in given : Shown(g.avatar) => Chosen(g.avatar, g.size).key = g.key

\* The types, and a file that a request read about in a shown row and does not find is missing
\* because the avatar was deleted in between: never because processing or a
\* cleanup was ahead of the row or behind it.
MissingMeansGone ==
  /\ TypeOK
  /\ \A r \in Requests :
       LET q == req[r] IN
       q.pc = "open" /\ q.shown /\ q.key \notin files => Doomed(q.avatar)
-----------------------------------------------------------------------------
(* The inductive invariant: what a request that is under way, and an answer  *)
(* that was given, still have to do with the row they came from.             *)

\* The file is one the row refers to.
Refers(a, key) ==
  key = OriginalKey(a) \/ \E s \in state[a].thumbs : key = ThumbnailKey(a, s)

\* The answer for a size is decided: it is the original itself, a recorded
\* thumbnail, or the original for good, because processing failed.
Decided(a, size, key) ==
  /\ state[a].upload # "none"
  /\ \/ size = 0 /\ key = OriginalKey(a)
     \/ size \in state[a].thumbs /\ key = ThumbnailKey(a, size)
     \/ size # 0 /\ state[a].proc = "failed" /\ key = OriginalKey(a)

RequestSound(q) ==
  q.pc = "open" =>
    /\ q.shown => state[q.avatar].upload = "uploaded" /\ Refers(q.avatar, q.key)
    /\ q.age = "day" => Decided(q.avatar, q.size, q.key)

RequestsSound == \A r \in Requests : RequestSound(req[r])

GivenSound == \A g \in given : Decided(g.avatar, g.size, g.key)

IInv == TypeOK /\ AvatarInv /\ RequestsSound /\ GivenSound
=============================================================================
