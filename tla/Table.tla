------------------------------- MODULE Table -------------------------------
(***************************************************************************)
(* The avatars table with several rows: which row the queries that order   *)
(* and limit pick while uploads overlap, owners delete their current       *)
(* avatar and the reconciler works through its batches.  A row is reduced  *)
(* to what these queries look at.  Avatars are numbered by created_at; of  *)
(* updated_at there is the order, in which rows written by one UPDATE are  *)
(* equal.  An event is handled in the step that publishes it: Lifecycle    *)
(* has the two apart, with one row.                                        *)
(***************************************************************************)
EXTENDS Naturals, Sequences, FiniteSets, Functions

CONSTANTS
  NumAvatars,    \* bound: rows
  Users,
  Owner,         \* user_id of each avatar
  Batch,         \* RECONCILE_BATCH
  Unremovable,   \* avatars whose files the storage never gives up
  MaxDeletes,    \* bound: requests for deletion at a time
  MaxFaults      \* bound: calls that fail or whose answer is lost

Avatars == 1..NumAvatars

ASSUME TableAssumption ==
  /\ NumAvatars \in Nat \ {0} /\ Owner \in [Avatars -> Users]
  /\ Batch \in Nat \ {0} /\ Unremovable \subseteq Avatars /\ MaxDeletes \in Nat /\ MaxFaults \in Nat

VARIABLES
  row,        \* the columns
  earlier,    \* of each row, the rows whose updated_at is earlier
  old,        \* the rows whose updated_at is older than StuckAfter
  pass,       \* the reconciler: its step and the rows it still has to publish
  req,        \* how many requests have read an avatar as current and go on to delete it
  answered,   \* avatars whose upload was answered with success
  deletions,  \* deletions that were answered with success or whose answer was lost
  faults

vars == <<row, earlier, old, pass, req, answered, deletions, faults>>

Rows ==
  [upload : {"none", "uploading", "uploaded", "failed"}, started : BOOLEAN,
   deleted : BOOLEAN, removed : BOOLEAN]

TypeOK ==
  /\ row \in [Avatars -> Rows]
  /\ earlier \in [Avatars -> SUBSET Avatars] /\ old \subseteq Avatars
  /\ pass \in [step : {"stuck", "uploads", "cleanups"}, todo : Seq(Avatars)]
  /\ req \in [Avatars -> Nat]
  /\ answered \subseteq Avatars /\ deletions \in Nat /\ faults \in 0..MaxFaults

NoRow == [upload |-> "none", started |-> FALSE, deleted |-> FALSE, removed |-> FALSE]

Init ==
  /\ row = [a \in Avatars |-> NoRow] /\ earlier = [a \in Avatars |-> {}] /\ old = {}
  /\ pass = [step |-> "cleanups", todo |-> <<>>]
  /\ req = [a \in Avatars |-> 0]
  /\ answered = {} /\ deletions = 0 /\ faults = MaxFaults

Fault == faults > 0 /\ faults' = faults - 1

Works == UNCHANGED faults

Alive(a) == row[a].upload # "none" /\ ~row[a].deleted

Shown(a) == Alive(a) /\ row[a].upload = "uploaded"

Existing == {a \in Avatars : row[a].upload # "none"}

\* The rows of a set get one and the same NOW(): they come last in the order and are young.
Touch(as) ==
  /\ earlier' = [a \in Avatars |-> IF a \in as THEN Existing \ as ELSE earlier[a] \ as]
  /\ old' = old \ as

Write(a, r) == row' = [row EXCEPT ![a] = r] /\ Touch({a})
-----------------------------------------------------------------------------
(* The queries. *)

\* What listUserAvatarsQuery selects.
Listed(u) == {a \in Avatars : Owner[a] = u /\ Shown(a)}

\* listUserAvatarsQuery, newest first: the i-th has i rows that are not older.
ListByUser(u) ==
  [i \in 1..Cardinality(Listed(u)) |->
     CHOOSE a \in Listed(u) : Cardinality({b \in Listed(u) : b >= a}) = i]

\* Mutant: the avatar that changed last is the current one.
GetCurrent_LastChanged(u) ==
  {a \in Listed(u) : \A b \in Listed(u) : a \notin earlier[b]}

\* getCurrentAvatarQuery: one avatar or none.
GetCurrent(u) ==
  {a \in Avatars : /\ Owner[a] = u /\ Shown(a)
                   /\ \A b \in Avatars : Owner[b] = u /\ Shown(b) => b <= a}

\* newGalleryView: the card with the badge.
Badge(u) == {ListByUser(u)[i] : i \in {1} \cap DOMAIN ListByUser(u)}

\* ORDER BY updated_at LIMIT $n over the rows of a set older than the limit: the answers
\* the database may give, as it orders rows with the same updated_at in any way.
Oldest(as) ==
  LET due == as \cap old
      n   == IF Cardinality(due) < Batch THEN Cardinality(due) ELSE Batch
  IN {s \in [1..n -> due] :
        /\ \A i, j \in 1..n : i < j => s[i] # s[j] /\ s[j] \notin earlier[s[i]]
        /\ \A i \in 1..n : \A a \in due \cap earlier[s[i]] : \E j \in 1..n : s[j] = a}

SelectStuck == Oldest({a \in Avatars : Shown(a) /\ ~row[a].started})

\* Mutant: rows that are cleaned already are selected again.
SelectUncleaned_Removed == Oldest({a \in Avatars : row[a].deleted \/ row[a].upload = "failed"})

SelectUncleaned ==
  Oldest({a \in Avatars : ~row[a].removed /\ (row[a].deleted \/ row[a].upload = "failed")})
-----------------------------------------------------------------------------
(* The worker's part of an event: the row after it. *)

\* An upload event: whatever comes of it, the row leaves pending.
Processed(r) == IF r.upload = "uploaded" /\ ~r.deleted THEN [r EXCEPT !.started = TRUE] ELSE r

\* A delete event: DeleteMany and MarkFilesRemoved.  When the files cannot be
\* removed the message ends in the dead letter queue.
Cleaned(a, r) == IF a \in Unremovable THEN r ELSE [r EXCEPT !.removed = TRUE]
-----------------------------------------------------------------------------
(* Uploads.  Each runs in a request of its own, and may never go on. *)

Create(a) ==
  /\ row[a].upload = "none" /\ \A b \in 1..(a - 1) : row[b].upload # "none"
  /\ Write(a, [row[a] EXCEPT !.upload = "uploading"])
  /\ UNCHANGED <<pass, req, answered, deletions, faults>>

\* SetUploadStatus(uploaded), and Publish, whose failure is left to the
\* reconciler.  Or the answer of the database is lost and with it the event.
Finish(a) ==
  LET up == [row[a] EXCEPT !.upload = "uploaded"] IN
  /\ row[a].upload = "uploading"
  /\ \/ Works /\ Write(a, Processed(up)) /\ answered' = answered \cup {a}
     \/ Fault /\ Write(a, up) /\ answered' = answered \cup {a}
     \/ Fault /\ Write(a, up) /\ UNCHANGED answered
  /\ UNCHANGED <<pass, req, deletions>>

\* markFailed, after the storage failed.
Fail(a) ==
  /\ row[a].upload = "uploading" /\ Fault
  /\ Write(a, [row[a] EXCEPT !.upload = "failed"])
  /\ UNCHANGED <<pass, req, answered, deletions>>
-----------------------------------------------------------------------------
(* DeleteCurrent. *)

DeleteCurrent(u) ==
  /\ FoldFunction(+, 0, req) < MaxDeletes
  /\ \E a \in GetCurrent(u) : req' = [req EXCEPT ![a] = @ + 1]
  /\ UNCHANGED <<row, earlier, old, pass, answered, deletions, faults>>

\* Mutant: a row that is deleted already is deleted again.
SoftDelete_Again(a) ==
  /\ req[a] > 0 /\ req' = [req EXCEPT ![a] = @ - 1]
  /\ Write(a, [row[a] EXCEPT !.deleted = TRUE]) /\ deletions' = deletions + 1
  /\ Works
  /\ UNCHANGED <<pass, answered>>

\* remove: SoftDelete, and Publish or else removeFiles, which clean alike.  When
\* these fail, or the answer of SoftDelete is lost, the reconciler is left.
SoftDelete(a) ==
  LET gone == [row[a] EXCEPT !.deleted = TRUE] IN
  /\ req[a] > 0 /\ req' = [req EXCEPT ![a] = @ - 1]
  /\ \/ /\ Alive(a) /\ deletions' = deletions + 1
        /\ \/ Works /\ Write(a, Cleaned(a, gone))
           \/ Fault /\ Write(a, gone)
     \/ ~Alive(a) /\ Works /\ UNCHANGED <<row, earlier, old, deletions>>
  /\ UNCHANGED <<pass, answered>>
-----------------------------------------------------------------------------
(* The reconciler. *)

Idle == pass = [step |-> "cleanups", todo |-> <<>>]

\* Time passes.  A pass computes "before" once, so that rows that age while it
\* lasts are old for the next one only.
Age ==
  /\ Idle /\ Existing \ old # {}
  /\ old' = old \cup {a \in Existing : earlier[a] \subseteq old}
  /\ UNCHANGED <<row, earlier, pass, req, answered, deletions, faults>>

\* A tick begins a pass with FailStaleUploads; its failure does not end the pass.
FailStaleUploads ==
  LET stale == {a \in old : Alive(a) /\ row[a].upload = "uploading"} IN
  /\ Idle /\ pass' = [step |-> "stuck", todo |-> <<>>]
  /\ \/ /\ Works /\ Touch(stale)
        /\ row' = [a \in Avatars |-> IF a \in stale THEN [row[a] EXCEPT !.upload = "failed"]
                                    ELSE row[a]]
     \/ Fault /\ UNCHANGED <<row, earlier, old>>
  /\ UNCHANGED <<req, answered, deletions>>

\* The query of a step; when it fails the step has nothing to do.
Select(from, to, answers) ==
  /\ pass = [step |-> from, todo |-> <<>>]
  /\ \/ Works /\ \E rows \in answers : pass' = [step |-> to, todo |-> rows]
     \/ Fault /\ pass' = [step |-> to, todo |-> <<>>]
  /\ UNCHANGED <<row, earlier, old, req, answered, deletions>>

\* One publication of a step; a failure ends the step, not the pass.
RepublishUpload ==
  LET a == Head(pass.todo) IN
  /\ pass.step = "uploads" /\ pass.todo # <<>>
  /\ \/ /\ Works /\ pass' = [pass EXCEPT !.todo = Tail(@)]
        /\ IF row[a] = Processed(row[a]) THEN UNCHANGED <<row, earlier, old>>
           ELSE Write(a, Processed(row[a]))
     \/ Fault /\ pass' = [pass EXCEPT !.todo = <<>>] /\ UNCHANGED <<row, earlier, old>>
  /\ UNCHANGED <<req, answered, deletions>>

\* MarkFilesRemoved leaves updated_at as it is.
RepublishCleanup ==
  LET a == Head(pass.todo) IN
  /\ pass.step = "cleanups" /\ pass.todo # <<>>
  /\ \/ /\ Works /\ pass' = [pass EXCEPT !.todo = Tail(@)]
        /\ row' = [row EXCEPT ![a] = Cleaned(a, @)]
     \/ Fault /\ pass' = [pass EXCEPT !.todo = <<>>] /\ UNCHANGED row
  /\ UNCHANGED <<earlier, old, req, answered, deletions>>

republishUploads == Select("stuck", "uploads", SelectStuck) \/ RepublishUpload

republishCleanups == Select("uploads", "cleanups", SelectUncleaned) \/ RepublishCleanup

reconcile == FailStaleUploads \/ republishUploads \/ republishCleanups
-----------------------------------------------------------------------------
Next ==
  \/ \E a \in Avatars : Create(a) \/ Finish(a) \/ Fail(a)
  \/ \E a \in Avatars : SoftDelete(a)
  \/ \E u \in Users : DeleteCurrent(u)
  \/ Age \/ reconcile

Spec == Init /\ [][Next]_vars

\* Time passes between passes, and the ticker ticks.
Fairness == SF_vars(Age) /\ WF_vars(reconcile)

FairSpec == Spec /\ Fairness
-----------------------------------------------------------------------------
(* Properties. *)

\* The types, and an answered upload is not overtaken from behind: as long as it is
\* not deleted the user's current avatar is this one or one created after it,
\* in whatever order uploads end, fail, are processed or are given up.  The
\* gallery shows it, with the badge on the avatar that is served.
AnsweredStaysCurrent ==
  /\ TypeOK
  /\ \A a \in answered : ~row[a].deleted =>
       /\ \E b \in GetCurrent(Owner[a]) : b >= a
       /\ \E i \in DOMAIN ListByUser(Owner[a]) : ListByUser(Owner[a])[i] = a
  /\ \A u \in Users : Badge(u) = GetCurrent(u)

\* Requests to delete the current avatar that race or are repeated remove one
\* avatar each: the number of avatars gone is that of the successful requests.
OneDeletionEach == Cardinality({a \in Avatars : row[a].deleted}) = deletions

\* No row waits for ever behind others: with fewer rows than a batch whose files
\* cannot be removed, every other row that is to be cleaned is cleaned, and every
\* upload whose event was lost is processed, though a pass takes a batch only.
BacklogDrains ==
  Cardinality(Unremovable) < Batch =>
    \A a \in Avatars :
      /\ (Alive(a) /\ row[a].upload = "uploading") ~> (row[a].upload # "uploading")
      /\ Shown(a) ~> (row[a].started \/ row[a].deleted)
      /\ (a \notin Unremovable /\ (row[a].deleted \/ row[a].upload = "failed")) ~> row[a].removed
-----------------------------------------------------------------------------
(* What the properties rest on. *)

\* An answered upload is there, and what is to be deleted was shown: neither comes back.
RowsSound ==
  /\ \A a \in answered : row[a].upload = "uploaded"
  /\ \A a \in Avatars : row[a].deleted \/ req[a] > 0 => row[a].upload = "uploaded"

\* The order of updated_at is one of moments: rows are before, after or at the same time.
OrderSound ==
  /\ \A a \in Avatars : earlier[a] \subseteq Existing \ {a}
  /\ \A a \in Avatars : \A b \in earlier[a] : earlier[b] \subseteq earlier[a]
  /\ \A a, b \in Existing : a \notin earlier[b] /\ b \notin earlier[a] => earlier[a] = earlier[b]
  /\ old \subseteq Existing /\ \A a \in old : earlier[a] \subseteq old

IInv == TypeOK /\ RowsSound /\ OrderSound /\ OneDeletionEach
=============================================================================
