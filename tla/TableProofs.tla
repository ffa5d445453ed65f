---------------------------- MODULE TableProofs ----------------------------
(***************************************************************************)
(* The safety properties of Table, for any number of avatars, users and    *)
(* requests, any batch and any failures.                                   *)
(***************************************************************************)
EXTENDS Table, FiniteSetTheorems, TLAPS

\* Sets of rows are finite.
LEMMA RowSets ==
  ASSUME NEW S \in SUBSET Avatars
  PROVE  IsFiniteSet(S) /\ Cardinality(S) \in Nat
<1>1. IsFiniteSet(Avatars) BY TableAssumption, FS_Interval DEF Avatars
<1>2. IsFiniteSet(S) BY <1>1, FS_Subset
<1> QED BY <1>2, FS_CardinalityType

-----------------------------------------------------------------------------
(* The queries that order. *)

\* The rows of a set that are not older than one of them.
Newer(S, a) == {b \in S : b >= a}

\* Of two rows the newer one has fewer rows that are not older.
LEMMA NewerIsLess ==
  ASSUME NEW S \in SUBSET Avatars, NEW a \in S, NEW b \in S, a < b
  PROVE  Cardinality(Newer(S, b)) < Cardinality(Newer(S, a))
<1>1. a \in Nat /\ b \in Nat /\ \A c \in S : c \in Nat BY TableAssumption DEF Avatars
<1>2. Newer(S, b) \in SUBSET Newer(S, a) /\ a \in Newer(S, a) /\ a \notin Newer(S, b)
  <2>1. \A c \in S : c >= b => c >= a BY <1>1
  <2>2. a >= a /\ ~(a >= b) BY <1>1
  <2> QED BY <2>1, <2>2 DEF Newer
<1>3. IsFiniteSet(Newer(S, a)) /\ Cardinality(Newer(S, a)) \in Nat BY RowSets DEF Newer
<1>4. Cardinality(Newer(S, b)) \in Nat BY RowSets DEF Newer
<1>5. Cardinality(Newer(S, b)) <= Cardinality(Newer(S, a)) BY <1>2, <1>3, FS_Subset
<1>6. Cardinality(Newer(S, b)) # Cardinality(Newer(S, a)) BY <1>2, <1>3, FS_Subset
<1> QED BY <1>3, <1>4, <1>5, <1>6

\* Counting the rows that are not older numbers the rows of a set from 1 on.
LEMMA Numbered ==
  ASSUME NEW S \in SUBSET Avatars
  PROVE  /\ \A a \in S : Cardinality(Newer(S, a)) \in 1..Cardinality(S)
         /\ \A i \in 1..Cardinality(S) : \E a \in S : Cardinality(Newer(S, a)) = i
         /\ \A a, b \in S : Cardinality(Newer(S, a)) = Cardinality(Newer(S, b)) => a = b
<1> DEFINE n == Cardinality(S)
           f == [a \in S |-> Cardinality(Newer(S, a))]
<1>1. IsFiniteSet(S) /\ n \in Nat BY RowSets
<1>2. ASSUME NEW a \in S PROVE Cardinality(Newer(S, a)) \in 1..n
  <2>1. Newer(S, a) \in SUBSET S BY DEF Newer
  <2>2. IsFiniteSet(Newer(S, a)) /\ Cardinality(Newer(S, a)) \in Nat BY RowSets DEF Newer
  <2>3. Cardinality(Newer(S, a)) <= n BY <1>1, <2>1, FS_Subset
  <2>4. a \in Newer(S, a) BY TableAssumption DEF Newer, Avatars
  <2>5. Cardinality(Newer(S, a)) # 0 BY <2>2, <2>4, FS_EmptySet
  <2> QED BY <1>1, <2>2, <2>3, <2>5
<1>3. ASSUME NEW a \in S, NEW b \in S, a # b PROVE Cardinality(Newer(S, a)) # Cardinality(Newer(S, b))
  <2>1. a < b \/ b < a BY <1>3, TableAssumption DEF Avatars
  <2>2. Cardinality(Newer(S, a)) \in Nat /\ Cardinality(Newer(S, b)) \in Nat BY <1>2
  <2> QED BY <2>1, <2>2, NewerIsLess
<1>4. f \in Injection(S, 1..n) BY <1>2, <1>3 DEF Injection, IsInjective
<1>5. IsFiniteSet(1..n) /\ Cardinality(1..n) = n BY <1>1, FS_Interval
<1>6. f \in Surjection(S, 1..n) BY <1>4, <1>5, FS_Injection
<1>7. \A i \in 1..n : \E a \in S : Cardinality(Newer(S, a)) = i BY <1>6 DEF Surjection
<1> QED BY <1>2, <1>3, <1>7

\* A set of rows has a newest one, the one that is numbered 1.
LEMMA Newest ==
  ASSUME NEW S \in SUBSET Avatars, S # {}
  PROVE  /\ \E a \in S : \A b \in S : b <= a
         /\ \A a \in S : Cardinality(Newer(S, a)) = 1 <=> \A b \in S : b <= a
<1>1. \A a \in S : a \in Nat BY TableAssumption DEF Avatars
<1>2. \A a \in S : IsFiniteSet(Newer(S, a)) /\ a \in Newer(S, a) BY <1>1, RowSets DEF Newer
<1>3. ASSUME NEW a \in S PROVE Cardinality(Newer(S, a)) = 1 <=> \A b \in S : b <= a
  <2>1. Cardinality(Newer(S, a)) = 1 <=> \E x : Newer(S, a) = {x} BY <1>2, FS_Singleton
  <2>2. (\E x : Newer(S, a) = {x}) <=> Newer(S, a) = {a} BY <1>2
  <2>3. Newer(S, a) = {a} <=> \A b \in S : b <= a
    <3>1. ASSUME Newer(S, a) = {a}, NEW b \in S PROVE b <= a
      <4>1. b >= a => b = a BY <3>1 DEF Newer
      <4> QED BY <1>1, <4>1
    <3>2. ASSUME \A b \in S : b <= a PROVE Newer(S, a) = {a}
      <4>1. \A b \in S : b >= a <=> b = a BY <1>1, <3>2
      <4> QED BY <4>1 DEF Newer
    <3> QED BY <3>1, <3>2
  <2> QED BY <2>1, <2>2, <2>3
<1>4. 1 \in 1..Cardinality(S)
  <2>1. IsFiniteSet(S) /\ Cardinality(S) \in Nat BY RowSets
  <2>2. Cardinality(S) # 0 BY <2>1, FS_EmptySet
  <2> QED BY <2>1, <2>2
<1>5. \E a \in S : Cardinality(Newer(S, a)) = 1 BY <1>4, Numbered
<1> QED BY <1>3, <1>5

\* The list has every row that is shown once, and its first row is the current one.
LEMMA ListFacts ==
  ASSUME NEW u
  PROVE  /\ \A a \in Listed(u) : \E i \in DOMAIN ListByUser(u) : ListByUser(u)[i] = a
         /\ Badge(u) = GetCurrent(u)
<1> DEFINE S == Listed(u)
           n == Cardinality(S)
<1>0. S \in SUBSET Avatars BY DEF Listed
<1>1. n \in Nat /\ IsFiniteSet(S) BY <1>0, RowSets
<1>2. DOMAIN ListByUser(u) = 1..n BY DEF ListByUser
<1>3. ASSUME NEW i \in 1..n
      PROVE  ListByUser(u)[i] \in S /\ Cardinality(Newer(S, ListByUser(u)[i])) = i
  <2>1. \E a \in S : Cardinality(Newer(S, a)) = i BY <1>0, Numbered
  <2>2. ListByUser(u)[i] = CHOOSE a \in S : Cardinality(Newer(S, a)) = i BY DEF ListByUser, Newer
  <2> QED BY <2>1, <2>2
<1>4. ASSUME NEW a \in S PROVE \E i \in DOMAIN ListByUser(u) : ListByUser(u)[i] = a
  <2> DEFINE i == Cardinality(Newer(S, a))
  <2>1. i \in 1..n BY <1>0, Numbered
  <2>2. ListByUser(u)[i] = a BY <1>0, <1>3, <2>1, Numbered
  <2> QED BY <1>2, <2>1, <2>2
<1>5. GetCurrent(u) = {a \in S : \A b \in S : b <= a} BY DEF GetCurrent, Listed
<1>6. CASE S = {}
  <2>1. n = 0 BY <1>6, FS_EmptySet
  <2>2. {1} \cap DOMAIN ListByUser(u) = {} BY <1>2, <2>1
  <2>3. Badge(u) = {} BY <2>2 DEF Badge
  <2> QED BY <1>4, <1>5, <1>6, <2>3
<1>7. CASE S # {}
  <2>1. n # 0 BY <1>1, <1>7, FS_EmptySet
  <2>2. 1 \in 1..n BY <1>1, <2>1
  <2>3. Badge(u) = {ListByUser(u)[1]} BY <1>2, <2>2 DEF Badge
  <2>4. ListByUser(u)[1] \in S /\ Cardinality(Newer(S, ListByUser(u)[1])) = 1 BY <1>3, <2>2
  <2>5. \A a \in S : (\A b \in S : b <= a) <=> Cardinality(Newer(S, a)) = 1 BY <1>0, <1>7, Newest
  <2>6. \A a, b \in S : Cardinality(Newer(S, a)) = Cardinality(Newer(S, b)) => a = b BY <1>0, Numbered
  <2>7. \A a : a \in GetCurrent(u) <=> a = ListByUser(u)[1] BY <1>5, <2>4, <2>5, <2>6
  <2> QED BY <1>4, <2>3, <2>7
<1> QED BY <1>6, <1>7
-----------------------------------------------------------------------------
(* The steps. *)

\* What the answers of an ordered query are made of.
LEMMA BatchType ==
  ASSUME NEW as \in SUBSET Avatars, NEW s \in Oldest(as)
  PROVE  s \in Seq(Avatars)
<1> DEFINE due == as \cap old
           n   == IF Cardinality(due) < Batch THEN Cardinality(due) ELSE Batch
<1>1. Cardinality(due) \in Nat BY RowSets
<1>2. n \in Nat BY <1>1, TableAssumption
<1>3. s \in [1..n -> due] BY DEF Oldest
<1> HIDE DEF n
<1>4. PICK k \in Nat : k = n BY <1>2
<1>5. s \in [1..k -> Avatars] BY <1>3, <1>4
<1>6. s = [i \in 1..k |-> s[i]] /\ \A i \in 1..k : s[i] \in Avatars BY <1>5
<1> QED BY <1>6

\* A write of one row or of several keeps the order one of moments.
LEMMA TouchStep ==
  ASSUME TypeOK, OrderSound, NEW as \in SUBSET Avatars, Touch(as),
         Existing' = Existing \cup as
  PROVE  /\ earlier' \in [Avatars -> SUBSET Avatars] /\ old' \subseteq Avatars
         /\ OrderSound'
<1>0. /\ earlier \in [Avatars -> SUBSET Avatars] /\ old \subseteq Avatars
      /\ Existing \subseteq Avatars /\ Existing' \subseteq Avatars
  BY DEF TypeOK, Existing
<1>1. /\ \A a \in Avatars : earlier'[a] = IF a \in as THEN Existing \ as ELSE earlier[a] \ as
      /\ earlier' \in [Avatars -> SUBSET Avatars] /\ old' = old \ as
  BY <1>0 DEF Touch
<1>2. ASSUME NEW a \in Avatars PROVE earlier'[a] \subseteq Existing' \ {a}
  <2>1. CASE a \in as BY <1>1, <2>1
  <2>2. CASE a \notin as
    <3>1. earlier'[a] = earlier[a] \ as BY <1>1, <2>2
    <3>2. earlier[a] \subseteq Existing \ {a} BY DEF OrderSound
    <3> QED BY <3>1, <3>2
  <2> QED BY <2>1, <2>2
<1>3. \A a \in Avatars : \A b \in earlier'[a] : earlier'[b] \subseteq earlier'[a]
  <2> SUFFICES ASSUME NEW a \in Avatars, NEW b \in earlier'[a] PROVE earlier'[b] \subseteq earlier'[a] OBVIOUS
  <2>1. b \in Avatars /\ b \notin as /\ earlier'[b] = earlier[b] \ as BY <1>0, <1>1
  <2>2. earlier[b] \subseteq Existing BY <2>1 DEF OrderSound
  <2>3. CASE a \in as BY <1>1, <2>1, <2>2, <2>3
  <2>4. CASE a \notin as
    <3>1. b \in earlier[a] BY <1>1, <2>4
    <3>2. earlier[b] \subseteq earlier[a] BY <3>1 DEF OrderSound
    <3> QED BY <1>1, <2>1, <2>4, <3>2
  <2> QED BY <2>3, <2>4
<1>4. \A a, b \in Existing' : a \notin earlier'[b] /\ b \notin earlier'[a] => earlier'[a] = earlier'[b]
  <2> SUFFICES ASSUME NEW a \in Existing', NEW b \in Existing', a \notin earlier'[b], b \notin earlier'[a]
               PROVE  earlier'[a] = earlier'[b]
    OBVIOUS
  <2>1. a \in Avatars /\ b \in Avatars BY <1>0
  <2>2. CASE a \in as BY <1>1, <2>1, <2>2
  <2>3. CASE b \in as BY <1>1, <2>1, <2>3
  <2>4. CASE a \notin as /\ b \notin as
    <3>1. a \in Existing /\ b \in Existing /\ a \notin earlier[b] /\ b \notin earlier[a] BY <1>1, <2>1, <2>4
    <3>2. earlier[a] = earlier[b] BY <3>1 DEF OrderSound
    <3> QED BY <1>1, <2>1, <2>4, <3>2
  <2> QED BY <2>2, <2>3, <2>4
<1>5. old' \subseteq Existing' /\ \A a \in old' : earlier'[a] \subseteq old'
  <2>1. old \subseteq Existing /\ \A a \in old : earlier[a] \subseteq old BY DEF OrderSound
  <2>2. \A a \in old' : a \in old /\ a \in Avatars /\ earlier'[a] = earlier[a] \ as BY <1>0, <1>1
  <2>3. \A a \in old' : earlier'[a] \subseteq old' BY <1>1, <2>1, <2>2
  <2> QED BY <1>1, <2>1, <2>3
<1> QED BY <1>0, <1>1, <1>2, <1>3, <1>4, <1>5 DEF OrderSound

\* A write of one row.
LEMMA WriteStep ==
  ASSUME TypeOK, OrderSound, NEW a \in Avatars, NEW r \in Rows, r.upload # "none", Write(a, r)
  PROVE  /\ row' \in [Avatars -> Rows] /\ row'[a] = r
         /\ \A b \in Avatars : b # a => row'[b] = row[b]
         /\ earlier' \in [Avatars -> SUBSET Avatars] /\ old' \subseteq Avatars /\ OrderSound'
<1>1. /\ row' \in [Avatars -> Rows] /\ row'[a] = r
      /\ \A b \in Avatars : b # a => row'[b] = row[b]
  BY DEF TypeOK, Write
<1>2. Existing' = Existing \cup {a} BY <1>1 DEF Existing
<1>3. Touch({a}) BY DEF Write
<1> QED BY <1>1, <1>2, <1>3, TouchStep

\* A step that deletes nothing and answers no deletion.
LEMMA SameDeleted ==
  ASSUME OneDeletionEach, \A a \in Avatars : row'[a].deleted = row[a].deleted, deletions' = deletions
  PROVE  OneDeletionEach'
<1>1. {a \in Avatars : row'[a].deleted} = {a \in Avatars : row[a].deleted} OBVIOUS
<1> QED BY <1>1 DEF OneDeletionEach

\* A step that leaves the order and the existence of rows alone.
LEMMA SameOrder ==
  ASSUME OrderSound, UNCHANGED <<earlier, old>>,
         \A a \in Avatars : row'[a].upload = row[a].upload
  PROVE  OrderSound'
<1>1. Existing' = Existing BY DEF Existing
<1> QED BY <1>1 DEF OrderSound

\* The columns that an UPDATE does not name keep their values.
LEMMA RowFields ==
  ASSUME NEW r \in Rows
  PROVE  /\ \A x \in {"uploading", "uploaded", "failed"} :
              /\ [r EXCEPT !.upload = x] \in Rows /\ [r EXCEPT !.upload = x].upload = x
              /\ [r EXCEPT !.upload = x].deleted = r.deleted
         /\ Processed(r) \in Rows /\ Processed(r).upload = r.upload /\ Processed(r).deleted = r.deleted
         /\ [r EXCEPT !.deleted = TRUE] \in Rows /\ [r EXCEPT !.deleted = TRUE].upload = r.upload
         /\ [r EXCEPT !.deleted = TRUE].deleted = TRUE
BY DEF Rows, Processed

\* MarkFilesRemoved names one column.
LEMMA CleanedFields ==
  ASSUME NEW a, NEW r \in Rows
  PROVE  /\ Cleaned(a, r) \in Rows /\ Cleaned(a, r).upload = r.upload
         /\ Cleaned(a, r).deleted = r.deleted
BY DEF Rows, Cleaned

\* Create, Finish and Fail: an upload moves on, and only its own row.
LEMMA UploadStep ==
  ASSUME IInv, NEW a \in Avatars, Create(a) \/ Finish(a) \/ Fail(a)
  PROVE  IInv'
<1>0. /\ TypeOK /\ RowsSound /\ OrderSound /\ OneDeletionEach
      /\ row \in [Avatars -> Rows] /\ row[a] \in Rows /\ answered \subseteq Avatars /\ faults \in 0..MaxFaults
  BY DEF IInv, TypeOK
<1>1. /\ row[a].upload \in {"none", "uploading"} /\ ~row[a].deleted /\ ~(req[a] > 0) /\ a \notin answered
  <2>1. row[a].upload # "uploaded" BY DEF Create, Finish, Fail
  <2>2. ~row[a].deleted /\ ~(req[a] > 0) /\ a \notin answered BY <1>0, <2>1 DEF RowsSound
  <2> QED BY <2>2 DEF Create, Finish, Fail
<1>2. /\ \E r \in Rows :
           /\ Write(a, r) /\ r.upload \in {"uploading", "uploaded", "failed"} /\ r.deleted = row[a].deleted
           /\ answered' = answered \/ (answered' = answered \cup {a} /\ r.upload = "uploaded")
      /\ faults' \in 0..MaxFaults /\ UNCHANGED <<pass, req, deletions>>
  <2>1. CASE Create(a)
    <3>1. Write(a, [row[a] EXCEPT !.upload = "uploading"]) /\ UNCHANGED <<pass, req, answered, deletions, faults>>
      BY <2>1 DEF Create
    <3> QED BY <1>0, <3>1, RowFields
  <2>2. CASE Finish(a)
    <3> DEFINE up == [row[a] EXCEPT !.upload = "uploaded"]
    <3>1. up \in Rows /\ up.upload = "uploaded" /\ up.deleted = row[a].deleted BY <1>0, RowFields
    <3>2. Processed(up) \in Rows /\ Processed(up).upload = "uploaded" /\ Processed(up).deleted = row[a].deleted
      BY <3>1, RowFields
    <3>3. Write(a, up) \/ Write(a, Processed(up)) BY <2>2 DEF Finish
    <3>4. faults' \in 0..MaxFaults BY <1>0, <2>2, TableAssumption DEF Finish, Works, Fault
    <3>5. /\ answered' = answered \/ answered' = answered \cup {a}
          /\ UNCHANGED <<pass, req, deletions>>
      BY <2>2 DEF Finish
    <3> QED BY <3>1, <3>2, <3>3, <3>4, <3>5
  <2>3. CASE Fail(a)
    <3>1. Write(a, [row[a] EXCEPT !.upload = "failed"]) /\ UNCHANGED <<pass, req, answered, deletions>>
      BY <2>3 DEF Fail
    <3>2. faults' \in 0..MaxFaults BY <1>0, <2>3, TableAssumption DEF Fail, Fault
    <3> QED BY <1>0, <3>1, <3>2, RowFields
  <2> QED BY <2>1, <2>2, <2>3
<1>3. PICK r \in Rows :
        /\ Write(a, r) /\ r.upload \in {"uploading", "uploaded", "failed"} /\ r.deleted = row[a].deleted
        /\ answered' = answered \/ (answered' = answered \cup {a} /\ r.upload = "uploaded")
  BY <1>2
<1>4. /\ row' \in [Avatars -> Rows] /\ row'[a] = r /\ \A b \in Avatars : b # a => row'[b] = row[b]
      /\ earlier' \in [Avatars -> SUBSET Avatars] /\ old' \subseteq Avatars /\ OrderSound'
  BY <1>0, <1>3, WriteStep
<1>5. TypeOK' BY <1>0, <1>2, <1>3, <1>4 DEF TypeOK
<1>6. RowsSound' BY <1>0, <1>1, <1>2, <1>3, <1>4 DEF RowsSound
<1>7. OneDeletionEach' BY <1>0, <1>2, <1>3, <1>4, SameDeleted
<1> QED BY <1>4, <1>5, <1>6, <1>7 DEF IInv

\* DeleteCurrent: what is read as current is uploaded.
LEMMA DeleteCurrentStep ==
  ASSUME IInv, NEW u \in Users, DeleteCurrent(u)
  PROVE  IInv'
<1>0. TypeOK /\ RowsSound /\ OrderSound /\ OneDeletionEach BY DEF IInv
<1>1. UNCHANGED <<row, earlier, old, pass, answered, deletions, faults>> BY DEF DeleteCurrent
<1>2. PICK a \in GetCurrent(u) : req' = [req EXCEPT ![a] = @ + 1] BY DEF DeleteCurrent
<1>3. a \in Avatars /\ row[a].upload = "uploaded" BY DEF GetCurrent, Shown
<1>4. req' \in [Avatars -> Nat] /\ \A b \in Avatars : b # a => req'[b] = req[b]
  BY <1>0, <1>2, <1>3 DEF TypeOK
<1>5. TypeOK' BY <1>0, <1>1, <1>4 DEF TypeOK
<1>6. RowsSound' BY <1>0, <1>1, <1>3, <1>4 DEF RowsSound
<1>7. OrderSound' BY <1>0, <1>1, SameOrder
<1>8. OneDeletionEach' BY <1>0, <1>1, SameDeleted
<1> QED BY <1>5, <1>6, <1>7, <1>8 DEF IInv

\* SoftDelete: one more row is deleted and one more deletion is answered, or neither.
LEMMA SoftDeleteStep ==
  ASSUME IInv, NEW a \in Avatars, SoftDelete(a)
  PROVE  IInv'
<1> DEFINE gone == [row[a] EXCEPT !.deleted = TRUE]
<1>0. /\ TypeOK /\ RowsSound /\ OrderSound /\ OneDeletionEach
      /\ row \in [Avatars -> Rows] /\ row[a] \in Rows /\ req \in [Avatars -> Nat]
      /\ faults \in 0..MaxFaults /\ deletions \in Nat /\ answered \subseteq Avatars
  BY DEF IInv, TypeOK
<1>1. /\ req[a] > 0 /\ req' = [req EXCEPT ![a] = @ - 1] /\ UNCHANGED <<pass, answered>>
      /\ faults' \in 0..MaxFaults
  BY <1>0, TableAssumption DEF SoftDelete, Works, Fault
<1>2. req' \in [Avatars -> Nat] /\ \A b \in Avatars : req'[b] > 0 => req[b] > 0 BY <1>0, <1>1
<1>3. row[a].upload = "uploaded" BY <1>0, <1>1 DEF RowsSound
<1>4. CASE UNCHANGED <<row, earlier, old, deletions>>
  <2>1. TypeOK' BY <1>0, <1>1, <1>2, <1>4 DEF TypeOK
  <2>2. RowsSound' BY <1>0, <1>1, <1>2, <1>4 DEF RowsSound
  <2>3. OrderSound' BY <1>0, <1>4, SameOrder
  <2>4. OneDeletionEach' BY <1>0, <1>4, SameDeleted
  <2> QED BY <2>1, <2>2, <2>3, <2>4 DEF IInv
<1>5. CASE /\ Alive(a) /\ deletions' = deletions + 1
           /\ Write(a, Cleaned(a, gone)) \/ Write(a, gone)
  <2>1. gone \in Rows /\ gone.upload = "uploaded" /\ gone.deleted BY <1>0, <1>3, RowFields
  <2>2. Cleaned(a, gone) \in Rows /\ Cleaned(a, gone).upload = "uploaded" /\ Cleaned(a, gone).deleted
    <3> HIDE DEF gone
    <3>1. Cleaned(a, gone) \in Rows BY <2>1, CleanedFields
    <3>2. Cleaned(a, gone).upload = gone.upload /\ Cleaned(a, gone).deleted = gone.deleted BY <2>1, CleanedFields
    <3> QED BY <2>1, <3>1, <3>2
  <2>3. PICK r \in Rows : Write(a, r) /\ r.upload = "uploaded" /\ r.deleted BY <1>5, <2>1, <2>2
  <2>4. /\ row' \in [Avatars -> Rows] /\ row'[a] = r /\ \A b \in Avatars : b # a => row'[b] = row[b]
        /\ earlier' \in [Avatars -> SUBSET Avatars] /\ old' \subseteq Avatars /\ OrderSound'
    BY <1>0, <2>3, WriteStep
  <2>5. TypeOK' BY <1>0, <1>1, <1>2, <1>5, <2>4 DEF TypeOK
  <2>6. RowsSound' BY <1>0, <1>1, <1>2, <2>3, <2>4 DEF RowsSound
  <2>7. OneDeletionEach'
    <3> DEFINE D == {b \in Avatars : row[b].deleted}
    <3>1. {b \in Avatars : row'[b].deleted} = D \cup {a} BY <2>3, <2>4
    <3>2. a \notin D BY <1>5 DEF Alive
    <3>3. IsFiniteSet(D) /\ Cardinality(D) = deletions BY <1>0, RowSets DEF OneDeletionEach
    <3>4. Cardinality(D \cup {a}) = Cardinality(D) + 1 BY <3>2, <3>3, FS_AddElement
    <3> QED BY <1>5, <3>1, <3>3, <3>4 DEF OneDeletionEach
  <2> QED BY <2>4, <2>5, <2>6, <2>7 DEF IInv
<1> QED BY <1>4, <1>5 DEF SoftDelete

\* Age: rows become old in the order of their updated_at.
LEMMA AgeStep ==
  ASSUME IInv, Age
  PROVE  IInv'
<1>0. TypeOK /\ RowsSound /\ OrderSound /\ OneDeletionEach BY DEF IInv
<1>1. UNCHANGED <<row, earlier, pass, req, answered, deletions, faults>> BY DEF Age
<1>2. old' = old \cup {a \in Existing : earlier[a] \subseteq old} BY DEF Age
<1>3. Existing' = Existing /\ Existing \subseteq Avatars BY <1>1 DEF Existing
<1>4. TypeOK' BY <1>0, <1>1, <1>2, <1>3 DEF TypeOK
<1>5. RowsSound' BY <1>0, <1>1 DEF RowsSound
<1>6. OrderSound'
  <2>1. old' \subseteq Existing BY <1>0, <1>2 DEF OrderSound
  <2>2. \A a \in old' : earlier[a] \subseteq old' BY <1>0, <1>2 DEF OrderSound
  <2> QED BY <1>0, <1>1, <1>3, <2>1, <2>2 DEF OrderSound
<1>7. OneDeletionEach' BY <1>0, <1>1, SameDeleted
<1> QED BY <1>4, <1>5, <1>6, <1>7 DEF IInv

\* FailStaleUploads gives up rows that nobody was answered about and nobody deletes.
LEMMA FailStaleStep ==
  ASSUME IInv, FailStaleUploads
  PROVE  IInv'
<1> DEFINE stale == {a \in old : Alive(a) /\ row[a].upload = "uploading"}
<1>0. /\ TypeOK /\ RowsSound /\ OrderSound /\ OneDeletionEach
      /\ row \in [Avatars -> Rows] /\ old \subseteq Avatars /\ faults \in 0..MaxFaults
  BY DEF IInv, TypeOK
<1>1. /\ UNCHANGED <<req, answered, deletions>> /\ faults' \in 0..MaxFaults
      /\ pass' = [step |-> "stuck", todo |-> <<>>]
  BY <1>0, TableAssumption DEF FailStaleUploads, Works, Fault
<1>2. pass' \in [step : {"stuck", "uploads", "cleanups"}, todo : Seq(Avatars)] BY <1>1
<1>3. CASE UNCHANGED <<row, earlier, old>>
  <2>1. TypeOK' BY <1>0, <1>1, <1>2, <1>3 DEF TypeOK
  <2>2. RowsSound' BY <1>0, <1>1, <1>3 DEF RowsSound
  <2>3. OrderSound' BY <1>0, <1>3, SameOrder
  <2>4. OneDeletionEach' BY <1>0, <1>1, <1>3, SameDeleted
  <2> QED BY <2>1, <2>2, <2>3, <2>4 DEF IInv
<1>4. CASE /\ Touch(stale)
           /\ row' = [a \in Avatars |-> IF a \in stale THEN [row[a] EXCEPT !.upload = "failed"]
                                        ELSE row[a]]
  <2>1. stale \in SUBSET Avatars /\ \A a \in stale : row[a].upload = "uploading" BY <1>0
  <2> HIDE DEF stale
  <2>2. ASSUME NEW a \in Avatars
        PROVE  /\ row'[a] \in Rows /\ row'[a].deleted = row[a].deleted
               /\ a \in stale => row[a].upload = "uploading" /\ row'[a].upload = "failed"
               /\ a \notin stale => row'[a] = row[a]
    <3>1. row[a] \in Rows BY <1>0
    <3>2. CASE a \in stale
      <4>1. row'[a] = [row[a] EXCEPT !.upload = "failed"] BY <1>4, <3>2
      <4>2. row'[a] \in Rows /\ row'[a].upload = "failed" BY <3>1, <4>1 DEF Rows
      <4>3. row'[a].deleted = row[a].deleted BY <3>1, <4>1, RowFields
      <4> QED BY <2>1, <3>2, <4>2, <4>3
    <3>3. CASE a \notin stale BY <1>4, <3>1, <3>3
    <3> QED BY <3>2, <3>3
  <2>3. row' \in [Avatars -> Rows] BY <1>4, <2>2
  <2>4. Existing' = Existing \cup stale BY <2>1, <2>2 DEF Existing
  <2>5. earlier' \in [Avatars -> SUBSET Avatars] /\ old' \subseteq Avatars /\ OrderSound'
    BY <1>0, <1>4, <2>1, <2>4, TouchStep
  <2>6. TypeOK' BY <1>0, <1>1, <1>2, <2>3, <2>5 DEF TypeOK
  <2>7. RowsSound'
    <3>1. \A a \in Avatars : row[a].upload = "uploaded" => row'[a] = row[a] BY <2>2
    <3>2. answered \subseteq Avatars BY <1>0 DEF TypeOK
    <3>3. \A a \in answered' : row'[a].upload = "uploaded" BY <1>0, <1>1, <3>1, <3>2 DEF RowsSound
    <3>4. ASSUME NEW a \in Avatars, row'[a].deleted \/ req'[a] > 0 PROVE row'[a].upload = "uploaded"
      <4>1. row[a].deleted \/ req[a] > 0 BY <1>1, <2>2, <3>4
      <4>2. row[a].upload = "uploaded" BY <1>0, <4>1 DEF RowsSound
      <4> QED BY <3>1, <4>2
    <3> QED BY <3>3, <3>4 DEF RowsSound
  <2>8. OneDeletionEach' BY <1>0, <1>1, <2>2, SameDeleted
  <2> QED BY <2>5, <2>6, <2>7, <2>8 DEF IInv
<1> QED BY <1>3, <1>4 DEF FailStaleUploads

\* A query of the reconciler changes its batch only.
LEMMA SelectStep ==
  ASSUME IInv, Select("stuck", "uploads", SelectStuck) \/ Select("uploads", "cleanups", SelectUncleaned)
  PROVE  IInv'
<1>0. /\ TypeOK /\ RowsSound /\ OrderSound /\ OneDeletionEach /\ faults \in 0..MaxFaults
  BY DEF IInv, TypeOK
<1>1. UNCHANGED <<row, earlier, old, req, answered, deletions>> /\ faults' \in 0..MaxFaults
  BY <1>0, TableAssumption DEF Select, Works, Fault
<1>2. SelectStuck \subseteq Seq(Avatars) BY BatchType DEF SelectStuck
<1>3. SelectUncleaned \subseteq Seq(Avatars) BY BatchType DEF SelectUncleaned
<1>4. pass' \in [step : {"stuck", "uploads", "cleanups"}, todo : Seq(Avatars)]
  <2>1. <<>> \in Seq(Avatars) OBVIOUS
  <2>2. \E to \in {"uploads", "cleanups"}, s \in Seq(Avatars) : pass' = [step |-> to, todo |-> s]
    <3>1. CASE Select("stuck", "uploads", SelectStuck)
      <4>1. (\E s \in SelectStuck : pass' = [step |-> "uploads", todo |-> s])
              \/ pass' = [step |-> "uploads", todo |-> <<>>]
        BY <3>1 DEF Select
      <4> QED BY <1>2, <2>1, <4>1
    <3>2. CASE Select("uploads", "cleanups", SelectUncleaned)
      <4>1. (\E s \in SelectUncleaned : pass' = [step |-> "cleanups", todo |-> s])
              \/ pass' = [step |-> "cleanups", todo |-> <<>>]
        BY <3>2 DEF Select
      <4> QED BY <1>3, <2>1, <4>1
    <3> QED BY <3>1, <3>2
  <2> QED BY <2>2
<1>5. TypeOK' BY <1>0, <1>1, <1>4 DEF TypeOK
<1>6. RowsSound' BY <1>0, <1>1 DEF RowsSound
<1>7. OrderSound' BY <1>0, <1>1, SameOrder
<1>8. OneDeletionEach' BY <1>0, <1>1, SameDeleted
<1> QED BY <1>5, <1>6, <1>7, <1>8 DEF IInv

\* What is left of a batch is a batch.
LEMMA TodoType ==
  ASSUME TypeOK, pass.todo # <<>>
  PROVE  /\ Head(pass.todo) \in Avatars
         /\ [pass EXCEPT !.todo = Tail(@)] \in [step : {"stuck", "uploads", "cleanups"}, todo : Seq(Avatars)]
         /\ [pass EXCEPT !.todo = <<>>] \in [step : {"stuck", "uploads", "cleanups"}, todo : Seq(Avatars)]
<1>1. pass \in [step : {"stuck", "uploads", "cleanups"}, todo : Seq(Avatars)] BY DEF TypeOK
<1>2. Head(pass.todo) \in Avatars /\ Tail(pass.todo) \in Seq(Avatars) BY <1>1
<1>3. <<>> \in Seq(Avatars) OBVIOUS
<1>4. \A s \in Seq(Avatars) : [pass EXCEPT !.todo = s] \in [step : {"stuck", "uploads", "cleanups"}, todo : Seq(Avatars)]
  BY <1>1
<1> QED BY <1>2, <1>3, <1>4

\* RepublishUpload and RepublishCleanup: a row is marked, and nothing else of it changes.
LEMMA RepublishStep ==
  ASSUME IInv, RepublishUpload \/ RepublishCleanup
  PROVE  IInv'
<1> DEFINE a == Head(pass.todo)
<1>0. /\ TypeOK /\ RowsSound /\ OrderSound /\ OneDeletionEach
      /\ row \in [Avatars -> Rows] /\ earlier \in [Avatars -> SUBSET Avatars] /\ old \subseteq Avatars
      /\ faults \in 0..MaxFaults /\ answered \subseteq Avatars
  BY DEF IInv, TypeOK
<1>1. UNCHANGED <<req, answered, deletions>> /\ faults' \in 0..MaxFaults
  BY <1>0, TableAssumption DEF RepublishUpload, RepublishCleanup, Works, Fault
<1>2. pass.todo # <<>> BY DEF RepublishUpload, RepublishCleanup
<1>3. /\ a \in Avatars /\ row[a] \in Rows
      /\ pass' \in [step : {"stuck", "uploads", "cleanups"}, todo : Seq(Avatars)]
  BY <1>0, <1>2, TodoType DEF RepublishUpload, RepublishCleanup
<1> HIDE DEF a
<1>4. /\ row' \in [Avatars -> Rows] /\ earlier' \in [Avatars -> SUBSET Avatars] /\ old' \subseteq Avatars
      /\ \A b \in Avatars : row'[b].upload = row[b].upload /\ row'[b].deleted = row[b].deleted
      /\ OrderSound'
  <2>1. CASE UNCHANGED <<row, earlier, old>>
    <3>1. OrderSound' BY <1>0, <2>1, SameOrder
    <3> QED BY <1>0, <2>1, <3>1
  <2>2. CASE row[a] # Processed(row[a]) /\ Write(a, Processed(row[a]))
    <3>1. Processed(row[a]) \in Rows BY <1>3, RowFields
    <3>2. Processed(row[a]).upload = row[a].upload /\ Processed(row[a]).deleted = row[a].deleted
      BY <1>3, RowFields
    <3>3. row[a].upload # "none" BY <2>2 DEF Processed
    <3>4. /\ row' \in [Avatars -> Rows] /\ row'[a] = Processed(row[a])
          /\ \A b \in Avatars : b # a => row'[b] = row[b]
          /\ earlier' \in [Avatars -> SUBSET Avatars] /\ old' \subseteq Avatars /\ OrderSound'
      BY <1>0, <1>3, <2>2, <3>1, <3>2, <3>3, WriteStep
    <3> QED BY <3>2, <3>4
  <2>3. CASE row' = [row EXCEPT ![a] = Cleaned(a, @)] /\ UNCHANGED <<earlier, old>>
    <3>1. /\ Cleaned(a, row[a]) \in Rows /\ Cleaned(a, row[a]).upload = row[a].upload
          /\ Cleaned(a, row[a]).deleted = row[a].deleted
      BY <1>3, CleanedFields
    <3>2. /\ row' \in [Avatars -> Rows] /\ row'[a] = Cleaned(a, row[a])
          /\ \A b \in Avatars : b # a => row'[b] = row[b]
      BY <1>0, <1>3, <2>3, <3>1
    <3>3. \A b \in Avatars : row'[b].upload = row[b].upload /\ row'[b].deleted = row[b].deleted
      BY <3>1, <3>2
    <3>4. OrderSound' BY <1>0, <2>3, <3>3, SameOrder
    <3> QED BY <1>0, <2>3, <3>2, <3>3, <3>4
  <2> QED BY <2>1, <2>2, <2>3 DEF RepublishUpload, RepublishCleanup, a
<1>5. TypeOK' BY <1>0, <1>1, <1>3, <1>4 DEF TypeOK
<1>6. RowsSound' BY <1>0, <1>1, <1>4 DEF RowsSound
<1>7. OneDeletionEach' BY <1>0, <1>1, <1>4, SameDeleted
<1> QED BY <1>4, <1>5, <1>6, <1>7 DEF IInv
-----------------------------------------------------------------------------
(* The theorems. *)

\* The empty table.
LEMMA InitIInv ==
  ASSUME Init
  PROVE  IInv
<1>1. TypeOK BY TableAssumption DEF Init, TypeOK, NoRow, Rows
<1>2. Existing = {} BY DEF Init, Existing, NoRow
<1>3. RowsSound BY DEF Init, RowsSound, NoRow
<1>4. OrderSound BY <1>2 DEF Init, OrderSound
<1>5. OneDeletionEach
  <2>1. {a \in Avatars : row[a].deleted} = {} BY DEF Init, NoRow
  <2> QED BY <2>1, FS_EmptySet DEF Init, OneDeletionEach
<1> QED BY <1>1, <1>3, <1>4, <1>5 DEF IInv

\* The columns, the order of updated_at and the count of deletions stay consistent whatever
\* uploads, deletions and passes of the reconciler overlap.
THEOREM TableIsSound == Spec => []IInv
<1>1. Init => IInv BY InitIInv
<1>2. IInv /\ [Next]_vars => IInv'
  <2> SUFFICES ASSUME IInv, [Next]_vars PROVE IInv' OBVIOUS
  <2>1. CASE \E a \in Avatars : Create(a) \/ Finish(a) \/ Fail(a) BY <2>1, UploadStep
  <2>2. CASE \E a \in Avatars : SoftDelete(a) BY <2>2, SoftDeleteStep
  <2>3. CASE \E u \in Users : DeleteCurrent(u) BY <2>3, DeleteCurrentStep
  <2>4. CASE Age BY <2>4, AgeStep
  <2>5. CASE FailStaleUploads BY <2>5, FailStaleStep
  <2>6. CASE Select("stuck", "uploads", SelectStuck) \/ Select("uploads", "cleanups", SelectUncleaned)
    BY <2>6, SelectStep
  <2>7. CASE RepublishUpload \/ RepublishCleanup BY <2>7, RepublishStep
  <2>8. CASE UNCHANGED vars
    <3>1. UNCHANGED <<row, earlier, old, pass, req, answered, deletions, faults>> BY <2>8 DEF vars
    <3>2. TypeOK' BY <3>1 DEF IInv, TypeOK
    <3>3. RowsSound' BY <3>1 DEF IInv, RowsSound
    <3>4. OrderSound' BY <3>1, SameOrder DEF IInv
    <3>5. OneDeletionEach' BY <3>1, SameDeleted DEF IInv
    <3> QED BY <3>2, <3>3, <3>4, <3>5 DEF IInv
  <2> QED BY <2>1, <2>2, <2>3, <2>4, <2>5, <2>6, <2>7, <2>8
          DEF Next, reconcile, republishUploads, republishCleanups
<1> QED BY <1>1, <1>2, PTL DEF Spec

\* An answered upload that is not deleted is in its owner's list, is current or is overtaken
\* by a later upload only, and the badge is on the avatar that is served.
THEOREM AnsweredIsCurrent == Spec => []AnsweredStaysCurrent
<1>1. IInv => AnsweredStaysCurrent
  <2> SUFFICES ASSUME IInv PROVE AnsweredStaysCurrent OBVIOUS
  <2>1. TypeOK BY DEF IInv
  <2>2. ASSUME NEW a \in answered, ~row[a].deleted
        PROVE  /\ \E b \in GetCurrent(Owner[a]) : b >= a
               /\ \E i \in DOMAIN ListByUser(Owner[a]) : ListByUser(Owner[a])[i] = a
    <3> DEFINE S == Listed(Owner[a])
    <3>1. a \in Avatars /\ row[a].upload = "uploaded" BY DEF IInv, TypeOK, RowsSound
    <3>2. a \in S /\ S \in SUBSET Avatars BY <2>2, <3>1 DEF Listed, Shown, Alive
    <3>3. PICK b \in S : \A c \in S : c <= b BY <3>2, Newest
    <3>4. b \in GetCurrent(Owner[a]) BY <3>3 DEF GetCurrent, Listed
    <3>5. b >= a
      <4>1. a \in Nat /\ b \in Nat BY <3>2, <3>3, TableAssumption DEF Avatars
      <4> QED BY <3>2, <3>3, <4>1
    <3> QED BY <3>2, <3>4, <3>5, ListFacts
  <2>3. \A u \in Users : Badge(u) = GetCurrent(u) BY ListFacts
  <2> QED BY <2>1, <2>2, <2>3 DEF AnsweredStaysCurrent
<1> QED BY <1>1, TableIsSound, PTL

\* As many avatars are gone as deletions were answered, however requests race.
THEOREM DeletionsAreCounted == Spec => []OneDeletionEach
<1>1. IInv => OneDeletionEach BY DEF IInv
<1> QED BY <1>1, TableIsSound, PTL
=============================================================================
