--------------------------- MODULE ConsumerProofs ---------------------------
(***************************************************************************)
(* Proofs about Consumer, for any number of events, goroutines, levels,    *)
(* attempts, copies and failures: its invariant, and that it implements    *)
(* Broker.                                                                 *)
(***************************************************************************)
EXTENDS Consumer, FiniteSetTheorems, TLAPS

LevelQueues == {LevelQueue(i) : i \in Levels}

\* The names of the queues are different.
LEMMA PlacesDiffer ==
  /\ Process # Dead /\ Process # Nowhere /\ Process # Unacked
  /\ Dead # Nowhere /\ Dead # Unacked /\ Nowhere # Unacked
  /\ {Process, Dead, Nowhere, Unacked} \cap LevelQueues = {}
  /\ Queues = {Process, Dead} \cup LevelQueues
BY DEF Process, Dead, Nowhere, Unacked, LevelQueues, LevelQueue, Queues

\* The keys are different.
LEMMA KeysDiffer ==
  /\ EventKey # RetriedKey /\ EventKey # DeadKey /\ RetriedKey # DeadKey
  /\ \A i \in Levels : LevelKey(i) \notin {EventKey, RetriedKey, DeadKey}
  /\ \A i \in Levels : LevelKey(i) \in Keys
  /\ {EventKey, RetriedKey, DeadKey} \subseteq Keys
BY DEF EventKey, RetriedKey, DeadKey, LevelKey, Keys

\* Where the exchanges of the topology put the keys in use.
LEMMA RouteFacts ==
  /\ Route("avatars.exchange", EventKey) = Process
  /\ Route("avatars.exchange", RetriedKey) = Process
  /\ Route("avatars.dlq", DeadKey) = Dead
  /\ \A i \in Levels : Route("avatars.retry", LevelKey(i)) \in LevelQueues
  /\ Route("avatars.retry", EventKey) \in LevelQueues
  /\ Route("avatars.retry", RetriedKey) \in LevelQueues
<1>1. ASSUME NEW k, \E i \in Levels : k \in LevelKeys(i)
      PROVE  Route("avatars.retry", k) \in LevelQueues
  <2>1. (CHOOSE i \in Levels : k \in LevelKeys(i)) \in Levels BY <1>1
  <2>2. Route("avatars.retry", k) = LevelQueue(CHOOSE i \in Levels : k \in LevelKeys(i))
    BY <1>1 DEF Route
  <2> QED BY <2>1, <2>2 DEF LevelQueues
<1>2. 1 \in Levels BY ConsumerAssumption DEF Levels
<1>3. EventKey \in LevelKeys(1) /\ RetriedKey \in LevelKeys(1) BY DEF LevelKeys
<1>4. \A i \in Levels : LevelKey(i) \in LevelKeys(i) BY DEF LevelKeys
<1>5. /\ Route("avatars.exchange", EventKey) = Process
      /\ Route("avatars.exchange", RetriedKey) = Process
      /\ Route("avatars.dlq", DeadKey) = Dead
  BY DEF Route
<1>6. Route("avatars.retry", EventKey) \in LevelQueues /\ Route("avatars.retry", RetriedKey) \in LevelQueues
  BY <1>1, <1>2, <1>3
<1>7. \A i \in Levels : Route("avatars.retry", LevelKey(i)) \in LevelQueues BY <1>1, <1>4
<1> QED BY <1>5, <1>6, <1>7

\* What a death and a forward do to the number of the attempt.
LEMMA HeaderFacts ==
  /\ NoHeaders \in Headers /\ attemptNumber(NoHeaders) = 1
  /\ \A h \in Headers :
       /\ h.attempts \in Nat
       /\ attemptNumber(h) \in 1..MaxAttempts
       /\ Died(h) \in Headers /\ Died(h).attempts = h.attempts
       /\ attemptNumber(Died(h)) <= attemptNumber(h) + 1
       /\ h.attempts > 0 => Died(h) = h
       /\ ~Final(h) => /\ Forwarded(h) \in Headers /\ Forwarded(h).attempts > 0
                       /\ attemptNumber(Forwarded(h)) = attemptNumber(h) + 1
<1>1. NoHeaders \in Headers /\ attemptNumber(NoHeaders) = 1
  BY MaxAttemptsAssumption DEF NoHeaders, Headers, MaxDeaths, attemptNumber
<1>2. ASSUME NEW h \in Headers
      PROVE  /\ h.attempts \in Nat /\ attemptNumber(h) \in 1..MaxAttempts
             /\ Died(h) \in Headers /\ Died(h).attempts = h.attempts
             /\ attemptNumber(Died(h)) <= attemptNumber(h) + 1
             /\ h.attempts > 0 => Died(h) = h
  BY MaxAttemptsAssumption DEF Headers, MaxDeaths, attemptNumber, Died
<1>3. ASSUME NEW h \in Headers, ~Final(h)
      PROVE  /\ Forwarded(h) \in Headers /\ Forwarded(h).attempts > 0
             /\ attemptNumber(Forwarded(h)) = attemptNumber(h) + 1
  BY <1>3, MaxAttemptsAssumption
  DEF Headers, MaxDeaths, attemptNumber, Forwarded, Final, isFinalAttempt
<1> QED BY <1>1, <1>2, <1>3

\* The copy a forward publishes always finds a queue: the dead letter queue after the
\* last attempt, and a level with one more attempt counted before.
LEMMA ForwardFacts ==
  ASSUME NEW c \in Copy
  PROVE  /\ ForwardedFrom(c) \in Copy /\ ForwardedFrom(c).event = c.event
         /\ \/ /\ ForwardedFrom(c).place = Dead /\ ForwardedFrom(c).headers = NoHeaders
               /\ attemptNumber(c.headers) = MaxAttempts /\ Final(c.headers)
            \/ /\ ForwardedFrom(c).place \in LevelQueues /\ ForwardedFrom(c).headers.attempts > 0
               /\ attemptNumber(ForwardedFrom(c).headers) = attemptNumber(c.headers) + 1
               /\ ~Final(c.headers) /\ ForwardedFrom(c).headers = Forwarded(c.headers)
<1> DEFINE n == attemptNumber(c.headers)
           x == ForwardedFrom(c)
<1>1. c.headers \in Headers BY DEF Copy
<1>2. n \in 1..MaxAttempts BY <1>1, HeaderFacts
<1>3. retryLevelFor(n) \in Levels
  BY <1>2, ConsumerAssumption, MaxAttemptsAssumption DEF retryLevelFor, Levels
<1>4. CASE isFinalAttempt(n)
  <2>1. x = [c EXCEPT !.place = Dead, !.key = DeadKey, !.headers = NoHeaders]
    BY <1>4, RouteFacts DEF ForwardedFrom
  <2>2. n = MaxAttempts BY <1>4, <1>2, MaxAttemptsAssumption DEF isFinalAttempt
  <2>3. x \in Copy /\ x.event = c.event /\ x.place = Dead /\ x.headers = NoHeaders
    BY <2>1, HeaderFacts, KeysDiffer, PlacesDiffer DEF Copy
  <2>4. Final(c.headers) BY <1>4 DEF Final
  <2> QED BY <2>2, <2>3, <2>4
<1>5. CASE ~isFinalAttempt(n)
  <2> DEFINE k == LevelKey(retryLevelFor(n))
             q == Route("avatars.retry", k)
  <2>1. x = [c EXCEPT !.place = q, !.key = k, !.headers = Forwarded(@)]
    BY <1>5 DEF ForwardedFrom
  <2>2. k \in Keys /\ q \in LevelQueues BY <1>3, KeysDiffer, RouteFacts
  <2>3. /\ Forwarded(c.headers) \in Headers /\ Forwarded(c.headers).attempts > 0
        /\ attemptNumber(Forwarded(c.headers)) = n + 1
    BY <1>1, <1>5, HeaderFacts DEF Final
  <2> HIDE DEF x, q, k, n
  <2>4. x \in Copy /\ x.event = c.event /\ x.place = q /\ x.headers = Forwarded(c.headers)
    BY <2>1, <2>2, <2>3, PlacesDiffer DEF Copy
  <2>5. ~Final(c.headers) BY <1>5 DEF Final, n
  <2> QED BY <2>2, <2>3, <2>4, <2>5 DEF x, n
<1> QED BY <1>4, <1>5

\* What a dead-lettering to a known queue leaves.
LEMMA DeathFacts ==
  ASSUME NEW c \in Copy, NEW exchange, NEW key \in Keys,
         Route(exchange, key) \in Queues
  PROVE  LET x == DeadLettered(c, exchange, key) IN
         /\ x \in Copy /\ x.event = c.event /\ x.place = Route(exchange, key)
         /\ x.key = key /\ x.headers = Died(c.headers)
<1>1. c.headers \in Headers BY DEF Copy
<1>2. Died(c.headers) \in Headers BY <1>1, HeaderFacts
<1> DEFINE q == Route(exchange, key)
<1> HIDE DEF q
<1>3. DeadLettered(c, exchange, key) = [c EXCEPT !.place = q, !.key = key, !.headers = Died(@)]
  BY DEF DeadLettered, q
<1>4. q \in Queues BY DEF q
<1> QED BY <1>2, <1>3, <1>4, Zenon DEF Copy, q

-----------------------------------------------------------------------------
(* The parts of a state. *)

\* The types of the parts.
LEMMA Parts ==
  ASSUME TypeOK
  PROVE  /\ \A c \in Copies : copy[c] \in Copy
         /\ \A c \in Copies : /\ copy[c].place \in Queues \cup {Nowhere, Unacked}
                              /\ copy[c].event \in Events /\ copy[c].key \in Keys
                              /\ copy[c].headers \in Headers
         /\ \A w \in Workers : wrk[w] \in [pc : WorkerPC, copy : 0..MaxCopies]
         /\ \A w \in Workers : wrk[w].pc \in WorkerPC /\ wrk[w].copy \in 0..MaxCopies
         /\ pump.pc \in PumpPC /\ pump.copy \in 0..MaxCopies
         /\ DOMAIN copy = Copies /\ DOMAIN wrk = Workers
         /\ Copies = 1..MaxCopies /\ 0 \notin Copies /\ 0..MaxCopies = Copies \cup {0}
<1>1. \A c \in Copies : copy[c] \in Copy BY DEF TypeOK
<1>2. \A w \in Workers : wrk[w] \in [pc : WorkerPC, copy : 0..MaxCopies] BY DEF TypeOK
<1>3. pump \in [pc : PumpPC, copy : 0..MaxCopies] BY DEF TypeOK
<1>4. DOMAIN copy = Copies /\ DOMAIN wrk = Workers BY DEF TypeOK
<1>5. Copies = 1..MaxCopies /\ 0 \notin Copies /\ 0..MaxCopies = Copies \cup {0}
  BY ConsumerAssumption DEF Copies
<1>6. \A c \in Copies : /\ copy[c].place \in Queues \cup {Nowhere, Unacked}
                        /\ copy[c].event \in Events /\ copy[c].key \in Keys
                        /\ copy[c].headers \in Headers
  BY <1>1 DEF Copy
<1> QED BY <1>1, <1>2, <1>3, <1>4, <1>5, <1>6

\* The slot of a new copy is free.
LEMMA FreshFacts ==
  ASSUME TypeOK, CanCopy
  PROVE  Fresh \in Copies /\ copy[Fresh].place = Nowhere
BY DEF CanCopy, Fresh, Free

\* What a goroutine at work holds.
LEMMA HeldFacts ==
  ASSUME TypeOK, HeldSound, NEW w \in Workers, wrk[w].pc \in AtWork
  PROVE  /\ wrk[w].copy \in Copies /\ Held(w) \in Copy /\ Held(w) = copy[wrk[w].copy]
         /\ Held(w).place = InHand /\ Held(w).place \in {Process, Unacked}
<1>1. wrk[w].copy \in Copies BY Parts DEF HeldSound
<1>2. Held(w) = copy[wrk[w].copy] BY DEF Held
<1>3. Held(w) \in Copy BY <1>1, <1>2, Parts
<1>4. Held(w).place = InHand BY <1>1, <1>2, Parts DEF HeldSound
<1> QED BY <1>1, <1>2, <1>3, <1>4 DEF InHand

\* What the loss of the channel does to a copy.
LEMMA RequeuedFacts ==
  ASSUME TypeOK
  PROVE  /\ Requeued \in [Copies -> Copy]
         /\ \A c \in Copies :
              /\ Requeued[c].place = IF copy[c].place = Unacked THEN Process ELSE copy[c].place
              /\ Requeued[c].event = copy[c].event /\ Requeued[c].key = copy[c].key
              /\ Requeued[c].headers = copy[c].headers
<1>1. ASSUME NEW c \in Copies
      PROVE  /\ Requeued[c] \in Copy
             /\ Requeued[c].place = IF copy[c].place = Unacked THEN Process ELSE copy[c].place
             /\ Requeued[c].event = copy[c].event /\ Requeued[c].key = copy[c].key
             /\ Requeued[c].headers = copy[c].headers
  <2>1. Requeued[c] = IF copy[c].place = Unacked THEN [copy[c] EXCEPT !.place = Process] ELSE copy[c]
    BY DEF Requeued
  <2>2. copy[c] \in Copy BY Parts
  <2> QED BY <2>1, <2>2, PlacesDiffer DEF Copy
<1>2. Requeued \in [Copies -> Copy] BY <1>1 DEF Requeued
<1> QED BY <1>1, <1>2

\* A goroutine that goes on, and one that has no delivery any more.
LEMMA GotoFacts ==
  ASSUME TypeOK, NEW w \in Workers
  PROVE  /\ \A pc \in WorkerPC : Goto(w, pc) =>
              /\ wrk' \in [Workers -> [pc : WorkerPC, copy : 0..MaxCopies]]
              /\ wrk'[w].pc = pc /\ wrk'[w].copy = wrk[w].copy
              /\ \A v \in Workers : v # w => wrk'[v] = wrk[v]
              /\ \A v \in Workers : wrk'[v].copy = wrk[v].copy
         /\ Done(w) =>
              /\ wrk' \in [Workers -> [pc : WorkerPC, copy : 0..MaxCopies]]
              /\ wrk'[w].pc = "idle" /\ wrk'[w].copy = 0
              /\ \A v \in Workers : v # w => wrk'[v] = wrk[v]
<1>1. wrk \in [Workers -> [pc : WorkerPC, copy : 0..MaxCopies]] BY DEF TypeOK
<1>2. ASSUME NEW pc \in WorkerPC, Goto(w, pc)
      PROVE  /\ wrk' \in [Workers -> [pc : WorkerPC, copy : 0..MaxCopies]]
             /\ wrk'[w].pc = pc /\ wrk'[w].copy = wrk[w].copy
             /\ \A v \in Workers : v # w => wrk'[v] = wrk[v]
  BY <1>1, <1>2 DEF Goto
<1>3. ASSUME Done(w)
      PROVE  /\ wrk' \in [Workers -> [pc : WorkerPC, copy : 0..MaxCopies]]
             /\ wrk'[w].pc = "idle" /\ wrk'[w].copy = 0
             /\ \A v \in Workers : v # w => wrk'[v] = wrk[v]
  <2>1. [pc |-> "idle", copy |-> 0] \in [pc : WorkerPC, copy : 0..MaxCopies]
    BY ConsumerAssumption DEF WorkerPC
  <2> QED BY <1>1, <1>3, <2>1 DEF Done
<1> QED BY <1>2, <1>3

\* A step that writes one slot.
LEMMA SlotFacts ==
  ASSUME TypeOK, NEW c \in Copies, NEW x \in Copy, copy' = [copy EXCEPT ![c] = x]
  PROVE  /\ copy' \in [Copies -> Copy] /\ copy'[c] = x
         /\ \A d \in Copies : d # c => copy'[d] = copy[d]
BY DEF TypeOK
-----------------------------------------------------------------------------
(* What the actions do to the copies. *)

\* A published event is a new copy in the process queue; the other copies stay.
LEMMA PublishEffect ==
  ASSUME TypeOK, NEW e \in Events, PublishEvent(e)
  PROVE  /\ Fresh \in Copies /\ copy[Fresh].place = Nowhere
         /\ copy' \in [Copies -> Copy]
         /\ copy'[Fresh].place = Process /\ copy'[Fresh].event = e
         /\ copy'[Fresh].key = EventKey /\ copy'[Fresh].headers = NoHeaders
         /\ \A d \in Copies : d # Fresh => copy'[d] = copy[d]
<1> DEFINE x == [place |-> Route("avatars.exchange", EventKey), event |-> e, key |-> EventKey,
                 headers |-> NoHeaders]
<1>1. x \in Copy /\ x.place = Process /\ x.event = e /\ x.key = EventKey /\ x.headers = NoHeaders
  BY RouteFacts, KeysDiffer, PlacesDiffer, HeaderFacts DEF Copy
<1>2. copy' = [copy EXCEPT ![Fresh] = x] BY DEF PublishEvent
<1>3. Fresh \in Copies /\ copy[Fresh].place = Nowhere BY FreshFacts DEF PublishEvent
<1> HIDE DEF x
<1> QED BY <1>1, <1>2, <1>3, SlotFacts

\* A level gives a copy back to the process queue with one more death in its headers.
LEMMA ReturnEffect ==
  ASSUME TypeOK, NEW c \in Copies, ReturnFromLevel(c)
  PROVE  /\ copy[c].place \in LevelQueues
         /\ copy' \in [Copies -> Copy]
         /\ copy'[c].place = Process /\ copy'[c].event = copy[c].event
         /\ copy'[c].key = RetriedKey /\ copy'[c].headers = Died(copy[c].headers)
         /\ \A d \in Copies : d # c => copy'[d] = copy[d]
<1> DEFINE x == DeadLettered(copy[c], "avatars.exchange", RetriedKey)
<1>1. Route("avatars.exchange", RetriedKey) \in Queues BY RouteFacts, PlacesDiffer
<1>2. copy[c] \in Copy /\ RetriedKey \in Keys BY Parts, KeysDiffer
<1>3. /\ x \in Copy /\ x.place = Process /\ x.event = copy[c].event
      /\ x.key = RetriedKey /\ x.headers = Died(copy[c].headers)
  BY <1>1, <1>2, DeathFacts, RouteFacts
<1>4. copy' = [copy EXCEPT ![c] = x] BY DEF ReturnFromLevel
<1>5. copy[c].place \in LevelQueues BY DEF ReturnFromLevel, LevelQueues
<1> HIDE DEF x
<1> QED BY <1>3, <1>4, <1>5, SlotFacts

\* A delivery takes a copy out of the process queue and leaves its headers.
LEMMA DeliverEffect ==
  ASSUME TypeOK, NEW c \in Copies, Deliver(c)
  PROVE  /\ open /\ copy[c].place = Process
         /\ copy' \in [Copies -> Copy]
         /\ copy'[c].place = Unacked /\ copy'[c].event = copy[c].event
         /\ copy'[c].key = copy[c].key /\ copy'[c].headers = copy[c].headers
         /\ \A d \in Copies : d # c => copy'[d] = copy[d]
<1> DEFINE x == [copy[c] EXCEPT !.place = Unacked]
<1>1. copy[c] \in Copy BY Parts
<1>2. /\ x \in Copy /\ x.place = Unacked /\ x.event = copy[c].event
      /\ x.key = copy[c].key /\ x.headers = copy[c].headers
  BY <1>1 DEF Copy
<1>3. copy' = [copy EXCEPT ![c] = x] BY DEF Deliver, TypeOK
<1>4. open /\ copy[c].place = Process BY DEF Deliver
<1> HIDE DEF x
<1> QED BY <1>2, <1>3, <1>4, SlotFacts

\* The new copy of a forward is there when the call is confirmed, and may be there when
\* it fails, which costs a failure.
LEMMA ForwardEffect ==
  ASSUME TypeOK, HeldSound, NEW w \in Workers, forward(w)
  PROVE  /\ main # "down" /\ At(w, "forward") /\ wrk[w].copy \in Copies /\ Held(w) = copy[wrk[w].copy]
         /\ Fresh \in Copies /\ copy[Fresh].place = Nowhere /\ Fresh # wrk[w].copy
         /\ copy' \in [Copies -> Copy]
         /\ \A d \in Copies : d # Fresh => copy'[d] = copy[d]
         /\ \/ copy'[Fresh] = copy[Fresh]
            \/ copy'[Fresh] = ForwardedFrom(Held(w))
         /\ \/ copy'[Fresh] = ForwardedFrom(Held(w)) /\ Goto(w, "ack") /\ Works
            \/ Goto(w, "reject") /\ Fault
<1> DEFINE x == ForwardedFrom(Held(w))
<1>1. main # "down" /\ At(w, "forward") /\ CanCopy BY DEF forward, Alive
<1>2. Fresh \in Copies /\ copy[Fresh].place = Nowhere BY <1>1, FreshFacts
<1>3. wrk[w].pc \in AtWork BY <1>1 DEF At, AtWork
<1>4. /\ wrk[w].copy \in Copies /\ Held(w) \in Copy /\ Held(w) = copy[wrk[w].copy]
      /\ Held(w).place \in {Process, Unacked}
  BY <1>3, HeldFacts
<1>5. Fresh # wrk[w].copy BY <1>2, <1>4, PlacesDiffer
<1>6. x \in Copy /\ x.place # Nowhere BY <1>4, ForwardFacts, PlacesDiffer
<1>7. \/ copy' = [copy EXCEPT ![Fresh] = x] /\ Goto(w, "ack") /\ Works
      \/ copy' = copy /\ Goto(w, "reject") /\ Fault
      \/ copy' = [copy EXCEPT ![Fresh] = x] /\ Goto(w, "reject") /\ Fault
  BY <1>6 DEF forward
<1> HIDE DEF x
<1>8. CASE copy' = copy /\ Goto(w, "reject") /\ Fault
  <2>1. copy' \in [Copies -> Copy] BY <1>8 DEF TypeOK
  <2> QED BY <1>1, <1>2, <1>4, <1>5, <1>8, <2>1
<1>9. ASSUME copy' = [copy EXCEPT ![Fresh] = x]
      PROVE  /\ copy' \in [Copies -> Copy]
             /\ copy'[Fresh] = ForwardedFrom(Held(w))
             /\ \A d \in Copies : d # Fresh => copy'[d] = copy[d]
  <2>1. copy' \in [Copies -> Copy] /\ copy'[Fresh] = x /\ \A d \in Copies : d # Fresh => copy'[d] = copy[d]
    BY <1>2, <1>6, <1>9, SlotFacts
  <2>2. x = ForwardedFrom(Held(w)) BY DEF x
  <2> QED BY <2>1, <2>2
<1>10. CASE copy' = [copy EXCEPT ![Fresh] = x] /\ Goto(w, "ack") /\ Works
  BY <1>1, <1>2, <1>4, <1>5, <1>9, <1>10, Zenon
<1>11. CASE copy' = [copy EXCEPT ![Fresh] = x] /\ Goto(w, "reject") /\ Fault
  BY <1>1, <1>2, <1>4, <1>5, <1>9, <1>11, Zenon
<1> QED BY <1>7, <1>8, <1>10, <1>11, Zenon

\* A rejection takes the copy to the first level, unless the channel is closed.
LEMMA RejectEffect ==
  ASSUME TypeOK, HeldSound, KeysSound, NEW w \in Workers, reject(w)
  PROVE  /\ At(w, "reject") /\ wrk[w].copy \in Copies /\ Held(w) = copy[wrk[w].copy]
         /\ copy' \in [Copies -> Copy]
         /\ \A d \in Copies : d # wrk[w].copy => copy'[d] = copy[d]
         /\ IF open
            THEN /\ copy'[wrk[w].copy].place \in LevelQueues
                 /\ copy'[wrk[w].copy].event = Held(w).event
                 /\ copy'[wrk[w].copy].headers = Died(Held(w).headers)
            ELSE copy'[wrk[w].copy] = copy[wrk[w].copy]
<1> DEFINE c == wrk[w].copy
           x == DeadLettered(Held(w), "avatars.retry", Held(w).key)
<1>1. At(w, "reject") /\ wrk[w].pc \in AtWork BY DEF reject, At, AtWork
<1>2. /\ c \in Copies /\ Held(w) \in Copy /\ Held(w) = copy[c] /\ Held(w).place \in {Process, Unacked}
  BY <1>1, HeldFacts
<1>3. CASE open
  <2>1. Held(w).key \in {EventKey, RetriedKey} BY <1>2 DEF KeysSound
  <2>2. Route("avatars.retry", Held(w).key) \in LevelQueues /\ Held(w).key \in Keys
    BY <2>1, RouteFacts, KeysDiffer
  <2>3. /\ x \in Copy /\ x.event = Held(w).event /\ x.place \in LevelQueues
        /\ x.headers = Died(Held(w).headers)
    BY <1>2, <2>2, DeathFacts, PlacesDiffer
  <2>4. copy' = [copy EXCEPT ![c] = x] BY <1>3 DEF reject
  <2> HIDE DEF x, c
  <2>5. copy' \in [Copies -> Copy] /\ copy'[c] = x /\ \A d \in Copies : d # c => copy'[d] = copy[d]
    BY <1>2, <2>3, <2>4, SlotFacts
  <2> QED BY <1>1, <1>2, <1>3, <2>3, <2>5 DEF c
<1>4. CASE ~open
  <2>1. copy' = copy BY <1>4 DEF reject
  <2>2. copy \in [Copies -> Copy] BY DEF TypeOK
  <2> QED BY <1>1, <1>2, <1>4, <2>1, <2>2
<1> QED BY <1>3, <1>4

\* An ack removes the copy the goroutine holds, on an open channel; on a closed one nothing.
LEMMA AckEffect ==
  ASSUME TypeOK, HeldSound, NEW w \in Workers, ack(w)
  PROVE  /\ At(w, "ack") /\ wrk[w].copy \in Copies /\ Held(w) = copy[wrk[w].copy]
         /\ copy' \in [Copies -> Copy]
         /\ \A d \in Copies : d # wrk[w].copy => copy'[d] = copy[d]
         /\ IF open THEN copy'[wrk[w].copy].place = Nowhere
                    ELSE copy'[wrk[w].copy] = copy[wrk[w].copy]
<1> DEFINE c == wrk[w].copy
<1>1. At(w, "ack") /\ wrk[w].pc \in AtWork BY DEF ack, At, AtWork
<1>2. c \in Copies /\ Held(w) \in Copy /\ Held(w) = copy[c] BY <1>1, HeldFacts
<1>3. CASE open
  <2>1. copy' = [copy EXCEPT ![c] = NoCopy] BY <1>3 DEF ack
  <2>2. AnyEvent \in Events BY <1>2 DEF AnyEvent, Copy
  <2>3. NoCopy \in Copy /\ NoCopy.place = Nowhere
    BY <2>2, HeaderFacts, KeysDiffer DEF NoCopy, Copy
  <2> HIDE DEF c
  <2>4. copy' \in [Copies -> Copy] /\ copy'[c] = NoCopy /\ \A d \in Copies : d # c => copy'[d] = copy[d]
    BY <1>2, <2>1, <2>3, SlotFacts
  <2> QED BY <1>1, <1>2, <1>3, <2>3, <2>4 DEF c
<1>4. CASE ~open
  <2>1. copy' = copy BY <1>4 DEF ack
  <2>2. copy \in [Copies -> Copy] BY DEF TypeOK
  <2> QED BY <1>1, <1>2, <1>4, <2>1, <2>2
<1> QED BY <1>3, <1>4
-----------------------------------------------------------------------------
(* Every step keeps the invariant, part by part. *)

\* What a failure and a pump that starts over are.
LEMMA FaultTypes ==
  ASSUME TypeOK
  PROVE  /\ Works => faults' \in 0..MaxFaults /\ faults' = faults
         /\ Fault => faults' \in 0..MaxFaults /\ faults' = faults - 1 /\ faults' # MaxFaults
         /\ UNCHANGED faults => faults' \in 0..MaxFaults
         /\ [pc |-> "select", copy |-> 0] \in [pc : PumpPC, copy : 0..MaxCopies]
         /\ [pc |-> "stopped", copy |-> 0] \in [pc : PumpPC, copy : 0..MaxCopies]
         /\ [pc |-> "idle", copy |-> 0] \in [pc : WorkerPC, copy : 0..MaxCopies]
         /\ [pc |-> "exited", copy |-> 0] \in [pc : WorkerPC, copy : 0..MaxCopies]
<1>1. 0 \in 0..MaxCopies BY ConsumerAssumption
<1> QED BY <1>1, ConsumerAssumption DEF TypeOK, Works, Fault, PumpPC, WorkerPC

\* Hand: the pump's delivery goes to an idle goroutine, and its handler runs.
LEMMA HandEffect ==
  ASSUME TypeOK, HeldSound, NEW w \in Workers, Hand(w)
  PROVE  /\ pump.pc = "hand" /\ pump.copy \in Copies /\ copy[pump.copy].place = InHand
         /\ wrk' \in [Workers -> [pc : WorkerPC, copy : 0..MaxCopies]]
         /\ wrk'[w].pc = "handle" /\ wrk'[w].copy = pump.copy
         /\ \A v \in Workers : v # w => wrk'[v] = wrk[v]
         /\ \A v \in Workers : wrk[v].copy # pump.copy
         /\ runs' \in [Events -> 0..(MaxAttempts + 1)]
         /\ LET e == copy[pump.copy].event IN
            /\ e \in Events
            /\ runs'[e] = IF runs[e] > MaxAttempts THEN runs[e] ELSE runs[e] + 1
            /\ \A d \in Events : d # e => runs'[d] = runs[d]
<1>1. pump.pc = "hand" /\ pump.copy # 0 BY DEF Hand, HeldSound
<1>2. pump.copy \in Copies /\ copy[pump.copy].place = InHand BY <1>1, Parts DEF HeldSound
<1>3. copy[pump.copy].event \in Events BY <1>2, Parts
<1> DEFINE x == [pc |-> "handle", copy |-> pump.copy]
           e == copy[pump.copy].event
<1>4. x \in [pc : WorkerPC, copy : 0..MaxCopies] /\ x.pc = "handle" /\ x.copy = pump.copy
  BY <1>2, Parts DEF WorkerPC
<1>5. wrk' = [wrk EXCEPT ![w] = x] BY DEF Hand
<1>6. wrk \in [Workers -> [pc : WorkerPC, copy : 0..MaxCopies]] BY DEF TypeOK
<1>7. runs' = [runs EXCEPT ![e] = IF runs[e] > MaxAttempts THEN runs[e] ELSE runs[e] + 1]
  BY <1>3 DEF Hand, TypeOK
<1>8. runs \in [Events -> 0..(MaxAttempts + 1)] BY DEF TypeOK
<1>9. \A v \in Workers : wrk[v].copy # pump.copy
  BY <1>1 DEF HeldSound
<1> HIDE DEF x, e
<1>10. e \in Events BY <1>3 DEF e
<1>11. /\ wrk' \in [Workers -> [pc : WorkerPC, copy : 0..MaxCopies]]
       /\ wrk'[w] = x /\ \A v \in Workers : v # w => wrk'[v] = wrk[v]
  BY <1>4, <1>5, <1>6
<1>12. /\ runs' \in [Events -> 0..(MaxAttempts + 1)]
       /\ runs'[e] = IF runs[e] > MaxAttempts THEN runs[e] ELSE runs[e] + 1
       /\ \A d \in Events : d # e => runs'[d] = runs[d]
  BY <1>7, <1>8, <1>10, MaxAttemptsAssumption
<1> QED BY <1>1, <1>2, <1>4, <1>9, <1>10, <1>11, <1>12 DEF e

\* Every step of the broker, the pump and the goroutines keeps the types.
LEMMA TypeStep ==
  ASSUME TypeOK, HeldSound, KeysSound, Next
  PROVE  TypeOK'
<1> USE FaultTypes
<1>t. /\ published \in SUBSET Events /\ copy \in [Copies -> Copy]
      /\ pump \in [pc : PumpPC, copy : 0..MaxCopies]
      /\ wrk \in [Workers -> [pc : WorkerPC, copy : 0..MaxCopies]]
      /\ open \in BOOLEAN /\ main \in MainPC /\ handled \in SUBSET Events
      /\ runs \in [Events -> 0..(MaxAttempts + 1)] /\ faults \in 0..MaxFaults
  BY DEF TypeOK
<1>1. ASSUME NEW e \in Events, PublishEvent(e) PROVE TypeOK'
  BY <1>1, <1>t, PublishEffect DEF PublishEvent, TypeOK
<1>2. ASSUME NEW c \in Copies, ReturnFromLevel(c) PROVE TypeOK'
  BY <1>2, <1>t, ReturnEffect DEF ReturnFromLevel, TypeOK
<1>3. ASSUME NEW c \in Copies, Deliver(c) PROVE TypeOK'
  BY <1>3, <1>t, DeliverEffect DEF Deliver, TypeOK
<1>4. ASSUME NEW c \in Copies, Take(c) PROVE TypeOK'
  <2>1. pump' \in [pc : PumpPC, copy : 0..MaxCopies] BY <1>4, Parts DEF Take, PumpPC
  <2> QED BY <1>4, <1>t, <2>1 DEF Take, TypeOK
<1>5. ASSUME NEW w \in Workers, Hand(w) PROVE TypeOK'
  BY <1>5, <1>t, HandEffect DEF Hand, TypeOK
<1>6. ASSUME NEW w \in Workers, handle(w) PROVE TypeOK'
  <2>1. Held(w).event \in Events
    BY <1>6, HeldFacts, Parts DEF handle, At, AtWork
  <2>2. wrk' \in [Workers -> [pc : WorkerPC, copy : 0..MaxCopies]]
    BY <1>6, GotoFacts DEF handle, WorkerPC
  <2> QED BY <1>6, <1>t, <2>1, <2>2 DEF handle, TypeOK
<1>7. ASSUME NEW w \in Workers, forward(w) PROVE TypeOK'
  <2>1. wrk' \in [Workers -> [pc : WorkerPC, copy : 0..MaxCopies]] /\ faults' \in 0..MaxFaults
    BY <1>7, ForwardEffect, GotoFacts DEF WorkerPC
  <2> QED BY <1>7, <1>t, <2>1, ForwardEffect DEF forward, TypeOK
<1>8. ASSUME NEW w \in Workers, reject(w) PROVE TypeOK'
  <2>1. wrk' \in [Workers -> [pc : WorkerPC, copy : 0..MaxCopies]] BY <1>8, GotoFacts DEF reject
  <2> QED BY <1>8, <1>t, <2>1, RejectEffect DEF reject, TypeOK
<1>9. ASSUME NEW w \in Workers, ack(w) PROVE TypeOK'
  <2>1. wrk' \in [Workers -> [pc : WorkerPC, copy : 0..MaxCopies]] BY <1>9, GotoFacts DEF ack
  <2> QED BY <1>9, <1>t, <2>1, AckEffect DEF ack, TypeOK
<1>10. ASSUME NEW w \in Workers, Exit(w) PROVE TypeOK'
  <2>1. wrk' \in [Workers -> [pc : WorkerPC, copy : 0..MaxCopies]]
    BY <1>10, GotoFacts DEF Exit, WorkerPC
  <2> QED BY <1>10, <1>t, <2>1 DEF Exit, TypeOK
<1>11. CASE StopPump BY <1>11, <1>t DEF StopPump, TypeOK
<1>12. CASE BreakChannel BY <1>12, <1>t, RequeuedFacts DEF BreakChannel, TypeOK
<1>13. CASE Interrupt \/ Drained \/ GiveUp
  BY <1>13, <1>t DEF Interrupt, Drained, GiveUp, Become, TypeOK, MainPC
<1>14. ASSUME NEW from, Down(from), Works \/ Fault PROVE TypeOK'
  <2>1. wrk' \in [Workers -> [pc : WorkerPC, copy : 0..MaxCopies]] BY <1>14 DEF Down
  <2> QED BY <1>14, <1>t, <2>1, RequeuedFacts DEF Down, TypeOK, MainPC
<1>15. CASE Restart
  <2>1. wrk' \in [Workers -> [pc : WorkerPC, copy : 0..MaxCopies]] BY <1>15 DEF Restart, Started
  <2> QED BY <1>15, <1>t, <2>1 DEF Restart, Started, Become, TypeOK, MainPC
<1> QED
  BY <1>1, <1>2, <1>3, <1>4, <1>5, <1>6, <1>7, <1>8, <1>9, <1>10, <1>11, <1>12, <1>13, <1>14, <1>15
  DEF Next, process, Close, Crash

\* A step that writes a slot nobody holds, and leaves the holders.
LEMMA HeldKept ==
  ASSUME TypeOK, HeldSound, UNCHANGED <<pump, wrk, open, main>>,
         \A c \in Copies : copy'[c].place = Unacked => open,
         \A c \in Copies :
           (c = pump.copy \/ \E w \in Workers : wrk[w].copy = c) => copy'[c].place = copy[c].place
  PROVE  HeldSound'
<1>1. pump.copy # 0 => copy'[pump.copy].place = InHand' BY Parts DEF HeldSound, InHand
<1>2. \A w \in Workers : wrk[w].copy # 0 => copy'[wrk[w].copy].place = InHand'
  BY Parts DEF HeldSound, InHand
<1> QED BY <1>1, <1>2 DEF HeldSound, Returned, At

\* What pump and goroutines hold stays in hand, and by one of them only.
LEMMA HeldStep ==
  ASSUME TypeOK, HeldSound, KeysSound, Next
  PROVE  HeldSound'
<1>k. \A c \in Copies : (c = pump.copy \/ \E w \in Workers : wrk[w].copy = c) => copy[c].place = InHand
  BY Parts DEF HeldSound
<1>i. InHand \in {Process, Unacked} BY DEF InHand
<1>1. ASSUME NEW e \in Events, PublishEvent(e) PROVE HeldSound'
  <2>1. UNCHANGED <<pump, wrk, open, main>> BY <1>1 DEF PublishEvent
  <2>2. \A c \in Copies : copy'[c].place = Unacked => open
    BY <1>1, PublishEffect, PlacesDiffer DEF HeldSound
  <2>3. \A c \in Copies :
          (c = pump.copy \/ \E w \in Workers : wrk[w].copy = c) => copy'[c].place = copy[c].place
    BY <1>1, <1>k, <1>i, PublishEffect, PlacesDiffer
  <2> QED BY <2>1, <2>2, <2>3, HeldKept
<1>2. ASSUME NEW c \in Copies, ReturnFromLevel(c) PROVE HeldSound'
  <2>1. UNCHANGED <<pump, wrk, open, main>> BY <1>2 DEF ReturnFromLevel
  <2>2. \A d \in Copies : copy'[d].place = Unacked => open
    BY <1>2, ReturnEffect, PlacesDiffer DEF HeldSound
  <2>3. \A d \in Copies :
          (d = pump.copy \/ \E w \in Workers : wrk[w].copy = d) => copy'[d].place = copy[d].place
    BY <1>2, <1>k, <1>i, ReturnEffect, PlacesDiffer
  <2> QED BY <2>1, <2>2, <2>3, HeldKept
<1>3. ASSUME NEW c \in Copies, Deliver(c) PROVE HeldSound'
  <2>1. UNCHANGED <<pump, wrk, open, main>> /\ open BY <1>3 DEF Deliver
  <2>2. \A d \in Copies : copy'[d].place = Unacked => open BY <2>1
  <2>3. \A d \in Copies :
          (d = pump.copy \/ \E w \in Workers : wrk[w].copy = d) => copy'[d].place = copy[d].place
    BY <1>3, <1>k, <2>1, DeliverEffect, PlacesDiffer DEF InHand
  <2> QED BY <2>1, <2>2, <2>3, HeldKept
<1>4. ASSUME NEW c \in Copies, Take(c) PROVE HeldSound'
  <2>1. UNCHANGED <<copy, wrk, open, main>> /\ open BY <1>4 DEF Take
  <2>2. pump' = [pc |-> "hand", copy |-> c] /\ pump.pc = "select" BY <1>4 DEF Take
  <2>3. pump'.pc = "hand" /\ pump'.copy = c /\ c # 0 BY <2>2, Parts
  <2>4. copy[c].place = InHand /\ \A w \in Workers : wrk[w].copy # c
    BY <1>4, <2>1 DEF Take, Arrived, InHand
  <2>5. main # "close" BY <2>2 DEF HeldSound, Returned
  <2> QED BY <2>1, <2>3, <2>4, <2>5 DEF HeldSound, InHand
<1>5. ASSUME NEW w \in Workers, Hand(w) PROVE HeldSound'
  <2>1. UNCHANGED <<copy, open, main>> /\ pump' = [pc |-> "select", copy |-> 0] BY <1>5 DEF Hand
  <2>2. pump'.pc = "select" /\ pump'.copy = 0 BY <2>1
  <2>3. main # "close" BY <1>5 DEF Hand, HeldSound, Returned
  <2>4. "handle" \in AtWork /\ pump.copy # 0 BY <1>5, HandEffect, Parts DEF AtWork
  <2>5. ASSUME NEW v \in Workers
        PROVE  /\ wrk'[v].pc \in AtWork <=> wrk'[v].copy # 0
               /\ wrk'[v].copy # 0 => copy[wrk'[v].copy].place = InHand
               /\ \A u \in Workers : u # v /\ wrk'[v].copy # 0 => wrk'[u].copy # wrk'[v].copy
    BY <1>5, <2>4, HandEffect DEF HeldSound
  <2> QED BY <2>1, <2>2, <2>3, <2>5 DEF HeldSound, InHand
<1>6. ASSUME NEW w \in Workers, UNCHANGED <<pump, open, main>>, main # "close",
             \A c \in Copies : copy'[c].place = Unacked => open,
             \A c \in Copies :
               (c = pump.copy \/ \E v \in Workers : v # w /\ wrk[v].copy = c)
                 => copy'[c].place = copy[c].place,
             \A v \in Workers : v # w => wrk'[v] = wrk[v],
             \/ /\ wrk'[w].pc \in AtWork /\ wrk[w].pc \in AtWork /\ wrk'[w].copy = wrk[w].copy
                /\ copy'[wrk[w].copy].place = copy[wrk[w].copy].place
             \/ wrk'[w].pc \notin AtWork /\ wrk'[w].copy = 0
      PROVE  HeldSound'
  <2>1. pump'.copy # 0 => copy'[pump'.copy].place = InHand' BY <1>6, Parts DEF HeldSound, InHand
  <2>2. ASSUME NEW v \in Workers
        PROVE  /\ wrk'[v].pc \in AtWork <=> wrk'[v].copy # 0
               /\ wrk'[v].copy # 0 => copy'[wrk'[v].copy].place = InHand' /\ wrk'[v].copy # pump.copy
    BY <1>6, Parts DEF HeldSound, InHand
  <2>3. ASSUME NEW v \in Workers, NEW u \in Workers, u # v, wrk'[v].copy # 0
        PROVE  wrk'[u].copy # wrk'[v].copy
    BY <1>6, <2>3 DEF HeldSound
  <2> QED BY <1>6, <2>1, <2>2, <2>3 DEF HeldSound
<1>7. ASSUME NEW w \in Workers, wrk[w].pc \in AtWork PROVE main # "close"
  BY <1>7 DEF HeldSound, Returned, At, AtWork
<1>8. ASSUME NEW w \in Workers, handle(w) PROVE HeldSound'
  <2>1. UNCHANGED <<copy, pump, open, main>> /\ wrk[w].pc \in AtWork BY <1>8 DEF handle, At, AtWork
  <2>2. /\ wrk'[w].pc \in {"ack", "forward"} /\ wrk'[w].copy = wrk[w].copy
        /\ \A v \in Workers : v # w => wrk'[v] = wrk[v]
    BY <1>8, GotoFacts DEF handle, WorkerPC
  <2>3. wrk'[w].pc \in AtWork BY <2>2 DEF AtWork
  <2>4. \A c \in Copies : copy'[c].place = Unacked => open BY <2>1 DEF HeldSound
  <2> QED BY <1>6, <1>7, <2>1, <2>2, <2>3, <2>4
<1>9. ASSUME NEW w \in Workers, forward(w) PROVE HeldSound'
  <2>1. UNCHANGED <<pump, open, main>> /\ wrk[w].pc \in AtWork
    BY <1>9 DEF forward, At, AtWork
  <2>2. /\ wrk'[w].pc \in {"ack", "reject"} /\ wrk'[w].copy = wrk[w].copy
        /\ \A v \in Workers : v # w => wrk'[v] = wrk[v]
    BY <1>9, ForwardEffect, GotoFacts DEF WorkerPC
  <2>3. wrk'[w].pc \in AtWork BY <2>2 DEF AtWork
  <2>4. Held(w) \in Copy BY <2>1, HeldFacts
  <2>5. \A c \in Copies : copy'[c].place = Unacked => open
    BY <1>9, <2>4, ForwardEffect, ForwardFacts, PlacesDiffer DEF HeldSound
  <2>6. \A c \in Copies : copy[c].place = InHand => copy'[c].place = copy[c].place
    BY <1>9, <1>i, ForwardEffect, PlacesDiffer
  <2>7. \A c \in Copies :
          (c = pump.copy \/ \E v \in Workers : wrk[v].copy = c) => copy'[c].place = copy[c].place
    BY <1>k, <2>6
  <2> QED BY <1>6, <1>7, <1>9, <2>1, <2>2, <2>3, <2>5, <2>7, ForwardEffect
<1>10. ASSUME NEW w \in Workers, reject(w) \/ ack(w) PROVE HeldSound'
  <2>1. UNCHANGED <<pump, open, main>> /\ wrk[w].pc \in AtWork
    BY <1>10 DEF reject, ack, At, AtWork
  <2>2. /\ wrk'[w].pc = "idle" /\ wrk'[w].copy = 0
        /\ \A v \in Workers : v # w => wrk'[v] = wrk[v]
    BY <1>10, GotoFacts DEF reject, ack
  <2>3. wrk'[w].pc \notin AtWork BY <2>2 DEF AtWork
  <2>4. wrk[w].copy \in Copies /\ wrk[w].copy # 0 BY <2>1, HeldFacts, Parts
  <2>5. \A c \in Copies : c # wrk[w].copy => copy'[c] = copy[c]
    BY <1>10, RejectEffect, AckEffect
  <2>6. copy'[wrk[w].copy].place = Unacked => open
    BY <1>10, <2>4, RejectEffect, AckEffect, PlacesDiffer DEF HeldSound
  <2>7. \A c \in Copies : copy'[c].place = Unacked => open BY <2>5, <2>6 DEF HeldSound
  <2>8. \A c \in Copies :
          (c = pump.copy \/ \E v \in Workers : v # w /\ wrk[v].copy = c) => c # wrk[w].copy
    BY <2>4 DEF HeldSound
  <2> QED BY <1>6, <1>7, <2>1, <2>2, <2>3, <2>5, <2>7, <2>8
<1>11. ASSUME NEW w \in Workers, Exit(w) PROVE HeldSound'
  <2>1. UNCHANGED <<copy, pump, open, main>> /\ wrk[w].pc = "idle" BY <1>11 DEF Exit, At
  <2>2. /\ wrk'[w].pc = "exited" /\ wrk'[w].copy = wrk[w].copy
        /\ \A v \in Workers : v # w => wrk'[v] = wrk[v]
    BY <1>11, GotoFacts DEF Exit, WorkerPC
  <2>3. "idle" \notin AtWork /\ "exited" \notin AtWork BY DEF AtWork
  <2>4. wrk'[w].copy = 0 BY <2>1, <2>2, <2>3 DEF HeldSound
  <2>5. main # "close" BY <2>1 DEF HeldSound, Returned, At
  <2>6. \A c \in Copies : copy'[c].place = Unacked => open BY <2>1 DEF HeldSound
  <2> QED BY <1>6, <2>1, <2>2, <2>3, <2>4, <2>5, <2>6
<1>12. CASE StopPump
  <2>1. UNCHANGED <<copy, wrk, open, main>> /\ pump' = [pc |-> "stopped", copy |-> 0]
    BY <1>12 DEF StopPump
  <2>2. pump'.pc = "stopped" /\ pump'.copy = 0 BY <2>1
  <2>3. \A w \in Workers : wrk[w].copy # 0 => wrk[w].copy # pump'.copy BY <2>2
  <2> QED BY <2>1, <2>2, <2>3 DEF HeldSound, Returned, At, InHand
<1>13. CASE BreakChannel
  <2>1. open /\ ~open' /\ copy' = Requeued /\ UNCHANGED <<pump, wrk, main>> BY <1>13 DEF BreakChannel, TypeOK
  <2>2. InHand = Unacked /\ InHand' = Process BY <2>1 DEF InHand
  <2>3. \A c \in Copies : copy'[c].place # Unacked /\ (copy[c].place = Unacked => copy'[c].place = Process)
    BY <2>1, RequeuedFacts, PlacesDiffer
  <2>4. pump.copy # 0 => copy'[pump.copy].place = InHand' BY <2>2, <2>3, Parts DEF HeldSound
  <2>5. \A w \in Workers : wrk[w].copy # 0 => copy'[wrk[w].copy].place = InHand'
    BY <2>2, <2>3, Parts DEF HeldSound
  <2> QED BY <2>1, <2>3, <2>4, <2>5 DEF HeldSound, Returned, At
<1>14. CASE Interrupt \/ Drained \/ GiveUp
  <2>1. UNCHANGED <<copy, pump, wrk, open>> BY <1>14 DEF Interrupt, Drained, GiveUp
  <2>2. main' = "close" => Returned BY <1>14 DEF Interrupt, Drained, GiveUp, Become
  <2> QED BY <2>1, <2>2 DEF HeldSound, Returned, At, InHand
<1>15. ASSUME NEW from, Down(from) PROVE HeldSound'
  <2>1. /\ ~open' /\ copy' = Requeued /\ main' = "down"
        /\ pump' = [pc |-> "stopped", copy |-> 0]
        /\ wrk' = [w \in Workers |-> [pc |-> "exited", copy |-> 0]]
    BY <1>15 DEF Down
  <2>2. /\ pump'.pc = "stopped" /\ pump'.copy = 0
        /\ \A w \in Workers : wrk'[w].pc = "exited" /\ wrk'[w].copy = 0
    BY <2>1
  <2>3. \A c \in Copies : copy'[c].place # Unacked BY <2>1, RequeuedFacts, PlacesDiffer
  <2>4. "exited" \notin AtWork BY DEF AtWork
  <2> QED BY <2>1, <2>2, <2>3, <2>4 DEF HeldSound
<1>16. CASE Restart
  <2>1. /\ open' /\ UNCHANGED copy /\ main' = "select"
        /\ pump' = [pc |-> "select", copy |-> 0]
        /\ wrk' = [w \in Workers |-> [pc |-> "idle", copy |-> 0]]
    BY <1>16 DEF Restart, Started, Become
  <2>2. /\ pump'.pc = "select" /\ pump'.copy = 0
        /\ \A w \in Workers : wrk'[w].pc = "idle" /\ wrk'[w].copy = 0
    BY <2>1
  <2>3. "idle" \notin AtWork BY DEF AtWork
  <2> QED BY <2>1, <2>2, <2>3 DEF HeldSound
<1> QED
  BY <1>1, <1>2, <1>3, <1>4, <1>5, <1>8, <1>9, <1>10, <1>11, <1>12, <1>13, <1>14, <1>15, <1>16
  DEF Next, process, Close, Crash

\* A copy that is not new keeps the key a rejection needs.
LEMMA KeysStep ==
  ASSUME TypeOK, HeldSound, KeysSound, Next
  PROVE  KeysSound'
<1> DEFINE Good(c) == c.place \in {Process, Unacked} => c.key \in {EventKey, RetriedKey}
<1>s. SUFFICES \A c \in Copies : Good(copy'[c]) BY DEF KeysSound
<1>k. \A c \in Copies : Good(copy[c]) BY DEF KeysSound
<1>q. \A x : x.place \in LevelQueues \cup {Dead, Nowhere} => Good(x) BY PlacesDiffer
<1>1. ASSUME NEW e \in Events, PublishEvent(e) PROVE \A c \in Copies : Good(copy'[c])
  BY <1>1, <1>k, PublishEffect
<1>2. ASSUME NEW c \in Copies, ReturnFromLevel(c) PROVE \A d \in Copies : Good(copy'[d])
  BY <1>2, <1>k, ReturnEffect
<1>3. ASSUME NEW c \in Copies, Deliver(c) PROVE \A d \in Copies : Good(copy'[d])
  <2>1. copy[c].key \in {EventKey, RetriedKey} BY <1>3, <1>k, DeliverEffect
  <2> QED BY <1>3, <1>k, <2>1, DeliverEffect
<1>4. ASSUME NEW w \in Workers, forward(w) PROVE \A d \in Copies : Good(copy'[d])
  <2>1. Held(w) \in Copy BY <1>4, HeldFacts DEF forward, At, AtWork
  <2>2. ForwardedFrom(Held(w)).place \in LevelQueues \cup {Dead} BY <2>1, ForwardFacts
  <2>3. Good(ForwardedFrom(Held(w))) BY <2>2, <1>q
  <2> HIDE DEF Good
  <2> QED BY <1>4, <1>k, <2>3, ForwardEffect
<1>5. ASSUME NEW w \in Workers, reject(w) PROVE \A d \in Copies : Good(copy'[d])
  BY <1>5, <1>k, <1>q, RejectEffect
<1>6. ASSUME NEW w \in Workers, ack(w) PROVE \A d \in Copies : Good(copy'[d])
  BY <1>6, <1>k, <1>q, AckEffect
<1>7. CASE copy' = Requeued BY <1>7, <1>k, RequeuedFacts
<1>8. CASE UNCHANGED copy BY <1>8, <1>k
<1> QED
  BY <1>1, <1>2, <1>3, <1>4, <1>5, <1>6, <1>7, <1>8
  DEF Next, process, Take, Hand, handle, Exit, StopPump, BreakChannel, Interrupt, Drained, GiveUp,
      Close, Crash, Down, Restart

\* An event keeps a copy that no acknowledgement is about to remove.
Kept(e, c) ==
  /\ copy[c].event = e /\ copy[c].place # Nowhere
  /\ open => \A w \in Workers : At(w, "ack") => wrk[w].copy # c

\* A step that keeps what it finds, and lets no goroutine go on to an acknowledgement.
LEMMA SecuredKept ==
  ASSUME Secured, published' \ handled' \subseteq published \ handled,
         \A c \in Copies : copy[c].place # Nowhere =>
           copy'[c].event = copy[c].event /\ copy'[c].place # Nowhere,
         open' => open,
         open' => \A w \in Workers :
           wrk'[w].pc = "ack" => wrk[w].pc = "ack" /\ wrk'[w].copy = wrk[w].copy
  PROVE  Secured'
<1>1. ASSUME NEW e \in published' \ handled'
      PROVE  \E c \in Copies : /\ copy'[c].event = e /\ copy'[c].place # Nowhere
                               /\ open' => \A w \in Workers : wrk'[w].pc = "ack" => wrk'[w].copy # c
  <2>1. PICK c \in Copies : Kept(e, c) BY DEF Secured, Kept
  <2>2. copy[c].event = e /\ copy[c].place # Nowhere BY <2>1 DEF Kept
  <2>3. copy'[c].event = e /\ copy'[c].place # Nowhere BY <2>2
  <2>4. open' => \A w \in Workers : wrk'[w].pc = "ack" => wrk'[w].copy # c
    BY <2>1 DEF Kept, At
  <2> QED BY <2>3, <2>4
<1> QED BY <1>1 DEF Secured, At

\* Every step leaves each event a copy that nobody is about to ack, or its end.
LEMMA SecuredStep ==
  ASSUME IInv, Next
  PROVE  Secured'
<1>i. TypeOK /\ HeldSound /\ KeysSound /\ Secured BY DEF IInv
<1>1. ASSUME NEW e \in Events, PublishEvent(e) PROVE Secured'
  <2>1. /\ UNCHANGED <<wrk, open, handled>> /\ published' = published \cup {e}
    BY <1>1 DEF PublishEvent
  <2>2. \A c \in Copies : copy[c].place # Nowhere =>
           copy'[c].event = copy[c].event /\ copy'[c].place # Nowhere
    BY <1>1, <1>i, PublishEffect
  <2>3. ASSUME NEW d \in (published \ handled)
        PROVE  \E c \in Copies : Kept(d, c)'
    <3>1. PICK c \in Copies : Kept(d, c) BY <1>i, <2>3 DEF Secured, Kept
    <3>2. Kept(d, c)' BY <2>1, <2>2, <3>1 DEF Kept, At
    <3> QED BY <3>2
  <2>5. \E c \in Copies : Kept(e, c)'
    <3>1. PICK c \in Copies : c = Fresh BY <1>1, <1>i, PublishEffect
    <3>2. /\ copy[c].place = Nowhere /\ copy'[c].place = Process /\ copy'[c].event = e
      BY <1>1, <1>i, <3>1, PublishEffect
    <3>3. \A w \in Workers : At(w, "ack") => wrk[w].copy # c
      BY <1>i, <3>2, HeldFacts, PlacesDiffer DEF At, AtWork
    <3>4. Kept(e, c)' BY <2>1, <3>2, <3>3, PlacesDiffer DEF Kept, At
    <3> QED BY <3>4
  <2>6. \A d \in published' \ handled' : \E c \in Copies : Kept(d, c)' BY <2>1, <2>3, <2>5
  <2> QED BY <2>6 DEF Secured, Kept
<1>2. ASSUME NEW c \in Copies, ReturnFromLevel(c) PROVE Secured'
  <2>1. UNCHANGED <<published, handled, wrk, open>> BY <1>2 DEF ReturnFromLevel
  <2>2. \A d \in Copies : copy[d].place # Nowhere =>
           copy'[d].event = copy[d].event /\ copy'[d].place # Nowhere
    BY <1>2, <1>i, ReturnEffect, PlacesDiffer
  <2> QED BY <1>i, <2>1, <2>2, SecuredKept
<1>3. ASSUME NEW c \in Copies, Deliver(c) PROVE Secured'
  <2>1. UNCHANGED <<published, handled, wrk, open>> BY <1>3 DEF Deliver
  <2>2. \A d \in Copies : copy[d].place # Nowhere =>
           copy'[d].event = copy[d].event /\ copy'[d].place # Nowhere
    BY <1>3, <1>i, DeliverEffect, PlacesDiffer
  <2> QED BY <1>i, <2>1, <2>2, SecuredKept
<1>4. ASSUME UNCHANGED <<published, copy, handled, wrk, open>> PROVE Secured'
  BY <1>4, <1>i, SecuredKept
<1>5. ASSUME NEW w \in Workers, Hand(w) PROVE Secured'
  <2>1. UNCHANGED <<published, copy, handled, open>> BY <1>5 DEF Hand
  <2>2. \A v \in Workers : wrk'[v].pc = "ack" => wrk[v].pc = "ack" /\ wrk'[v].copy = wrk[v].copy
    BY <1>5, <1>i, HandEffect
  <2> QED BY <1>i, <2>1, <2>2, SecuredKept
\* The handler ended: its event needs no copy.
<1>6. ASSUME NEW w \in Workers, handle(w), Goto(w, "ack"), handled' = handled \cup {Held(w).event}
      PROVE  Secured'
  <2>1. UNCHANGED <<published, copy, open>> BY <1>6 DEF handle
  <2>2. /\ wrk'[w].copy = wrk[w].copy /\ \A v \in Workers : v # w => wrk'[v] = wrk[v]
    BY <1>6, <1>i, GotoFacts DEF WorkerPC
  <2>3. ASSUME NEW e \in published' \ handled' PROVE \E c \in Copies : Kept(e, c)'
    <3>1. e \in published \ handled /\ e # Held(w).event BY <1>6, <2>1
    <3>2. PICK c \in Copies : Kept(e, c) BY <1>i, <3>1 DEF Secured, Kept
    <3>3. wrk[w].copy # c BY <3>1, <3>2 DEF Kept, Held
    <3>4. Kept(e, c)' BY <2>1, <2>2, <3>2, <3>3 DEF Kept, At
    <3> QED BY <3>4
  <2> QED BY <2>3 DEF Secured, Kept
<1>7. ASSUME NEW w \in Workers, handle(w), Goto(w, "forward"), UNCHANGED handled
      PROVE  Secured'
  <2>1. UNCHANGED <<published, copy, handled, open>> BY <1>7 DEF handle
  <2>2. \A v \in Workers : wrk'[v].pc = "ack" => wrk[v].pc = "ack" /\ wrk'[v].copy = wrk[v].copy
    BY <1>7, <1>i, GotoFacts DEF WorkerPC
  <2> QED BY <1>i, <2>1, <2>2, SecuredKept
\* The confirmed copy is the one to rely on, before the old one is acknowledged.
<1>8. ASSUME NEW w \in Workers, forward(w) PROVE Secured'
  <2>1. UNCHANGED <<published, handled, open>> BY <1>8 DEF forward
  <2>2. Held(w) \in Copy BY <1>8, <1>i, HeldFacts DEF forward, At, AtWork
  <2>3. \A d \in Copies : copy[d].place # Nowhere =>
           copy'[d].event = copy[d].event /\ copy'[d].place # Nowhere
    BY <1>8, <1>i, ForwardEffect
  <2>4. CASE Goto(w, "reject")
    <3>1. \A v \in Workers : wrk'[v].pc = "ack" => wrk[v].pc = "ack" /\ wrk'[v].copy = wrk[v].copy
      BY <2>4, <1>i, GotoFacts DEF WorkerPC
    <3> QED BY <1>i, <2>1, <2>3, <3>1, SecuredKept
  <2>5. CASE copy'[Fresh] = ForwardedFrom(Held(w)) /\ Goto(w, "ack")
    <3>1. /\ wrk'[w].copy = wrk[w].copy /\ \A v \in Workers : v # w => wrk'[v] = wrk[v]
      BY <2>5, <1>i, GotoFacts DEF WorkerPC
    <3>2. ASSUME NEW e \in published' \ handled' PROVE \E c \in Copies : Kept(e, c)'
      <4>1. CASE e = Held(w).event
        <5>1. PICK c \in Copies : c = Fresh BY <1>8, <1>i, ForwardEffect
        <5>2. /\ copy[c].place = Nowhere /\ copy'[c].event = e /\ copy'[c].place # Nowhere
              /\ c # wrk[w].copy
          BY <1>8, <1>i, <2>2, <2>5, <4>1, <5>1, ForwardEffect, ForwardFacts, PlacesDiffer
        <5>3. \A v \in Workers : At(v, "ack") => wrk[v].copy # c
          BY <1>i, <5>2, HeldFacts, PlacesDiffer DEF At, AtWork
        <5>4. Kept(e, c)' BY <2>1, <3>1, <5>2, <5>3 DEF Kept, At
        <5> QED BY <5>4
      <4>2. CASE e # Held(w).event
        <5>1. e \in published \ handled BY <2>1, <3>2
        <5>2. PICK c \in Copies : Kept(e, c) BY <1>i, <5>1 DEF Secured, Kept
        <5>3. wrk[w].copy # c BY <4>2, <5>2 DEF Kept, Held
        <5>4. Kept(e, c)' BY <2>1, <2>3, <3>1, <5>2, <5>3 DEF Kept, At
        <5> QED BY <5>4
      <4> QED BY <4>1, <4>2
    <3> QED BY <3>2 DEF Secured, Kept
  <2> QED BY <2>4, <2>5, <1>8, <1>i, ForwardEffect
<1>9. ASSUME NEW w \in Workers, reject(w) PROVE Secured'
  <2>1. UNCHANGED <<published, handled, open>> /\ Done(w) BY <1>9 DEF reject
  <2>2. \A d \in Copies : copy[d].place # Nowhere =>
           copy'[d].event = copy[d].event /\ copy'[d].place # Nowhere
    BY <1>9, <1>i, RejectEffect, PlacesDiffer
  <2>3. \A v \in Workers : wrk'[v].pc = "ack" => wrk[v].pc = "ack" /\ wrk'[v].copy = wrk[v].copy
    BY <2>1, <1>i, GotoFacts
  <2> QED BY <1>i, <2>1, <2>2, <2>3, SecuredKept
<1>10. ASSUME NEW w \in Workers, ack(w) PROVE Secured'
  <2>1. UNCHANGED <<published, handled, open>> /\ Done(w) BY <1>10 DEF ack
  <2>2. /\ wrk'[w].pc = "idle" /\ \A v \in Workers : v # w => wrk'[v] = wrk[v]
    BY <2>1, <1>i, GotoFacts
  <2>3. ASSUME NEW e \in published' \ handled' PROVE \E c \in Copies : Kept(e, c)'
    <3>1. PICK c \in Copies : Kept(e, c) BY <1>i, <2>1, <2>3 DEF Secured, Kept
    <3>2. open => c # wrk[w].copy BY <1>10, <3>1 DEF ack, Kept
    <3>3. copy'[c] = copy[c] BY <1>10, <1>i, <3>2, AckEffect
    <3>4. Kept(e, c)' BY <2>1, <2>2, <3>1, <3>3 DEF Kept, At
    <3> QED BY <3>4
  <2> QED BY <2>3 DEF Secured, Kept
<1>11. ASSUME NEW w \in Workers, Exit(w) PROVE Secured'
  <2>1. UNCHANGED <<published, copy, handled, open>> BY <1>11 DEF Exit
  <2>2. \A v \in Workers : wrk'[v].pc = "ack" => wrk[v].pc = "ack" /\ wrk'[v].copy = wrk[v].copy
    BY <1>11, <1>i, GotoFacts DEF Exit, WorkerPC
  <2> QED BY <1>i, <2>1, <2>2, SecuredKept
<1>12. ASSUME copy' = Requeued, ~open', UNCHANGED <<published, handled>> PROVE Secured'
  <2>1. \A d \in Copies : copy[d].place # Nowhere =>
           copy'[d].event = copy[d].event /\ copy'[d].place # Nowhere
    BY <1>12, <1>i, RequeuedFacts, PlacesDiffer
  <2> QED BY <1>12, <1>i, <2>1, SecuredKept
<1>13. CASE Restart
  <2>1. UNCHANGED <<published, copy, handled>> /\ wrk' = [w \in Workers |-> [pc |-> "idle", copy |-> 0]]
    BY <1>13 DEF Restart, Started
  <2>2. \A w \in Workers : wrk'[w].pc = "idle" BY <2>1
  <2>3. ASSUME NEW e \in published' \ handled' PROVE \E c \in Copies : Kept(e, c)'
    <3>1. PICK c \in Copies : Kept(e, c) BY <1>i, <2>1, <2>3 DEF Secured, Kept
    <3>2. Kept(e, c)' BY <2>1, <2>2, <3>1 DEF Kept, At
    <3> QED BY <3>2
  <2> QED BY <2>3 DEF Secured, Kept
<1>14. ASSUME NEW w \in Workers, handle(w) PROVE Secured' BY <1>6, <1>7, <1>14 DEF handle
<1>15. CASE (\E c \in Copies : Take(c)) \/ StopPump \/ Interrupt \/ Drained \/ GiveUp
  BY <1>4, <1>15 DEF Take, StopPump, Interrupt, Drained, GiveUp
<1>16. CASE BreakChannel \/ Close \/ Crash
  BY <1>12, <1>16, <1>i DEF BreakChannel, Close, Crash, Down, TypeOK
<1> QED
  BY <1>1, <1>2, <1>3, <1>5, <1>8, <1>9, <1>10, <1>11, <1>13, <1>14, <1>15, <1>16
  DEF Next, process

-----------------------------------------------------------------------------
(* The count of the attempts. *)

\* What a copy, and a goroutine with its delivery, may count when p was paid for the event.
CopyCount(x, p) ==
  x.place # Nowhere =>
    /\ attemptNumber(x.headers) <= p + 1
    /\ x.place \in LevelQueues /\ x.headers.attempts = 0 => attemptNumber(x.headers) <= p
    /\ x.place = Dead => MaxAttempts <= p

WorkCount(pc, x, p) ==
  /\ pc \in {"handle", "forward"} => attemptNumber(x.headers) <= p
  /\ pc = "reject" => attemptNumber(x.headers) + 1 <= p

NextPaid(e) == runs'[e] + (MaxFaults - faults')

\* CountSound said copy by copy and goroutine by goroutine, before and after a step.
LEMMA CountParts ==
  ASSUME TypeOK
  PROVE  /\ CountSound <=> /\ \A c \in Copies : CopyCount(copy[c], Paid(copy[c].event))
                           /\ \A w \in Workers :
                                WorkCount(wrk[w].pc, copy[wrk[w].copy], Paid(copy[wrk[w].copy].event))
         /\ CountSound' <=> /\ \A c \in Copies : CopyCount(copy'[c], NextPaid(copy'[c].event))
                            /\ \A w \in Workers :
                                 WorkCount(wrk'[w].pc, copy'[wrk'[w].copy], NextPaid(copy'[wrk'[w].copy].event))
<1>1. LevelQueues = {LevelQueue(i) : i \in Levels} BY DEF LevelQueues
<1>2. \A e : Paid(e)' = NextPaid(e) BY DEF Paid, NextPaid
<1>3. CountSound <=> /\ \A c \in Copies : CopyCount(copy[c], Paid(copy[c].event))
                     /\ \A w \in Workers :
                          WorkCount(wrk[w].pc, copy[wrk[w].copy], Paid(copy[wrk[w].copy].event))
  BY <1>1, Zenon DEF CountSound, CopyCount, WorkCount, Held, At
<1>4. CountSound' <=> /\ \A c \in Copies : CopyCount(copy'[c], NextPaid(copy'[c].event))
                      /\ \A w \in Workers :
                           WorkCount(wrk'[w].pc, copy'[wrk'[w].copy], NextPaid(copy'[wrk'[w].copy].event))
  BY <1>1, Zenon DEF CountSound, CopyCount, WorkCount, Held, At, Paid, NextPaid
<1> QED BY <1>3, <1>4

\* What is paid is a number, which no step lowers.
LEMMA PaidFacts ==
  ASSUME TypeOK
  PROVE  /\ \A e \in Events : Paid(e) \in Nat /\ runs[e] \in Nat /\ runs[e] <= Paid(e)
         /\ \A e \in Events : runs' = runs /\ faults' = faults => NextPaid(e) = Paid(e)
         /\ \A e \in Events : runs' = runs /\ Fault => NextPaid(e) = Paid(e) + 1
         /\ faults = MaxFaults => \A e \in Events : Paid(e) = runs[e]
BY ConsumerAssumption, MaxAttemptsAssumption DEF TypeOK, Paid, NextPaid, Fault

\* Paying more does no harm.
LEMMA CountMonotone ==
  ASSUME NEW x, x.headers \in Headers, NEW p \in Nat, NEW q \in Nat, p <= q
  PROVE  /\ CopyCount(x, p) => CopyCount(x, q)
         /\ \A pc : WorkCount(pc, x, p) => WorkCount(pc, x, q)
<1>1. attemptNumber(x.headers) \in Nat BY HeaderFacts
<1> QED BY <1>1, MaxAttemptsAssumption DEF CopyCount, WorkCount

\* A step whose copies keep their counts, and whose goroutines do.
LEMMA CountKept ==
  ASSUME TypeOK, HeldSound, CountSound,
         \A e \in Events : NextPaid(e) \in Nat /\ Paid(e) <= NextPaid(e),
         \A c \in Copies :
           \/ /\ copy'[c].event = copy[c].event /\ copy'[c].headers = copy[c].headers
              /\ copy'[c].place = copy[c].place \/
                 (copy[c].place # Nowhere /\ copy'[c].place \in {Process, Unacked})
           \/ CopyCount(copy'[c], NextPaid(copy'[c].event)),
         \A w \in Workers :
           \/ wrk'[w].pc \notin {"handle", "forward", "reject"}
           \/ /\ wrk'[w].pc = wrk[w].pc /\ wrk'[w].copy = wrk[w].copy
              /\ copy'[wrk[w].copy].event = copy[wrk[w].copy].event
              /\ copy'[wrk[w].copy].headers = copy[wrk[w].copy].headers
           \/ WorkCount(wrk'[w].pc, copy'[wrk'[w].copy], NextPaid(copy'[wrk'[w].copy].event))
  PROVE  CountSound'
<1>1. ASSUME NEW c \in Copies PROVE CopyCount(copy'[c], NextPaid(copy'[c].event))
  <2> DEFINE p == Paid(copy[c].event)
             q == NextPaid(copy[c].event)
  <2>1. copy[c].event \in Events /\ copy[c].headers \in Headers BY Parts
  <2>2. p \in Nat /\ q \in Nat /\ p <= q BY <2>1, PaidFacts
  <2>3. CopyCount(copy[c], p) BY CountParts
  <2>4. CopyCount(copy[c], q) BY <2>1, <2>2, <2>3, CountMonotone
  <2> HIDE DEF p, q
  <2>5. CASE /\ copy'[c].event = copy[c].event /\ copy'[c].headers = copy[c].headers
             /\ copy'[c].place = copy[c].place
    <3>1. CopyCount(copy'[c], q) BY <2>4, <2>5 DEF CopyCount
    <3> QED BY <2>5, <3>1 DEF q
  <2>6. CASE /\ copy'[c].event = copy[c].event /\ copy'[c].headers = copy[c].headers
             /\ copy[c].place # Nowhere /\ copy'[c].place \in {Process, Unacked}
    <3>1. CopyCount(copy'[c], q) BY <2>4, <2>6, PlacesDiffer DEF CopyCount
    <3> QED BY <2>6, <3>1 DEF q
  <2> QED BY <2>5, <2>6
<1>2. ASSUME NEW w \in Workers
      PROVE  WorkCount(wrk'[w].pc, copy'[wrk'[w].copy], NextPaid(copy'[wrk'[w].copy].event))
  <2>1. CASE wrk'[w].pc \notin {"handle", "forward", "reject"} BY <2>1 DEF WorkCount
  <2>2. CASE /\ wrk'[w].pc \in {"handle", "forward", "reject"}
             /\ wrk'[w].pc = wrk[w].pc /\ wrk'[w].copy = wrk[w].copy
             /\ copy'[wrk[w].copy].event = copy[wrk[w].copy].event
             /\ copy'[wrk[w].copy].headers = copy[wrk[w].copy].headers
    <3> DEFINE c == wrk[w].copy
               p == Paid(copy[c].event)
               q == NextPaid(copy[c].event)
    <3>1. c \in Copies BY <2>2, HeldFacts DEF AtWork
    <3>2. copy[c].event \in Events /\ copy[c].headers \in Headers BY <3>1, Parts
    <3>3. p \in Nat /\ q \in Nat /\ p <= q BY <3>2, PaidFacts
    <3>4. WorkCount(wrk[w].pc, copy[c], p) BY CountParts
    <3>5. WorkCount(wrk[w].pc, copy[c], q) BY <3>2, <3>3, <3>4, CountMonotone
    <3> HIDE DEF p, q
    <3>6. WorkCount(wrk'[w].pc, copy'[c], q) BY <2>2, <3>5 DEF WorkCount
    <3> QED BY <2>2, <3>6 DEF q
  <2> QED BY <2>1, <2>2
<1> QED BY <1>1, <1>2, CountParts

\* Every attempt in a header stays paid for by a run of the handler or a failure.
LEMMA CountStep ==
  ASSUME IInv, Next
  PROVE  CountSound'
<1>i. TypeOK /\ HeldSound /\ KeysSound /\ CountSound BY DEF IInv
<1>n. \A e \in Events : Paid(e) \in Nat /\ runs[e] \in Nat /\ runs[e] <= Paid(e) BY <1>i, PaidFacts
<1>u. runs' = runs /\ faults' = faults =>
        \A e \in Events : NextPaid(e) \in Nat /\ Paid(e) <= NextPaid(e) /\ NextPaid(e) = Paid(e)
  BY <1>i, <1>n, PaidFacts
<1>f. runs' = runs /\ Fault =>
        \A e \in Events : NextPaid(e) \in Nat /\ Paid(e) <= NextPaid(e) /\ NextPaid(e) = Paid(e) + 1
  BY <1>i, <1>n, PaidFacts
<1>c. \A c \in Copies : CopyCount(copy[c], Paid(copy[c].event)) BY <1>i, CountParts
<1>w. \A w \in Workers : WorkCount(wrk[w].pc, copy[wrk[w].copy], Paid(copy[wrk[w].copy].event))
  BY <1>i, CountParts
<1>h. \A w \in Workers : wrk[w].pc \in AtWork =>
        /\ wrk[w].copy \in Copies /\ copy[wrk[w].copy].place \in {Process, Unacked}
        /\ copy[wrk[w].copy].event \in Events /\ copy[wrk[w].copy].headers \in Headers
        /\ \A v \in Workers : v # w => wrk[v].copy # wrk[w].copy
  <2>1. ASSUME NEW w \in Workers, wrk[w].pc \in AtWork
        PROVE  /\ wrk[w].copy \in Copies /\ copy[wrk[w].copy].place \in {Process, Unacked}
               /\ copy[wrk[w].copy].event \in Events /\ copy[wrk[w].copy].headers \in Headers
    BY <1>i, <2>1, HeldFacts, Parts DEF Held
  <2>2. ASSUME NEW w \in Workers, wrk[w].pc \in AtWork, NEW v \in Workers, v # w
        PROVE  wrk[v].copy # wrk[w].copy
    BY <1>i, <2>2 DEF HeldSound
  <2> QED BY <2>1, <2>2
\* A goroutine that goes on as it was keeps its count.
<1> DEFINE Same(w) == /\ wrk'[w].pc = wrk[w].pc /\ wrk'[w].copy = wrk[w].copy
                      /\ copy'[wrk[w].copy].event = copy[wrk[w].copy].event
                      /\ copy'[wrk[w].copy].headers = copy[wrk[w].copy].headers
           Idle(w) == wrk'[w].pc \notin {"handle", "forward", "reject"}
           SameCopy(c) == /\ copy'[c].event = copy[c].event /\ copy'[c].headers = copy[c].headers
                          /\ \/ copy'[c].place = copy[c].place
                             \/ copy[c].place # Nowhere /\ copy'[c].place \in {Process, Unacked}
<1>1. ASSUME NEW e \in Events, PublishEvent(e) PROVE CountSound'
  <2>1. UNCHANGED <<wrk, runs, faults>> BY <1>1 DEF PublishEvent
  <2>2. \A w \in Workers : Idle(w) \/ Same(w)
    BY <1>1, <1>i, <1>h, <2>1, PublishEffect, PlacesDiffer DEF AtWork
  <2>3. NextPaid(e) \in Nat BY <1>u, <2>1
  <2>4. CopyCount(copy'[Fresh], NextPaid(copy'[Fresh].event))
    BY <1>1, <1>i, <2>3, PublishEffect, HeaderFacts, PlacesDiffer DEF CopyCount
  <2>5. \A c \in Copies : SameCopy(c) \/ CopyCount(copy'[c], NextPaid(copy'[c].event))
    BY <1>1, <1>i, <2>4, PublishEffect
  <2> QED BY <1>i, <1>u, <2>1, <2>2, <2>5, CountKept
\* The second death was counted when the copy came to the level.
<1>2. ASSUME NEW c \in Copies, ReturnFromLevel(c) PROVE CountSound'
  <2>1. UNCHANGED <<wrk, runs, faults>> BY <1>2 DEF ReturnFromLevel
  <2>2. \A w \in Workers : Idle(w) \/ Same(w)
    BY <1>2, <1>i, <1>h, <2>1, ReturnEffect, PlacesDiffer DEF AtWork
  <2> DEFINE p == Paid(copy[c].event)
  <2>3. p \in Nat /\ NextPaid(copy[c].event) = p /\ copy[c].headers \in Headers
    BY <1>i, <1>n, <1>u, <2>1, Parts
  <2>4. CopyCount(copy[c], p) /\ copy[c].place \in LevelQueues BY <1>2, <1>i, <1>c, ReturnEffect
  <2> HIDE DEF p
  <2>5. attemptNumber(Died(copy[c].headers)) <= p + 1
    <3>1. CASE copy[c].headers.attempts = 0
      <4>1. attemptNumber(copy[c].headers) <= p BY <2>4, <3>1, PlacesDiffer DEF CopyCount
      <4> QED BY <2>3, <4>1, HeaderFacts
    <3>2. CASE copy[c].headers.attempts # 0
      <4>1. Died(copy[c].headers) = copy[c].headers BY <2>3, <3>2, HeaderFacts
      <4> QED BY <2>4, <4>1, PlacesDiffer DEF CopyCount
    <3> QED BY <3>1, <3>2
  <2>6. CopyCount(copy'[c], NextPaid(copy'[c].event))
    BY <1>2, <1>i, <2>3, <2>5, ReturnEffect, PlacesDiffer DEF CopyCount
  <2>7. \A d \in Copies : SameCopy(d) \/ CopyCount(copy'[d], NextPaid(copy'[d].event))
    BY <1>2, <1>i, <2>6, ReturnEffect
  <2> QED BY <1>i, <1>u, <2>1, <2>2, <2>7, CountKept
<1>3. ASSUME NEW c \in Copies, Deliver(c) PROVE CountSound'
  <2>1. UNCHANGED <<wrk, runs, faults>> BY <1>3 DEF Deliver
  <2>2. \A d \in Copies : SameCopy(d) BY <1>3, <1>i, DeliverEffect, PlacesDiffer
  <2>3. \A w \in Workers : Idle(w) \/ Same(w) BY <1>h, <2>1, <2>2 DEF AtWork
  <2> QED BY <1>i, <1>u, <2>1, <2>2, <2>3, CountKept
\* A run pays for the attempt of its delivery.
<1>4. ASSUME NEW w \in Workers, Hand(w) PROVE CountSound'
  <2>1. UNCHANGED <<copy, faults>> BY <1>4 DEF Hand
  <2> DEFINE c == pump.copy
             e == copy[c].event
  <2>2. /\ c \in Copies /\ e \in Events /\ copy[c].headers \in Headers /\ copy[c].place # Nowhere
        /\ wrk'[w].pc = "handle" /\ wrk'[w].copy = c
        /\ \A v \in Workers : v # w => wrk'[v] = wrk[v]
        /\ runs'[e] = IF runs[e] > MaxAttempts THEN runs[e] ELSE runs[e] + 1
        /\ \A d \in Events : d # e => runs'[d] = runs[d]
    BY <1>4, <1>i, HandEffect, Parts, PlacesDiffer DEF InHand
  <2> HIDE DEF c, e
  <2>3. MaxFaults \in Nat /\ faults \in 0..MaxFaults BY <1>i, ConsumerAssumption DEF TypeOK
  <2>4. \A d \in Events : NextPaid(d) \in Nat /\ Paid(d) <= NextPaid(d)
    BY <1>n, <2>1, <2>2, <2>3 DEF Paid, NextPaid
  <2>5. attemptNumber(copy[c].headers) <= NextPaid(e)
    <3>1. attemptNumber(copy[c].headers) <= Paid(e) + 1 BY <1>c, <2>2 DEF CopyCount, e
    <3>2. attemptNumber(copy[c].headers) \in 1..MaxAttempts BY <2>2, HeaderFacts
    <3>3. CASE runs[e] > MaxAttempts
      <4>1. runs[e] <= Paid(e) /\ runs[e] \in Nat /\ Paid(e) \in Nat /\ NextPaid(e) \in Nat
            /\ Paid(e) <= NextPaid(e)
        BY <1>n, <2>2, <2>4
      <4> QED BY <3>2, <3>3, <4>1, MaxAttemptsAssumption
    <3>4. CASE ~(runs[e] > MaxAttempts)
      <4>1. NextPaid(e) = Paid(e) + 1 BY <1>n, <2>1, <2>2, <2>3, <3>4 DEF Paid, NextPaid
      <4> QED BY <3>1, <4>1
    <3> QED BY <3>3, <3>4
  <2>6. WorkCount(wrk'[w].pc, copy'[wrk'[w].copy], NextPaid(copy'[wrk'[w].copy].event))
    BY <2>1, <2>2, <2>5 DEF WorkCount, e
  <2>7. \A d \in Copies : SameCopy(d) BY <2>1
  <2>8. \A v \in Workers : v # w => Same(v) BY <2>1, <2>2
  <2> QED BY <1>i, <2>4, <2>6, <2>7, <2>8, CountKept
<1>5. ASSUME NEW w \in Workers, handle(w) PROVE CountSound'
  <2>1. UNCHANGED <<copy, runs, faults>> /\ wrk[w].pc = "handle" BY <1>5 DEF handle, At
  <2>2. /\ wrk'[w].pc \in {"ack", "forward"} /\ wrk'[w].copy = wrk[w].copy
        /\ \A v \in Workers : v # w => wrk'[v] = wrk[v]
    BY <1>5, <1>i, GotoFacts DEF handle, WorkerPC
  <2>3. wrk[w].copy \in Copies BY <1>h, <2>1 DEF AtWork
  <2>4. NextPaid(copy[wrk[w].copy].event) = Paid(copy[wrk[w].copy].event)
    BY <1>u, <1>h, <2>1 DEF AtWork
  <2>5. WorkCount(wrk'[w].pc, copy'[wrk'[w].copy], NextPaid(copy'[wrk'[w].copy].event))
    BY <1>w, <2>1, <2>2, <2>4 DEF WorkCount
  <2>6. \A d \in Copies : SameCopy(d) BY <2>1
  <2>7. \A v \in Workers : v # w => Same(v) BY <2>1, <2>2
  <2> QED BY <1>i, <1>u, <2>1, <2>5, <2>6, <2>7, CountKept
\* The new copy counts the attempt that was paid for; a failure pays for the rejection.
<1>6. ASSUME NEW w \in Workers, forward(w) PROVE CountSound'
  <2> DEFINE c == wrk[w].copy
             e == copy[c].event
             h == copy[c].headers
  <2>1. runs' = runs /\ (faults' = faults \/ Fault) BY <1>6, <1>i, ForwardEffect DEF forward, Works
  <2>2. \A d \in Events : NextPaid(d) \in Nat /\ Paid(d) <= NextPaid(d) BY <1>u, <1>f, <2>1
  <2>3. /\ wrk[w].pc = "forward" /\ c \in Copies /\ Held(w) = copy[c] /\ copy[c] \in Copy
        /\ e \in Events /\ h \in Headers /\ Fresh # c /\ Fresh \in Copies /\ copy[Fresh].place = Nowhere
    BY <1>6, <1>i, ForwardEffect, Parts DEF At
  <2>4. attemptNumber(h) <= Paid(e) BY <1>w, <2>3 DEF WorkCount
  <2>5. attemptNumber(h) \in Nat /\ Paid(e) \in Nat /\ NextPaid(e) \in Nat /\ Paid(e) <= NextPaid(e)
    BY <1>n, <2>2, <2>3, HeaderFacts
  <2>6. CopyCount(ForwardedFrom(copy[c]), NextPaid(ForwardedFrom(copy[c]).event))
    <3> DEFINE x == ForwardedFrom(copy[c])
    <3>1. /\ x.event = e
          /\ \/ x.place = Dead /\ x.headers = NoHeaders /\ attemptNumber(h) = MaxAttempts
             \/ /\ x.place \in LevelQueues /\ x.headers.attempts > 0
                /\ attemptNumber(x.headers) = attemptNumber(h) + 1
      BY <2>3, ForwardFacts
    <3> SUFFICES CopyCount(x, NextPaid(x.event)) OBVIOUS
    <3> HIDE DEF x, e, h
    <3>2. CASE x.place = Dead /\ x.headers = NoHeaders /\ attemptNumber(h) = MaxAttempts
      <4>1. attemptNumber(x.headers) = 1 BY <3>2, HeaderFacts
      <4> QED BY <2>4, <2>5, <3>1, <3>2, <4>1, PlacesDiffer DEF CopyCount
    <3>3. CASE x.place \in LevelQueues /\ x.headers.attempts > 0
               /\ attemptNumber(x.headers) = attemptNumber(h) + 1
      <4>1. x.headers.attempts # 0 BY <3>3
      <4> QED BY <2>4, <2>5, <3>1, <3>3, <4>1, PlacesDiffer DEF CopyCount
    <3> QED BY <3>1, <3>2, <3>3
  <2>7. \A d \in Copies : SameCopy(d) \/ CopyCount(copy'[d], NextPaid(copy'[d].event))
    BY <1>6, <1>i, <2>3, <2>6, ForwardEffect
  <2>8. \A v \in Workers : v # w => wrk'[v] = wrk[v]
    BY <1>6, <1>i, ForwardEffect, GotoFacts DEF WorkerPC
  <2>9. \A v \in Workers : wrk[v].pc \in AtWork => copy'[wrk[v].copy] = copy[wrk[v].copy]
    BY <1>6, <1>i, <1>h, ForwardEffect, PlacesDiffer
  <2>10. \A v \in Workers : v # w => Idle(v) \/ Same(v) BY <2>8, <2>9 DEF AtWork
  <2>11. Idle(w) \/ WorkCount(wrk'[w].pc, copy'[wrk'[w].copy], NextPaid(copy'[wrk'[w].copy].event))
    <3>1. CASE Goto(w, "ack")
      <4>1. wrk'[w].pc = "ack" BY <3>1, <1>i, GotoFacts DEF WorkerPC
      <4> QED BY <4>1
    <3>2. CASE Goto(w, "reject") /\ Fault
      <4>1. wrk'[w].pc = "reject" /\ wrk'[w].copy = c BY <3>2, <1>i, GotoFacts DEF WorkerPC
      <4>2. copy'[c] = copy[c] BY <2>3, <2>9 DEF AtWork
      <4>3. NextPaid(e) = Paid(e) + 1 BY <1>f, <2>1, <2>3, <3>2
      <4>4. attemptNumber(h) + 1 <= NextPaid(e) BY <2>4, <2>5, <4>3
      <4>5. WorkCount("reject", copy[c], NextPaid(e)) BY <4>4 DEF WorkCount
      <4> QED BY <4>1, <4>2, <4>5
    <3> QED BY <3>1, <3>2, <1>6, <1>i, ForwardEffect
  <2> QED BY <1>i, <2>2, <2>7, <2>10, <2>11, CountKept
<1>7. ASSUME NEW w \in Workers, reject(w) \/ ack(w) PROVE CountSound'
  <2> DEFINE c == wrk[w].copy
             p == Paid(copy[c].event)
  <2>1. UNCHANGED <<runs, faults>> /\ wrk[w].pc \in {"reject", "ack"} /\ wrk[w].pc \in AtWork
    BY <1>7 DEF reject, ack, At, AtWork
  <2>2. wrk'[w].pc = "idle" /\ \A v \in Workers : v # w => wrk'[v] = wrk[v]
    BY <1>7, <1>i, GotoFacts DEF reject, ack
  <2>3. \A d \in Copies : d # c => copy'[d] = copy[d] BY <1>7, <1>i, RejectEffect, AckEffect
  <2>4. \A v \in Workers : v # w => Idle(v) \/ Same(v)
    BY <1>h, <2>1, <2>2, <2>3 DEF AtWork
  <2>5. CopyCount(copy'[c], NextPaid(copy'[c].event)) \/ SameCopy(c)
    <3>1. CASE ack(w) /\ open
      <4>1. copy'[c].place = Nowhere BY <3>1, <1>i, AckEffect
      <4> QED BY <4>1 DEF CopyCount
    <3>2. CASE reject(w) /\ open
      <4>1. /\ copy'[c].place \in LevelQueues /\ copy'[c].event = copy[c].event
            /\ copy'[c].headers = Died(copy[c].headers) /\ wrk[w].pc = "reject"
        BY <3>2, <1>i, RejectEffect DEF At
      <4>2. attemptNumber(copy[c].headers) + 1 <= p BY <1>w, <4>1 DEF WorkCount
      <4>3. copy[c].headers \in Headers /\ NextPaid(copy[c].event) = p /\ p \in Nat
        BY <1>h, <1>n, <1>u, <2>1
      <4> HIDE DEF p
      <4>4. attemptNumber(copy'[c].headers) <= p BY <4>1, <4>2, <4>3, HeaderFacts
      <4>5. attemptNumber(copy'[c].headers) \in Nat BY <4>1, <4>3, HeaderFacts
      <4> QED BY <4>1, <4>3, <4>4, <4>5, PlacesDiffer DEF CopyCount
    <3>3. CASE ~open
      <4>1. copy'[c] = copy[c] BY <3>3, <1>7, <1>i, RejectEffect, AckEffect
      <4> QED BY <4>1
    <3> QED BY <3>1, <3>2, <3>3, <1>7
  <2>6. \A d \in Copies : SameCopy(d) \/ CopyCount(copy'[d], NextPaid(copy'[d].event)) BY <2>3, <2>5
  <2> QED BY <1>i, <1>u, <2>1, <2>2, <2>4, <2>6, CountKept
<1>8. ASSUME NEW w \in Workers, Exit(w) PROVE CountSound'
  <2>1. UNCHANGED <<copy, runs, faults>> BY <1>8 DEF Exit
  <2>2. wrk'[w].pc = "exited" /\ \A v \in Workers : v # w => wrk'[v] = wrk[v]
    BY <1>8, <1>i, GotoFacts DEF Exit, WorkerPC
  <2>3. \A d \in Copies : SameCopy(d) BY <2>1
  <2>4. \A v \in Workers : Idle(v) \/ Same(v) BY <2>1, <2>2
  <2> QED BY <1>i, <1>u, <2>1, <2>3, <2>4, CountKept
<1>9. ASSUME UNCHANGED <<copy, wrk, runs>>, faults' = faults \/ Fault PROVE CountSound'
  <2>1. \A d \in Events : NextPaid(d) \in Nat /\ Paid(d) <= NextPaid(d) BY <1>9, <1>u, <1>f
  <2>2. (\A d \in Copies : SameCopy(d)) /\ \A v \in Workers : Same(v) BY <1>9
  <2> QED BY <1>i, <2>1, <2>2, CountKept
<1>10. ASSUME copy' = Requeued, runs' = runs, faults' = faults \/ Fault,
              wrk' = wrk \/ \A v \in Workers : wrk'[v].pc = "exited"
       PROVE  CountSound'
  <2>1. \A d \in Events : NextPaid(d) \in Nat /\ Paid(d) <= NextPaid(d) BY <1>10, <1>u, <1>f
  <2>2. \A d \in Copies : SameCopy(d) BY <1>10, <1>i, RequeuedFacts, PlacesDiffer
  <2>3. \A v \in Workers : Idle(v) \/ Same(v) BY <1>10, <1>h, <2>2 DEF AtWork
  <2> QED BY <1>i, <2>1, <2>2, <2>3, CountKept
<1>11. CASE Restart
  <2>1. UNCHANGED <<copy, runs, faults>> /\ wrk' = [w \in Workers |-> [pc |-> "idle", copy |-> 0]]
    BY <1>11 DEF Restart, Started
  <2>2. \A v \in Workers : Idle(v) BY <2>1
  <2>3. \A d \in Copies : SameCopy(d) BY <2>1
  <2> QED BY <1>i, <1>u, <2>1, <2>2, <2>3, CountKept
<1>12. CASE (\E c \in Copies : Take(c)) \/ StopPump \/ Interrupt \/ Drained \/ GiveUp
  BY <1>9, <1>12 DEF Take, StopPump, Interrupt, Drained, GiveUp
<1>13. CASE BreakChannel BY <1>10, <1>13 DEF BreakChannel
<1>14. ASSUME NEW from, Down(from), Works \/ Fault PROVE CountSound'
  <2>1. wrk' = [w \in Workers |-> [pc |-> "exited", copy |-> 0]] BY <1>14 DEF Down
  <2>2. \A v \in Workers : wrk'[v].pc = "exited" BY <2>1
  <2> QED BY <1>10, <1>14, <2>2 DEF Down, Works
<1> QED
  BY <1>1, <1>2, <1>3, <1>4, <1>5, <1>6, <1>7, <1>8, <1>11, <1>12, <1>13, <1>14
  DEF Next, process, Close, Crash

\* What Faultless says of one copy, and of an event.
Honest(c) ==
  /\ \A d \in Copies : Live(d) /\ copy[d].event = copy[c].event => d = c
  /\ copy[c].place \in LevelQueues => copy[c].headers.attempts > 0
  /\ (\A w \in Workers : wrk[w].copy # c) => runs[copy[c].event] < attemptNumber(copy[c].headers)
  /\ runs[copy[c].event] <= attemptNumber(copy[c].headers)

Untroubled ==
  /\ open /\ main = "select" /\ pump.pc # "stopped"
  /\ \A w \in Workers : wrk[w].pc # "reject"

FewRuns(e) ==
  /\ runs[e] <= MaxAttempts
  /\ e \notin published => runs[e] = 0 /\ \A c \in Copies : Live(c) => copy[c].event # e

\* Faultless said event by event and copy by copy, before and after a step.
LEMMA FaultlessParts ==
  /\ Faultless <=> (faults = MaxFaults => /\ Untroubled /\ \A e \in Events : FewRuns(e)
                                          /\ \A c \in Copies : Live(c) => Honest(c))
  /\ Faultless' <=> (faults' = MaxFaults => /\ Untroubled' /\ \A e \in Events : FewRuns(e)'
                                            /\ \A c \in Copies : Live(c)' => Honest(c)')
<1>1. Faultless <=> (faults = MaxFaults => /\ Untroubled /\ \A e \in Events : FewRuns(e)
                                           /\ \A c \in Copies : Live(c) => Honest(c))
  BY Zenon DEF Faultless, Untroubled, FewRuns, Honest, At, LevelQueues
<1>2. Faultless' <=> (faults' = MaxFaults => /\ Untroubled' /\ \A e \in Events : FewRuns(e)'
                                             /\ \A c \in Copies : Live(c)' => Honest(c)')
  BY Zenon DEF Faultless, Untroubled, FewRuns, Honest, At, LevelQueues
<1> QED BY <1>1, <1>2

\* A step without a failure that lets no copy live that did not, and counts no run.
LEMMA FaultlessKept ==
  ASSUME Faultless, faults = MaxFaults, UNCHANGED <<published, open, main, runs>>, pump'.pc # "stopped",
         \A w \in Workers : wrk'[w].pc # "reject",
         \A c \in Copies : Live(c)' =>
           /\ Live(c) /\ copy'[c].event = copy[c].event
           /\ copy[c].headers.attempts > 0 \/ copy[c].place \notin LevelQueues
                => copy'[c].headers = copy[c].headers
           /\ copy'[c].place \in LevelQueues => copy[c].place \in LevelQueues
           /\ (\A w \in Workers : wrk'[w].copy # c) => \A w \in Workers : wrk[w].copy # c
  PROVE  Faultless'
<1>1. /\ Untroubled /\ \A e \in Events : FewRuns(e)
      /\ \A c \in Copies : Live(c) => Honest(c)
  BY FaultlessParts
<1>2. Untroubled' BY <1>1 DEF Untroubled
<1>3. \A e \in Events : FewRuns(e)' BY <1>1 DEF FewRuns
<1>4. ASSUME NEW c \in Copies, Live(c)' PROVE Honest(c)'
  <2>1. Live(c) /\ Honest(c) /\ copy'[c].event = copy[c].event /\ copy'[c].headers = copy[c].headers
    BY <1>1, <1>4 DEF Honest
  <2>2. \A d \in Copies : Live(d)' /\ copy'[d].event = copy'[c].event => d = c
    BY <2>1 DEF Honest
  <2>3. copy'[c].place \in LevelQueues => copy'[c].headers.attempts > 0
    BY <1>4, <2>1 DEF Honest
  <2>4. (\A w \in Workers : wrk'[w].copy # c) => runs'[copy'[c].event] < attemptNumber(copy'[c].headers)
    BY <1>4, <2>1 DEF Honest
  <2>5. runs'[copy'[c].event] <= attemptNumber(copy'[c].headers) BY <2>1 DEF Honest
  <2> QED BY <2>2, <2>3, <2>4, <2>5 DEF Honest
<1> QED BY <1>2, <1>3, <1>4, FaultlessParts

\* Until something fails, an event keeps to one live copy with true headers.
LEMMA FaultlessStep ==
  ASSUME IInv, Next
  PROVE  Faultless'
<1>i. TypeOK /\ HeldSound /\ KeysSound /\ Faultless BY DEF IInv
<1> SUFFICES ASSUME faults' = MaxFaults PROVE Faultless' BY DEF Faultless
<1>m. MaxFaults \in Nat /\ MaxAttempts \in Nat /\ MaxAttempts > 1 /\ faults \in 0..MaxFaults
      /\ runs \in [Events -> 0..(MaxAttempts + 1)]
  BY <1>i, ConsumerAssumption, MaxAttemptsAssumption DEF TypeOK
<1>f. ~Fault BY <1>m DEF Fault
<1>g. faults = MaxFaults
  BY <1>f DEF Next, PublishEvent, ReturnFromLevel, Deliver, Take, Hand, process, handle, forward, reject,
              ack, Exit, StopPump, BreakChannel, Interrupt, Drained, GiveUp, Close, Crash, Restart, Works
<1>b. Untroubled /\ (\A e \in Events : FewRuns(e)) /\ \A c \in Copies : Live(c) => Honest(c)
  BY <1>i, <1>g, FaultlessParts
<1>o. open /\ main = "select" /\ pump.pc # "stopped" /\ \A w \in Workers : wrk[w].pc # "reject"
  BY <1>b DEF Untroubled
\* A copy in the hands of nobody is not at a goroutine.
<1>a. \A c \in Copies : copy[c].place \notin {Process, Unacked} => \A w \in Workers : wrk[w].copy # c
  BY <1>i, HeldFacts, Parts DEF HeldSound, InHand
<1>h. \A w \in Workers : wrk[w].pc \in AtWork =>
        /\ wrk[w].copy \in Copies /\ copy[wrk[w].copy].place = Unacked
        /\ \A v \in Workers : v # w => wrk[v].copy # wrk[w].copy
  <2>1. ASSUME NEW w \in Workers, wrk[w].pc \in AtWork
        PROVE  wrk[w].copy \in Copies /\ copy[wrk[w].copy].place = Unacked
    BY <1>i, <1>o, <2>1, HeldFacts, Parts DEF Held, InHand
  <2>2. ASSUME NEW w \in Workers, wrk[w].pc \in AtWork, NEW v \in Workers, v # w
        PROVE  wrk[v].copy # wrk[w].copy
    BY <1>i, <2>2 DEF HeldSound
  <2> QED BY <2>1, <2>2
<1>1. ASSUME NEW e \in Events, PublishEvent(e) PROVE Faultless'
  <2> DEFINE f == Fresh
  <2>1. /\ UNCHANGED <<wrk, pump, open, main, runs>> /\ published' = published \cup {e} /\ e \notin published
    BY <1>1 DEF PublishEvent
  <2>2. /\ f \in Copies /\ copy[f].place = Nowhere /\ copy'[f].event = e /\ copy'[f].headers = NoHeaders
        /\ copy'[f].place = Process /\ \A d \in Copies : d # f => copy'[d] = copy[d]
    BY <1>1, <1>i, PublishEffect
  <2> HIDE DEF f
  <2>3. \A c \in Copies : c # f => (Live(c)' <=> Live(c)) BY <2>1, <2>2 DEF Live, At
  <2>4. runs[e] = 0 /\ \A c \in Copies : Live(c) => copy[c].event # e BY <1>b, <2>1 DEF FewRuns
  <2>5. Untroubled' BY <1>b, <2>1 DEF Untroubled
  <2>6. ASSUME NEW d \in Events PROVE FewRuns(d)'
    <3>1. FewRuns(d) BY <1>b
    <3>2. d \notin published' => d # e /\ d \notin published BY <2>1
    <3>3. ASSUME d \notin published', NEW c \in Copies, Live(c)' PROVE copy'[c].event # d
      BY <2>2, <2>3, <3>1, <3>2, <3>3 DEF FewRuns
    <3> QED BY <2>1, <3>1, <3>2, <3>3 DEF FewRuns
  <2>7. ASSUME NEW c \in Copies, Live(c)' PROVE Honest(c)'
    <3>1. CASE c = f
      <4>1. \A d \in Copies : Live(d)' /\ copy'[d].event = copy'[c].event => d = c
        BY <2>2, <2>3, <2>4, <3>1
      <4>2. runs'[copy'[c].event] = 0 /\ attemptNumber(copy'[c].headers) = 1
        BY <2>1, <2>2, <2>4, <3>1, HeaderFacts
      <4> QED BY <2>2, <3>1, <4>1, <4>2, PlacesDiffer DEF Honest
    <3>2. CASE c # f
      <4>1. Live(c) /\ Honest(c) /\ copy'[c] = copy[c] BY <1>b, <2>2, <2>3, <2>7, <3>2
      <4>2. \A d \in Copies : Live(d)' /\ copy'[d].event = copy'[c].event => d = c
        <5>1. ASSUME NEW d \in Copies, Live(d)', copy'[d].event = copy'[c].event PROVE d = c
          <6>1. d # f BY <2>2, <2>4, <4>1, <5>1
          <6> QED BY <2>2, <2>3, <4>1, <5>1, <6>1 DEF Honest
        <5> QED BY <5>1
      <4> QED BY <2>1, <4>1, <4>2 DEF Honest
    <3> QED BY <3>1, <3>2
  <2> QED BY <2>5, <2>6, <2>7, FaultlessParts
<1>2. ASSUME NEW c \in Copies, ReturnFromLevel(c) PROVE Faultless'
  <2>1. UNCHANGED <<wrk, pump, open, main, runs, published>> BY <1>2 DEF ReturnFromLevel
  <2>2. /\ copy[c].place \in LevelQueues /\ copy'[c].event = copy[c].event /\ copy'[c].place = Process
        /\ copy'[c].headers = Died(copy[c].headers) /\ \A d \in Copies : d # c => copy'[d] = copy[d]
        /\ copy[c].headers \in Headers
    BY <1>2, <1>i, ReturnEffect, Parts
  <2>3. \A d \in Copies : Live(d)' => Live(d) BY <2>1, <2>2, PlacesDiffer DEF Live, At
  <2>4. copy[c].headers.attempts > 0 => copy'[c].headers = copy[c].headers BY <2>2, HeaderFacts
  <2> QED BY <1>i, <1>g, <1>o, <2>1, <2>2, <2>3, <2>4, PlacesDiffer, FaultlessKept
<1>3. ASSUME NEW c \in Copies, Deliver(c) PROVE Faultless'
  <2>1. UNCHANGED <<wrk, pump, open, main, runs, published>> BY <1>3 DEF Deliver
  <2>2. /\ copy[c].place = Process /\ copy'[c].event = copy[c].event /\ copy'[c].place = Unacked
        /\ copy'[c].headers = copy[c].headers /\ \A d \in Copies : d # c => copy'[d] = copy[d]
    BY <1>3, <1>i, DeliverEffect
  <2>3. \A d \in Copies : Live(d)' => Live(d) BY <2>1, <2>2, PlacesDiffer DEF Live, At
  <2> QED BY <1>i, <1>g, <1>o, <2>1, <2>2, <2>3, PlacesDiffer, FaultlessKept
<1>4. ASSUME NEW c \in Copies, Take(c) PROVE Faultless'
  <2>1. UNCHANGED <<wrk, copy, open, main, runs, published>> /\ pump' = [pc |-> "hand", copy |-> c]
    BY <1>4 DEF Take
  <2>2. pump'.pc # "stopped" BY <2>1
  <2>3. \A d \in Copies : Live(d)' => Live(d) BY <2>1 DEF Live, At
  <2> QED BY <1>i, <1>g, <1>o, <2>1, <2>2, <2>3, FaultlessKept
\* The run that the attempt's number allows.
<1>5. ASSUME NEW w \in Workers, Hand(w) PROVE Faultless'
  <2> DEFINE c == pump.copy
             e == copy[c].event
  <2>1. /\ UNCHANGED <<copy, open, main, published>> /\ pump' = [pc |-> "select", copy |-> 0]
        /\ wrk[w].pc = "idle"
    BY <1>5 DEF Hand, At
  <2>2. /\ c \in Copies /\ copy[c].place = Unacked /\ e \in Events /\ copy[c].headers \in Headers
        /\ wrk'[w].pc = "handle" /\ wrk'[w].copy = c
        /\ \A v \in Workers : v # w => wrk'[v] = wrk[v]
        /\ \A v \in Workers : wrk[v].copy # c
        /\ runs'[e] = IF runs[e] > MaxAttempts THEN runs[e] ELSE runs[e] + 1
        /\ \A d \in Events : d # e => runs'[d] = runs[d]
    BY <1>5, <1>i, <1>o, HandEffect, Parts DEF InHand
  <2> HIDE DEF c, e
  <2>3. \A d \in Copies : Live(d)' <=> Live(d) BY <2>1, <2>2 DEF Live, At
  <2>4. Live(c) /\ Honest(c)
    <3>1. Live(c) BY <2>2, PlacesDiffer DEF Live
    <3> QED BY <1>b, <2>2, <3>1
  <2>5. runs[e] < attemptNumber(copy[c].headers) BY <2>2, <2>4 DEF Honest, e
  <2>6. runs'[e] = runs[e] + 1 /\ runs'[e] <= attemptNumber(copy[c].headers) /\ runs'[e] <= MaxAttempts
    <3>1. attemptNumber(copy[c].headers) \in 1..MaxAttempts BY <2>2, HeaderFacts
    <3>2. runs[e] \in Nat BY <1>m, <2>2
    <3> QED BY <1>m, <2>2, <2>5, <3>1, <3>2
  <2>7. Untroubled' BY <1>b, <2>1, <2>2 DEF Untroubled
  <2>8. e \in published BY <1>b, <2>2, <2>4 DEF FewRuns, e
  <2>9. ASSUME NEW d \in Events PROVE FewRuns(d)'
    <3>1. FewRuns(d) BY <1>b
    <3>2. runs'[d] <= MaxAttempts /\ (d \notin published => runs'[d] = runs[d])
      BY <2>2, <2>6, <2>8, <3>1 DEF FewRuns
    <3> QED BY <2>1, <2>3, <3>1, <3>2 DEF FewRuns
  <2>10. ASSUME NEW d \in Copies, Live(d)' PROVE Honest(d)'
    <3>1. Live(d) /\ Honest(d) BY <1>b, <2>3, <2>10
    <3>2. \A x \in Copies : Live(x)' /\ copy'[x].event = copy'[d].event => x = d
      BY <2>1, <2>3, <3>1 DEF Honest
    <3>3. CASE d = c
      BY <2>1, <2>2, <2>6, <3>1, <3>2, <3>3 DEF Honest, e
    <3>4. CASE d # c
      <4>1. copy[d].event # e BY <2>2, <2>4, <3>1, <3>4 DEF Honest, e
      <4>2. copy[d].event \in Events BY <1>i, Parts
      <4>3. runs'[copy[d].event] = runs[copy[d].event] BY <2>2, <4>1, <4>2
      <4>4. (\A v \in Workers : wrk'[v].copy # d) => \A v \in Workers : wrk[v].copy # d
        <5>1. wrk[w].copy = 0 /\ 0 \notin Copies BY <1>i, <2>1, Parts DEF HeldSound, AtWork
        <5> QED BY <2>2, <5>1
      <4> QED BY <2>1, <3>1, <3>2, <4>3, <4>4 DEF Honest
    <3> QED BY <3>3, <3>4
  <2> QED BY <2>7, <2>9, <2>10, FaultlessParts
<1>6. ASSUME NEW w \in Workers, handle(w) PROVE Faultless'
  <2>1. UNCHANGED <<copy, pump, open, main, runs, published>> /\ wrk[w].pc = "handle" BY <1>6 DEF handle, At
  <2>2. /\ wrk'[w].pc \in {"ack", "forward"} /\ \A v \in Workers : v # w => wrk'[v] = wrk[v]
        /\ \A v \in Workers : wrk'[v].copy = wrk[v].copy
    BY <1>6, <1>i, GotoFacts DEF handle, WorkerPC
  <2>3. \A d \in Copies : Live(d)' => Live(d) BY <2>1, <2>2 DEF Live, At
  <2>4. \A v \in Workers : wrk'[v].pc # "reject" BY <1>o, <2>2
  <2> QED BY <1>i, <1>g, <1>o, <2>1, <2>2, <2>3, <2>4, FaultlessKept
\* The new copy takes the place of the old one.
<1>7. ASSUME NEW w \in Workers, forward(w) PROVE Faultless'
  <2>c. PICK c \in Copies : c = wrk[w].copy BY <1>7, <1>i, ForwardEffect
  <2>f. PICK f \in Copies : f = Fresh BY <1>7, <1>i, ForwardEffect
  <2> DEFINE x == ForwardedFrom(copy[c])
  <2>1. UNCHANGED <<pump, open, main, runs, published>> BY <1>7 DEF forward
  <2>2. /\ wrk[w].pc = "forward" /\ c \in Copies /\ copy[c] \in Copy /\ copy[c].headers \in Headers
        /\ f \in Copies /\ copy[f].place = Nowhere /\ f # c /\ copy[c].event \in Events
        /\ copy'[f] = x /\ Goto(w, "ack") /\ \A d \in Copies : d # f => copy'[d] = copy[d]
    BY <1>7, <1>i, <1>f, <2>c, <2>f, ForwardEffect, Parts DEF At
  <2>3. /\ wrk'[w].pc = "ack" /\ \A v \in Workers : v # w => wrk'[v] = wrk[v]
        /\ \A v \in Workers : wrk'[v].copy = wrk[v].copy
    BY <1>i, <2>2, GotoFacts DEF WorkerPC
  <2>4. /\ x.event = copy[c].event
        /\ \/ x.place = Dead
           \/ /\ x.place \in LevelQueues /\ x.headers.attempts > 0
              /\ attemptNumber(x.headers) = attemptNumber(copy[c].headers) + 1
    BY <2>2, ForwardFacts
  <2>5. wrk[w].pc \in AtWork BY <2>2 DEF AtWork
  <2>6. Live(c)
    <3>1. \A v \in Workers : At(v, "ack") => v # w BY <2>2 DEF At
    <3>2. copy[c].place = Unacked /\ \A v \in Workers : v # w => wrk[v].copy # c BY <1>h, <2>c, <2>5
    <3> QED BY <3>1, <3>2, PlacesDiffer DEF Live
  <2>7. Honest(c) BY <1>b, <2>2, <2>6
  <2> HIDE DEF x
  <2>8. ~Live(c)' BY <2>3, <2>c DEF Live, At
  <2>9. \A d \in Copies : d # f /\ Live(d)' => Live(d) /\ d # c
    BY <2>2, <2>3, <2>8 DEF Live, At
  <2>10. \A d \in Copies : d # f /\ Live(d)' => copy'[d].event # copy[c].event
    BY <2>2, <2>7, <2>9 DEF Honest
  <2>11. Untroubled' BY <1>b, <2>1, <2>3 DEF Untroubled
  <2>12. copy[c].event \in published BY <1>b, <2>2, <2>6 DEF FewRuns
  <2>13. ASSUME NEW d \in Events PROVE FewRuns(d)'
    <3>1. FewRuns(d) BY <1>b
    <3>2. ASSUME d \notin published', NEW y \in Copies, Live(y)' PROVE copy'[y].event # d
      <4>1. CASE y = f BY <2>1, <2>2, <2>4, <2>12, <3>2, <4>1
      <4>2. CASE y # f BY <2>1, <2>2, <2>9, <3>1, <3>2, <4>2 DEF FewRuns
      <4> QED BY <4>1, <4>2
    <3> QED BY <2>1, <3>1, <3>2 DEF FewRuns
  <2>14. ASSUME NEW d \in Copies, Live(d)' PROVE Honest(d)'
    <3>1. CASE d = f
      <4>1. copy'[f].place # Dead BY <2>14, <3>1 DEF Live
      <4>2. /\ copy'[f].event = copy[c].event /\ copy'[f].headers.attempts > 0
            /\ attemptNumber(copy'[f].headers) = attemptNumber(copy[c].headers) + 1
        BY <2>2, <2>4, <4>1
      <4>3. runs[copy[c].event] <= attemptNumber(copy[c].headers) BY <2>7 DEF Honest
      <4>4. attemptNumber(copy[c].headers) \in Nat /\ runs[copy[c].event] \in Nat
        BY <1>m, <2>2, HeaderFacts
      <4>5. runs'[copy'[f].event] < attemptNumber(copy'[f].headers)
        BY <2>1, <4>2, <4>3, <4>4
      <4>6. runs'[copy'[f].event] <= attemptNumber(copy'[f].headers)
        BY <2>1, <4>2, <4>3, <4>4
      <4>7. \A y \in Copies : Live(y)' /\ copy'[y].event = copy'[f].event => y = f
        BY <2>10, <4>2
      <4> QED BY <3>1, <4>2, <4>5, <4>6, <4>7 DEF Honest
    <3>2. CASE d # f
      <4>1. Live(d) /\ Honest(d) /\ copy'[d] = copy[d] /\ d # c BY <1>b, <2>2, <2>9, <2>14, <3>2
      <4>2. \A y \in Copies : Live(y)' /\ copy'[y].event = copy'[d].event => y = d
        <5>1. ASSUME NEW y \in Copies, Live(y)', copy'[y].event = copy'[d].event PROVE y = d
          <6>1. copy'[d].event # copy[c].event BY <2>10, <2>14, <3>2
          <6>2. y # f BY <2>2, <2>4, <5>1, <6>1
          <6>3. Live(y) /\ copy[y].event = copy[d].event BY <2>2, <2>9, <4>1, <5>1, <6>2
          <6> QED BY <4>1, <6>3 DEF Honest
        <5> QED BY <5>1
      <4> QED BY <2>1, <2>3, <4>1, <4>2 DEF Honest
    <3> QED BY <3>1, <3>2
  <2> QED BY <2>11, <2>13, <2>14, FaultlessParts
<1>8. ASSUME NEW w \in Workers, ack(w) PROVE Faultless'
  <2>c. PICK c \in Copies : c = wrk[w].copy BY <1>8, <1>i, AckEffect
  <2>1. UNCHANGED <<pump, open, main, runs, published>> /\ Done(w) /\ wrk[w].pc = "ack" BY <1>8 DEF ack, At
  <2>2. /\ wrk'[w].pc = "idle" /\ wrk'[w].copy = 0 /\ \A v \in Workers : v # w => wrk'[v] = wrk[v]
    BY <1>i, <2>1, GotoFacts
  <2>3. /\ c \in Copies /\ copy'[c].place = Nowhere /\ \A d \in Copies : d # c => copy'[d] = copy[d]
    BY <1>8, <1>i, <1>o, <2>c, AckEffect
  <2>4. ~Live(c)' BY <2>3 DEF Live
  <2>5. \A d \in Copies : d # c /\ Live(d)' => Live(d) BY <2>c, <2>1, <2>2, <2>3 DEF Live, At
  <2>6. \A d \in Copies : d # c /\ (\A v \in Workers : wrk'[v].copy # d) => \A v \in Workers : wrk[v].copy # d
    BY <2>2, <2>c
  <2>7. \A v \in Workers : wrk'[v].pc # "reject" BY <1>o, <2>2
  <2> QED BY <1>i, <1>g, <1>o, <2>1, <2>3, <2>4, <2>5, <2>6, <2>7, FaultlessKept
<1>9. ~(\E w \in Workers : reject(w) \/ Exit(w))
  BY <1>o DEF reject, Exit, At
<1>10. ~StopPump BY <1>o DEF StopPump, Cancelled
<1>11. ~(BreakChannel \/ Interrupt \/ GiveUp \/ Crash)
  BY <1>f DEF BreakChannel, Interrupt, GiveUp, Crash
<1>12. ~(Drained \/ Close \/ Restart)
  BY <1>o DEF Drained, Returned, Close, Down, Restart, Become
<1> QED
  BY <1>1, <1>2, <1>3, <1>4, <1>5, <1>6, <1>7, <1>8, <1>9, <1>10, <1>11, <1>12 DEF Next, process

-----------------------------------------------------------------------------
\* The inductive invariant: a delivery has one holder, an event keeps a copy, and no copy counts
\* more attempts than were made or failed.
THEOREM ConsumerIsSound == Spec => []IInv
<1>1. ASSUME Init PROVE IInv
  <2>1. AnyEvent \in Events BY ConsumerAssumption DEF AnyEvent
  <2>2. NoCopy \in Copy /\ NoCopy.place = Nowhere
    BY <2>1, HeaderFacts, KeysDiffer DEF NoCopy, Copy
  <2>3. copy \in [Copies -> Copy] /\ \A c \in Copies : copy[c] = NoCopy
    BY <1>1, <2>2 DEF Init
  <2>4. 0 \in 0..MaxCopies /\ MaxFaults \in 0..MaxFaults BY ConsumerAssumption
  <2>5. [pc |-> "idle", copy |-> 0] \in [pc : WorkerPC, copy : 0..MaxCopies] BY <2>4 DEF WorkerPC
  <2>6. /\ wrk \in [Workers -> [pc : WorkerPC, copy : 0..MaxCopies]]
        /\ \A w \in Workers : wrk[w].pc = "idle" /\ wrk[w].copy = 0
    <3>1. wrk = [w \in Workers |-> [pc |-> "idle", copy |-> 0]] BY <1>1 DEF Init
    <3> QED BY <2>5, <3>1
  <2>7. /\ pump \in [pc : PumpPC, copy : 0..MaxCopies] /\ pump.pc = "select" /\ pump.copy = 0
    BY <1>1, <2>4 DEF Init, PumpPC
  <2>8. /\ runs \in [Events -> 0..(MaxAttempts + 1)] /\ \A e \in Events : runs[e] = 0
    <3>1. runs = [e \in Events |-> 0] /\ 0 \in 0..(MaxAttempts + 1)
      BY <1>1, MaxAttemptsAssumption DEF Init
    <3> QED BY <3>1
  <2>9. TypeOK BY <1>1, <2>3, <2>4, <2>6, <2>7, <2>8 DEF TypeOK, Init, MainPC
  <2>10. HeldSound BY <1>1, <2>2, <2>3, <2>6, <2>7, PlacesDiffer DEF HeldSound, Init, AtWork
  <2>11. KeysSound BY <2>2, <2>3, PlacesDiffer DEF KeysSound
  <2>12. Secured BY <1>1 DEF Secured, Init
  <2>13. CountSound BY <2>2, <2>3, <2>6 DEF CountSound, At
  <2>14. Faultless
    <3>1. \A c \in Copies : ~Live(c) BY <2>2, <2>3 DEF Live
    <3> QED BY <1>1, <2>6, <2>7, <2>8, <3>1, MaxAttemptsAssumption DEF Faultless, Init, At
  <2> QED BY <2>9, <2>10, <2>11, <2>12, <2>13, <2>14 DEF IInv
<1>2. ASSUME IInv, [Next]_vars PROVE IInv'
  <2>1. CASE Next
    BY <1>2, <2>1, TypeStep, HeldStep, KeysStep, SecuredStep, CountStep, FaultlessStep DEF IInv
  <2>2. CASE UNCHANGED vars
    <3> USE <1>2, <2>2 DEF vars
    <3>1. TypeOK' /\ KeysSound' BY DEF IInv, TypeOK, KeysSound
    <3>2. HeldSound' /\ Secured' BY DEF IInv, HeldSound, Secured, InHand, Returned, At
    <3>3. CountSound' BY DEF IInv, CountSound, Paid, Held, At
    <3>4. Faultless' BY DEF IInv, Faultless, Live, At
    <3> QED BY <3>1, <3>2, <3>3, <3>4 DEF IInv
  <2> QED BY <1>2, <2>1, <2>2
<1> QED BY <1>1, <1>2, PTL DEF Spec

\* At least once: whatever forward, Reject, Ack, a broken channel or a restart do in between, a
\* published event that no handler ended has a copy; and run() closes over no handler at work.
THEOREM EventsAreKept == Spec => []NothingLost
<1>1. ASSUME IInv PROVE NothingLost
  <2>1. \A e \in published \ handled : Exists(e) BY <1>1 DEF IInv, Secured, Exists
  <2>2. main = "close" => \A w \in Workers : wrk[w].pc \notin {"handle", "forward", "reject", "ack"}
    BY <1>1 DEF IInv, HeldSound, Returned, At
  <2> QED BY <2>1, <2>2 DEF NothingLost
<1> QED BY <1>1, ConsumerIsSound, PTL

\* The header the consumer writes and the deaths the broker counts: at most MaxAttempts runs, and
\* fewer only by one for every failure.
THEOREM AttemptsAreTrue == Spec => []AttemptsCounted
<1>1. ASSUME IInv PROVE AttemptsCounted
  <2>1. TypeOK BY <1>1 DEF IInv
  <2>2. ASSUME NEW e \in Events, faults = MaxFaults PROVE runs[e] <= MaxAttempts
    BY <1>1, <2>2 DEF IInv, Faultless
  <2>3. ASSUME NEW e \in Events, NEW c \in Copies, copy[c].place = Dead, copy[c].event = e
        PROVE  runs[e] + (MaxFaults - faults) >= MaxAttempts
    <3>1. MaxAttempts <= Paid(e) BY <1>1, <2>3, PlacesDiffer DEF IInv, CountSound
    <3>2. Paid(e) \in Nat BY <2>1, PaidFacts
    <3> QED BY <3>1, <3>2, MaxAttemptsAssumption DEF Paid
  <2> QED BY <2>1, <2>2, <2>3 DEF AttemptsCounted
<1> QED BY <1>1, ConsumerIsSound, PTL
-----------------------------------------------------------------------------
(* The copies of a message, counted. *)

\* Broker's vocabulary is Consumer's.
LEMMA SameVocabulary ==
  /\ Abstract!Headers = Headers /\ Abstract!NoHeaders = NoHeaders /\ Abstract!Message = Messages
  /\ \A h : /\ Abstract!Final(h) = Final(h) /\ Abstract!Forwarded(h) = Forwarded(h)
            /\ Abstract!Rejected(h) = Rejected(h)
BY DEF Abstract!Headers, Headers, Abstract!MaxDeaths, MaxDeaths, Abstract!NoHeaders, NoHeaders,
   Abstract!Message, Messages, Abstract!Final, Final, Abstract!isFinalAttempt, isFinalAttempt,
   Abstract!attemptNumber, attemptNumber, Abstract!Forwarded, Forwarded,
   Abstract!Rejected, Rejected, Abstract!Died, Died

\* The message of a copy.
LEMMA MessageOfFacts ==
  ASSUME TypeOK, NEW c \in Copies
  PROVE  /\ MessageOf(c) \in Messages /\ MessageOf(c).event = copy[c].event
         /\ copy[c].place \in LevelQueues => MessageOf(c).headers = Died(copy[c].headers)
         /\ copy[c].place \notin LevelQueues => MessageOf(c).headers = copy[c].headers
<1>1. copy[c].event \in Events /\ copy[c].headers \in Headers BY Parts
<1>2. Died(copy[c].headers) \in Headers BY <1>1, HeaderFacts
<1> QED BY <1>1, <1>2 DEF MessageOf, Messages, LevelQueues

\* The same, after a step.
LEMMA MessageOfFactsNext ==
  ASSUME TypeOK', NEW c \in Copies
  PROVE  /\ MessageOf(c)' \in Messages /\ MessageOf(c)'.event = copy'[c].event
         /\ copy'[c].place \in LevelQueues => MessageOf(c)'.headers = Died(copy'[c].headers)
         /\ copy'[c].place \notin LevelQueues => MessageOf(c)'.headers = copy'[c].headers
<1>1. copy'[c].event \in Events /\ copy'[c].headers \in Headers BY DEF TypeOK, Copy
<1>2. Died(copy'[c].headers) \in Headers BY <1>1, HeaderFacts
<1> QED BY <1>1, <1>2 DEF MessageOf, Messages, LevelQueues

\* The copies of a message can be counted.
LEMMA CopiesFinite ==
  ASSUME NEW m
  PROVE  IsFiniteSet(CopiesOf(m)) /\ IsFiniteSet(CopiesOf(m)')
<1>1. IsFiniteSet(Copies)
  <2>1. MaxCopies \in Nat BY ConsumerAssumption
  <2> QED BY <2>1, FS_Interval DEF Copies
<1> QED BY <1>1, FS_Subset DEF CopiesOf

\* A message with a copy is there.
LEMMA CountFacts ==
  ASSUME NEW m \in Messages
  PROVE  /\ Counts[m] = Cardinality(CopiesOf(m)) /\ Counts[m] \in Nat
         /\ Counts'[m] = Cardinality(CopiesOf(m)') /\ Counts'[m] \in Nat
         /\ CopiesOf(m) # {} => Counts[m] > 0
         /\ CopiesOf(m)' # {} => Counts'[m] > 0
<1>1. Counts[m] = Cardinality(CopiesOf(m)) /\ Counts'[m] = Cardinality(CopiesOf(m)') BY DEF Counts
<1>2. Cardinality(CopiesOf(m)) \in Nat /\ Cardinality(CopiesOf(m)') \in Nat
  BY CopiesFinite, FS_CardinalityType
<1>3. CopiesOf(m) # {} => Cardinality(CopiesOf(m)) # 0 BY CopiesFinite, FS_EmptySet
<1>4. CopiesOf(m)' # {} => Cardinality(CopiesOf(m)') # 0 BY CopiesFinite, FS_EmptySet
<1> QED BY <1>1, <1>2, <1>3, <1>4

\* The message of a copy in transit is there.
LEMMA InTransitCounts ==
  ASSUME NEW c \in Copies
  PROVE  /\ TypeOK /\ InTransit(c) => Counts[MessageOf(c)] > 0
         /\ TypeOK' /\ InTransit(c)' => Counts'[MessageOf(c)'] > 0
<1>1. ASSUME TypeOK, InTransit(c) PROVE Counts[MessageOf(c)] > 0
  <2>1. MessageOf(c) \in Messages BY <1>1, MessageOfFacts
  <2>2. c \in CopiesOf(MessageOf(c)) BY <1>1 DEF CopiesOf
  <2> QED BY <2>1, <2>2, CountFacts
<1>2. ASSUME TypeOK', InTransit(c)' PROVE Counts'[MessageOf(c)'] > 0
  <2>1. PICK m \in Messages : m = MessageOf(c)' BY <1>2, MessageOfFactsNext
  <2>2. c \in CopiesOf(m)' BY <1>2, <2>1 DEF CopiesOf
  <2>3. Counts'[m] > 0 BY <2>2, CountFacts
  <2> QED BY <2>1, <2>3
<1> QED BY <1>1, <1>2

\* Two counts of messages are equal if they are for each message.
LEMMA CountsEqual ==
  ASSUME NEW F, F = [m \in Messages |-> F[m]],
         \A m \in Messages : Cardinality(CopiesOf(m)') = F[m]
  PROVE  Counts' = F
<1>1. Counts' = [m \in Messages |-> Cardinality(CopiesOf(m)')] BY DEF Counts
<1> QED BY <1>1

\* A step that keeps each copy's message keeps their counts.
LEMMA CountsStay ==
  ASSUME \A c \in Copies : (InTransit(c)' <=> InTransit(c)) /\ (InTransit(c) => MessageOf(c)' = MessageOf(c))
  PROVE  Counts' = Counts
<1>1. ASSUME NEW m \in Messages PROVE CopiesOf(m)' = CopiesOf(m) BY DEF CopiesOf
<1>2. Counts = [m \in Messages |-> Counts[m]] BY DEF Counts
<1>3. \A m \in Messages : Cardinality(CopiesOf(m)') = Counts[m] BY <1>1, CountFacts
<1> QED BY <1>2, <1>3, CountsEqual

\* A step that writes one slot changes the counts of two messages at most.
LEMMA OneSlot ==
  ASSUME NEW c \in Copies, \A d \in Copies : d # c => copy'[d] = copy[d], NEW m
  PROVE  CopiesOf(m)' = IF InTransit(c)' /\ MessageOf(c)' = m THEN CopiesOf(m) \cup {c}
                        ELSE CopiesOf(m) \ {c}
<1>1. \A d \in Copies : d # c => (InTransit(d)' <=> InTransit(d)) /\ MessageOf(d)' = MessageOf(d)
  BY DEF InTransit, MessageOf
<1>2. c \in CopiesOf(m)' <=> InTransit(c)' /\ MessageOf(c)' = m BY DEF CopiesOf
<1>3. \A d \in Copies : d # c => (d \in CopiesOf(m)' <=> d \in CopiesOf(m)) BY <1>1 DEF CopiesOf
<1>4. CopiesOf(m)' \subseteq Copies /\ CopiesOf(m) \subseteq Copies BY DEF CopiesOf
<1> QED BY <1>2, <1>3, <1>4

\* A copy appears: there is one more of its message.
LEMMA CopyAppears ==
  ASSUME NEW c \in Copies, \A d \in Copies : d # c => copy'[d] = copy[d],
         ~InTransit(c), InTransit(c)', NEW x \in Messages, MessageOf(c)' = x
  PROVE  Counts' = Abstract!With(Counts, x)
<1> DEFINE F == Abstract!With(Counts, x)
<1>1. F = [m \in Messages |-> IF m = x THEN Counts[x] + 1 ELSE Counts[m]] BY DEF Abstract!With, Counts
<1>2. ASSUME NEW m \in Messages PROVE Cardinality(CopiesOf(m)') = F[m]
  <2>1. c \notin CopiesOf(m) BY DEF CopiesOf
  <2>2. CASE m = x
    <3>1. CopiesOf(m)' = CopiesOf(m) \cup {c} BY <2>2, OneSlot
    <3>2. Cardinality(CopiesOf(m)') = Cardinality(CopiesOf(m)) + 1 BY <2>1, <3>1, CopiesFinite, FS_AddElement
    <3> QED BY <1>1, <2>2, <3>2, CountFacts
  <2>3. CASE m # x
    <3>1. CopiesOf(m)' = CopiesOf(m) BY <2>1, <2>3, OneSlot
    <3> QED BY <1>1, <2>3, <3>1, CountFacts
  <2> QED BY <2>2, <2>3
<1>3. F = [m \in Messages |-> F[m]] BY <1>1
<1> QED BY <1>2, <1>3, CountsEqual

\* A copy disappears: there is one less of its message.
LEMMA CopyVanishes ==
  ASSUME NEW c \in Copies, \A d \in Copies : d # c => copy'[d] = copy[d],
         InTransit(c), ~InTransit(c)', NEW x \in Messages, MessageOf(c) = x
  PROVE  Counts' = Abstract!Without(Counts, x)
<1> DEFINE F == Abstract!Without(Counts, x)
<1>1. F = [m \in Messages |-> IF m = x THEN Counts[x] - 1 ELSE Counts[m]] BY DEF Abstract!Without, Counts
<1>2. ASSUME NEW m \in Messages PROVE Cardinality(CopiesOf(m)') = F[m]
  <2>1. CopiesOf(m)' = CopiesOf(m) \ {c} BY OneSlot
  <2>2. CASE m = x
    <3>1. c \in CopiesOf(m) BY <2>2 DEF CopiesOf
    <3>2. Cardinality(CopiesOf(m)') = Cardinality(CopiesOf(m)) - 1 BY <2>1, <3>1, CopiesFinite, FS_RemoveElement
    <3> QED BY <1>1, <2>2, <3>2, CountFacts
  <2>3. CASE m # x
    <3>1. c \notin CopiesOf(m) BY <2>3 DEF CopiesOf
    <3>2. CopiesOf(m)' = CopiesOf(m) BY <2>1, <3>1
    <3> QED BY <1>1, <2>3, <3>2, CountFacts
  <2> QED BY <2>2, <2>3
<1>3. F = [m \in Messages |-> F[m]] BY <1>1
<1> QED BY <1>2, <1>3, CountsEqual

\* A copy becomes one of another message, or of the same.
LEMMA CopyChanges ==
  ASSUME NEW c \in Copies, \A d \in Copies : d # c => copy'[d] = copy[d], InTransit(c), InTransit(c)',
         NEW x \in Messages, MessageOf(c) = x, NEW y \in Messages, MessageOf(c)' = y
  PROVE  Counts' = Abstract!With(Abstract!Without(Counts, x), y)
<1> DEFINE G == Abstract!Without(Counts, x)
           F == Abstract!With(G, y)
<1>1. G = [m \in Messages |-> IF m = x THEN Counts[x] - 1 ELSE Counts[m]] BY DEF Abstract!Without, Counts
<1> HIDE DEF G
<1>2. F = [m \in Messages |-> IF m = y THEN G[y] + 1 ELSE G[m]] BY <1>1 DEF Abstract!With
<1>3. ASSUME NEW m \in Messages PROVE Cardinality(CopiesOf(m)') = F[m]
  <2>1. Counts[m] \in Nat /\ Counts[m] = Cardinality(CopiesOf(m)) BY CountFacts
  <2>2. c \in CopiesOf(m) <=> m = x BY DEF CopiesOf
  <2>3. CopiesOf(m)' = IF m = y THEN CopiesOf(m) \cup {c} ELSE CopiesOf(m) \ {c} BY OneSlot
  <2>4. CASE m = x /\ m = y
    <3>1. CopiesOf(m)' = CopiesOf(m) BY <2>2, <2>3, <2>4
    <3> QED BY <1>1, <1>2, <2>1, <2>4, <3>1
  <2>5. CASE m = x /\ m # y
    <3>1. Cardinality(CopiesOf(m)') = Cardinality(CopiesOf(m)) - 1
      BY <2>2, <2>3, <2>5, CopiesFinite, FS_RemoveElement
    <3> QED BY <1>1, <1>2, <2>1, <2>5, <3>1
  <2>6. CASE m # x /\ m = y
    <3>1. Cardinality(CopiesOf(m)') = Cardinality(CopiesOf(m)) + 1
      BY <2>2, <2>3, <2>6, CopiesFinite, FS_AddElement
    <3> QED BY <1>1, <1>2, <2>1, <2>6, <3>1
  <2>7. CASE m # x /\ m # y
    <3>1. CopiesOf(m)' = CopiesOf(m) BY <2>2, <2>3, <2>7
    <3> QED BY <1>1, <1>2, <2>1, <2>7, <3>1
  <2> QED BY <2>4, <2>5, <2>6, <2>7
<1>4. F = [m \in Messages |-> F[m]] BY <1>2
<1> QED BY <1>3, <1>4, CountsEqual DEF G
-----------------------------------------------------------------------------
(* Consumer implements Broker. *)

\* The dead letters of a step that buries nothing.
LEMMA DeadStay ==
  ASSUME \A c \in Copies : /\ copy'[c].place = Dead <=> copy[c].place = Dead
                           /\ copy[c].place = Dead => copy'[c].event = copy[c].event
  PROVE  DeadEvents' = DeadEvents
BY DEF DeadEvents

\* A step that Broker does not see: no copy changes its message or its end.
LEMMA Unseen ==
  ASSUME UNCHANGED <<published, handled>>,
         \A c \in Copies : /\ copy'[c].place = Nowhere <=> copy[c].place = Nowhere
                           /\ copy'[c].place = Dead <=> copy[c].place = Dead
                           /\ copy[c].place # Nowhere => MessageOf(c)' = MessageOf(c)
                           /\ copy'[c].event = copy[c].event
  PROVE  UNCHANGED Abstract!vars
<1>1. Counts' = Counts BY CountsStay DEF InTransit
<1>2. DeadEvents' = DeadEvents BY DeadStay
<1> QED BY <1>1, <1>2 DEF Abstract!vars

\* A step that leaves the copies and what is known of their events alone.
LEMMA UnseenAtAll ==
  ASSUME UNCHANGED <<published, handled, copy>>
  PROVE  UNCHANGED Abstract!vars
<1>1. \A c \in Copies : MessageOf(c)' = MessageOf(c) BY DEF MessageOf
<1> QED BY <1>1, Unseen

\* What a goroutine at work holds is in transit, with its own headers.
LEMMA HeldMessage ==
  ASSUME TypeOK, HeldSound, NEW w \in Workers, wrk[w].pc \in AtWork
  PROVE  LET c == wrk[w].copy
             m == MessageOf(c)
         IN  /\ c \in Copies /\ InTransit(c) /\ m \in Messages /\ Counts[m] > 0
             /\ m.event = Held(w).event /\ m.headers = Held(w).headers
<1> DEFINE c == wrk[w].copy
<1>1. c \in Copies /\ Held(w) = copy[c] /\ Held(w).place \in {Process, Unacked} BY HeldFacts
<1> HIDE DEF c
<1>2. InTransit(c) BY <1>1, PlacesDiffer DEF InTransit
<1>3. MessageOf(c) \in Messages /\ MessageOf(c).event = copy[c].event BY <1>1, MessageOfFacts
<1>4. MessageOf(c).headers = copy[c].headers BY <1>1, MessageOfFacts, PlacesDiffer
<1>5. Counts[MessageOf(c)] > 0 BY <1>1, <1>2, InTransitCounts
<1> QED BY <1>1, <1>2, <1>3, <1>4, <1>5 DEF c

\* A publication is Broker's.
LEMMA PublishIsPublish ==
  ASSUME TypeOK, TypeOK', NEW e \in Events, PublishEvent(e)
  PROVE  Abstract!Publish(e)
<1> DEFINE c == Fresh
           x == Abstract!New(e)
<1>0. x \in Messages /\ x.event = e /\ x.headers = NoHeaders
  BY SameVocabulary, HeaderFacts DEF Abstract!New, Messages
<1> HIDE DEF x
<1>1. PICK f \in Copies : f = Fresh BY PublishEffect
<1>2. /\ copy[f].place = Nowhere /\ copy'[f].place = Process /\ copy'[f].event = e
      /\ copy'[f].headers = NoHeaders /\ \A d \in Copies : d # f => copy'[d] = copy[d]
  BY <1>1, PublishEffect
<1>3. ~InTransit(f) /\ InTransit(f)' BY <1>2, PlacesDiffer DEF InTransit
<1>4. MessageOf(f)' = x
  <2>1. /\ MessageOf(f)' \in Messages /\ MessageOf(f)'.event = e /\ MessageOf(f)'.headers = NoHeaders
    BY <1>1, <1>2, MessageOfFactsNext, PlacesDiffer
  <2> QED BY <1>0, <2>1 DEF Messages
<1>5. Counts' = Abstract!With(Counts, x) BY <1>0, <1>2, <1>3, <1>4, CopyAppears
<1>6. DeadEvents' = DeadEvents BY <1>2, PlacesDiffer, DeadStay
<1> QED BY <1>5, <1>6 DEF PublishEvent, Abstract!Publish, x

\* A handler's end is Broker's, and its failure is not seen.
LEMMA HandleIsHandle ==
  ASSUME IInv, NEW w \in Workers, handle(w)
  PROVE  [Abstract!Next]_(Abstract!vars)
<1>1. UNCHANGED <<published, copy>> BY DEF handle
<1>2. Counts' = Counts /\ DeadEvents' = DeadEvents
  BY <1>1 DEF Counts, CopiesOf, InTransit, MessageOf, DeadEvents
<1>3. CASE handled' = handled BY <1>1, <1>3, UnseenAtAll
<1>4. CASE handled' = handled \cup {Held(w).event}
  <2>1. wrk[w].pc \in AtWork BY DEF handle, At, AtWork
  <2>2. PICK m \in Messages : Counts[m] > 0 /\ m.event = Held(w).event BY <2>1, HeldMessage DEF IInv
  <2>3. Abstract!Handle(m) BY <1>1, <1>2, <1>4, <2>2 DEF Abstract!Handle
  <2> QED BY <2>3, SameVocabulary DEF Abstract!Next
<1> QED BY <1>3, <1>4 DEF handle

\* A forward is a repeat, or a dead letter after the last attempt, whether it is confirmed or not.
LEMMA ForwardIsRepeat ==
  ASSUME IInv, TypeOK', NEW w \in Workers, forward(w)
  PROVE  [Abstract!Next]_(Abstract!vars)
<1>0. TypeOK /\ HeldSound BY DEF IInv
<1>1. UNCHANGED <<published, handled>> BY DEF forward
<1>2. PICK f \in Copies : f = Fresh BY <1>0, ForwardEffect
<1>3. /\ copy[f].place = Nowhere /\ \A d \in Copies : d # f => copy'[d] = copy[d]
      /\ copy'[f] = copy[f] \/ copy'[f] = ForwardedFrom(Held(w))
      /\ copy' \in [Copies -> Copy]
  BY <1>0, <1>2, ForwardEffect
<1>4. CASE copy'[f] = copy[f]
  <2>1. copy' = copy BY <1>0, <1>3, <1>4 DEF TypeOK
  <2> QED BY <1>1, <2>1, UnseenAtAll
<1>5. CASE copy'[f] = ForwardedFrom(Held(w))
  <2>1. wrk[w].pc \in AtWork BY DEF forward, At, AtWork
  <2>2. Held(w) \in Copy BY <1>0, <2>1, HeldFacts
  <2>3. PICK m \in Messages : Counts[m] > 0 /\ m.event = Held(w).event /\ m.headers = Held(w).headers
    BY <1>0, <2>1, HeldMessage
  <2>4. copy'[f].event = m.event BY <1>5, <2>2, <2>3, ForwardFacts
  <2>5. CASE copy'[f].place = Dead /\ Final(Held(w).headers)
    <3>1. Counts' = Counts
      <4>1. ~InTransit(f) /\ ~InTransit(f)' BY <1>3, <2>5, PlacesDiffer DEF InTransit
      <4>2. \A d \in Copies : d # f => (InTransit(d)' <=> InTransit(d)) /\ MessageOf(d)' = MessageOf(d)
        BY <1>3 DEF InTransit, MessageOf
      <4> QED BY <4>1, <4>2, CountsStay
    <3>2. DeadEvents' = DeadEvents \cup {m.event}
      <4>1. m.event \in Events BY DEF Messages
      <4> QED BY <1>3, <2>4, <2>5, <4>1, PlacesDiffer DEF DeadEvents
    <3>3. Abstract!Final(m.headers) BY <2>3, <2>5, SameVocabulary
    <3>4. Abstract!Bury(m) BY <1>1, <2>3, <3>1, <3>2, <3>3 DEF Abstract!Bury
    <3> QED BY <3>4, SameVocabulary DEF Abstract!Next
  <2>6. CASE /\ copy'[f].place \in LevelQueues /\ ~Final(Held(w).headers)
             /\ copy'[f].headers = Forwarded(Held(w).headers)
    <3> DEFINE x == [m EXCEPT !.headers = Forwarded(@)]
    <3>1. m.headers \in Headers /\ ~Final(m.headers) BY <2>3, <2>6 DEF Messages
    <3>2. Forwarded(m.headers) \in Headers /\ Forwarded(m.headers).attempts > 0 BY <3>1, HeaderFacts
    <3>3. x \in Messages /\ x.event = m.event /\ x.headers = Forwarded(m.headers) BY <3>2 DEF Messages
    <3>4. MessageOf(f)' \in Messages /\ MessageOf(f)'.event = m.event
      BY <2>4, MessageOfFactsNext
    <3>5. MessageOf(f)'.headers = Forwarded(m.headers)
      <4>1. MessageOf(f)'.headers = Died(copy'[f].headers) BY <2>6, MessageOfFactsNext
      <4>2. Died(Forwarded(m.headers)) = Forwarded(m.headers) BY <3>2, HeaderFacts
      <4> QED BY <2>3, <2>6, <4>1, <4>2
    <3>6. MessageOf(f)' = x
      <4> HIDE DEF x
      <4> QED BY <3>3, <3>4, <3>5 DEF Messages
    <3>7. ~InTransit(f) /\ InTransit(f)' BY <1>3, <2>6, PlacesDiffer DEF InTransit
    <3>8. Counts' = Abstract!With(Counts, x)
      <4> HIDE DEF x
      <4> QED BY <1>3, <3>3, <3>6, <3>7, CopyAppears
    <3>9. DeadEvents' = DeadEvents BY <1>3, <2>6, PlacesDiffer, DeadStay
    <3>10. x = [m EXCEPT !.headers = Abstract!Forwarded(@)] BY SameVocabulary
    <3>11. ~Abstract!Final(m.headers) BY <3>1, SameVocabulary
    <3> HIDE DEF x
    <3>12. Abstract!Repeat(m) BY <1>1, <2>3, <3>8, <3>9, <3>10, <3>11 DEF Abstract!Repeat
    <3> QED BY <3>12, SameVocabulary DEF Abstract!Next
  <2> QED BY <1>5, <2>2, <2>5, <2>6, ForwardFacts
<1> QED BY <1>3, <1>4, <1>5

\* A rejection counts the attempt by two deaths, on an open channel; on a closed one nothing is seen.
LEMMA RejectIsReject ==
  ASSUME IInv, TypeOK', NEW w \in Workers, reject(w)
  PROVE  [Abstract!Next]_(Abstract!vars)
<1>0. TypeOK /\ HeldSound /\ KeysSound BY DEF IInv
<1>1. UNCHANGED <<published, handled>> BY DEF reject
<1>2. wrk[w].pc \in AtWork BY DEF reject, At, AtWork
<1>3. PICK c \in Copies : c = wrk[w].copy BY <1>0, RejectEffect
<1>4. /\ \A d \in Copies : d # c => copy'[d] = copy[d]
      /\ IF open THEN /\ copy'[c].place \in LevelQueues /\ copy'[c].event = Held(w).event
                      /\ copy'[c].headers = Died(Held(w).headers)
                 ELSE copy'[c] = copy[c]
      /\ copy' \in [Copies -> Copy]
  BY <1>0, <1>3, RejectEffect
<1>5. CASE ~open
  <2>1. copy' = copy BY <1>0, <1>4, <1>5 DEF TypeOK
  <2> QED BY <1>1, <2>1, UnseenAtAll
<1>6. CASE open
  <2>1. PICK m \in Messages : /\ m = MessageOf(c) /\ InTransit(c) /\ Counts[m] > 0
                              /\ m.event = Held(w).event /\ m.headers = Held(w).headers
    BY <1>0, <1>2, <1>3, HeldMessage
  <2> DEFINE y == [m EXCEPT !.headers = Rejected(@)]
  <2>2. m.headers \in Headers BY DEF Messages
  <2>3. Died(m.headers) \in Headers /\ Died(Died(m.headers)) \in Headers BY <2>2, HeaderFacts
  <2>4. y \in Messages /\ y.event = m.event /\ y.headers = Died(Died(m.headers))
    BY <2>3 DEF Messages, Rejected
  <2> HIDE DEF y
  <2>5. MessageOf(c)' \in Messages /\ MessageOf(c)'.event = m.event
    BY <1>4, <1>6, <2>1, MessageOfFactsNext
  <2>6. MessageOf(c)'.headers = Died(Died(m.headers)) BY <1>4, <1>6, <2>1, MessageOfFactsNext
  <2>7. MessageOf(c)' = y BY <2>4, <2>5, <2>6 DEF Messages
  <2>8. InTransit(c)' BY <1>4, <1>6, PlacesDiffer DEF InTransit
  <2>9. Counts' = Abstract!With(Abstract!Without(Counts, m), y)
    BY <1>4, <2>1, <2>4, <2>7, <2>8, CopyChanges
  <2>10. DeadEvents' = DeadEvents
    BY <1>4, <1>6, <2>1, PlacesDiffer, DeadStay DEF InTransit
  <2>11. y = [m EXCEPT !.headers = Abstract!Rejected(@)] BY SameVocabulary DEF y
  <2>12. Abstract!Reject(m) BY <1>1, <2>1, <2>9, <2>10, <2>11 DEF Abstract!Reject
  <2> QED BY <2>12, SameVocabulary DEF Abstract!Next
<1> QED BY <1>5, <1>6

\* An ack leaves its event handled or with another copy, on an open channel; on a closed one
\* nothing is seen.
LEMMA AckIsAcknowledge ==
  ASSUME IInv, TypeOK', Secured', NEW w \in Workers, ack(w)
  PROVE  [Abstract!Next]_(Abstract!vars)
<1>0. TypeOK /\ HeldSound BY DEF IInv
<1>1. UNCHANGED <<published, handled>> BY DEF ack
<1>2. wrk[w].pc \in AtWork BY DEF ack, At, AtWork
<1>3. PICK c \in Copies : c = wrk[w].copy BY <1>0, AckEffect
<1>4. /\ \A d \in Copies : d # c => copy'[d] = copy[d]
      /\ IF open THEN copy'[c].place = Nowhere ELSE copy'[c] = copy[c]
      /\ copy' \in [Copies -> Copy]
  BY <1>0, <1>3, AckEffect
<1>5. CASE ~open
  <2>1. copy' = copy BY <1>0, <1>4, <1>5 DEF TypeOK
  <2> QED BY <1>1, <2>1, UnseenAtAll
<1>6. CASE open
  <2>1. PICK m \in Messages : m = MessageOf(c) /\ InTransit(c) /\ Counts[m] > 0
    BY <1>0, <1>2, <1>3, HeldMessage
  <2>2. ~InTransit(c)' BY <1>4, <1>6 DEF InTransit
  <2>3. Counts' = Abstract!Without(Counts, m) BY <1>4, <2>1, <2>2, CopyVanishes
  <2>4. DeadEvents' = DeadEvents BY <1>4, <1>6, <2>1, PlacesDiffer, DeadStay DEF InTransit
  <2>5. Abstract!Kept'
    <3> SUFFICES ASSUME NEW e \in published' \ handled'
                 PROVE  e \in DeadEvents' \/ \E n \in Messages : n.event = e /\ Counts'[n] > 0
      BY SameVocabulary DEF Abstract!Kept
    <3>1. PICK d \in Copies : copy'[d].event = e /\ copy'[d].place # Nowhere BY DEF Secured
    <3>2. e \in Events BY <3>1 DEF TypeOK, Copy
    <3>3. CASE copy'[d].place = Dead BY <3>1, <3>2, <3>3 DEF DeadEvents
    <3>4. CASE copy'[d].place # Dead
      <4>1. InTransit(d)' BY <3>1, <3>4 DEF InTransit
      <4>2. PICK n \in Messages : n = MessageOf(d)' /\ n.event = e BY <3>1, MessageOfFactsNext
      <4>3. Counts'[n] > 0 BY <4>1, <4>2, InTransitCounts
      <4> QED BY <4>2, <4>3
    <3> QED BY <3>3, <3>4
  <2>6. Abstract!Acknowledge(m) BY <1>1, <2>1, <2>3, <2>4, <2>5 DEF Abstract!Acknowledge
  <2> QED BY <2>6, SameVocabulary DEF Abstract!Next
<1> QED BY <1>5, <1>6

\* The levels, the deliveries and a lost channel move copies that keep their messages.
LEMMA MovesUnseen ==
  ASSUME TypeOK, TypeOK', UNCHANGED <<published, handled>>,
         (\E c \in Copies : ReturnFromLevel(c) \/ Deliver(c)) \/ copy' = Requeued
  PROVE  UNCHANGED Abstract!vars
<1>1. ASSUME NEW c \in Copies, ReturnFromLevel(c) PROVE UNCHANGED Abstract!vars
  <2>1. /\ copy[c].place \in LevelQueues /\ copy'[c].place = Process /\ copy'[c].event = copy[c].event
        /\ copy'[c].headers = Died(copy[c].headers)
        /\ \A d \in Copies : d # c => copy'[d] = copy[d]
    BY <1>1, ReturnEffect
  <2>2. MessageOf(c)' = MessageOf(c)
    <3>1. MessageOf(c) \in Messages /\ MessageOf(c)' \in Messages BY MessageOfFacts, MessageOfFactsNext
    <3>2. MessageOf(c)'.event = MessageOf(c).event BY <2>1, MessageOfFacts, MessageOfFactsNext
    <3>3. MessageOf(c)'.headers = MessageOf(c).headers
      BY <2>1, MessageOfFacts, MessageOfFactsNext, PlacesDiffer
    <3> QED BY <3>1, <3>2, <3>3 DEF Messages
  <2>3. \A d \in Copies : d # c => MessageOf(d)' = MessageOf(d) BY <2>1 DEF MessageOf
  <2> QED BY <2>1, <2>2, <2>3, PlacesDiffer, Unseen
<1>2. ASSUME NEW c \in Copies, Deliver(c) PROVE UNCHANGED Abstract!vars
  <2>1. /\ copy[c].place = Process /\ copy'[c].place = Unacked /\ copy'[c].event = copy[c].event
        /\ copy'[c].headers = copy[c].headers
        /\ \A d \in Copies : d # c => copy'[d] = copy[d]
    BY <1>2, DeliverEffect
  <2>2. MessageOf(c)' = MessageOf(c)
    <3>1. MessageOf(c) \in Messages /\ MessageOf(c)' \in Messages BY MessageOfFacts, MessageOfFactsNext
    <3>2. MessageOf(c)'.event = MessageOf(c).event BY <2>1, MessageOfFacts, MessageOfFactsNext
    <3>3. MessageOf(c)'.headers = MessageOf(c).headers
      BY <2>1, MessageOfFacts, MessageOfFactsNext, PlacesDiffer
    <3> QED BY <3>1, <3>2, <3>3 DEF Messages
  <2>3. \A d \in Copies : d # c => MessageOf(d)' = MessageOf(d) BY <2>1 DEF MessageOf
  <2> QED BY <2>1, <2>2, <2>3, PlacesDiffer, Unseen
<1>3. ASSUME copy' = Requeued PROVE UNCHANGED Abstract!vars
  <2>1. ASSUME NEW c \in Copies
        PROVE  /\ copy'[c].place = IF copy[c].place = Unacked THEN Process ELSE copy[c].place
               /\ copy'[c].event = copy[c].event /\ copy'[c].headers = copy[c].headers
    BY <1>3, RequeuedFacts
  <2>2. ASSUME NEW c \in Copies PROVE MessageOf(c)' = MessageOf(c)
    <3>1. copy'[c].place \in LevelQueues <=> copy[c].place \in LevelQueues BY <2>1, PlacesDiffer
    <3> QED BY <2>1, <3>1 DEF MessageOf, LevelQueues
  <2> QED BY <2>1, <2>2, PlacesDiffer, Unseen
<1> QED BY <1>1, <1>2, <1>3

\* Every step is one of Broker or is not seen.
LEMMA BrokerStep ==
  ASSUME IInv, IInv', [Next]_vars
  PROVE  [Abstract!Next]_(Abstract!vars)
<1>0. TypeOK /\ TypeOK' /\ Secured' BY DEF IInv
<1>1. ASSUME NEW e \in Events, PublishEvent(e) PROVE Abstract!Next
  BY <1>0, <1>1, PublishIsPublish DEF Abstract!Next
<1>2. ASSUME NEW c \in Copies, ReturnFromLevel(c) \/ Deliver(c) \/ Take(c)
      PROVE  UNCHANGED Abstract!vars
  <2>1. UNCHANGED <<published, handled>> BY <1>2 DEF ReturnFromLevel, Deliver, Take
  <2>2. CASE Take(c)
    <3>1. copy' = copy BY <2>2 DEF Take
    <3> QED BY <2>1, <3>1, UnseenAtAll
  <2> QED BY <1>0, <1>2, <2>1, <2>2, MovesUnseen
<1>3. ASSUME NEW w \in Workers, Hand(w) \/ Exit(w) PROVE UNCHANGED Abstract!vars
  BY <1>3, UnseenAtAll DEF Hand, Exit
<1>4. ASSUME NEW w \in Workers, process(w) PROVE [Abstract!Next]_(Abstract!vars)
  BY <1>0, <1>3, <1>4, HandleIsHandle, ForwardIsRepeat, RejectIsReject, AckIsAcknowledge DEF process
<1>5. CASE StopPump \/ Interrupt \/ Drained \/ GiveUp \/ Restart
  BY <1>5, UnseenAtAll DEF StopPump, Interrupt, Drained, GiveUp, Restart
<1>6. CASE BreakChannel \/ Close \/ Crash
  <2>1. UNCHANGED <<published, handled>> /\ copy' = Requeued BY <1>6 DEF BreakChannel, Close, Crash, Down
  <2> QED BY <1>0, <2>1, MovesUnseen
<1>7. CASE UNCHANGED vars BY <1>7, UnseenAtAll DEF vars
<1> QED BY <1>1, <1>2, <1>3, <1>4, <1>5, <1>6, <1>7 DEF Next

\* The topology, the goroutines and the shutdown keep what Broker promises: which copies of an
\* event there are, how their attempts are counted, and when one may be acknowledged.
THEOREM ConsumerImplementsBroker == Spec => Implements
<1>1. Init => Abstract!Init
  <2> SUFFICES ASSUME Init PROVE Abstract!Init OBVIOUS
  <2>1. \A c \in Copies : copy[c].place = Nowhere BY DEF Init, NoCopy
  <2>2. \A m \in Messages : CopiesOf(m) = {} BY <2>1 DEF CopiesOf, InTransit
  <2>3. Counts = [m \in Messages |-> 0] BY <2>2, FS_EmptySet DEF Counts
  <2>4. DeadEvents = {} BY <2>1, PlacesDiffer DEF DeadEvents
  <2>5. published = {} /\ handled = {} BY DEF Init
  <2> QED BY <2>3, <2>4, <2>5, SameVocabulary DEF Abstract!Init
<1>2. IInv /\ IInv' /\ [Next]_vars => [Abstract!Next]_(Abstract!vars) BY BrokerStep
<1> QED BY <1>1, <1>2, ConsumerIsSound, PTL DEF Spec, Implements, Abstract!Spec
=============================================================================
