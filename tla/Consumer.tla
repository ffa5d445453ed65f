------------------------------ MODULE Consumer ------------------------------
(***************************************************************************)
(* A worker process and the broker's queues: the topology that             *)
(* declareTopology sets up, the ladder of retries, Consumer.Consume with   *)
(* its pump and goroutines, and the process's run() with its shutdown.     *)
(*                                                                         *)
(* A message is a set of copies: forwarding publishes a new copy before    *)
(* the old one is acknowledged, so that between the two calls, and after a *)
(* failure of the second, there are two.  A slot of "copy" holds one copy. *)
(***************************************************************************)
EXTENDS Retry, FiniteSets

CONSTANTS
  Events,      \* the events published, each once
  Workers,     \* the goroutines of Consume, as many as the prefetch
  NumLevels,   \* levels of the retry ladder, 3 in the code
  MaxCopies,   \* bound: copies of messages at a time
  MaxFaults    \* bound: failures, signals and restarts in one behaviour

ASSUME ConsumerAssumption ==
  /\ Events # {}
  /\ Workers # {} /\ IsFiniteSet(Workers)
  /\ NumLevels \in Nat \ {0}
  /\ MaxCopies \in Nat \ {0}
  /\ MaxFaults \in Nat

VARIABLES
  published, \* the events the exchange took
  copy,      \* the copies of messages and where they are
  pump,      \* Consumer.pump: where it stands and the delivery it holds
  wrk,       \* the goroutines
  open,      \* the consumer's channel is open
  main,      \* run() of the worker
  handled,   \* events whose handler ended without a repeat being due
  runs,      \* how often the handler ran for each event, up to MaxAttempts + 1
  faults     \* failures left

vars == <<published, copy, pump, wrk, open, main, handled, runs, faults>>
-----------------------------------------------------------------------------
(* The topology.  Keys and queues are pairs: a name and a retry level. *)

Levels == 1..NumLevels

EventKey    == <<"avatar.event", 0>>     \* avatar.uploaded and avatar.deleted
RetriedKey  == <<"avatar.retried", 0>>
DeadKey     == <<"avatar.dead", 0>>
LevelKey(i) == <<"retry", i>>

Keys == {EventKey, RetriedKey, DeadKey} \cup {LevelKey(i) : i \in Levels}

Process       == <<"avatars.process", 0>>
Dead          == <<"avatars.dead", 0>>
LevelQueue(i) == <<"avatars.retry", i>>

Queues == {Process, Dead} \cup {LevelQueue(i) : i \in Levels}

\* Not a queue: the copy is gone, or delivered and not acknowledged.
Nowhere == <<"nowhere", 0>>
Unacked == <<"unacked", 0>>

\* Mutant: rejected messages that came back from the ladder find no queue.
LevelKeys_NoReturn(i) == {LevelKey(i)} \cup IF i = 1 THEN {EventKey} ELSE {}

\* declareRetryLevels: the first level also takes what the process queue
\* rejects, under the key the message came with.
LevelKeys(i) == {LevelKey(i)} \cup IF i = 1 THEN {EventKey, RetriedKey} ELSE {}

\* declareTopology: the queue an exchange puts a key into, if any.
Route(exchange, key) ==
  CASE exchange = "avatars.exchange" /\ key \in {EventKey, RetriedKey, DeadKey} -> Process
    [] exchange = "avatars.retry" /\ (\E i \in Levels : key \in LevelKeys(i)) ->
         LevelQueue(CHOOSE i \in Levels : key \in LevelKeys(i))
    [] exchange = "avatars.dlq" /\ key = DeadKey -> Dead
    [] OTHER -> Nowhere

\* Where a queue sends the messages it drops: x-dead-letter-exchange.
DeadLettered(c, exchange, key) ==
  [c EXCEPT !.place = Route(exchange, key), !.key = key, !.headers = Died(@)]

\* retryLevelFor: beyond the ladder every repeat waits at its last level.
retryLevelFor(attempt) == IF attempt > NumLevels THEN NumLevels ELSE attempt
-----------------------------------------------------------------------------
\* The slots; 0 stands for none.
Copies == 1..MaxCopies

Copy == [place : Queues \cup {Nowhere, Unacked}, event : Events, key : Keys, headers : Headers]

AnyEvent == CHOOSE e \in Events : TRUE

NoCopy == [place |-> Nowhere, event |-> AnyEvent, key |-> EventKey, headers |-> NoHeaders]

PumpPC   == {"select", "hand", "stopped"}
WorkerPC == {"idle", "handle", "forward", "reject", "ack", "exited"}

\* run(): waiting in its select, for the consumer to drain after a signal, for
\* the consumer after the metrics listener broke, closing, or not running.
\* "late" says that the drain was given up.
MainPC == {"select", "drain", "metrics", "close", "late", "down"}

TypeOK ==
  /\ published \in SUBSET Events
  /\ copy \in [Copies -> Copy]
  /\ pump \in [pc : PumpPC, copy : 0..MaxCopies]
  /\ wrk \in [Workers -> [pc : WorkerPC, copy : 0..MaxCopies]]
  /\ open \in BOOLEAN
  /\ main \in MainPC
  /\ handled \in SUBSET Events
  /\ runs \in [Events -> 0..(MaxAttempts + 1)]
  /\ faults \in 0..MaxFaults

Started ==
  /\ pump' = [pc |-> "select", copy |-> 0]
  /\ wrk' = [w \in Workers |-> [pc |-> "idle", copy |-> 0]]
  /\ open' = TRUE

Init ==
  /\ published = {}
  /\ copy = [c \in Copies |-> NoCopy]
  /\ pump = [pc |-> "select", copy |-> 0]
  /\ wrk = [w \in Workers |-> [pc |-> "idle", copy |-> 0]]
  /\ open = TRUE
  /\ main = "select"
  /\ handled = {}
  /\ runs = [e \in Events |-> 0]
  /\ faults = MaxFaults

Fault == faults > 0 /\ faults' = faults - 1

Works == UNCHANGED faults

At(w, pc) == wrk[w].pc = pc

Held(w) == copy[wrk[w].copy]

Goto(w, pc) == wrk' = [wrk EXCEPT ![w].pc = pc]

\* Back to range jobs: the goroutine has no delivery any more.
Done(w) == wrk' = [wrk EXCEPT ![w] = [pc |-> "idle", copy |-> 0]]

\* The free slots, and the one the next copy takes.
Free == {c \in Copies : copy[c].place = Nowhere}

CanCopy == Free # {}

Fresh == CHOOSE c \in Free : TRUE

\* The channel is lost or closed: what was not acknowledged is delivered again.
Requeued == [c \in Copies |-> IF copy[c].place = Unacked THEN [copy[c] EXCEPT !.place = Process] ELSE copy[c]]

\* ctx of Consume: cancelled by a signal, by a broken metrics listener, and when
\* run() goes on to close.
Cancelled == main # "select"
-----------------------------------------------------------------------------
(* The broker. *)

\* A server publishes the event, or the reconciler does.
PublishEvent(e) ==
  /\ e \notin published /\ CanCopy
  /\ published' = published \cup {e}
  /\ copy' = [copy EXCEPT ![Fresh] =
       [place |-> Route("avatars.exchange", EventKey), event |-> e, key |-> EventKey, headers |-> NoHeaders]]
  /\ UNCHANGED <<pump, wrk, open, main, handled, runs, faults>>

\* The time to live at a level runs out.
ReturnFromLevel(c) ==
  /\ copy[c].place \in {LevelQueue(i) : i \in Levels}
  /\ copy' = [copy EXCEPT ![c] = DeadLettered(copy[c], "avatars.exchange", RetriedKey)]
  /\ UNCHANGED <<published, pump, wrk, open, main, handled, runs, faults>>

\* Up to the prefetch, deliveries are sent to the client before it acknowledges.
Deliver(c) ==
  /\ open /\ main # "down" /\ copy[c].place = Process
  /\ Cardinality({d \in Copies : copy[d].place = Unacked}) < Cardinality(Workers)
  /\ copy' = [copy EXCEPT ![c].place = Unacked]
  /\ UNCHANGED <<published, pump, wrk, open, main, handled, runs, faults>>

\* The channel or the connection breaks; the process goes on.
BreakChannel ==
  /\ open /\ main # "down"
  /\ open' = FALSE /\ copy' = Requeued
  /\ Fault
  /\ UNCHANGED <<published, pump, wrk, main, handled, runs>>
-----------------------------------------------------------------------------
(* Consumer.pump *)

\* A delivery that arrived and that neither the pump nor a goroutine has taken.
Arrived(c) ==
  /\ copy[c].place = Unacked
  /\ pump.copy # c /\ \A w \in Workers : wrk[w].copy # c

Take(c) ==
  /\ pump.pc = "select" /\ open /\ Arrived(c) /\ main # "down"
  /\ pump' = [pc |-> "hand", copy |-> c]
  /\ UNCHANGED <<published, copy, wrk, open, main, handled, runs, faults>>

\* jobs <- delivery: a goroutine takes it and its handler starts.
Hand(w) ==
  /\ pump.pc = "hand" /\ At(w, "idle") /\ main # "down"
  /\ pump' = [pc |-> "select", copy |-> 0]
  /\ wrk' = [wrk EXCEPT ![w] = [pc |-> "handle", copy |-> pump.copy]]
  /\ runs' = [runs EXCEPT ![copy[pump.copy].event] = IF @ > MaxAttempts THEN @ ELSE @ + 1]
  /\ UNCHANGED <<published, copy, open, main, handled, faults>>

\* Mutant: the pump leaves without closing jobs.
StopPump_JobsOpen ==
  /\ pump.pc \in {"select", "hand"} /\ Cancelled /\ main # "down"
  /\ pump' = [pc |-> "gone", copy |-> 0]
  /\ UNCHANGED <<published, copy, wrk, open, main, handled, runs, faults>>

\* The context is cancelled, or the channel is closed; jobs is closed.  When
\* several cases of a select are ready any one of them is taken, so that a
\* delivery may still be handed out after the cancellation.
StopPump ==
  /\ \/ pump.pc \in {"select", "hand"} /\ Cancelled
     \/ pump.pc = "select" /\ ~open
  /\ main # "down"
  /\ pump' = [pc |-> "stopped", copy |-> 0]
  /\ UNCHANGED <<published, copy, wrk, open, main, handled, runs, faults>>
-----------------------------------------------------------------------------
(* Consumer.process, in one goroutine. *)

Alive(w) == main # "down" /\ wrk[w].pc # "exited"

\* Mutant: the signal interrupts the handler, and its message is acknowledged.
handle_Interrupted(w) ==
  /\ Alive(w) /\ At(w, "handle")
  /\ \/ Goto(w, "ack") /\ handled' = handled \cup {Held(w).event}
     \/ Goto(w, IF Cancelled THEN "ack" ELSE "forward") /\ UNCHANGED handled
  /\ UNCHANGED <<published, copy, pump, open, main, runs, faults>>

\* The handler returns: nil or ErrNonRetryable, or an error or a panic that is
\* worth a repeat.
handle(w) ==
  /\ Alive(w) /\ At(w, "handle")
  /\ \/ Goto(w, "ack") /\ handled' = handled \cup {Held(w).event}
     \/ Goto(w, "forward") /\ UNCHANGED handled
  /\ UNCHANGED <<published, copy, pump, open, main, runs, faults>>

\* Mutant: the copy does not carry the attempts made so far.
ForwardedFrom_NoHeader(c) ==
  LET n == attemptNumber(c.headers) IN
  IF isFinalAttempt(n)
  THEN [c EXCEPT !.place = Route("avatars.dlq", DeadKey), !.key = DeadKey, !.headers = NoHeaders]
  ELSE [c EXCEPT !.place = Route("avatars.retry", LevelKey(retryLevelFor(n))),
                 !.key = LevelKey(retryLevelFor(n)), !.headers = NoHeaders]

\* reroute's destination and the copy forward publishes there.  In the dead
\* letter queue headers are not read any more.
ForwardedFrom(c) ==
  LET n == attemptNumber(c.headers) IN
  IF isFinalAttempt(n)
  THEN [c EXCEPT !.place = Route("avatars.dlq", DeadKey), !.key = DeadKey, !.headers = NoHeaders]
  ELSE [c EXCEPT !.place = Route("avatars.retry", LevelKey(retryLevelFor(n))),
                 !.key = LevelKey(retryLevelFor(n)), !.headers = Forwarded(@)]

\* forward is confirmed, or fails without or after the broker took the copy.  A
\* mandatory message that finds no queue is returned: a failure.
forward(w) ==
  LET new == ForwardedFrom(Held(w)) IN
  /\ Alive(w) /\ At(w, "forward") /\ CanCopy
  /\ \/ new.place # Nowhere /\ copy' = [copy EXCEPT ![Fresh] = new] /\ Goto(w, "ack") /\ Works
     \/ new.place = Nowhere /\ UNCHANGED copy /\ Goto(w, "reject") /\ Works
     \/ UNCHANGED copy /\ Goto(w, "reject") /\ Fault
     \/ copy' = [copy EXCEPT ![Fresh] = new] /\ Goto(w, "reject") /\ Fault
  /\ UNCHANGED <<published, pump, open, main, handled, runs>>

\* delivery.Reject and delivery.Ack act on the channel the delivery came by; on
\* a closed one they fail, which is logged.
reject(w) ==
  /\ Alive(w) /\ At(w, "reject") /\ Done(w)
  /\ copy' = IF open
             THEN [copy EXCEPT ![wrk[w].copy] = DeadLettered(Held(w), "avatars.retry", Held(w).key)]
             ELSE copy
  /\ UNCHANGED <<published, pump, open, main, handled, runs, faults>>

ack(w) ==
  /\ Alive(w) /\ At(w, "ack") /\ Done(w)
  /\ copy' = IF open THEN [copy EXCEPT ![wrk[w].copy] = NoCopy] ELSE copy
  /\ UNCHANGED <<published, pump, open, main, handled, runs, faults>>

\* jobs is closed and drained.
Exit(w) ==
  /\ main # "down" /\ At(w, "idle") /\ pump.pc = "stopped" /\ Goto(w, "exited")
  /\ UNCHANGED <<published, copy, pump, open, main, handled, runs, faults>>

process(w) == handle(w) \/ forward(w) \/ reject(w) \/ ack(w) \/ Exit(w)
-----------------------------------------------------------------------------
(* run() of cmd/worker *)

\* Consume returns when the pump has stopped and every goroutine has ended.
Returned == pump.pc = "stopped" /\ \A w \in Workers : At(w, "exited")

Become(from, to) == main = from /\ main' = to

\* SIGTERM, and a metrics listener that breaks.
Interrupt ==
  /\ Become("select", "drain") \/ Become("select", "metrics")
  /\ Fault
  /\ UNCHANGED <<published, copy, pump, wrk, open, handled, runs>>

Drained ==
  /\ Returned
  /\ Become("select", "close") \/ Become("drain", "close") \/ Become("metrics", "close")
  /\ UNCHANGED <<published, copy, pump, wrk, open, handled, runs, faults>>

\* ShutdownTimeout runs out first.
GiveUp ==
  /\ Become("drain", "late") /\ Fault
  /\ UNCHANGED <<published, copy, pump, wrk, open, handled, runs>>

\* deps.close and the end of the process, or a crash: the connection is gone,
\* and the goroutines with it.
Down(from) ==
  /\ main \in from /\ main' = "down"
  /\ open' = FALSE /\ copy' = Requeued
  /\ pump' = [pc |-> "stopped", copy |-> 0]
  /\ wrk' = [w \in Workers |-> [pc |-> "exited", copy |-> 0]]
  /\ UNCHANGED <<published, handled, runs>>

Close == Down({"close", "late"}) /\ Works

Crash == Down(MainPC \ {"down"}) /\ Fault

\* The container is started again.
Restart ==
  /\ Become("down", "select") /\ Started
  /\ UNCHANGED <<published, copy, handled, runs, faults>>
-----------------------------------------------------------------------------
Next ==
  \/ \E e \in Events : PublishEvent(e)
  \/ \E c \in Copies : ReturnFromLevel(c) \/ Deliver(c) \/ Take(c)
  \/ \E w \in Workers : Hand(w) \/ process(w)
  \/ StopPump \/ BreakChannel
  \/ Interrupt \/ Drained \/ GiveUp \/ Close \/ Crash \/ Restart

Spec == Init /\ [][Next]_vars

\* A goroutine runs on, the broker delivers and expires, select takes a ready
\* case, run() proceeds and the container is restarted.  Interrupts and failures
\* are not relied on, and a ready delivery may always lose against the
\* cancellation.
Fairness ==
  /\ \A c \in Copies : WF_vars(ReturnFromLevel(c)) /\ WF_vars(Deliver(c)) /\ WF_vars(Take(c))
  /\ WF_vars(\E w \in Workers : Hand(w))
  /\ \A w \in Workers : WF_vars(process(w))
  /\ WF_vars(StopPump) /\ WF_vars(Drained) /\ WF_vars(Close) /\ WF_vars(Restart)

FairSpec == Spec /\ Fairness
-----------------------------------------------------------------------------
(* Properties. *)

Exists(e) == \E c \in Copies : copy[c].event = e /\ copy[c].place # Nowhere

\* At least once: a published event that no handler ended is in a queue, delivered
\* or in the dead letter queue, whatever forward, Reject, Ack, a broken channel
\* or a restart did in between.  And a process that was not made to give up its drain
\* leaves no handler in the middle of a message: a delivery at work when run() closes the
\* connection exists only after ShutdownTimeout ran out.
NothingLost ==
  /\ \A e \in published \ handled : Exists(e)
  /\ main = "close" =>
       \A w \in Workers : wrk[w].pc \notin {"handle", "forward", "reject", "ack"}

\* The types, and the attempts are counted: without failures of the broker the handler runs at
\* most MaxAttempts times, and a message is given up early by at most one run
\* for every failure.
AttemptsCounted ==
  /\ TypeOK
  /\ \A e \in Events :
       /\ faults = MaxFaults => runs[e] <= MaxAttempts
       /\ (\E c \in Copies : copy[c].place = Dead /\ copy[c].event = e)
            => runs[e] + (MaxFaults - faults) >= MaxAttempts

\* The ladder ends: of every event, repeated, duplicated or redelivered, finally
\* no copy is left but in the dead letter queue.
LadderEnds ==
  \A e \in Events :
    Exists(e) ~> (\A c \in Copies : copy[c].event = e => copy[c].place \in {Nowhere, Dead})

\* A copy that is queued, waits at a level or is delivered; the others are gone or dead letters.
InTransit(c) == copy[c].place \notin {Nowhere, Dead}

\* The message a copy is of.  One that waits at a level has the death that ends its wait.
MessageOf(c) ==
  [event |-> copy[c].event,
   headers |-> IF copy[c].place \in {LevelQueue(i) : i \in Levels} THEN Died(copy[c].headers)
               ELSE copy[c].headers]

CopiesOf(m) == {c \in Copies : InTransit(c) /\ MessageOf(c) = m}

Messages == [event : Events, headers : Headers]

Counts == [m \in Messages |-> Cardinality(CopiesOf(m))]

DeadEvents == {e \in Events : \E c \in Copies : copy[c].place = Dead /\ copy[c].event = e}

Abstract == INSTANCE Broker WITH msgs <- Counts, dead <- DeadEvents

\* Whatever exchanges, levels, channels, goroutines, shutdowns and restarts do to the copies
\* of an event is a step of the message as Broker describes it, or none: a copy appears when
\* an event is published or an attempt is counted, ends in the dead letter queue after the
\* last attempt only, and disappears when its event is handled or secured elsewhere.
Implements == Abstract!Spec

\* Shutdown ends: a cancelled or broken Consume returns, and run() with it.
ShutdownEnds == (Cancelled \/ ~open) ~> (main = "down")
-----------------------------------------------------------------------------
(* What the properties rest on: the inductive invariant of the proofs. *)

AtWork == {"handle", "forward", "reject", "ack"}

\* Where a delivery is that the pump or a goroutine holds: it is back in the
\* queue once the channel is gone, and stays there as no channel is opened.
InHand == IF open THEN Unacked ELSE Process

\* A delivery has one holder.
HeldSound ==
  /\ \A c \in Copies : copy[c].place = Unacked => open
  /\ pump.pc = "hand" => pump.copy # 0
  /\ pump.copy # 0 => pump.pc = "hand" /\ copy[pump.copy].place = InHand
  /\ \A w \in Workers :
       /\ wrk[w].pc \in AtWork <=> wrk[w].copy # 0
       /\ wrk[w].copy # 0 => copy[wrk[w].copy].place = InHand /\ wrk[w].copy # pump.copy
       /\ \A v \in Workers : v # w /\ wrk[w].copy # 0 => wrk[v].copy # wrk[w].copy
  /\ main = "close" => Returned

\* The key a message has decides where its rejection takes it.
KeysSound ==
  \A c \in Copies : copy[c].place \in {Process, Unacked} => copy[c].key \in {EventKey, RetriedKey}

\* The copy that keeps an event is not one that is about to be acknowledged: two
\* goroutines that forward the same event do not rely on each other's copy.
Secured ==
  \A e \in published \ handled : \E c \in Copies :
    /\ copy[c].event = e /\ copy[c].place # Nowhere
    /\ open => \A w \in Workers : At(w, "ack") => wrk[w].copy # c

\* The runs of an event and the failures so far, which pay for its attempts.
Paid(e) == runs[e] + (MaxFaults - faults)

\* No copy counts more attempts than were paid for.  A rejection counts two deaths,
\* the second when the copy leaves the first level.
CountSound ==
  /\ \A c \in Copies : copy[c].place # Nowhere =>
       /\ attemptNumber(copy[c].headers) <= Paid(copy[c].event) + 1
       /\ copy[c].place \in {LevelQueue(i) : i \in Levels} /\ copy[c].headers.attempts = 0 =>
            attemptNumber(copy[c].headers) <= Paid(copy[c].event)
       /\ copy[c].place = Dead => MaxAttempts <= Paid(copy[c].event)
  /\ \A w \in Workers :
       /\ wrk[w].pc \in {"handle", "forward"} => attemptNumber(Held(w).headers) <= Paid(Held(w).event)
       /\ At(w, "reject") => attemptNumber(Held(w).headers) + 1 <= Paid(Held(w).event)

\* A copy that may still reach a handler, or is at one.
Live(c) ==
  /\ copy[c].place \notin {Nowhere, Dead}
  /\ \A w \in Workers : At(w, "ack") => wrk[w].copy # c

\* Until something fails an event has one live copy, and its headers are true.
Faultless ==
  faults = MaxFaults =>
    /\ open /\ main = "select" /\ pump.pc # "stopped"
    /\ \A w \in Workers : ~At(w, "reject")
    /\ \A e \in Events :
         /\ runs[e] <= MaxAttempts
         /\ e \notin published => runs[e] = 0 /\ \A c \in Copies : Live(c) => copy[c].event # e
    /\ \A c \in Copies : Live(c) =>
         /\ \A d \in Copies : Live(d) /\ copy[d].event = copy[c].event => d = c
         /\ copy[c].place \in {LevelQueue(i) : i \in Levels} => copy[c].headers.attempts > 0
         /\ (\A w \in Workers : wrk[w].copy # c) => runs[copy[c].event] < attemptNumber(copy[c].headers)
         /\ runs[copy[c].event] <= attemptNumber(copy[c].headers)

IInv == TypeOK /\ HeldSound /\ KeysSound /\ Secured /\ CountSound /\ Faultless
=============================================================================
