# gophprofile in TLA+

TLA+ models of the avatar service of this repository, the TLC instances that
check them, and proofs that TLAPS checks. `PROJECT.json` maps every definition to
the lines of code it stands for and lists the hazards, runs, mutants, findings and
theorems. A name such as `Lifecycle!SoftDelete` is a definition of a module.

## 1. The system and its parts

Two programs share a PostgreSQL table, an S3 bucket and a RabbitMQ topology; a third
brings the schema up to date and ends.

| Part | State it keeps | Operations | What makes it correct |
|---|---|---|---|
| `server/service` upload, delete | the row, the original, the event | `Upload`, `Delete`, `DeleteCurrent`, fallback `removeFiles` | a served row has its files; an answered upload stays; files are removed in the end |
| `server/service` reads, metadata, lists | nothing; decides what caches and clients keep | `AvatarContent`, `UserAvatarContent`, `Metadata`, `ListByUser` | "not found" only for what went; day-long answers and links stay true |
| `repository/postgres` | the `avatars` table, two status machines | guarded UPDATEs, queries that order and limit | decisions are never taken back; an answered upload is current or overtaken by a newer one; no row starves |
| `storage/s3` | objects by key | `Put`, `Get`, `DeleteMany` | partial failures are reported |
| `worker/handler` | decode slots | the two events | idempotent under duplicates, crashes, time limits |
| `worker/reconciler` | a pass over selected rows | three queries, two loops | everything stuck is picked up |
| `broker` consumer | deliveries, retry ladder, attempts | `Consume`, `pump`, `process`, `reroute` | nothing is lost, the ladder ends, attempts are counted |
| `broker` publisher | a channel, its returns, a mutex | `publish`, `openLocked` | nil means queued, every call ends |
| `cmd/server`, `cmd/worker`, `cmd/migrator` | open dependencies, goroutines | start, drain, close, exit | no work is cut off early, shutdown ends, the exit code is true |
| `config` | none | parsing, validation | nothing unusable is accepted, nothing usable refused |
| upload doors (`server/http`, `server/web`), `imageproc` | temporary files, stream positions | checks, `Validate`, `Thumbnails` | true verdicts, whole objects, nothing left on disk |
| `server/http` router and middleware | the response, the recorders around it | logging, measuring, recovery, limits; conditional requests | books show what was sent, no client takes a piece for the whole |
| `server/http` rate limiter | buckets by key | `allow`, `sweep` | the limit, Retry-After, a bounded map |
| `breaker` | mode, streak, probe | `execute` | opens on a streak, one probe, heals |
| `server/http` health | goroutines of pings | `health`, `checkStatus`, `Ping` | true reports, always an answer |
| metrics, logging, tracing, build information, placeholder, markup | none that decides anything | | not modelled, section 8 |

The hard part is what happens between two calls: a request or a consumer makes
three to six remote calls, each of which may fail, take effect without an answer
or be followed by a crash, while another process works on the same row and keys.

## 2. Modules

| Module | Models | State and actions |
|---|---|---|
| `Domain` | `internal/domain` | statuses, allowed transitions, sizes, keys |
| `Avatar` | the life of one avatar as its rows and files promise it | `state`, `files`; one action per change of a row or a file |
| `Retry` | counting attempts (`broker/retry.go`) | operators on message headers |
| `Lifecycle` | services, handlers, reconciler over table, bucket and queue | one `pc` per request, consumer and reconciler; one action per remote call with the local code up to the next; failures take a unit of `faults` |
| `Broker` | what broker and consumer promise about the messages of an event | how many there are of each message, what is published, handled and dead; publish, handle, repeat, bury, reject, acknowledge; `EXTENDS Retry` |
| `Consumer` | topology, retry ladder, `Consume`, the worker process | copies of messages and their queues, pump, goroutines, `run` |
| `Publisher` | the shared publisher | mutex, channel, frames on the wire, returns |
| `Serving` | reads, metadata, lists and deletes over the life of avatars | `EXTENDS Avatar`; requests between the query and the opening of the object; images and links that caches and clients keep |
| `Table` | the queries that order and limit, over several rows | columns, the order of `updated_at` (of each row the rows that are earlier, so that rows written by one UPDATE are equal), the rows that are old, the batch of the pass; uploads, `DeleteCurrent`, the reconciler |
| `Imageproc` | `internal/imageproc` | operators on files as sequences of blocks |
| `Intake` | the two upload doors | one request through its checks, deferred calls and status; `EXTENDS Imageproc` |
| `RateLimit` | the limiter, over a clock in ticks | buckets, sweep, admitted requests |
| `Http` | router, middleware, handlers; composes `Intake` and `RateLimit` | the response as it is written, the recorders, the panic under way, what the client keeps |
| `Health` | `/health` and the pings | checks and ping goroutines over changing dependencies |
| `Config` | `internal/config` | operators on environments: every variable, by class of value |
| `Process` | the three binaries, from environment to exit; `EXTENDS Config` | where `run` is, open dependencies, the goroutines of the listener, of `Consume` and of the reconciler, units of work |
| `Breaker` | the breakers' settings over gobreaker | mode, generation, calls under way |
| `LifecycleProofs`, `ServingProofs` (with `Avatar`), `ConsumerProofs`, `PublisherProofs`, `DependencyProofs` (`Breaker` and `Health`), `ProcessProofs`, `HttpProofs` (with `Intake` and `RateLimit`), `TableProofs` | the theorems of section 5 | |
| `MC*` | definitions for the instances: symmetry, owners, sample requests | |

`Lifecycle` composes the programs; it takes the broker as a bag of messages with
headers, and `Consumer` and `Publisher` open that up separately, since the three
together are beyond TLC. `Lifecycle!Implements` maps rows and bucket to `Avatar`
(`INSTANCE Avatar WITH`), and `Serving` builds on `Avatar`, so what holds of reads
there holds of reads beside the real programs. `Consumer!Implements` maps copies, queues
and hands to the messages of `Broker`, the bag that `Lifecycle` supposes: a copy that
waits at a level counts as the message with the death that ends its wait, since nothing
but that death can happen to it. `Table` takes the other direction: it
keeps of a row what ordered and limited queries look at, handles an event in the step
that publishes it, and in return has several rows and batches smaller than the backlog.
`Http` puts the doors and the limiter inside the middleware every request passes;
`Consumer` and `Process` share the worker's `run`, the first with its messages, the
second with its other goroutines and its way out.

What is deliberately abstract: an id stands for all data of an avatar; `old` stands
for `updated_at < now - StuckAfter`; `retry_count` is left out because only the
metadata shows it; clients delete only ids they can have learned; an S3 write has no
effect after its call has timed out; a reservation that the limiter cancels leaves
the bucket as it was; a behaviour of `Http` has traffic of one kind (uploads, reads,
reads under the limiter), because the kinds share nothing but the middleware; an
environment of `Process` differs from a sound one in one variable, because validation
looks at each variable alone; of the numbers too large for their use one class is kept,
which is the largest of the type where the use has no bound of its own. Libraries (gobreaker, x/time/rate, the AMQP client and broker,
net/http, pgx) are modelled from how this code uses them and marked external.

Definitions named `X_Y` are mutants of `X`: the change a plausible bug would make.
No module uses them; they show that the properties can fail.

## 3. Runs

Each run asks one question of one module; safety and liveness are checked together
under the fairness of section 4 where the module states one. A type invariant is the first conjunct of one
of the run's invariants.

| Run | Instance | What it shows |
|---|---|---|
| `Lifecycle_races` | two consumers, reconciler, an upload and a delete request, one failure, lost answer or crash | `CompletedServable`, `RemovedOriginalGone`, `FilesOutliveUse`, `ProcessingIsOwned`, `DecisionsLast`; the programs implement `Avatar` (`Implements`) |
| `Lifecycle_ends` | one consumer, an upload of any length of one of two images, of which one does not decode, one failure of any kind | `LiveOriginal`, `AckedUploaded`; uploads end, avatars settle, files go (`UploadsEnd`, `UploadSettles`, `CleanupHappens`) |
| `Lifecycle_orphans` | two consumers, one crash | `NothingLeftBehind` is violated: finding 1 |
| `Lifecycle_expired` | one consumer, two time limits | `DeadMeansSettled` is violated: finding 2 |
| `Lifecycle_forgotten` | one consumer, an image that does not decode, two failures of the database | `ProcessingLeavesTrace` is violated: finding 3 |
| `Consumer` | one event, one goroutine, three attempts, two levels, three failures | `AttemptsCounted`, `NothingLost`, `LadderEnds`, `ShutdownEnds`; the queues and the worker implement `Broker` (`Implements`) |
| `Publisher` | two callers, three failures, a queue that comes and goes | `NilMeansQueued`, `PublishEnds` |
| `Serving` | one avatar, two requests of two users, failing calls, one image or link kept | `DayOldIsTrue`, `MissingMeansGone` |
| `Table` | three avatars of two users, batches of two, one row that cannot be cleaned, two deletions at a time, one failure | `AnsweredStaysCurrent`, `OneDeletionEach`, `BacklogDrains` |
| `Http` | 32400 kinds of uploads (owners, query, body, fields, sizes, names, eleven images) through both doors; reads of three objects, one without a validator, with any validators the client has; two keys under the limiter | `VerdictIsTrue`, `TakenIsGood`, `LeavesNothing`, `LimitHolds`, `RecordedIsSent`, `WholeOrSeen`, `NotModifiedIsTrue` |
| `Process` | the three binaries, every class of value of every variable, two units of work, two migrations | `StartsUsable`, `WorkSpared`, `LeavesInOrder`, `ExitZeroMeansDone`, `Stops` |
| `Dependency` | `Health` with one probe, three changes of dependencies and a client that leaves, or `Breaker` with three callers, five failures and a cancellation | `ReportsAreTrue`, `ProbesEnd`; `OneProbe`, `OpensOnStreak`, `Heals` |

Why the bounds are enough. In `Lifecycle` avatars do not interact except through
decode slots and batches, so one avatar shows every race on a row; two consumers are
needed for duplicated deliveries, and two attempts make the first, a repeated and the
last attempt distinct. `FaultKinds` picks failures of the database, storage and broker
(with and without effect), crashes, time limits and panics; one failure per behaviour
separates the recovery of each, and the theorems hold for any number. `Lifecycle_ends` has
two ids of which `MaxUploads` lets one be drawn, so that both a good image, up to its last
thumbnail, and a bad one are seen to their end. Two failures in it are beyond five minutes:
for the image that decodes alone `UploadSettles` is still true then; for the one that does
not it is false, which is finding 3.

Its liveness properties say `[]<>` of what an avatar shall come to rather than `~>`: for a
status that is never taken back the two are the same, and `DecisionsLast` is a theorem.

In `Consumer` three attempts make the first, a middle and the last one distinct, with a
level of their own for the first two; six slots hold all copies that three failures can
make. Copies of one event interact only through the goroutines, so one event is
enough. The prefetch equals the number of goroutines, so one goroutine holds one
delivery; two are within TLC's reach only for safety.

In `Serving` two requests are needed, because only a request deletes and the other one
reads; every other step on rows and files is one of `Avatar` and stands for any number
of consumers. With one avatar the current one is that or none; the theorems hold for any
number.

In `Table` two avatars of one user with one of another between them make every order of
creation and of ending; with a batch of two and one row that cannot be cleaned, a batch
is full of other rows than the one that waits. `BacklogDrains` has the condition that
fewer rows than a batch cannot be cleaned. That is the code's own limit, not the
instance's: with as many such rows as `RECONCILE_BATCH`, those older than the rest fill
every batch and nothing behind them is ever published again.

The clock of `RateLimit` has ticks of half a second and a token takes two, so that
Retry-After is rounded; a bucket fills within the idle time, and the horizon covers two
sweeps after it. A body is two writes in `Http`: one can be sent before the failure and
one not. In `Intake` the head is two blocks, the header three, the file up to four: the
decoder has to read past the head and stops before the end. A behaviour of
`Dependency` is one of `Health` or one of `Breaker`, which have neither state nor
properties in common. `Breaker` is bounded by five
failures and the generations they can open. One probe is enough in `Health`: probes share
only the dependencies they look at. In `Process` two units make one that ends and one that
does not, and the three dependencies of a binary are opened and closed one by one.

Deadlock checking is off where the modelled thing is over when it is over: an upload, a
probe, a process (`Http`, `Dependency`, `Process`) and the broker's bounded events
(`Consumer`).

## 4. Fairness

Liveness is checked under weak fairness of what the code and its deployment do by
themselves: a goroutine goes on to its next call (every call has a time limit:
database 5 s, S3 15 s, AMQP 10 s, message 60 s); the broker delivers to an idle
consumer and expires what waits on a level; the ticker of the reconciler fires;
time passes; a stopped container is started again (`restart: unless-stopped`). The
publisher's mutex is strongly fair, as `sync.Mutex` is in its starvation mode.
Nothing is assumed to be requested, to fail, or to stop failing except that an
instance has finitely many failures; in `Health` dependencies need not recover, and
in `Process` the requests of a server need not end.

`Table` assumes that rows grow old between passes (strongly fair: a pass may always be
under way when the moment comes) and that passes go on. In `Process` the steps of `run`,
its limits and a query (`DB_QUERY_TIMEOUT`) are weakly fair. A message of the worker ends,
within `WORKER_PROCESS_TIMEOUT`, and so does a pass of the reconciler, whose context is
done; both are strongly fair where another step may come between, such as one more query.
That a signal stops a worker whose metrics have failed rests on the former: `run` waits
there without a limit of its own.

`TimelyUploads` is an assumption of some runs, not fairness: an upload ends before
its row is `StuckAfter` (5 minutes) old. The limits above bound an upload after
`Create` by about half a minute, so the defaults justify it; `Lifecycle_ends` does
without. Of the theorems only `RemovedIsGone` and `LifecycleImplementsAvatar` need it:
a late upload could put its original behind a cleanup.

## 5. Theorems

TLAPS proves, for every number of avatars, requests, callers, consumers, copies,
messages, bytes and failures, every invariant and action property that the passing runs
check, and both refinements:

| Theorem | States |
|---|---|
| `LifecycleProofs!TypeCorrect`, `WorkIsSound`, `FilesAreSound` | `Spec => []TypeOK`, `[](TypeOK /\ Sound)`, `[]IInv` |
| `LifecycleProofs!AckedStaysUploaded` | `Spec => []AckedUploaded` |
| `LifecycleProofs!DecisionsAreFinal`, `FilesInUseStay` | `Spec => DecisionsLast`, `Spec => FilesOutliveUse` |
| `LifecycleProofs!LiveHasOriginal`, `CompletedIsServable`, `RemovedIsGone` | `Spec => []LiveOriginal`, `[]CompletedServable`, `[]RemovedOriginalGone` |
| `LifecycleProofs!StartedWorkIsOwned` | `Spec => []ProcessingIsOwned` |
| `LifecycleProofs!LifecycleImplementsAvatar` | with `TimelyUploads`, `Spec => Implements` |
| `ServingProofs!ShownIsServable` | `AvatarSpec => []FilesServable` |
| `ServingProofs!ServingTypes`, `MissingOnlyWhenGone`, `DayOldStaysTrue` | `Spec => []TypeOK`, `[]MissingMeansGone`, `[]DayOldIsTrue` |
| `ConsumerProofs!ConsumerIsSound`, `EventsAreKept`, `AttemptsAreTrue` | `Spec => []IInv`, `[]NothingLost`, `[]AttemptsCounted` |
| `ConsumerProofs!ConsumerImplementsBroker` | `Spec => Implements` |
| `TableProofs!TableIsSound`, `AnsweredIsCurrent`, `DeletionsAreCounted` | `Spec => []IInv`, `[]AnsweredStaysCurrent`, `[]OneDeletionEach` |
| `PublisherProofs!NilIsQueued` | `Spec => []NilMeansQueued` |
| `DependencyProofs!HalfOpenProbesOnce`, `BreakerOpensOnStreak` | `BreakerSpec => []OneProbe`, `BreakerSpec => OpensOnStreak` |
| `DependencyProofs!HealthIsTrue` | `Spec => []ReportsAreTrue` |
| `ProcessProofs!ProcessIsSound`, `StartsOnUsableValues`, `WorkIsSpared`, `ProcessLeavesInOrder`, `ExitZeroIsTrue` | `Spec => []IInv`, `[]StartsUsable`, `[]WorkSpared`, `[]LeavesInOrder`, `[]ExitZeroMeansDone` |
| `HttpProofs!IntakeIsSound`, `VerdictsAreTrue`, `TakenAreGood`, `UploadsLeaveNothing` | `Spec => [](IntakeTypeOK /\ IntakeSound)`, `[]VerdictIsTrue`, `[]TakenIsGood`, `[]LeavesNothing` |
| `HttpProofs!HttpIsSound`, `BooksAreTrue`, `ImagesAreWhole`, `NotModifiedsAreTrue` | `Spec => []IInv`, `[]RecordedIsSent`, `[]WholeOrSeen`, `[]NotModifiedIsTrue` |
| `HttpProofs!LimitIsKept` | with `Cap <= IdleTTL`, `Spec => []LimitHolds` |

Each component has an inductive invariant (`IInv`, and the named parts below) in its own
module (`BreakerIInv` in `Breaker`); TLC finds it true on the instance of the component's run when it is added there.
The proof that a step keeps it has one case per action.

**`Lifecycle`.** `AckedUploaded` is not inductive, because a cleanup or a late consumer
could reach the row of an answered upload. `Sound` says why it does not: every delete
request, message, delivery and selected row is about a row that allows it
(`DeletersSound`, `EventsSound`, `WorkersSound`, `SelectionSound`), and a row that was
processed or deleted was uploaded (`RowsSound`). For the files, `StepEffect` reduces
the actions to a dozen effects on rows and bucket; `RowEffect` and `StoreStep` say what an
effect does to one row and its keys. From these follow `FilesOutliveUse` and the rest of
`IInv`: an upload that is about to set its status has put its original
(`OriginalSound`), a consumer has put the thumbnails it has counted unless the row was
deleted meanwhile (`ThumbnailsSound`), thumbnails are recorded with the status only
(`RecordsSound`), and whoever is about to mark files as removed has removed the original
(`RemovalSound`). The refinement goes through the same effects: each is a step of
`Avatar` or a stutter of it. `ProcessingIsOwned` rests on `OwnersSound`: whoever acks an
event has settled its row or passed the event on (`Carried`).

**`Avatar` and `Serving`.** `StepSafe` proves the inductive invariant together with
`Kept`, which says what no step undoes; the proofs about `Serving` take requests under
way (`RequestsSound`) and answers given (`GivenSound`) through a step of the avatars with
`Kept` alone. `LinkStep` shows that a link to a thumbnail is only given away once the
choice it stands for is final.

**`Consumer`.** That some copy exists is not inductive: two goroutines with copies of one
event could each ack because of the other's. `Secured` says that the copy that keeps an
event is not one about to be acked, which needs that no copy is in two hands
(`HeldSound`) and that what waits can be routed (`KeysSound`). For the attempts,
`CountSound` says that every attempt a header counts was paid for by a run of the handler
or a failure, a rejection being two deaths for one failure; `Faultless` says that until
something fails an event has one live copy with true headers.

**`Consumer` implements `Broker`.** `Broker` counts messages; `Consumer` has copies in slots.
A step changes one slot (`OneSlot`), so a copy that appears, vanishes or changes moves the
counts of at most two messages by one (`CopyAppears`, `CopyVanishes`, `CopyChanges`, by
cardinality of the sets of copies), and a step that moves a copy between queues and hands
moves none (`Unseen`). What is left per action is which message it is: `forward` makes
the message with one attempt more, `reject` one with the two deaths of its trip, and
a return from a level the message that was counted there already. `Acknowledge` may take
a message away only if every published event that was not handled is still there (`Kept`);
the proof gets that after the step from `Secured`, so that the refinement has the whole
of the consumer's inductive invariant behind it.

**`Table`.** The list and the badge are ranks: the place of a row is the number of rows
shown that are not older. `Numbered` proves that these numbers are a bijection to
`1..n`, from an injection into an interval of the same size and so without
induction; `Newest` and `ListFacts` follow: every shown row is in the list, and its first
is the row `getCurrentAvatarQuery` picks. That alone does not keep an answered upload
current: `RowsSound` says that an answered row stays uploaded, although the reconciler gives up
old uploads, and that a row some request goes on to delete was shown when it was read.
`OrderSound` says that `earlier` and `old` are an order of moments and a prefix of it,
which `TouchStep` shows for an UPDATE of any set of rows, and `Age` needs. Deletions
are counted because `SoftDelete` of a row deleted already neither writes nor counts.

**`Publisher`.** The caller that waits owns the mutex and with it the channel
(`LockSound`, `CallsSound`); a publication has one trace on the wire, the inbox or its
answer (`OneTrace`), and its return is ahead of its confirm (`ReturnsFirst`), which is
why looking into `returns` after the confirm is enough for nil to mean queued.

**`Breaker`, `Health`.** Only the calls of the current generation count, and in half-open
there is at most one (`CallsSound`); the counter never exceeds the streak (`CountSound`).
A check has seen the condition that its ping is about to report (`ChecksSound`) and an
answer consists of such results (`AnswersSound`).

**`Process`.** At each place of `run` the invariant says which dependencies are open
(`OpenSound`), for which reasons `run` may be returning (`PhaseSound`), which goroutines
are left (`RoutinesSound`) and which work (`WorkSound`); `ConfigSound` with `Config`'s
operators gives `StartsUsable` for every environment: what `Valid` lets through is
`Usable` but for `Overflows` (`ValidIsUsable`).

**`Http`.** For the doors, `ChecksPassed` says what every check passed so far says of the
request, and `Cleared` what is open, deferred or on disk at each place. The lemmas about
`Validate`, `Decode` and `Thumbnails` are for files of any length, head and header.
For the responses, `ResponseSound` lists the kinds there are (none yet, a plain answer,
304, an image in the course of its copy, one that is spoiled), `RecordersSound` ties the
two recorders to what was sent, `CopiesSound` says that what clients keep under a validator
is the whole object. For the limiter, `BucketsSound` gives tokens their range, and
`LimitSound` says that admitted requests are paid for by the capacity and the time since
(`PaidFor`) and are spaced out (`SpacedOut`), and that an open promise of Retry-After is
paid for in time; `LimitHolds` alone says nothing of what a bucket still holds.

`LimitIsKept` has the hypothesis that a bucket fills within the idle time, because the
code does not keep the limit otherwise: it throws away a bucket that is not full and makes
a new one that is (section 6). `DefaultBurstFills` proves that the burst chosen when
`RATE_LIMIT_BURST` is 0 meets it whenever two seconds and one token fit into the idle time
of three minutes; a configured burst need not.

Other assumptions are those on constants (`MaxAttemptsAssumption`,
`LifecycleAssumption`, and the like), which TLC evaluates in the runs. They say that sets
are not empty, numbers are natural, limits are positive, and that names are told apart.
`HttpAssumption` has two keys under the limiter, those of a user and of a host, because
the two kinds of key are all the code tells apart. `BreakerAssumption` asks for enough generations for the
failures, so that the bound never blocks a step.

Only model-checked: liveness (`UploadsEnd`, `UploadSettles`, `CleanupHappens`, `LadderEnds`,
`ShutdownEnds`, `PublishEnds`, `BacklogDrains`, `ProbesEnd`, `Stops`, `Heals`), which TLAPS
cannot prove under fairness. That `Lifecycle` uses its bag of messages as `Broker` allows is
a matter of reading: `Lifecycle` keeps neither what was published nor what was handled.

## 6. Findings

1. `Lifecycle_orphans`: a thumbnail put while its row is deleted and cleaned stays in
   the bucket if the worker crashes or its removal fails; `spec.md:266` says
   `files_removed_at` means that the files are gone.
2. `Lifecycle_expired`: a last attempt that runs into its time limit cannot write `failed`;
   `spec.md:329` says that after five attempts the message is dead and the row `failed`.
   The copy for the dead letter queue is sent, because `publish` does not look at its
   context before it sends, but the wait for its confirm fails with the context, so that
   `reroute` rejects the original too (`broker/consumer.go:266-283`). The event is among the
   dead letters, the row is in `processing`, and the original comes back through the first
   level for one more last attempt, the sixth, which may settle the row or fail as this
   one did. `ProcessingIsOwned` and `UploadSettles` count the dead letter queue as a place
   where work may end.
3. `Lifecycle_forgotten`: `failure` (`worker/handler/errors.go:43-47`) returns a
   non-retryable error on the last attempt even when the row could not be marked as failed.
   The consumer acks such an error (`broker/consumer.go:205-212`), and the row stays in
   `processing` with no event in any queue, not even that of the dead. The comment at
   `errors.go:25-27` promises the opposite: «Если терминальный статус записать не удалось,
   возвращается уже повторяемая ошибка: неисправимую консьюмер подтверждает и забывает, и
   без повтора запись осталась бы в processing без единого следа о причине»; `spec.md:330`
   has «сразу `failed` + ack». It takes two failures, one to bring the event of an image
   that does not decode to its last attempt and one of the database then. It came to light
   when the proof of `ProcessingIsOwned` failed for such images, which is why that property
   and its theorem leave them out.

Smaller differences between the text and the code that the models show. None has a
run of its own; each formula, added to its module as an invariant, is violated.

- `broker/retry.go:9-10` says a message is handled `maxAttempts` times before it is
  dead. A message rejected at its first attempt dies in the process queue and at the
  first level and is one attempt short (`Consumer`: a copy in `Dead` has
  `runs >= MaxAttempts`); `AttemptsCounted` bounds the loss by one per failure.
- `broker/publisher.go:145-146` takes a return for that of its own message. After an
  earlier publication timed out, or when the broker closes the channel after the
  confirm, a routed message is reported as unroutable (`Publisher`:
  `result[c] = "unroutable" => ~queued[c]`).
- `spec.md:224` gives a rate per key. A bucket that takes longer to fill than the idle
  time of three minutes is thrown away and made full (`LimitHolds` with `IdleTTL = 2`).
- `http/avatars.go:21-22` says temporary files are removed before the handler returns. A
  form that was parsed and then refused for lack of a file, or for its query string,
  keeps them (`Http`: `pc = "done" => ~temp`); `LeavesNothing` says which ones stay.
- `spec.md:360-361` says requests are refused with 503 while a breaker is open.
  `describeError` of the pages has no case for `ErrUnavailable` and answers 500
  (`Http`: `err = "ErrUnavailable" => status = 503`).

- `server/http/content.go:49-51` says the answer has begun when the copy fails. When the
  first read fails nothing has been sent, and net/http sends the headers of the image, 200
  among them, with a length it then breaks; the client sees the break (`WholeOrSeen`), the
  log record says 200.
- A handler that panics with `http.ErrAbortHandler` leaves neither a log record nor a
  measurement: `recovering` passes it on through both (`RecordedIsSent` excludes it).
- `config.go:251` says the worker does not check the HTTP section, `config.go:257` that
  the migrator checks App and DB only. `load` parses every section for every binary, so a
  malformed value of a section it never uses stops it (`Parses`).
- Four numbers have no upper bound though their use has one (`config.go:511-525`):
  `AMQP_PREFETCH` over 65535 wraps in `Qos` (`broker/consumer.go:97`; 65536 is no limit at
  all), and at `http.go:161-163` the largest `IMAGE_MAX_UPLOAD_BYTES` overflows with the
  margin of the form, and the largest `HTTP_READ_TIMEOUT` and `HTTP_WRITE_TIMEOUT` with
  each other. `Validate` accepts them and the process goes on (`Process`: `unfit = {}`).
  `StartsUsable` names these four (`Overflows`) and holds for every other value.
- `config.go:245` says the server checks all sections; Worker is not among them
  (`Validated`). `config.go:541-542` says there are no optional strings;
  `OTEL_EXPORTER_OTLP_ENDPOINT` is one.

Seen while reading and outside the models: a publication whose message is returned after
its time is over leaves the return in a channel of one place, and a second one blocks the
client library's reader; `storageBytesQuery` counts failed uploads, though the help text of the gauge says live
originals.

## 7. Hazards

`PROJECT.json` lists them at their lines with the properties that watch them; each has at
least one. They fall into five groups: steps of requests, consumers and the reconciler
between each other's calls (`Lifecycle`, `Serving`, `Table`); messages counted, rerouted
and redelivered (`Consumer`, `Publisher`); responses that fail half way (`Http`); late
results and checks (`Health`, `Breaker`); and processes that stop while others wait (`Process`,
`Consumer`).

## 8. Not modelled

Metrics, logging, tracing and build information observe and decide nothing; what the
middleware records is modelled, what the records say is not. Markup, static files and
the JSON of answers render what one query returns. Scaling and encoding of images
concern pixels, of which no property speaks. The placeholder is a constant. The SQL of
the migrations is taken as given, and with it the defaults and constraints of the table.
Retries inside the S3 client and late effects of a `Put` that timed out are beyond what
this code can see.

## 9. Plan

Done, in this order: `Domain`, `Lifecycle` with its runs; `Avatar` as its abstract
specification; `Retry`, `Consumer`, `Publisher`; `Serving`; `RateLimit`, `Breaker`;
`Imageproc`, `Intake`; `Health`; `Table`; `Http` around `Intake` and `RateLimit`; `Config`
and `Process`; the theorems above; `Table` restated with an order and ranks, its theorems,
and `Broker` as the abstract specification of `Consumer`.

Left in the model: two avatars in `Lifecycle` that share a decode slot, which is beyond
TLC beside two consumers; `Table` has the rest of what several avatars share.

Left in the proofs: nothing but liveness, which stays with TLC. A refinement of `Broker` by
the bag of messages of `Lifecycle` would need a history of what was published and handled
there, which doubles the state of its runs for what `ProcessingIsOwned` says already.
