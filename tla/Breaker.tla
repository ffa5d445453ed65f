------------------------------ MODULE Breaker ------------------------------
(***************************************************************************)
(* internal/breaker: calls of many requests through one circuit breaker.   *)
(* The breaker (external: gobreaker with the settings newBreaker gives it) *)
(* decides under a lock before a call and again after it; the call itself  *)
(* runs outside, so that results arrive late and in any order.             *)
(***************************************************************************)
EXTENDS Naturals, FiniteSets

CONSTANTS
  Callers,               \* requests that use the dependency at a time
  ConsecutiveFailures,   \* consecutiveFailures, 5 in the code
  MaxFaults,             \* bound: failures of the dependency
  MaxCancels,            \* bound: calls the client cancels
  MaxGenerations         \* bound on generations; the bounds above keep below it

ASSUME BreakerAssumption ==
  /\ ConsecutiveFailures \in Nat \ {0} /\ MaxFaults \in Nat /\ MaxCancels \in Nat
  /\ MaxGenerations > 2 * MaxFaults + 2

VARIABLES
  mode,         \* closed, open or half-open
  generation,   \* incremented with every change of mode
  expired,      \* openTimeout has passed since it opened
  failures,     \* Counts.ConsecutiveFailures of the generation
  probing,      \* Counts.Requests of a half-open generation: its one call is out
  call,         \* the generation a call was let through in; 0: no call
  streak,       \* failures in a row, up to the last result of a call of its generation
  faults, cancels

breakerVars == <<mode, generation, expired, failures, probing, call, streak, faults, cancels>>

Modes == {"closed", "open", "half-open"}

BreakerTypeOK ==
  /\ mode \in Modes /\ generation \in Nat \ {0}
  /\ expired \in BOOLEAN /\ probing \in BOOLEAN
  /\ failures \in 0..(ConsecutiveFailures - 1)
  /\ call \in [Callers -> 0..generation]
  /\ streak \in Nat
  /\ faults \in 0..MaxFaults /\ cancels \in 0..MaxCancels

BreakerInit ==
  /\ mode = "closed" /\ generation = 1 /\ expired = FALSE /\ failures = 0 /\ probing = FALSE
  /\ call = [c \in Callers |-> 0]
  /\ streak = 0 /\ faults = MaxFaults /\ cancels = MaxCancels
-----------------------------------------------------------------------------
\* openTimeout passes.
Expire ==
  /\ mode = "open" /\ ~expired /\ generation < MaxGenerations /\ expired' = TRUE
  /\ UNCHANGED <<mode, generation, failures, probing, call, streak, faults, cancels>>

\* currentState (external): whoever looks at an open breaker after the timeout
\* finds it half-open, in a new generation.
Mode == IF expired THEN "half-open" ELSE mode

Generation == IF expired THEN generation + 1 ELSE generation

Probing == probing /\ ~expired

\* Mutant: a half-open breaker lets everybody through.
Admits_AllProbes == Mode # "open"

\* beforeRequest (external) with MaxRequests 1.
Admits == Mode = "closed" \/ (Mode = "half-open" /\ ~Probing)

Begin(c) ==
  /\ call[c] = 0 /\ Admits
  /\ mode' = Mode /\ generation' = Generation /\ expired' = FALSE
  /\ probing' = (Mode = "half-open")
  /\ call' = [call EXCEPT ![c] = Generation]
  /\ UNCHANGED <<failures, streak, faults, cancels>>

\* execute: the breaker's refusal becomes domain.ErrUnavailable, at once.
Refuse(c) ==
  /\ call[c] = 0 /\ ~Admits
  /\ UNCHANGED breakerVars

\* Mutant: an object that is not there counts as a failure.
IsSuccessful_NotFoundFails(err) == err \in {"nil", "canceled"}

\* newBreaker's IsSuccessful.
IsSuccessful(err) == err \in {"nil", "not found", "canceled"}

ReadyToTrip(n) == n >= ConsecutiveFailures

\* What the dependency answers: failures and cancellations are bounded.
Outcome(err) ==
  /\ IF err = "failed" THEN faults > 0 /\ faults' = faults - 1 ELSE UNCHANGED faults
  /\ IF err = "canceled" THEN cancels > 0 /\ cancels' = cancels - 1 ELSE UNCHANGED cancels

\* Mutant: every result counts.
IsCurrent_Always(c) == TRUE

\* afterRequest (external): results of an earlier generation are dropped.
IsCurrent(c) == call[c] = Generation

\* setState (external): a new generation with its counts cleared.
SetMode(m) ==
  /\ mode' = m /\ generation' = Generation + 1 /\ failures' = 0 /\ probing' = FALSE

\* The end of a call.
End(c, err) ==
  /\ call[c] # 0 /\ call' = [call EXCEPT ![c] = 0] /\ Outcome(err)
  /\ expired' = FALSE
  /\ streak' = IF call[c] # generation THEN streak
               ELSE IF err = "failed" THEN streak + 1 ELSE 0
  /\ \/ ~IsCurrent(c) /\ mode' = Mode /\ generation' = Generation /\ probing' = Probing
        /\ UNCHANGED failures
     \/ IsCurrent(c) /\ Mode = "closed" /\ IsSuccessful(err) /\ failures' = 0
        /\ UNCHANGED <<mode, generation, probing>>
     \/ IsCurrent(c) /\ Mode = "closed" /\ ~IsSuccessful(err)
        /\ IF ReadyToTrip(failures + 1) THEN SetMode("open")
           ELSE failures' = failures + 1 /\ UNCHANGED <<mode, generation, probing>>
     \/ IsCurrent(c) /\ Mode = "half-open"
        /\ SetMode(IF IsSuccessful(err) THEN "closed" ELSE "open")

Results == {"nil", "not found", "canceled", "failed"}

BreakerNext ==
  \/ Expire
  \/ \E c \in Callers : Begin(c) \/ Refuse(c) \/ \E err \in Results : End(c, err)

BreakerSpec == BreakerInit /\ [][BreakerNext]_breakerVars
-----------------------------------------------------------------------------
(* Properties. *)

\* A closed breaker opens after consecutiveFailures failures in a row of calls
\* it let through since it closed; late failures of earlier calls do not open it.
OpensOnStreak ==
  [][mode = "closed" /\ mode' = "open" => streak' >= ConsecutiveFailures]_breakerVars

\* The types, and a dependency that may still be down gets one call at a time: of
\* the calls a half-open breaker let through at most one is under way.
OneProbe ==
  /\ BreakerTypeOK
  /\ mode = "half-open" => Cardinality({c \in Callers : call[c] = generation}) <= 1

\* A dependency that answers again, be it with "not found", is used again: after
\* the last failure the breaker closes, whatever calls were under way.
Heals == (faults = 0) ~> (mode = "closed")
-----------------------------------------------------------------------------
(* The inductive invariant behind the safety properties. *)

\* No call is let through while the breaker is open, and one while it is half-open.
CallsSound ==
  /\ expired => mode = "open"
  /\ mode = "open" \/ (mode = "half-open" /\ ~probing) => \A c \in Callers : call[c] # generation
  /\ mode = "half-open" => \A c, d \in Callers : call[c] = generation /\ call[d] = generation => c = d

\* The breaker counts no failure that is not one of the streak.
CountSound == mode = "closed" => failures <= streak

BreakerIInv == BreakerTypeOK /\ CallsSound /\ CountSound
===============================================================================
