----------------------------- MODULE RateLimit -----------------------------
(***************************************************************************)
(* internal/server/http/ratelimit.go: a token bucket for every key, kept   *)
(* in a map that is swept while requests come.  Time is counted in ticks;  *)
(* a tick adds one unit to a bucket, a token is Cost units, so that        *)
(* RATE_LIMIT_RPS is Second / Cost.                                        *)
(***************************************************************************)
EXTENDS Integers, Sequences

CONSTANTS
  Clients,        \* the keys of limitKey
  Second,         \* ticks in a second
  Cost,           \* ticks until the next token
  ConfigBurst,    \* RATE_LIMIT_BURST
  IdleTTL,        \* limiterIdleTTL
  SweepInterval,  \* limiterSweepInterval
  Horizon         \* bound: the time modelled

ASSUME RateLimitAssumption ==
  /\ Second \in Nat \ {0} /\ Cost \in Nat \ {0} /\ ConfigBurst \in Nat
  /\ IdleTTL \in Nat \ {0} /\ SweepInterval \in Nat \ {0} /\ Horizon \in Nat \ {0}

VARIABLES
  now,        \* the clock
  visitors,   \* limiters.visitors: buckets, of the keys that have one
  lastSweep,  \* limiters.lastSweep
  admitted,   \* the times of each key's admitted requests
  promise     \* when Retry-After of the key's last refusal ends; 0: none is open

limiter == <<now, visitors, lastSweep, admitted, promise>>

\* newLimiters: without a burst of its own a key gets two seconds' worth, at least 1.
Burst ==
  LET twice == (2 * Second + Cost - 1) \div Cost IN
  IF ConfigBurst # 0 THEN ConfigBurst ELSE IF twice > 1 THEN twice ELSE 1

Cap == Burst * Cost

Visitor == [units : 0..Cap, last : 0..Horizon, seen : 0..Horizon]

LimiterTypeOK ==
  /\ now \in 0..Horizon
  /\ DOMAIN visitors \subseteq Clients
  /\ \A k \in DOMAIN visitors : visitors[k] \in Visitor
  /\ lastSweep \in -SweepInterval..Horizon
  /\ admitted \in [Clients -> Seq(0..Horizon)]
  /\ promise \in [Clients -> Nat]

\* The zero time.Time is long ago.
newLimiters ==
  /\ now = 1 /\ visitors = [k \in {} |-> 0] /\ lastSweep = -SweepInterval
  /\ admitted = [k \in Clients |-> <<>>]
  /\ promise = [k \in Clients |-> 0]
-----------------------------------------------------------------------------
\* Mutant: keys are dropped while they are in use.
sweep_All == IF now - lastSweep < SweepInterval THEN visitors ELSE [k \in {} |-> 0]

\* limiters.sweep: the map it leaves.
sweep ==
  IF now - lastSweep < SweepInterval
  THEN visitors
  ELSE [k \in {j \in DOMAIN visitors : now - visitors[j].seen <= IdleTTL} |-> visitors[k]]

\* rate.Limiter (external): what a bucket holds now.
Filled(v) == IF v.units + (now - v.last) < Cap THEN v.units + (now - v.last) ELSE Cap

\* The bucket of a key at a request, a full one if the key is new.
Bucket(k) == IF k \in DOMAIN sweep THEN Filled(sweep[k]) ELSE Cap

Left(k, units) ==
  [j \in DOMAIN sweep \cup {k} |->
     IF j = k THEN [units |-> units, last |-> now, seen |-> now] ELSE sweep[j]]

\* ceil(delay in seconds), at least 1.
retryAfter(units) == (Cost - units + Second - 1) \div Second

\* limiters.allow, whole under its mutex.  AllowN takes a token; a refusal's
\* reservation is cancelled at once and leaves the bucket as it was.
allow(k) ==
  LET units == Bucket(k) IN
  /\ lastSweep' = IF now - lastSweep < SweepInterval THEN lastSweep ELSE now
  /\ \/ /\ units >= Cost
        /\ visitors' = Left(k, units - Cost)
        /\ admitted' = [admitted EXCEPT ![k] = Append(@, now)]
        /\ promise' = [promise EXCEPT ![k] = 0]
     \/ /\ units < Cost
        /\ visitors' = Left(k, units)
        /\ promise' = [promise EXCEPT ![k] =
             IF @ = 0 THEN now + Second * retryAfter(units) ELSE @]
        /\ UNCHANGED admitted
  /\ UNCHANGED now

Tick == now < Horizon /\ now' = now + 1 /\ UNCHANGED <<visitors, lastSweep, admitted, promise>>
-----------------------------------------------------------------------------
(* Properties. *)

\* The limit holds over every stretch of time: from any admitted request to any later
\* one, no more are admitted than the burst and the tokens of the time between them,
\* although buckets are thrown away and made anew.  And Retry-After is the truth: a client
\* that waits so long is admitted, whatever it tried meanwhile.
LimitHolds ==
  \A k \in Clients :
    /\ \A i, j \in DOMAIN admitted[k] :
         i <= j => (j - i + 1 - Burst) * Cost <= admitted[k][j] - admitted[k][i]
    /\ promise[k] # 0 /\ now >= promise[k] => Bucket(k) >= Cost
-----------------------------------------------------------------------------
\* What a key can spend, whether it has a bucket or would get a new one.
Level(k) == IF k \in DOMAIN visitors THEN Filled(visitors[k]) ELSE Cap

\* A bucket was last used in the past.
BucketsSound == \A k \in DOMAIN visitors : visitors[k].seen = visitors[k].last /\ visitors[k].last <= now

\* What was admitted since any of the requests, and what is left, was paid for by the
\* burst and the time since.
PaidFor(times, units, t) ==
  \A i \in DOMAIN times : (Len(times) - i + 1) * Cost + units <= Cap + (t - times[i])

SpacedOut(times) ==
  \A i, j \in DOMAIN times : i <= j => (j - i + 1 - Burst) * Cost <= times[j] - times[i]

\* What LimitHolds rests on: all is paid for, and an open promise is paid for in time.
LimitSound ==
  \A k \in Clients :
    /\ PaidFor(admitted[k], Level(k), now)
    /\ SpacedOut(admitted[k])
    /\ promise[k] # 0 => Level(k) >= Cost \/ Level(k) + promise[k] >= Cost + now
=============================================================================
