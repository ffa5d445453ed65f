----------------------------- MODULE HttpProofs -----------------------------
(***************************************************************************)
(* Proofs about Http with RateLimit and Intake, for any limits, forms,     *)
(* images and lengths.                                                     *)
(***************************************************************************)
EXTENDS Http, SequenceTheorems, TLAPS

(* The rate limiter. *)

\* Division rounds up.
LEMMA Ceiling ==
  ASSUME NEW d \in Nat, NEW s \in Nat \ {0}
  PROVE  (d + s - 1) \div s \in Nat /\ s * ((d + s - 1) \div s) >= d
<1> DEFINE q == (d + s - 1) \div s
           r == (d + s - 1) % s
<1>1. d + s - 1 \in Nat OBVIOUS
<1>2. q \in Int /\ r \in 0..(s - 1) /\ d + s - 1 = s * q + r BY <1>1
<1>3. s * q >= d BY <1>2
<1>4. q \in Nat BY <1>1
<1> QED BY <1>3, <1>4

\* The burst is a number of tokens, and at least one.
LEMMA CapFacts ==
  /\ Burst \in Nat /\ Burst >= 1 /\ Cap = Burst * Cost /\ Cap \in Nat /\ Cap >= Cost
  /\ Cost \in Nat \ {0} /\ Second \in Nat \ {0} /\ IdleTTL \in Nat /\ Horizon \in Nat
<1> DEFINE a == 2 * Second + Cost - 1
           twice == a \div Cost
<1>0. Second \in Nat \ {0} /\ Cost \in Nat \ {0} /\ IdleTTL \in Nat /\ Horizon \in Nat
  BY RateLimitAssumption
<1>1. a \in Nat BY <1>0
<1> HIDE DEF a
<1>2. twice \in Nat BY <1>0, <1>1
<1> HIDE DEF twice
<1>3. Burst \in Nat /\ Burst >= 1 BY <1>2, RateLimitAssumption DEF Burst, twice, a
<1>4. PICK b \in Nat : b = Burst /\ b >= 1 BY <1>3
<1>5. b * Cost \in Nat /\ b * Cost >= Cost
  <2>1. PICK m \in Nat : b = m + 1 BY <1>4
  <2>2. b * Cost = m * Cost + Cost BY <1>0, <2>1
  <2>3. m * Cost \in Nat BY <1>0
  <2> QED BY <1>0, <2>2, <2>3
<1> QED BY <1>0, <1>3, <1>4, <1>5 DEF Cap

\* What the sweep leaves, and what it drops.
LEMMA SweepFacts ==
  /\ DOMAIN sweep \subseteq DOMAIN visitors
  /\ \A k \in DOMAIN sweep : sweep[k] = visitors[k]
  /\ \A k \in DOMAIN visitors : k \notin DOMAIN sweep => ~(now - visitors[k].seen <= IdleTTL)
<1>1. CASE now - lastSweep < SweepInterval
  <2>1. sweep = visitors BY <1>1 DEF sweep
  <2> QED BY <2>1
<1>2. CASE ~(now - lastSweep < SweepInterval)
  <2> DEFINE D == {j \in DOMAIN visitors : now - visitors[j].seen <= IdleTTL}
  <2>1. sweep = [k \in D |-> visitors[k]] BY <1>2 DEF sweep
  <2>2. DOMAIN sweep = D /\ \A k \in D : sweep[k] = visitors[k] BY <2>1
  <2> QED BY <2>2
<1> QED BY <1>1, <1>2

\* What a bucket holds.
LEMMA FilledFacts ==
  ASSUME LimiterTypeOK, BucketsSound, NEW k \in DOMAIN visitors
  PROVE  /\ Filled(visitors[k]) \in 0..Cap
         /\ visitors[k].units \in 0..Cap /\ visitors[k].last \in Nat /\ now \in Nat
         /\ visitors[k].last <= now /\ visitors[k].seen = visitors[k].last
<1>1. /\ visitors[k].units \in 0..Cap /\ visitors[k].last \in 0..Horizon /\ now \in 0..Horizon
      /\ visitors[k].last <= now /\ visitors[k].seen = visitors[k].last
  BY DEF LimiterTypeOK, BucketsSound, Visitor
<1> QED BY <1>1, CapFacts DEF Filled

\* A bucket, kept or new, has between none and all of its tokens.
LEMMA BucketFacts ==
  ASSUME LimiterTypeOK, BucketsSound
  PROVE  \A k : Bucket(k) \in 0..Cap /\ Level(k) \in 0..Cap
<1>1. ASSUME NEW k PROVE Bucket(k) \in 0..Cap /\ Level(k) \in 0..Cap
  <2>1. Level(k) \in 0..Cap BY FilledFacts, CapFacts DEF Level
  <2>2. CASE k \in DOMAIN sweep
    <3>1. k \in DOMAIN visitors /\ sweep[k] = visitors[k] BY <2>2, SweepFacts
    <3> QED BY <2>1, <2>2, <3>1, FilledFacts DEF Bucket
  <2>3. CASE k \notin DOMAIN sweep BY <2>1, <2>3, CapFacts DEF Bucket
  <2> QED BY <2>2, <2>3
<1> QED BY <1>1

\* A bucket is dropped only when it is full, so that a new one holds no more.
LEMMA BucketIsLevel ==
  ASSUME Cap <= IdleTTL, LimiterTypeOK, BucketsSound, NEW k
  PROVE  Bucket(k) = Level(k)
<1>1. CASE k \in DOMAIN sweep BY <1>1, SweepFacts DEF Bucket, Level
<1>2. CASE k \notin DOMAIN visitors
  <2>1. k \notin DOMAIN sweep BY <1>2, SweepFacts
  <2> QED BY <1>2, <2>1 DEF Bucket, Level
<1>3. CASE k \in DOMAIN visitors /\ k \notin DOMAIN sweep
  <2>1. ~(now - visitors[k].seen <= IdleTTL) BY <1>3, SweepFacts
  <2>2. Filled(visitors[k]) = Cap BY <1>3, <2>1, FilledFacts, CapFacts DEF Filled
  <2> QED BY <1>3, <2>2 DEF Bucket, Level
<1> QED BY <1>1, <1>2, <1>3

\* What allow leaves in the map.
LEMMA LeftFacts ==
  ASSUME LimiterTypeOK, BucketsSound, NEW k \in Clients, NEW u \in 0..Cap, visitors' = Left(k, u), now' = now
  PROVE  /\ DOMAIN visitors' \subseteq Clients
         /\ \A j \in DOMAIN visitors' : visitors'[j] \in Visitor
         /\ BucketsSound'
         /\ k \in DOMAIN visitors' /\ visitors'[k] = [units |-> u, last |-> now, seen |-> now]
         /\ \A j : j # k => /\ j \in DOMAIN visitors' <=> j \in DOMAIN sweep
                            /\ j \in DOMAIN sweep => visitors'[j] = sweep[j]
<1> DEFINE x == [units |-> u, last |-> now, seen |-> now]
           D == DOMAIN sweep \cup {k}
<1>1. now \in 0..Horizon BY DEF LimiterTypeOK
<1>2. x \in Visitor /\ x.seen = x.last /\ x.last <= now BY <1>1, CapFacts DEF Visitor
<1>3. visitors' = [j \in D |-> IF j = k THEN x ELSE sweep[j]] BY DEF Left
<1> HIDE DEF x
<1>4. DOMAIN visitors' = D /\ \A j \in D : visitors'[j] = IF j = k THEN x ELSE sweep[j] BY <1>3
<1>5. \A j \in DOMAIN sweep : /\ j \in Clients /\ sweep[j] \in Visitor
                              /\ sweep[j].seen = sweep[j].last /\ sweep[j].last <= now
  BY SweepFacts DEF LimiterTypeOK, BucketsSound
<1>6. \A j \in D : visitors'[j] \in Visitor /\ visitors'[j].seen = visitors'[j].last /\ visitors'[j].last <= now
  BY <1>2, <1>4, <1>5
<1>7. BucketsSound' BY <1>4, <1>6 DEF BucketsSound
<1>8. D \subseteq Clients BY <1>5
<1> QED BY <1>4, <1>6, <1>7, <1>8 DEF x

\* What a refusal promises is a number, and long enough.
LEMMA RetryFacts ==
  ASSUME NEW u \in 0..Cap, u < Cost
  PROVE  Second * retryAfter(u) \in Nat /\ Second * retryAfter(u) >= Cost - u
<1>1. Cost - u \in Nat BY CapFacts
<1>2. retryAfter(u) = ((Cost - u) + Second - 1) \div Second BY DEF retryAfter
<1>3. retryAfter(u) \in Nat /\ Second * retryAfter(u) >= Cost - u BY <1>1, <1>2, Ceiling, CapFacts
<1>4. Second * retryAfter(u) \in Nat BY <1>3, CapFacts
<1> QED BY <1>3, <1>4
-----------------------------------------------------------------------------
(* The types of the limiter, and what allow does to it. *)

\* allow, the sweep and the clock keep the buckets sound.
LEMMA LimiterStep ==
  ASSUME LimiterTypeOK, BucketsSound,
         (\E k \in Clients : allow(k)) \/ Tick \/ UNCHANGED limiter
  PROVE  LimiterTypeOK' /\ BucketsSound'
<1>1. ASSUME NEW k \in Clients, allow(k) PROVE LimiterTypeOK' /\ BucketsSound'
  <2> DEFINE u == Bucket(k)
  <2>1. u \in 0..Cap /\ now' = now /\ now \in 0..Horizon BY <1>1, BucketFacts DEF allow, LimiterTypeOK
  <2>2. lastSweep' \in -SweepInterval..Horizon
    BY <1>1, <2>1, RateLimitAssumption DEF allow, LimiterTypeOK
  <2>3. CASE /\ u >= Cost /\ visitors' = Left(k, u - Cost)
             /\ admitted' = [admitted EXCEPT ![k] = Append(@, now)]
             /\ promise' = [promise EXCEPT ![k] = 0]
    <3> HIDE DEF u
    <3>1. u - Cost \in 0..Cap BY <2>1, <2>3, CapFacts
    <3>2. admitted[k] \in Seq(0..Horizon) /\ Append(admitted[k], now) \in Seq(0..Horizon)
      BY <2>1 DEF LimiterTypeOK
    <3>3. admitted' \in [Clients -> Seq(0..Horizon)] /\ promise' \in [Clients -> Nat]
      BY <2>3, <3>2 DEF LimiterTypeOK
    <3>4. /\ DOMAIN visitors' \subseteq Clients /\ BucketsSound'
          /\ \A j \in DOMAIN visitors' : visitors'[j] \in Visitor
      BY <2>1, <2>3, <3>1, LeftFacts
    <3> QED BY <2>1, <2>2, <3>3, <3>4 DEF LimiterTypeOK
  <2>4. CASE /\ u < Cost /\ visitors' = Left(k, u) /\ UNCHANGED admitted
             /\ promise' = [promise EXCEPT ![k] = IF @ = 0 THEN now + Second * retryAfter(u) ELSE @]
    <3> HIDE DEF u
    <3>1. Second * retryAfter(u) \in Nat BY <2>1, <2>4, RetryFacts
    <3>2. promise' \in [Clients -> Nat] BY <2>1, <2>4, <3>1 DEF LimiterTypeOK
    <3>3. /\ DOMAIN visitors' \subseteq Clients /\ BucketsSound'
          /\ \A j \in DOMAIN visitors' : visitors'[j] \in Visitor
      BY <2>1, <2>4, LeftFacts
    <3> QED BY <2>1, <2>2, <2>4, <3>2, <3>3 DEF LimiterTypeOK
  <2> QED BY <1>1, <2>3, <2>4 DEF allow
<1>2. CASE Tick
  <2>1. now \in Nat /\ now' \in 0..Horizon /\ now' = now + 1 BY <1>2, CapFacts DEF Tick, LimiterTypeOK
  <2>2. UNCHANGED <<visitors, lastSweep, admitted, promise>> BY <1>2 DEF Tick
  <2>3. BucketsSound' BY <2>1, <2>2 DEF BucketsSound, LimiterTypeOK, Visitor
  <2> QED BY <2>1, <2>2, <2>3 DEF LimiterTypeOK
<1>3. CASE UNCHANGED limiter BY <1>3 DEF limiter, LimiterTypeOK, BucketsSound
<1> QED BY <1>1, <1>2, <1>3

\* What a key can spend after allow: its bucket and what is left of it.
LEMMA LevelFacts ==
  ASSUME Cap <= IdleTTL, LimiterTypeOK, BucketsSound, NEW k \in Clients, NEW u \in 0..Cap,
         visitors' = Left(k, u), now' = now
  PROVE  /\ Level(k)' = u
         /\ \A j \in Clients : j # k => Level(j)' = Level(j)
<1>1. /\ k \in DOMAIN visitors' /\ visitors'[k] = [units |-> u, last |-> now, seen |-> now]
      /\ \A j : j # k => /\ j \in DOMAIN visitors' <=> j \in DOMAIN sweep
                         /\ j \in DOMAIN sweep => visitors'[j] = sweep[j]
  BY LeftFacts
<1>2. now \in Nat BY CapFacts DEF LimiterTypeOK
<1>3. Level(k)' = u BY <1>1, <1>2, CapFacts DEF Level, Filled
<1>4. ASSUME NEW j \in Clients, j # k PROVE Level(j)' = Level(j)
  <2>1. Level(j)' = Bucket(j) BY <1>1, <1>4 DEF Level, Bucket, Filled
  <2> QED BY <2>1, BucketIsLevel
<1> QED BY <1>3, <1>4

\* One more token.
LEMMA OneMore ==
  /\ \A n, i \in Int : (n + 1 - i + 1) * Cost = (n - i + 1) * Cost + Cost
  /\ \A n, i \in Int : (n - i + 1) * Cost \in Int /\ (n - i + 1 - Burst) * Cost = (n - i + 1) * Cost - Cap
<1>1. PICK c \in Nat : c = Cost BY CapFacts
<1>2. PICK b \in Nat : b = Burst BY CapFacts
<1>3. ASSUME NEW n \in Int, NEW i \in Int
      PROVE  /\ (n + 1 - i + 1) * c = (n - i + 1) * c + c
             /\ (n - i + 1) * c \in Int /\ (n - i + 1 - b) * c = (n - i + 1) * c - b * c
  <2>1. PICK m \in Int : m = n - i + 1 OBVIOUS
  <2>2. n + 1 - i + 1 = m + 1 BY <2>1
  <2>3. (m + 1) * c = m * c + c /\ m * c \in Int /\ (m - b) * c = m * c - b * c OBVIOUS
  <2> QED BY <2>1, <2>2, <2>3
<1> QED BY <1>1, <1>2, <1>3, CapFacts

\* An admitted request is paid for with a token.
LEMMA PaidAppend ==
  ASSUME NEW s \in Seq(Nat), NEW u \in 0..Cap, NEW t \in Nat, u >= Cost, PaidFor(s, u, t)
  PROVE  PaidFor(Append(s, t), u - Cost, t)
<1>1. PICK n \in Nat : n = Len(s) /\ DOMAIN s = 1..n /\ \A i \in 1..n : s[i] \in Nat OBVIOUS
<1>2. /\ DOMAIN Append(s, t) = 1..(n + 1) /\ Len(Append(s, t)) = n + 1
      /\ \A i \in 1..n : Append(s, t)[i] = s[i]
      /\ Append(s, t)[n + 1] = t
  BY <1>1
<1>3. ASSUME NEW i \in 1..n
      PROVE  (n + 1 - i + 1) * Cost + (u - Cost) <= Cap + (t - s[i])
  <2>1. i \in Int /\ n \in Int /\ s[i] \in Nat BY <1>1
  <2>2. (n - i + 1) * Cost + u <= Cap + (t - s[i]) BY <1>1 DEF PaidFor
  <2>3. PICK m \in Int : m = (n - i + 1) * Cost BY <2>1, OneMore
  <2>4. (n + 1 - i + 1) * Cost = m + Cost BY <2>1, <2>3, OneMore
  <2>5. m + u <= Cap + (t - s[i]) BY <2>2, <2>3
  <2>6. (m + Cost) + (u - Cost) <= Cap + (t - s[i]) BY <2>1, <2>5, CapFacts
  <2> QED BY <2>4, <2>6
<1>4. (n + 1 - (n + 1) + 1) * Cost + (u - Cost) <= Cap + (t - t)
  <2>1. n + 1 - (n + 1) + 1 = 1 OBVIOUS
  <2> QED BY <2>1, CapFacts
<1>5. 1..(n + 1) = 1..n \cup {n + 1} OBVIOUS
<1>6. ASSUME NEW i \in 1..(n + 1)
      PROVE  (Len(Append(s, t)) - i + 1) * Cost + (u - Cost) <= Cap + (t - Append(s, t)[i])
  <2>1. CASE i \in 1..n
    <3>1. Append(s, t)[i] = s[i] BY <1>2, <2>1
    <3> QED BY <1>2, <1>3, <2>1, <3>1
  <2>2. CASE i = n + 1 BY <1>2, <1>4, <2>2
  <2> QED BY <1>5, <2>1, <2>2
<1> QED BY <1>2, <1>6 DEF PaidFor

\* Whatever was admitted before is as long ago as its tokens take.
LEMMA SpacedAppend ==
  ASSUME NEW s \in Seq(Nat), NEW u \in 0..Cap, NEW t \in Nat, u >= Cost, PaidFor(s, u, t), SpacedOut(s)
  PROVE  SpacedOut(Append(s, t))
<1>1. PICK n \in Nat : n = Len(s) /\ DOMAIN s = 1..n /\ \A i \in 1..n : s[i] \in Nat OBVIOUS
<1>2. /\ DOMAIN Append(s, t) = 1..(n + 1) /\ Len(Append(s, t)) = n + 1
      /\ \A i \in 1..n : Append(s, t)[i] = s[i]
      /\ Append(s, t)[n + 1] = t
  BY <1>1
<1>3. 1..(n + 1) = 1..n \cup {n + 1} /\ \A i \in 1..n : i \in Int /\ i < n + 1 OBVIOUS
<1>4. ASSUME NEW i \in 1..n, NEW j \in 1..n, i <= j
      PROVE  (j - i + 1 - Burst) * Cost <= Append(s, t)[j] - Append(s, t)[i]
  <2>1. (j - i + 1 - Burst) * Cost <= s[j] - s[i] BY <1>1, <1>4 DEF SpacedOut
  <2> QED BY <1>2, <2>1
<1>5. ASSUME NEW i \in 1..n
      PROVE  (n + 1 - i + 1 - Burst) * Cost <= t - s[i]
  <2>1. i \in Int /\ n \in Int /\ n + 1 \in Int /\ s[i] \in Nat BY <1>1
  <2>2. (n - i + 1) * Cost + u <= Cap + (t - s[i]) BY <1>1 DEF PaidFor
  <2>3. PICK m \in Int : m = (n - i + 1) * Cost BY <2>1, OneMore
  <2>4. (n + 1 - i + 1) * Cost = m + Cost BY <2>1, <2>3, OneMore
  <2>5. (n + 1 - i + 1 - Burst) * Cost = (n + 1 - i + 1) * Cost - Cap
    <3>1. PICK b \in Int : b = n + 1 BY <2>1
    <3>2. (b - i + 1 - Burst) * Cost = (b - i + 1) * Cost - Cap BY <2>1, <3>1, OneMore
    <3> QED BY <3>1, <3>2
  <2>6. m + u <= Cap + (t - s[i]) BY <2>2, <2>3
  <2>7. (m + Cost) - Cap <= t - s[i] BY <2>1, <2>6, CapFacts
  <2> QED BY <2>4, <2>5, <2>7
<1>6. (n + 1 - (n + 1) + 1 - Burst) * Cost <= t - t
  <2>1. n + 1 - (n + 1) + 1 - Burst = 1 - Burst BY CapFacts
  <2>2. PICK b \in Nat : b = Burst /\ Cap = b * Cost BY CapFacts
  <2>3. PICK c \in Nat : c = Cost BY CapFacts
  <2>4. (1 - b) * c = c - b * c OBVIOUS
  <2>5. (1 - Burst) * Cost = Cost - Cap BY <2>2, <2>3, <2>4
  <2> QED BY <2>1, <2>5, CapFacts
<1>7. ASSUME NEW i \in 1..(n + 1), NEW j \in 1..(n + 1), i <= j
      PROVE  (j - i + 1 - Burst) * Cost <= Append(s, t)[j] - Append(s, t)[i]
  <2>1. CASE i \in 1..n /\ j \in 1..n BY <1>4, <1>7, <2>1
  <2>2. CASE i \in 1..n /\ j = n + 1
    <3>1. Append(s, t)[i] = s[i] /\ Append(s, t)[j] = t BY <1>2, <2>2
    <3> QED BY <1>5, <2>2, <3>1
  <2>3. CASE i = n + 1 /\ j = n + 1
    <3>1. Append(s, t)[i] = t /\ Append(s, t)[j] = t BY <1>2, <2>3
    <3> QED BY <1>6, <2>3, <3>1
  <2>4. i = n + 1 => j \notin 1..n BY <1>3, <1>7
  <2> QED BY <1>3, <2>1, <2>2, <2>3, <2>4
<1> QED BY <1>2, <1>7 DEF SpacedOut

\* A tick pays for one unit.
LEMMA PaidTick ==
  ASSUME NEW s \in Seq(Nat), NEW u \in Nat, NEW v \in Nat, NEW t \in Nat,
         v <= u + 1, PaidFor(s, u, t)
  PROVE  PaidFor(s, v, t + 1)
<1>1. PICK n \in Nat : n = Len(s) /\ DOMAIN s = 1..n /\ \A i \in 1..n : s[i] \in Nat OBVIOUS
<1>2. ASSUME NEW i \in 1..n
      PROVE  (n - i + 1) * Cost + v <= Cap + (t + 1 - s[i])
  <2>1. i \in Int /\ n \in Int /\ s[i] \in Nat BY <1>1
  <2>2. (n - i + 1) * Cost + u <= Cap + (t - s[i]) BY <1>1 DEF PaidFor
  <2>3. PICK m \in Int : m = (n - i + 1) * Cost BY <2>1, OneMore
  <2>4. m + u <= Cap + (t - s[i]) BY <2>2, <2>3
  <2>5. m + v <= Cap + (t + 1 - s[i]) BY <2>1, <2>4, CapFacts
  <2> QED BY <2>3, <2>5
<1>3. \A i \in DOMAIN s : (Len(s) - i + 1) * Cost + v <= Cap + (t + 1 - s[i]) BY <1>1, <1>2
<1> QED BY <1>3 DEF PaidFor

\* A bucket gains at most one unit in a tick, and that one unless it is full.
LEMMA LevelTick ==
  ASSUME LimiterTypeOK, BucketsSound, Tick, NEW j
  PROVE  /\ Level(j)' \in 0..Cap /\ Level(j)' <= Level(j) + 1
         /\ Level(j)' = Level(j) + 1 \/ Level(j)' = Cap
<1>1. now' = now + 1 /\ visitors' = visitors BY DEF Tick
<1>2. CASE j \in DOMAIN visitors
  <2>1. /\ visitors[j].units \in 0..Cap /\ visitors[j].last \in Nat /\ now \in Nat
        /\ visitors[j].last <= now
    BY <1>2, FilledFacts
  <2>2. PICK a \in 0..Cap, b \in Nat, n \in Nat : a = visitors[j].units /\ b = visitors[j].last /\ n = now /\ b <= n
    BY <2>1
  <2>3. Level(j) = IF a + (n - b) < Cap THEN a + (n - b) ELSE Cap BY <1>2, <2>2 DEF Level, Filled
  <2>4. Level(j)' = IF a + (n + 1 - b) < Cap THEN a + (n + 1 - b) ELSE Cap
    BY <1>1, <1>2, <2>2 DEF Level, Filled
  <2> QED BY <2>2, <2>3, <2>4, CapFacts
<1>3. CASE j \notin DOMAIN visitors
  <2>1. Level(j) = Cap /\ Level(j)' = Cap BY <1>1, <1>3 DEF Level
  <2> QED BY <2>1, CapFacts
<1> QED BY <1>2, <1>3

\* LimitSound for one key, whoever's request it is and whatever the clock does.
LEMMA LimitStep ==
  ASSUME Cap <= IdleTTL, LimiterTypeOK, BucketsSound, LimitSound,
         (\E k \in Clients : allow(k)) \/ Tick \/ UNCHANGED limiter
  PROVE  LimitSound'
<1> DEFINE Promised(k) == promise[k] # 0 => Level(k) >= Cost \/ Level(k) + promise[k] >= Cost + now
<1> SUFFICES ASSUME NEW j \in Clients
             PROVE  PaidFor(admitted[j], Level(j), now)' /\ SpacedOut(admitted[j])' /\ Promised(j)'
  BY DEF LimitSound
<1>s. PaidFor(admitted[j], Level(j), now) /\ SpacedOut(admitted[j]) /\ Promised(j) BY DEF LimitSound
<1>t. now \in Nat /\ promise[j] \in Nat /\ Level(j) \in 0..Cap /\ admitted[j] \in Seq(Nat)
  <2>1. admitted[j] \in Seq(0..Horizon) /\ now \in 0..Horizon /\ promise[j] \in Nat BY DEF LimiterTypeOK
  <2> QED BY <2>1, BucketFacts, CapFacts
<1>1. ASSUME NEW k \in Clients, allow(k), j # k
      PROVE  PaidFor(admitted[j], Level(j), now)' /\ SpacedOut(admitted[j])' /\ Promised(j)'
  <2>1. now' = now /\ admitted'[j] = admitted[j] /\ promise'[j] = promise[j]
    BY <1>1 DEF allow, LimiterTypeOK
  <2>2. PICK u \in 0..Cap : visitors' = Left(k, u)
    <3>1. Bucket(k) \in 0..Cap /\ Cost \in Nat BY BucketFacts, CapFacts
    <3>2. CASE Bucket(k) >= Cost /\ visitors' = Left(k, Bucket(k) - Cost)
      <4>1. Bucket(k) - Cost \in 0..Cap BY <3>1, <3>2, CapFacts
      <4> QED BY <3>2, <4>1
    <3> QED BY <1>1, <3>1, <3>2 DEF allow
  <2>3. Level(j)' = Level(j) BY <1>1, <2>1, <2>2, LevelFacts
  <2> QED BY <1>s, <2>1, <2>3 DEF PaidFor, SpacedOut
<1>2. CASE allow(j)
  <2>1. PICK u \in 0..Cap : u = Bucket(j) /\ u = Level(j) BY BucketIsLevel, BucketFacts
  <2>2. PICK t \in Nat : t = now /\ now' = t BY <1>2, <1>t DEF allow
  <2>3. PICK s \in Seq(Nat) : s = admitted[j] BY <1>t
  <2>4. PaidFor(s, u, t) /\ SpacedOut(s) BY <1>s, <2>1, <2>2, <2>3
  <2>5. CASE /\ u >= Cost /\ visitors' = Left(j, u - Cost)
             /\ admitted' = [admitted EXCEPT ![j] = Append(@, now)]
             /\ promise' = [promise EXCEPT ![j] = 0]
    <3>1. u - Cost \in 0..Cap BY <2>5, CapFacts
    <3>2. Level(j)' = u - Cost BY <2>2, <2>5, <3>1, LevelFacts
    <3>3. promise'[j] = 0 /\ admitted'[j] = Append(s, t) BY <2>2, <2>3, <2>5 DEF LimiterTypeOK
    <3>4. PaidFor(Append(s, t), u - Cost, t) BY <2>4, <2>5, PaidAppend
    <3>5. SpacedOut(Append(s, t)) BY <2>4, <2>5, SpacedAppend
    <3> QED BY <2>2, <3>2, <3>3, <3>4, <3>5 DEF PaidFor, SpacedOut
  <2>6. CASE /\ u < Cost /\ visitors' = Left(j, u) /\ UNCHANGED admitted
             /\ promise' = [promise EXCEPT ![j] = IF @ = 0 THEN now + Second * retryAfter(u) ELSE @]
    <3>1. Level(j)' = u BY <2>2, <2>6, LevelFacts
    <3>2. PICK r \in Nat : r = Second * retryAfter(u) /\ r >= Cost - u BY <2>6, RetryFacts
    <3>3. promise'[j] = IF promise[j] = 0 THEN t + r ELSE promise[j]
      BY <2>2, <2>6, <3>2 DEF LimiterTypeOK
    <3>4. u + (t + r) >= Cost + t BY <3>2, CapFacts
    <3>5. Promised(j)' BY <1>s, <2>1, <2>2, <3>1, <3>3, <3>4
    <3> QED BY <2>2, <2>3, <2>4, <2>6, <3>1, <3>5 DEF PaidFor, SpacedOut
  <2> QED BY <1>2, <2>1, <2>5, <2>6 DEF allow
\* A tick adds one unit, unless the bucket is full.
<1>3. CASE Tick
  <2>1. now' = now + 1 /\ UNCHANGED <<visitors, admitted, promise>> BY <1>3 DEF Tick
  <2>2. PICK u \in 0..Cap, v \in 0..Cap :
          u = Level(j) /\ v = Level(j)' /\ v <= u + 1 /\ (v = u + 1 \/ v = Cap)
    BY <1>3, <1>t, LevelTick
  <2>3. PICK t \in Nat : t = now /\ now' = t + 1 BY <1>t, <2>1
  <2>4. PICK s \in Seq(Nat) : s = admitted[j] /\ admitted'[j] = s BY <1>t, <2>1
  <2>5. PICK p \in Nat : p = promise[j] /\ promise'[j] = p BY <1>t, <2>1
  <2>6. PaidFor(s, v, t + 1)
    <3>1. PaidFor(s, u, t) BY <1>s, <2>2, <2>3, <2>4
    <3>2. u \in Nat /\ v \in Nat BY CapFacts
    <3> QED BY <2>2, <3>1, <3>2, PaidTick
  <2>7. SpacedOut(s) BY <1>s, <2>4
  <2>8. p # 0 => v >= Cost \/ v + p >= Cost + (t + 1)
    <3>1. p # 0 => u >= Cost \/ u + p >= Cost + t BY <1>s, <2>2, <2>3, <2>5
    <3> QED BY <2>2, <3>1, CapFacts
  <2> QED BY <2>2, <2>3, <2>4, <2>5, <2>6, <2>7, <2>8 DEF PaidFor, SpacedOut
<1>4. CASE UNCHANGED limiter
  <2>1. UNCHANGED <<now, visitors, lastSweep, admitted, promise>> BY <1>4 DEF limiter
  <2>2. Level(j)' = Level(j) BY <2>1 DEF Level, Filled
  <2> QED BY <1>s, <2>1, <2>2 DEF PaidFor, SpacedOut
<1> QED BY <1>1, <1>2, <1>3, <1>4

\* The limiter lives in Http: a step of Http is a request at it, a tick, or leaves it alone.
LEMMA LimiterSteps ==
  ASSUME [Next]_vars
  PROVE  (\E k \in Clients : allow(k)) \/ Tick \/ UNCHANGED limiter
<1>1. limitKey \in Clients BY HttpAssumption DEF limitKey
<1>2. CASE rateLimiting BY <1>1, <1>2 DEF rateLimiting
<1>3. CASE Pass BY <1>3 DEF Pass
<1>4. CASE Serve \/ ServeLimited BY <1>4 DEF Serve, ServeLimited
<1>5. CASE AnswerJSON \/ AnswerPage BY <1>5 DEF AnswerJSON, AnswerPage
<1>6. CASE AnswerUpload BY <1>6 DEF AnswerUpload
<1>7. CASE OpenContent \/ WriteHeaders \/ Copy BY <1>7 DEF OpenContent, WriteHeaders, Copy
<1>8. CASE Finish \/ Keep \/ Render BY <1>8 DEF Finish, Keep, Render
<1>9. CASE UNCHANGED vars BY <1>9 DEF vars
<1> QED
  BY <1>2, <1>3, <1>4, <1>5, <1>6, <1>7, <1>8, <1>9 DEF Next

\* A limiter without buckets is sound.
LEMMA LimiterInit ==
  ASSUME Init PROVE LimiterTypeOK /\ BucketsSound /\ LimitSound
<1>1. newLimiters BY DEF Init
<1>2. /\ now = 1 /\ DOMAIN visitors = {} /\ lastSweep = -SweepInterval
      /\ \A k \in Clients : admitted[k] = <<>> /\ promise[k] = 0
      /\ admitted = [k \in Clients |-> <<>>] /\ promise = [k \in Clients |-> 0]
  BY <1>1 DEF newLimiters
<1>3. BucketsSound BY <1>2 DEF BucketsSound
<1>4. LimitSound BY <1>2 DEF LimitSound, PaidFor, SpacedOut
<1>5. admitted \in [Clients -> Seq(0..Horizon)] /\ promise \in [Clients -> Nat] BY <1>2
<1>6. now \in 0..Horizon /\ lastSweep \in -SweepInterval..Horizon BY <1>2, RateLimitAssumption
<1> QED BY <1>2, <1>3, <1>4, <1>5, <1>6 DEF LimiterTypeOK

\* Without a burst of its own a key gets two seconds' worth, so that every bucket is full
\* again before it is thrown away, unless a token takes that long.
LEMMA DefaultBurstFills ==
  ASSUME ConfigBurst = 0, 2 * Second + Cost <= IdleTTL
  PROVE  Cap <= IdleTTL
<1> DEFINE a == 2 * Second + Cost - 1
           q == a \div Cost
<1>1. a \in Nat /\ Cost \in Nat \ {0} /\ Second \in Nat BY RateLimitAssumption
<1> HIDE DEF a
<1>2. q \in Nat /\ Cost * q <= a
  <2>1. PICK c \in Nat \ {0} : c = Cost BY <1>1
  <2>2. c * (a \div c) <= a /\ a \div c \in Nat BY <1>1
  <2> QED BY <2>1, <2>2
<1> HIDE DEF q
<1>3. Burst = IF q > 1 THEN q ELSE 1 BY DEF Burst, q, a
<1>4. PICK n \in Nat, c \in Nat : n = q /\ c = Cost BY <1>1, <1>2
<1>5. n * c = c * n OBVIOUS
<1>6. CASE q > 1
  <2>1. Cap = n * c BY <1>3, <1>4, <1>6 DEF Cap
  <2>2. c * n <= a BY <1>2, <1>4
  <2> QED BY <1>1, <1>5, <2>1, <2>2, RateLimitAssumption DEF a
<1>7. CASE ~(q > 1)
  <2>1. Cap = 1 * Cost BY <1>3, <1>7 DEF Cap
  <2> QED BY <1>1, <2>1, RateLimitAssumption
<1> QED BY <1>6, <1>7

\* The rate limit is kept over every stretch of time and Retry-After is the truth, for
\* any rate, burst and keys, provided a bucket is full before it is idle long enough to be
\* thrown away; without that hypothesis the code does not keep the limit.
THEOREM LimitIsKept == ASSUME Cap <= IdleTTL PROVE Spec => []LimitHolds
<1> DEFINE Inv == LimiterTypeOK /\ BucketsSound /\ LimitSound
<1>1. Init => Inv BY LimiterInit
<1>2. Inv /\ [Next]_vars => Inv' BY LimiterSteps, LimiterStep, LimitStep
<1>3. Inv => LimitHolds
  <2> SUFFICES ASSUME Inv, NEW k \in Clients
               PROVE  /\ SpacedOut(admitted[k])
                      /\ promise[k] # 0 /\ now >= promise[k] => Bucket(k) >= Cost
    BY DEF LimitHolds, SpacedOut
  <2>1. SpacedOut(admitted[k]) BY DEF LimitSound
  <2>2. promise[k] # 0 => Level(k) >= Cost \/ Level(k) + promise[k] >= Cost + now
    BY DEF LimitSound
  <2>3. Bucket(k) = Level(k) /\ Level(k) \in 0..Cap BY BucketIsLevel, BucketFacts
  <2>4. now \in Nat /\ promise[k] \in Nat BY CapFacts DEF LimiterTypeOK
  <2>5. ASSUME promise[k] # 0, now >= promise[k] PROVE Bucket(k) >= Cost
    BY <2>2, <2>3, <2>4, <2>5, CapFacts
  <2> QED BY <2>1, <2>5
<1> QED BY <1>1, <1>2, <1>3, PTL DEF Spec
-----------------------------------------------------------------------------
(* Images. *)

\* The lengths of head and header are positive.
LEMMA LengthFacts ==
  MaxPixels \in Nat \ {0} /\ HeadLen \in Nat \ {0} /\ HeaderLen \in Nat \ {0}
BY IntakeAssumption

\* A reader of a file from its start gets the file.
LEMMA BlocksFacts ==
  ASSUME NEW img \in Images
  PROVE  /\ Blocks(img) \in Seq(Nat) /\ Len(Blocks(img)) = img.len /\ img.len \in Nat
         /\ \A i \in 1..img.len : Blocks(img)[i] = i
         /\ From(img, 0) = Blocks(img)
<1>1. img.len \in Nat BY DEF Images
<1>2. /\ Blocks(img) \in Seq(Nat) /\ Len(Blocks(img)) = img.len
      /\ \A i \in 1..img.len : Blocks(img)[i] = i
  BY <1>1 DEF Blocks
<1>3. From(img, 0) = Blocks(img) BY <1>1, <1>2, SubSeqFull DEF From
<1> QED BY <1>1, <1>2, <1>3

\* What a stream is cut into makes up the stream.
LEMMA Rejoined ==
  ASSUME NEW s \in Seq(Nat), NEW n \in Nat
  PROVE  SubSeq(s, 1, Shorter(n, Len(s))) \o
           SubSeq(s, Len(SubSeq(s, 1, Shorter(n, Len(s)))) + 1, Len(s)) = s
<1> DEFINE k == Shorter(n, Len(s))
<1>1. k \in 0..Len(s) /\ Len(s) \in Nat BY DEF Shorter
<1> HIDE DEF k
<1>2. Len(SubSeq(s, 1, k)) = k
  <2>1. \A i \in 1..k : s[i] \in Nat BY <1>1
  <2>2. Len(SubSeq(s, 1, k)) = IF 1 <= k THEN k - 1 + 1 ELSE 0 BY <1>1, <2>1, SubSeqProperties
  <2> QED BY <1>1, <2>2
<1>3. SubSeq(s, 1, k) \o SubSeq(s, k + 1, Len(s)) = SubSeq(s, 1, Len(s))
  <2>1. 1 \in 1..Len(s) + 1 /\ k \in 1 - 1..Len(s) /\ Len(s) \in k..Len(s) BY <1>1
  <2> QED BY ONLY <2>1, s \in Seq(Nat), ConcatAdjacentSubSeq
<1>4. SubSeq(s, 1, Len(s)) = s BY SubSeqFull
<1> QED BY <1>2, <1>3, <1>4 DEF k

\* The signature is that of the image unless there is nothing to read.
LEMMA HeadFacts ==
  ASSUME NEW img \in Images
  PROVE  Sniffed(readHead(Blocks(img)), img) = IF img.len = 0 THEN "text" ELSE img.mime
<1> DEFINE s == Blocks(img)
           k == Shorter(HeadLen, Len(s))
<1>1. s \in Seq(Nat) /\ Len(s) = img.len /\ img.len \in Nat /\ \A i \in 1..img.len : s[i] = i
  BY BlocksFacts
<1> HIDE DEF s
<1>2. k \in 0..Len(s) /\ (k = 0 <=> img.len = 0) BY <1>1, LengthFacts DEF Shorter
<1>3. /\ Len(readHead(s)) = IF 1 <= k THEN k - 1 + 1 ELSE 0
      /\ \A i \in 1..k - 1 + 1 : readHead(s)[i] = s[1 + i - 1]
      /\ readHead(s) \in Seq(Nat)
  <2>1. readHead(s) = SubSeq(s, 1, k) BY DEF readHead
  <2>2. \A i \in 1..k : s[i] \in Nat BY <1>1, <1>2
  <2> HIDE DEF k
  <2> QED BY <1>1, <1>2, <2>1, <2>2, SubSeqProperties
<1> HIDE DEF k
<1>4. CASE img.len = 0
  <2>1. readHead(s) = <<>> BY <1>2, <1>3, <1>4
  <2> QED BY <1>4, <2>1 DEF Sniffed, s
<1>5. CASE img.len # 0
  <2>1. readHead(s) # <<>> /\ readHead(s)[1] = 1 BY <1>1, <1>2, <1>3, <1>5
  <2> QED BY <1>5, <2>1 DEF Sniffed, s
<1> QED BY <1>4, <1>5

\* Validate takes the images that are of a kind the service serves, do not move and are
\* neither empty nor too big; it leaves the file at its start.
LEMMA ValidateFacts ==
  ASSUME NEW img \in Images, NEW ahead
  PROVE  /\ Validate(img, ahead).pos = 0
         /\ Validate(img, ahead).err = Validate(img, HeaderLen).err
         /\ Validate(img, ahead).err \in {"nil"} \cup ImageErrors
         /\ Validate(img, ahead).err = "nil" =>
              /\ checkMime(readHead(Blocks(img)), img) = "nil"
              /\ decodeConfig(Blocks(img), img) = "nil"
              /\ img.mime \in {"jpeg", "png", "webp"} /\ ~img.animated
              /\ img.pixels # 0 /\ ~(img.len < HeaderLen) /\ ~(img.pixels > MaxPixels)
         /\ Validate(img, ahead).err = "ErrUnsupportedFormat" =>
              \/ img.mime \notin {"jpeg", "png", "webp"} \/ img.animated
              \/ img.pixels = 0 \/ img.len < HeaderLen
         /\ Validate(img, ahead).err = "ErrImageTooBig" => img.pixels > MaxPixels
<1> DEFINE m == checkMime(readHead(Blocks(img)), img)
           d == decodeConfig(Blocks(img), img)
           e == IF m = "nil" THEN d ELSE m
<1>1. From(img, 0) = Blocks(img) BY BlocksFacts
<1>2. Validate(img, ahead) = [err |-> e, pos |-> 0] /\ Validate(img, HeaderLen) = [err |-> e, pos |-> 0]
  BY <1>1 DEF Validate
<1>3. /\ img.pixels \in Nat /\ img.len \in Nat /\ img.animated \in BOOLEAN
      /\ img.animated => img.mime \notin {"jpeg", "png"}
  BY DEF Images
<1>4. /\ m = "nil" => img.mime \in {"jpeg", "png", "webp"} /\ ~img.animated
      /\ m # "nil" => m = "ErrUnsupportedFormat" /\
           (img.mime \notin {"jpeg", "png", "webp"} \/ img.animated \/ img.len < HeaderLen)
  <2>1. PICK x : x = Sniffed(readHead(Blocks(img)), img) OBVIOUS
  <2>2. x = IF img.len = 0 THEN "text" ELSE img.mime BY <2>1, HeadFacts
  <2>3. m = IF x \in {"jpeg", "png"} \/ (x = "webp" /\ ~img.animated) THEN "nil" ELSE "ErrUnsupportedFormat"
    BY <2>1 DEF checkMime
  <2>4. img.len = 0 => img.len < HeaderLen BY LengthFacts
  <2> QED BY <1>3, <2>2, <2>3, <2>4
<1>5. HeaderRead(Blocks(img), img) <=> img.len >= HeaderLen /\ img.pixels > 0
  <2>1. \A i \in 1..HeaderLen : img.len >= HeaderLen => i \in 1..img.len BY <1>3, LengthFacts
  <2> QED BY <2>1, BlocksFacts DEF HeaderRead
<1>6. d = IF ~HeaderRead(Blocks(img), img) THEN "ErrUnsupportedFormat"
          ELSE IF img.pixels > MaxPixels THEN "ErrImageTooBig" ELSE "nil"
  BY DEF decodeConfig
<1> HIDE DEF m, d
<1>7. /\ d = "nil" => img.pixels # 0 /\ ~(img.len < HeaderLen) /\ ~(img.pixels > MaxPixels)
      /\ d = "ErrUnsupportedFormat" => img.pixels = 0 \/ img.len < HeaderLen
      /\ d = "ErrImageTooBig" => img.pixels > MaxPixels
      /\ d \in {"nil", "ErrUnsupportedFormat", "ErrImageTooBig"}
  BY <1>3, <1>5, <1>6, LengthFacts
<1> QED BY <1>2, <1>4, <1>7 DEF m, d, ImageErrors

\* What Validate has taken, the worker refuses only if the data after the header are broken.
LEMMA ThumbnailsFacts ==
  ASSUME NEW img \in Images, Validate(img, HeaderLen).err = "nil", NEW ahead \in Nat
  PROVE  Thumbnails(Blocks(img), img, ahead) = IF img.body THEN "nil" ELSE "ErrUnsupportedFormat"
<1> DEFINE s == Blocks(img)
           head == readHead(s)
           rest == head \o SubSeq(s, Len(head) + 1, Len(s))
           seen == SubSeq(rest, 1, Shorter(ahead, Len(rest)))
<1>1. s \in Seq(Nat) BY BlocksFacts
<1>2. /\ checkMime(readHead(s), img) = "nil" /\ decodeConfig(s, img) = "nil" /\ ~img.animated
  BY ValidateFacts
<1>3. rest = s BY <1>1, Rejoined, LengthFacts DEF readHead
<1>4. seen \o SubSeq(rest, Len(seen) + 1, Len(rest)) = s BY <1>1, <1>3, Rejoined
<1>5. Decoded(s, img) <=> img.body BY <1>2 DEF Decoded
<1>6. decode(s, img, ahead) =
        IF checkMime(head, img) # "nil" THEN checkMime(head, img)
        ELSE IF decodeConfig(rest, img) # "nil" THEN decodeConfig(rest, img)
        ELSE IF Decoded(seen \o SubSeq(rest, Len(seen) + 1, Len(rest)), img)
             THEN "nil" ELSE "ErrUnsupportedFormat"
  BY DEF decode
<1> QED BY <1>2, <1>3, <1>4, <1>5, <1>6 DEF Thumbnails
-----------------------------------------------------------------------------
(* Uploads. *)

\* What a request may be.
LEMMA FormFacts ==
  ASSUME form \in Forms
  PROVE  /\ form.door \in {"api", "web"} /\ form.header \in {"none", "fits", "long"}
         /\ form.query \in {"good", "bad"} /\ form.body \in {"form", "malformed", "oversize"}
         /\ form.user \in {"none", "fits", "long"} /\ form.spilt \in BOOLEAN
         /\ DOMAIN form.parts \subseteq {"file", "image"}
         /\ \A x \in DOMAIN form.parts :
              /\ form.parts[x].size \in {"fits", "large"} /\ form.parts[x].name \in {"fits", "long"}
              /\ form.parts[x].image \in Images
<1>1. PICK fs \in SUBSET Fields : form \in Requests(fs) BY IntakeAssumption
<1>2. /\ form.door \in {"api", "web"} /\ form.header \in {"none", "fits", "long"}
      /\ form.query \in {"good", "bad"} /\ form.body \in {"form", "malformed", "oversize"}
      /\ form.user \in {"none", "fits", "long"} /\ form.spilt \in BOOLEAN
      /\ form.parts \in [fs -> Parts]
  BY <1>1 DEF Requests, Doors, Owners
<1>3. DOMAIN form.parts = fs /\ \A x \in fs : form.parts[x] \in Parts BY <1>2
<1>4. fs \subseteq {"file", "image"} BY DEF Fields
<1>5. \A y \in Parts : y.size \in {"fits", "large"} /\ y.name \in {"fits", "long"} /\ y.image \in Images
  BY DEF Parts
<1> QED BY <1>2, <1>3, <1>4, <1>5

\* What a request asks for and what is wrong with it are its own.
LEMMA FormStays ==
  ASSUME form' = form
  PROVE  /\ Defects' = Defects /\ HasFile' = HasFile /\ OwnerID' = OwnerID
         /\ Wanted' = Wanted /\ Deferred' = Deferred
<1>1. HasFile' = HasFile /\ OwnerID' = OwnerID /\ Wanted' = Wanted /\ Deferred' = Deferred
  BY DEF HasFile, OwnerID, Wanted, Deferred
<1>2. Defects' = Defects BY <1>1 DEF Defects
<1> QED BY <1>1, <1>2

\* The field a door takes is that of the file it is to take.
LEMMA NamesFacts ==
  ASSUME form \in Forms
  PROVE  /\ Names(DOMAIN form.parts) = "none" => ~HasFile
         /\ Names(DOMAIN form.parts) # "none" =>
              /\ HasFile /\ Names(DOMAIN form.parts) \in DOMAIN form.parts
              /\ Names(DOMAIN form.parts) \in Fields
              /\ form.parts[Names(DOMAIN form.parts)] = Wanted
BY FormFacts DEF Names, HasFile, Wanted, Fields

\* What may be wrong with a request.
LEMMA DefectsFacts ==
  /\ OwnerID = "none" => "errMissingUserID" \in Defects
  /\ OwnerID = "long" => "errUserIDTooLong" \in Defects
  /\ form.body = "malformed" \/ form.query = "bad" => "errMalformedBody" \in Defects
  /\ ~HasFile => "errMissingFile" \in Defects
  /\ form.body = "oversize" \/ (HasFile /\ Wanted.size = "large") => "ErrTooLarge" \in Defects
  /\ HasFile /\ Wanted.name = "long" => "errFileNameTooLong" \in Defects
  /\ HasFile /\ (\/ Wanted.image.mime \notin {"jpeg", "png", "webp"} \/ Wanted.image.animated
                 \/ Wanted.image.pixels = 0 \/ Wanted.image.len < HeaderLen) =>
       "ErrUnsupportedFormat" \in Defects
  /\ HasFile /\ Wanted.image.pixels > MaxPixels => "ErrImageTooBig" \in Defects
BY DEF Defects, FormErrors, ImageErrors

\* A request that has not arrived has passed no check.
LEMMA IntakeStarts ==
  ASSUME IntakeInit, form \in Forms PROVE IntakeTypeOK /\ IntakeSound
<1>0. stored \in Seq(Nat) /\ pos \in Nat
  <2>1. stored = <<>> /\ pos = 0 BY DEF IntakeInit
  <2> QED BY <2>1
<1>1. IntakeTypeOK BY <1>0, Zenon DEF IntakeInit, IntakeTypeOK, PCs, Fields
<1>2. ChecksPassed /\ Cleared BY DEF IntakeInit, ChecksPassed, Cleared, Past
<1> QED BY <1>1, <1>2 DEF IntakeInit, IntakeSound, LeavesNothing

\* Arriving at a door passes no check.
LEMMA IntakeArrive ==
  ASSUME IntakeTypeOK, IntakeSound, Arrive PROVE IntakeTypeOK' /\ IntakeSound'
<1>1. /\ pc = "idle" /\ pc' = IF form.door = "api" THEN "requesterID" ELSE "parse"
      /\ UNCHANGED <<form, err, owner, field, pos, temp, open, defers, stored, faulty, status, render>>
  BY DEF Arrive, handling
<1>2. IntakeTypeOK' BY <1>1 DEF IntakeTypeOK, PCs
<1>3. form.door \in {"api", "web"} BY FormFacts DEF IntakeTypeOK
<1>4. err = "nil" /\ status = 0 /\ render = "none" /\ Cleared BY <1>1 DEF IntakeSound
<1>5. Cleared' BY <1>1, <1>3, <1>4, FormStays DEF Cleared
<1>6. ChecksPassed' BY <1>1, <1>3, FormStays DEF ChecksPassed, Past
<1> QED BY <1>1, <1>2, <1>4, <1>5, <1>6 DEF IntakeSound, LeavesNothing

\* The API door passes on only with a header that fits.
LEMMA IntakeRequester ==
  ASSUME IntakeTypeOK, IntakeSound, requesterID PROVE IntakeTypeOK' /\ IntakeSound'
<1>1. /\ pc = "requesterID" /\ owner' = "header"
      /\ UNCHANGED <<form, field, pos, temp, open, defers, stored, faulty, status, render>>
      /\ \/ form.header = "none" /\ pc' = "return" /\ err' = "errMissingUserID"
         \/ form.header = "long" /\ pc' = "return" /\ err' = "errUserIDTooLong"
         \/ form.header = "fits" /\ pc' = "parse" /\ err' = err
  BY DEF requesterID, Goes, Refuses
<1>2. IntakeTypeOK' BY <1>1 DEF IntakeTypeOK, PCs, FormErrors
<1>3. /\ err = "nil" /\ status = 0 /\ render = "none" /\ ~temp /\ ~open /\ defers = {}
      /\ form.door = "api"
  BY <1>1 DEF IntakeSound, Cleared, IntakeTypeOK
<1>4. Cleared' BY <1>1, <1>3, FormStays DEF Cleared
<1>5. OwnerID = form.header BY <1>3 DEF OwnerID
<1>6. ChecksPassed' BY <1>1, <1>3, <1>5, FormStays DEF ChecksPassed, Past
<1>7. err' # "nil" => err' \in Defects' BY <1>1, <1>3, <1>5, FormStays, DefectsFacts
<1> QED BY <1>1, <1>2, <1>3, <1>4, <1>6, <1>7 DEF IntakeSound, LeavesNothing

\* Parsing passes on only a form it accepted; only a refused form keeps its temporary files.
LEMMA IntakeParse ==
  ASSUME IntakeTypeOK, IntakeSound, ParseMultipartForm PROVE IntakeTypeOK' /\ IntakeSound'
<1>1. PICK result \in ParseResults :
        /\ \/ result = "nil" /\ Goes(IF form.door = "web" THEN "trusted" ELSE "formFile")
           \/ result = "unreadable" /\ Refuses("errMalformedBody")
           \/ result \in FormErrors /\ Refuses(result)
        /\ temp' = (form.spilt /\ form.body = "form" /\ result # "unreadable")
        /\ faulty' = (result = "unreadable")
        /\ defers' = IF result = "nil" THEN Deferred ELSE {}
  BY DEF ParseMultipartForm
<1>2. pc = "parse" /\ UNCHANGED <<form, owner, field, pos, open, stored, status, render>>
  BY DEF ParseMultipartForm
<1>f. form.door \in {"api", "web"} /\ form.spilt \in BOOLEAN /\ form.body \in {"form", "malformed", "oversize"}
      /\ form.query \in {"good", "bad"}
  BY FormFacts DEF IntakeTypeOK
<1>3. /\ err = "nil" /\ status = 0 /\ render = "none" /\ ~temp /\ ~open /\ defers = {}
      /\ ChecksPassed
  BY <1>2 DEF IntakeSound, Cleared, IntakeTypeOK
<1>4. \/ result = "ErrTooLarge" /\ form.body = "oversize"
      \/ result = "errMalformedBody" /\ (form.body = "malformed" \/ form.query = "bad")
      \/ result = "nil" /\ form.body = "form" /\ form.query = "good"
      \/ result = "unreadable"
  BY <1>f DEF ParseResults
<1>5. \/ /\ result = "nil" /\ form.body = "form" /\ form.query = "good" /\ err' = "nil"
         /\ pc' = IF form.door = "web" THEN "trusted" ELSE "formFile"
      \/ result = "unreadable" /\ pc' = "return" /\ err' = "errMalformedBody"
      \/ /\ result = "ErrTooLarge" /\ pc' = "return" /\ err' = "ErrTooLarge"
         /\ form.body = "oversize"
      \/ /\ result = "errMalformedBody" /\ pc' = "return" /\ err' = "errMalformedBody"
         /\ form.body = "malformed" \/ form.query = "bad"
  BY <1>1, <1>3, <1>4 DEF Goes, Refuses, FormErrors
<1>6. /\ temp' \in BOOLEAN /\ faulty' \in BOOLEAN /\ defers' \subseteq {"close", "remove"}
      /\ pc' \in PCs /\ err' \in {"nil"} \cup FormErrors
  BY <1>1, <1>5, <1>f DEF Deferred, PCs, FormErrors
<1>7. IntakeTypeOK' BY <1>2, <1>3, <1>6 DEF IntakeTypeOK
<1>8. Cleared'
  <2>1. temp' => result # "unreadable" /\ form.body = "form" BY <1>1
  <2>2. result = "ErrTooLarge" => ~temp' BY <1>5, <2>1
  <2>3. pc' \in {"trusted", "formFile", "return"} /\ (pc' # "return" => defers' = Deferred)
    BY <1>1, <1>5
  <2>4. pc' = "trusted" => form.door = "web" BY <1>5
  <2>5. pc' = "return" /\ temp' => err' = "errMalformedBody" BY <1>5, <2>1
  <2> QED BY <1>2, <1>3, <2>3, <2>4, <2>5, FormStays DEF Cleared
<1>9. ChecksPassed'
  <2>1. pc' \in {"trusted", "formFile"} => form.body = "form" /\ form.query = "good" BY <1>5
  <2>2. pc' = "formFile" => form.door = "api" BY <1>5, <1>f
  <2>3. form.door = "api" => OwnerID = "fits" /\ (form.header # "none" => owner = "header")
    BY <1>2, <1>3 DEF ChecksPassed, Past
  <2>4. pc' \in {"trusted", "formFile"} \/ (pc' = "return" /\ err' # "nil") BY <1>5
  <2> QED BY <1>2, <2>1, <2>2, <2>3, <2>4, FormStays DEF ChecksPassed, Past
<1>10. err' # "nil" /\ ~faulty' => err' \in Defects'
  <2>1. ~faulty' => result # "unreadable" BY <1>1
  <2>2. Defects' = Defects BY <1>2, FormStays
  <2>3. /\ form.body = "oversize" => "ErrTooLarge" \in Defects
        /\ form.body = "malformed" \/ form.query = "bad" => "errMalformedBody" \in Defects
    BY DefectsFacts
  <2> QED BY <1>5, <2>1, <2>2, <2>3
<1>11. pc' # "done" /\ (pc' # "return" => err' = "nil") BY <1>5
<1> QED BY <1>2, <1>3, <1>7, <1>8, <1>9, <1>10, <1>11 DEF IntakeSound, LeavesNothing

\* The page door passes on only with an owner that fits.
LEMMA IntakeTrusted ==
  ASSUME IntakeTypeOK, IntakeSound, trustedUserID PROVE IntakeTypeOK' /\ IntakeSound'
<1> DEFINE id == IF Trusted = "header" THEN form.header ELSE form.user
<1>1. /\ pc = "trusted" /\ owner' = Trusted
      /\ UNCHANGED <<form, field, pos, temp, open, defers, stored, faulty, status, render>>
      /\ \/ id = "none" /\ pc' = "return" /\ err' = "errMissingUserID"
         \/ id = "long" /\ pc' = "return" /\ err' = "errUserIDTooLong"
         \/ id = "fits" /\ pc' = "formFile" /\ err' = err
  BY DEF trustedUserID, Goes, Refuses
<1>2. owner' \in {"header", "user"} /\ (form.header # "none" => owner' = "header")
  BY <1>1 DEF Trusted
<1>3. /\ err = "nil" /\ status = 0 /\ render = "none" /\ ~open /\ defers = {"remove"}
      /\ form.door = "web" /\ ChecksPassed
  BY <1>1 DEF IntakeSound, Cleared, IntakeTypeOK, Deferred
<1>4. id = OwnerID BY <1>3 DEF OwnerID, Trusted
<1> HIDE DEF id
<1>5. IntakeTypeOK' BY <1>1, <1>2 DEF IntakeTypeOK, PCs, FormErrors
<1>6. Cleared'
  <2>1. defers = Deferred BY <1>3 DEF Deferred
  <2> QED BY <1>1, <1>3, <2>1, FormStays DEF Cleared
<1>7. ChecksPassed'
  <2>1. form.body = "form" /\ form.query = "good" BY <1>1, <1>3 DEF ChecksPassed, Past
  <2> QED BY <1>1, <1>2, <1>3, <1>4, <2>1, FormStays DEF ChecksPassed, Past
<1>8. err' # "nil" => err' \in Defects' BY <1>1, <1>3, <1>4, FormStays, DefectsFacts
<1> QED BY <1>1, <1>3, <1>5, <1>6, <1>7, <1>8 DEF IntakeSound, LeavesNothing

\* FormFile opens the part it names and defers its closing.
LEMMA IntakeFormFile ==
  ASSUME IntakeTypeOK, IntakeSound, formFile PROVE IntakeTypeOK' /\ IntakeSound'
<1> DEFINE name == Names(DOMAIN form.parts)
<1>1. pc = "formFile" /\ UNCHANGED <<form, owner, pos, temp, stored, status, render>> BY DEF formFile
<1>2. /\ err = "nil" /\ status = 0 /\ render = "none" /\ ~open /\ defers = Deferred
      /\ ChecksPassed
  BY <1>1 DEF IntakeSound, Cleared, IntakeTypeOK
<1>3. form \in Forms /\ form.door \in {"api", "web"} BY FormFacts DEF IntakeTypeOK
<1>4. /\ form.body = "form" /\ form.query = "good"
      /\ OwnerID = "fits" /\ (form.header # "none" => owner = "header")
  BY <1>1, <1>2 DEF ChecksPassed, Past
<1>5. CASE name = "none" /\ Refuses("errMissingFile") /\ UNCHANGED <<field, open, defers, faulty>>
  <2>1. pc' = "return" /\ err' = "errMissingFile" BY <1>5 DEF Refuses
  <2>2. IntakeTypeOK' BY <1>1, <1>2, <1>5, <2>1 DEF IntakeTypeOK, PCs, FormErrors
  <2>3. ~HasFile BY <1>3, <1>5, NamesFacts
  <2>4. err' \in Defects' BY <1>1, <2>1, <2>3, FormStays, DefectsFacts
  <2>5. Cleared' BY <1>1, <1>2, <1>3, <1>5, <2>1 DEF Cleared, Deferred
  <2>6. ChecksPassed' BY <2>1 DEF ChecksPassed, Past
  <2> QED BY <1>1, <1>2, <2>1, <2>2, <2>4, <2>5, <2>6 DEF IntakeSound, LeavesNothing
<1>6. CASE Refuses("errMalformedBody") /\ faulty' = TRUE /\ UNCHANGED <<field, open, defers>>
  <2>1. pc' = "return" /\ err' = "errMalformedBody" BY <1>6 DEF Refuses
  <2>2. IntakeTypeOK' BY <1>1, <1>2, <1>6, <2>1 DEF IntakeTypeOK, PCs, FormErrors
  <2>3. Cleared' BY <1>1, <1>2, <1>6, <2>1 DEF Cleared
  <2>4. ChecksPassed' BY <2>1 DEF ChecksPassed, Past
  <2> QED BY <1>1, <1>2, <1>6, <2>1, <2>2, <2>3, <2>4 DEF IntakeSound, LeavesNothing
<1>7. CASE /\ name # "none" /\ field' = name /\ open' = TRUE /\ defers' = Opened
           /\ Goes("limits") /\ UNCHANGED faulty
  <2>1. pc' = "limits" /\ err' = "nil" BY <1>2, <1>7 DEF Goes
  <2>2. defers' = {"close", "remove"} BY <1>2, <1>3, <1>7 DEF Opened, Deferred
  <2>3. HasFile /\ field' \in DOMAIN form.parts /\ field' \in Fields /\ form.parts[field'] = Wanted
    BY <1>3, <1>7, NamesFacts
  <2>4. Part' = Wanted BY <1>1, <2>3 DEF Part
  <2>5. IntakeTypeOK' BY <1>1, <1>2, <1>7, <2>1, <2>2, <2>3 DEF IntakeTypeOK, PCs
  <2>6. Cleared' BY <2>1, <2>2 DEF Cleared
  <2>7. ChecksPassed' BY <1>1, <1>4, <2>1, <2>3, <2>4, FormStays DEF ChecksPassed, Past
  <2> QED BY <1>1, <1>2, <2>1, <2>5, <2>6, <2>7 DEF IntakeSound, LeavesNothing
<1> HIDE DEF name
<1> QED BY <1>5, <1>6, <1>7 DEF formFile, name

\* The limits let only a file pass whose size and name fit.
LEMMA IntakeLimits ==
  ASSUME IntakeTypeOK, IntakeSound, limits PROVE IntakeTypeOK' /\ IntakeSound'
<1>1. /\ pc = "limits"
      /\ UNCHANGED <<form, owner, field, pos, temp, open, defers, stored, faulty, status, render>>
      /\ \/ Part.size = "large" /\ pc' = "return" /\ err' = "ErrTooLarge"
         \/ Part.size = "fits" /\ Part.name = "long" /\ pc' = "return" /\ err' = "errFileNameTooLong"
         \/ Part.size = "fits" /\ Part.name = "fits" /\ pc' = "upload" /\ err' = err
  BY DEF limits, Refuses, Goes
<1>2. /\ err = "nil" /\ status = 0 /\ render = "none" /\ defers = {"close", "remove"}
      /\ ChecksPassed
  BY <1>1 DEF IntakeSound, Cleared
<1>3. /\ form.body = "form" /\ form.query = "good"
      /\ OwnerID = "fits" /\ (form.header # "none" => owner = "header")
      /\ HasFile /\ field \in DOMAIN form.parts /\ Part = Wanted
  BY <1>1, <1>2 DEF ChecksPassed, Past
<1>4. IntakeTypeOK' BY <1>1 DEF IntakeTypeOK, PCs, FormErrors
<1>5. Part' = Part BY <1>1 DEF Part
<1>6. err' # "nil" => err' \in Defects'
  <2>1. /\ Part.size = "large" => "ErrTooLarge" \in Defects
        /\ Part.name = "long" => "errFileNameTooLong" \in Defects
    BY <1>3, DefectsFacts
  <2> QED BY <1>1, <1>2, <2>1, FormStays
<1>7. Cleared' BY <1>1, <1>2 DEF Cleared
<1>8. ChecksPassed' BY <1>1, <1>3, <1>5, FormStays DEF ChecksPassed, Past
<1> QED BY <1>1, <1>2, <1>4, <1>6, <1>7, <1>8 DEF IntakeSound, LeavesNothing

\* Upload stores only what Validate accepted, from where Validate left the stream.
LEMMA IntakeUpload ==
  ASSUME IntakeTypeOK, IntakeSound, Upload PROVE IntakeTypeOK' /\ IntakeSound'
<1>1. pc = "upload" /\ UNCHANGED <<form, owner, field, temp, open, defers, status, render>> BY DEF Upload
<1>2. PICK ahead \in HeaderLen..HeaderLen + 1 :
        /\ pos' = Validate(Part.image, ahead).pos
        /\ \/ /\ Validate(Part.image, ahead).err # "nil"
              /\ Refuses(Validate(Part.image, ahead).err) /\ UNCHANGED <<stored, faulty>>
           \/ /\ Validate(Part.image, ahead).err = "nil"
              /\ stored' = From(Part.image, Validate(Part.image, ahead).pos)
              /\ pc' = "return" /\ UNCHANGED <<err, faulty>>
           \/ /\ MayFail /\ faulty' = TRUE
              /\ \E e \in ServiceErrors : Refuses(e)
              /\ UNCHANGED stored
  BY DEF Upload
<1>3. /\ err = "nil" /\ status = 0 /\ render = "none" /\ defers = {"close", "remove"}
      /\ ChecksPassed
  BY <1>1 DEF IntakeSound, Cleared
<1>4. /\ form.body = "form" /\ form.query = "good"
      /\ OwnerID = "fits" /\ (form.header # "none" => owner = "header")
      /\ HasFile /\ field \in DOMAIN form.parts /\ Part = Wanted
      /\ Part.size = "fits" /\ Part.name = "fits"
  BY <1>1, <1>3 DEF ChecksPassed, Past
<1>5. Part.image \in Images BY <1>4, FormFacts DEF Part, IntakeTypeOK
<1>6. PICK img \in Images : img = Part.image /\ img = Wanted.image BY <1>4, <1>5
<1>7. PICK v : v = Validate(img, ahead).err OBVIOUS
<1>8. /\ pos' = 0 /\ v = Validate(img, HeaderLen).err /\ v \in {"nil"} \cup ImageErrors
      /\ From(img, 0) = Blocks(img) /\ Blocks(img) \in Seq(Nat)
  BY <1>2, <1>6, <1>7, ValidateFacts, BlocksFacts
<1>9. Part' = Part /\ Part'.image = img BY <1>1, <1>6 DEF Part
<1>10. Cleared' /\ pc' = "return"
  <2>1. pc' = "return" BY <1>2 DEF Refuses
  <2> QED BY <1>1, <1>3, <2>1 DEF Cleared
<1>11. CASE v # "nil" /\ Refuses(v) /\ UNCHANGED <<stored, faulty>>
  <2>1. err' = v BY <1>11 DEF Refuses
  <2>2. IntakeTypeOK' BY <1>1, <1>8, <1>10, <1>11, <2>1 DEF IntakeTypeOK, PCs
  <2>3. v = "ErrUnsupportedFormat" \/ v = "ErrImageTooBig" BY <1>8, <1>11 DEF ImageErrors
  <2>4. ASSUME v = "ErrUnsupportedFormat" PROVE v \in Defects
    <3>1. \/ img.mime \notin {"jpeg", "png", "webp"} \/ img.animated
          \/ img.pixels = 0 \/ img.len < HeaderLen
      BY <1>7, <2>4, ValidateFacts
    <3> QED BY <1>4, <1>6, <2>4, <3>1, DefectsFacts
  <2>5. ASSUME v = "ErrImageTooBig" PROVE v \in Defects
    <3>1. img.pixels > MaxPixels BY <1>7, <2>5, ValidateFacts
    <3> QED BY <1>4, <1>6, <2>5, <3>1, DefectsFacts
  <2>6. err' \in Defects' BY <1>1, <2>1, <2>3, <2>4, <2>5, FormStays
  <2>7. ChecksPassed' BY <1>10, <1>11, <2>1 DEF ChecksPassed, Past
  <2> QED BY <1>1, <1>3, <1>10, <2>2, <2>6, <2>7 DEF IntakeSound, LeavesNothing
<1>12. CASE v = "nil" /\ stored' = From(img, 0) /\ UNCHANGED <<err, faulty>>
  <2>1. IntakeTypeOK' BY <1>1, <1>8, <1>10, <1>12 DEF IntakeTypeOK, PCs
  <2>2. ChecksPassed'
    <3>1. Validate(Part'.image, HeaderLen).err = "nil" /\ stored' = Blocks(Part'.image)
      BY <1>8, <1>9, <1>12
    <3> QED BY <1>1, <1>4, <1>9, <3>1, FormStays DEF ChecksPassed
  <2> QED BY <1>1, <1>3, <1>10, <1>12, <2>1, <2>2 DEF IntakeSound, LeavesNothing
<1>13. CASE faulty' = TRUE /\ UNCHANGED stored /\ \E e \in ServiceErrors : Refuses(e)
  <2>1. err' \in ServiceErrors /\ err' # "nil" BY <1>13 DEF Refuses, ServiceErrors
  <2>2. IntakeTypeOK' BY <1>1, <1>8, <1>10, <1>13, <2>1 DEF IntakeTypeOK, PCs
  <2>3. ChecksPassed' BY <1>10, <2>1 DEF ChecksPassed, Past
  <2> QED BY <1>1, <1>3, <1>10, <1>13, <2>1, <2>2, <2>3 DEF IntakeSound, LeavesNothing
<1>14. Validate(Part.image, ahead).pos = 0 BY <1>5, ValidateFacts
<1> QED BY <1>2, <1>6, <1>7, <1>11, <1>12, <1>13, <1>14

\* The statuses of the errors.
LEMMA StatusFacts ==
  /\ \A e : mapError(e) \in {400, 403, 404, 409, 413, 500, 503, 504}
  /\ \A e : describeError(e) \in {400, 413, 500, 504}
  /\ \A e \in {"nil"} \cup FormErrors \cup ImageErrors \cup ServiceErrors :
       mapError(e) \notin {403, 404}
<1>1. \A e : describeError(e) \in {400, 413, 500, 504} BY DEF describeError
<1>2. \A e : mapError(e) \in {400, 403, 404, 409, 413, 500, 503, 504} BY DEF mapError
<1>3. \A e \in {"nil"} \cup FormErrors \cup ImageErrors \cup ServiceErrors :
        mapError(e) \notin {403, 404}
  BY DEF mapError, FormErrors, ImageErrors, ServiceErrors
<1> QED BY <1>1, <1>2, <1>3

\* The deferred calls run and the status is the one of the error.
LEMMA IntakeReturn ==
  ASSUME IntakeTypeOK, IntakeSound, Return PROVE IntakeTypeOK' /\ IntakeSound'
<1>1. /\ pc = "return" /\ pc' = "done" /\ status' = Response
      /\ open' = (open /\ "close" \notin defers)
      /\ temp' = (temp /\ "remove" \notin defers) /\ defers' = {}
      /\ UNCHANGED <<form, err, owner, field, pos, stored, faulty, render>>
  BY DEF Return
<1>2. render = "none" /\ ChecksPassed /\ Cleared BY <1>1 DEF IntakeSound
<1>3. Response \in {201, 303, 400, 409, 413, 500, 503, 504}
  <2>1. err \in {"nil"} \cup FormErrors \cup ImageErrors \cup ServiceErrors BY DEF IntakeTypeOK
  <2>2. mapError(err) \in {400, 409, 413, 500, 503, 504} BY <2>1, StatusFacts
  <2>3. describeError(err) \in {400, 413, 500, 504} BY StatusFacts
  <2> QED BY <2>2, <2>3 DEF Response
<1>4. Response' = Response BY <1>1 DEF Response
<1>5. ~open' /\ (temp' => err = "errMalformedBody" \/ (err = "errMissingFile" /\ form.door = "api"))
  BY <1>1, <1>2 DEF Cleared
<1>6. open' \in BOOLEAN /\ temp' \in BOOLEAN BY <1>1
<1>7. IntakeTypeOK' BY <1>1, <1>3, <1>5, <1>6 DEF IntakeTypeOK, PCs
<1>8. Cleared' BY <1>1 DEF Cleared
<1>9. ChecksPassed'
  <2>1. Part' = Part BY <1>1 DEF Part
  <2> QED BY <1>1, <1>2, <2>1, FormStays DEF ChecksPassed, Past
<1>10. LeavesNothing' BY <1>1, <1>5 DEF LeavesNothing
<1>11. err' # "nil" /\ ~faulty' => err' \in Defects' BY <1>1, FormStays DEF IntakeSound
<1> QED BY <1>1, <1>2, <1>4, <1>7, <1>8, <1>9, <1>10, <1>11 DEF IntakeSound

\* The worker renders what was stored; the answer of the door stays.
LEMMA IntakeProcess ==
  ASSUME IntakeTypeOK, IntakeSound, Process PROVE IntakeTypeOK' /\ IntakeSound'
<1>1. /\ pc = "done" /\ err = "nil" /\ render = "none"
      /\ UNCHANGED <<pc, form, err, owner, field, pos, temp, open, defers, stored, faulty, status>>
  BY DEF Process
<1>2. PICK ahead \in HeaderLen..HeaderLen + 1 : render' = Thumbnails(stored, Part.image, ahead)
  BY DEF Process
<1>3. /\ HasFile /\ field \in DOMAIN form.parts /\ Part = Wanted
      /\ Validate(Part.image, HeaderLen).err = "nil" /\ stored = Blocks(Part.image)
  BY <1>1 DEF IntakeSound, ChecksPassed, Past
<1>4. PICK img \in Images : img = Part.image /\ img = Wanted.image
  BY <1>3, FormFacts DEF Part, IntakeTypeOK
<1>5. ahead \in Nat BY LengthFacts
<1>6. render' = IF img.body THEN "nil" ELSE "ErrUnsupportedFormat"
  BY <1>2, <1>3, <1>4, <1>5, ThumbnailsFacts
<1>7. IntakeTypeOK' BY <1>1, <1>6 DEF IntakeTypeOK, ImageErrors
<1>8. render' \notin {"none", "nil"} => ~Wanted'.image.body BY <1>1, <1>4, <1>6, FormStays
<1>9. Part' = Part /\ Response' = Response BY <1>1 DEF Part, Response
<1>10. ChecksPassed' BY <1>1, <1>9, FormStays DEF IntakeSound, ChecksPassed, Past
<1>11. Cleared' BY <1>1 DEF Cleared
<1>12. LeavesNothing' BY <1>1 DEF LeavesNothing, IntakeSound
<1> QED BY <1>1, <1>7, <1>8, <1>9, <1>10, <1>11, <1>12 DEF IntakeSound

\* A step of Http is a step of an upload or of the worker, or leaves the upload alone.
LEMMA IntakeStep ==
  ASSUME IntakeTypeOK, IntakeSound, upload \/ Process \/ UNCHANGED intake
  PROVE  IntakeTypeOK' /\ IntakeSound'
<1>1. CASE upload
  BY <1>1, IntakeArrive, IntakeRequester, IntakeParse, IntakeTrusted, IntakeFormFile,
     IntakeLimits, IntakeUpload, IntakeReturn DEF upload
<1>2. CASE Process BY <1>2, IntakeProcess
<1>3. CASE UNCHANGED intake
  <2>1. UNCHANGED <<pc, form, err, owner, field, pos, temp, open, defers, stored, faulty, status, render>>
    BY <1>3 DEF intake, handling
  <2>2. IntakeTypeOK' BY <2>1 DEF IntakeTypeOK
  <2>3. Part' = Part /\ Response' = Response BY <2>1 DEF Part, Response
  <2>4. ChecksPassed' BY <2>1, <2>3, FormStays DEF IntakeSound, ChecksPassed, Past
  <2>5. Cleared' BY <2>1, FormStays DEF IntakeSound, Cleared
  <2>6. LeavesNothing' BY <2>1 DEF LeavesNothing, IntakeSound
  <2> QED BY <2>1, <2>2, <2>3, <2>4, <2>5, <2>6, FormStays DEF IntakeSound
<1> QED BY <1>1, <1>2, <1>3

\* Each step of the composition is one of the door, of the worker, or leaves both alone.
LEMMA IntakeSteps ==
  ASSUME [Next]_vars PROVE upload \/ Process \/ UNCHANGED intake
<1>1. CASE AnswerUpload BY <1>1 DEF AnswerUpload
<1>2. CASE Render BY <1>2 DEF Render
<1>3. CASE Serve \/ ServeLimited \/ rateLimiting BY <1>3 DEF Serve, ServeLimited, rateLimiting
<1>4. CASE AnswerJSON \/ AnswerPage BY <1>4 DEF AnswerJSON, AnswerPage
<1>5. CASE OpenContent \/ WriteHeaders \/ Copy BY <1>5 DEF OpenContent, WriteHeaders, Copy
<1>6. CASE Finish \/ Keep \/ Pass BY <1>6 DEF Finish, Keep, Pass
<1>7. CASE UNCHANGED vars BY <1>7 DEF vars
<1> QED BY <1>1, <1>2, <1>3, <1>4, <1>5, <1>6, <1>7 DEF Next

\* The first state of the composition is one of the door.
LEMMA IntakeStart == ASSUME Init PROVE IntakeTypeOK /\ IntakeSound
<1>1. form \in Forms BY HttpAssumption DEF Init
<1> QED BY <1>1, IntakeStarts DEF Init

\* The invariant of the uploads: what the checks passed so far say of the request, and what
\* is deferred to clear away.
THEOREM IntakeIsSound == Spec => [](IntakeTypeOK /\ IntakeSound)
<1>1. Init => IntakeTypeOK /\ IntakeSound BY IntakeStart
<1>2. IntakeTypeOK /\ IntakeSound /\ [Next]_vars => (IntakeTypeOK /\ IntakeSound)'
  BY IntakeSteps, IntakeStep
<1> QED BY <1>1, <1>2, PTL DEF Spec

\* A request is refused for something that is wrong with it and one with nothing wrong is
\* taken, at both doors, for any forms and images, unless a file or a dependency fails.
THEOREM VerdictsAreTrue == Spec => []VerdictIsTrue
<1>1. IntakeTypeOK /\ IntakeSound => VerdictIsTrue
  <2> SUFFICES ASSUME IntakeTypeOK, IntakeSound, pc = "done", ~faulty
               PROVE  IF Defects = {} THEN err = "nil" ELSE err \in Defects
    BY DEF VerdictIsTrue
  <2>1. CASE err # "nil" BY <2>1 DEF IntakeSound
  <2>2. CASE err = "nil"
    <3>1. /\ form.body = "form" /\ form.query = "good" /\ OwnerID = "fits"
          /\ HasFile /\ field \in DOMAIN form.parts /\ Part = Wanted
          /\ Part.size = "fits" /\ Part.name = "fits"
          /\ Validate(Part.image, HeaderLen).err = "nil"
      BY <2>2 DEF IntakeSound, ChecksPassed, Past
    <3>2. PICK img \in Images : img = Part.image /\ img = Wanted.image
      BY <3>1, FormFacts DEF Part, IntakeTypeOK
    <3>3. /\ img.mime \in {"jpeg", "png", "webp"} /\ ~img.animated
          /\ img.pixels # 0 /\ ~(img.len < HeaderLen) /\ ~(img.pixels > MaxPixels)
      BY <3>1, <3>2, ValidateFacts
    <3>4. Defects = {} BY <3>1, <3>2, <3>3 DEF Defects
    <3> QED BY <2>2, <3>4
  <2> QED BY <2>1, <2>2
<1> QED BY <1>1, IntakeIsSound, PTL

\* What was answered with success is the whole file, for the gateway's owner if there is
\* one, and the worker refuses such an object only for data broken after the header.
THEOREM TakenAreGood == Spec => []TakenIsGood
<1>1. IntakeTypeOK /\ IntakeSound => TakenIsGood
  <2> SUFFICES ASSUME IntakeTypeOK, IntakeSound PROVE TakenIsGood OBVIOUS
  <2>1. ASSUME pc = "done", err = "nil"
        PROVE  /\ stored = Blocks(Wanted.image)
               /\ OwnerID = "fits" /\ (form.header # "none" => owner = "header")
    BY <2>1 DEF IntakeSound, ChecksPassed, Past
  <2>2. render \notin {"none", "nil"} => ~Wanted.image.body BY DEF IntakeSound
  <2> QED BY <2>1, <2>2 DEF TakenIsGood
<1> QED BY <1>1, IntakeIsSound, PTL

\* Once answered no request keeps a file open, and a temporary file is left only by a
\* request that was refused for its form.
THEOREM UploadsLeaveNothing == Spec => []LeavesNothing
<1>1. IntakeTypeOK /\ IntakeSound => LeavesNothing BY DEF IntakeSound
<1> QED BY <1>1, IntakeIsSound, PTL
-----------------------------------------------------------------------------
(* Responses. *)

\* The kinds of chunks and validators are told apart.
LEMMA ConstantFacts ==
  /\ BodyLen \in Nat /\ BodyLen > 1 /\ NoLength = -1 /\ NoLength # BodyLen
  /\ "json" \in Chunks /\ "page" \in Chunks /\ Objects \subseteq Chunks
  /\ Absent \notin Objects /\ "*" \notin Objects /\ Untagged \subseteq Objects
<1>1. BodyLen \in Nat /\ BodyLen > 1 /\ NoLength = -1 /\ NoLength # BodyLen BY HttpAssumption DEF NoLength
<1> QED BY <1>1, HttpAssumption DEF Chunks

\* A response that nothing was written to.
LEMMA NewWriterFacts ==
  /\ NewWriter \in Writer
  /\ NewWriter.status = 0 /\ NewWriter.length = NoLength /\ NewWriter.etag = Absent /\ ~NewWriter.cached
  /\ NewWriter.body = <<>> /\ ~NewWriter.cut
  /\ NewWriter.logging = [status |-> 200, wrote |-> FALSE]
  /\ NewWriter.measuring = [status |-> 200, wrote |-> FALSE]
<1>1. NewRecorder \in Recorder /\ NewRecorder = [status |-> 200, wrote |-> FALSE]
  BY DEF NewRecorder, Recorder
<1>2. <<>> \in Seq(Chunks) OBVIOUS
<1> QED BY <1>1, <1>2 DEF NewWriter, Writer

\* The first status is recorded and sent.
LEMMA WriteHeaderFacts ==
  ASSUME NEW x \in Writer, NEW s \in Nat, x.status = 0, ~x.logging.wrote, ~x.measuring.wrote,
         NEW y, y = WriteHeader(x, s)
  PROVE  /\ y \in Writer /\ y.status = s
         /\ y.logging = [status |-> s, wrote |-> TRUE] /\ y.measuring = [status |-> s, wrote |-> TRUE]
         /\ y.length = x.length /\ y.etag = x.etag /\ y.cached = x.cached
         /\ y.body = x.body /\ y.cut = x.cut
<1>1. y = [x EXCEPT !.logging = [status |-> s, wrote |-> TRUE],
                    !.measuring = [status |-> s, wrote |-> TRUE], !.status = s]
  BY DEF WriteHeader, Recorded
<1>2. [status |-> s, wrote |-> TRUE] \in Recorder BY DEF Recorder
<1> QED BY <1>1, <1>2 DEF Writer

\* What is written goes to the body, with the status 200 if there was none.
LEMMA WriteFacts ==
  ASSUME NEW x \in Writer, NEW c \in Chunks, NEW y, y = Write(x, c)
  PROVE  /\ y \in Writer /\ y.status = IF x.status = 0 THEN 200 ELSE x.status
         /\ y.logging = [status |-> x.logging.status, wrote |-> TRUE]
         /\ y.measuring = [status |-> x.measuring.status, wrote |-> TRUE]
         /\ y.length = x.length /\ y.etag = x.etag /\ y.cached = x.cached /\ y.cut = x.cut
         /\ y.body = IF x.length # NoLength /\ Len(x.body) >= x.length THEN x.body ELSE Append(x.body, c)
<1> DEFINE b == IF x.length # NoLength /\ Len(x.body) >= x.length THEN x.body ELSE Append(x.body, c)
<1>1. x.logging \in Recorder /\ x.measuring \in Recorder /\ x.body \in Seq(Chunks) /\ x.status \in Nat
  BY DEF Writer
<1>2. /\ [x.logging EXCEPT !.wrote = TRUE] = [status |-> x.logging.status, wrote |-> TRUE]
      /\ [x.measuring EXCEPT !.wrote = TRUE] = [status |-> x.measuring.status, wrote |-> TRUE]
  <2>1. ASSUME NEW r \in Recorder PROVE [r EXCEPT !.wrote = TRUE] = [status |-> r.status, wrote |-> TRUE]
    <3>1. PICK t \in BOOLEAN : t = TRUE OBVIOUS
    <3>2. [r EXCEPT !.wrote = t] = [status |-> r.status, wrote |-> t] BY DEF Recorder
    <3> QED BY <3>1, <3>2, Zenon
  <2> QED BY <1>1, <2>1
<1>3. /\ [status |-> x.logging.status, wrote |-> TRUE] \in Recorder
      /\ [status |-> x.measuring.status, wrote |-> TRUE] \in Recorder
  BY <1>1 DEF Recorder
<1>4. b \in Seq(Chunks) BY <1>1
<1>5. y = [x EXCEPT !.logging = [@ EXCEPT !.wrote = TRUE], !.measuring = [@ EXCEPT !.wrote = TRUE],
                    !.status = IF @ = 0 THEN 200 ELSE @, !.body = b]
  BY DEF Write
<1> HIDE DEF b
<1>6. /\ y.logging = [x.logging EXCEPT !.wrote = TRUE] /\ y.measuring = [x.measuring EXCEPT !.wrote = TRUE]
      /\ y.status = IF x.status = 0 THEN 200 ELSE x.status
      /\ y.length = x.length /\ y.etag = x.etag /\ y.cached = x.cached /\ y.cut = x.cut /\ y.body = b
  BY <1>5 DEF Writer
<1>7. y \in Writer
  <2>1. PICK r \in Recorder, q \in Recorder, n \in Nat, z \in Seq(Chunks) :
          /\ r = [x.logging EXCEPT !.wrote = TRUE] /\ q = [x.measuring EXCEPT !.wrote = TRUE]
          /\ n = (IF x.status = 0 THEN 200 ELSE x.status) /\ z = b
    BY <1>1, <1>2, <1>3, <1>4
  <2>2. y = [x EXCEPT !.logging = r, !.measuring = q, !.status = n, !.body = z] BY <1>5, <2>1
  <2> QED BY <2>2 DEF Writer
<1> QED BY <1>2, <1>6, <1>7 DEF b

\* A text is the whole answer if nothing was written before.
LEMMA TextFacts ==
  ASSUME NEW x \in Writer, NEW s \in Nat \ {0}, NEW c \in {"json", "page"},
         x.status = 0, ~x.logging.wrote, ~x.measuring.wrote, x.body = <<>>,
         NEW y, y = Write(WriteHeader(x, s), c)
  PROVE  /\ y \in Writer /\ y.status = s /\ y.body = <<c>>
         /\ y.logging = [status |-> s, wrote |-> TRUE] /\ y.measuring = [status |-> s, wrote |-> TRUE]
         /\ y.length = x.length /\ y.etag = x.etag /\ y.cached = x.cached /\ y.cut = x.cut
<1>1. PICK z : z = WriteHeader(x, s) OBVIOUS
<1>2. /\ z \in Writer /\ z.status = s
      /\ z.logging = [status |-> s, wrote |-> TRUE] /\ z.measuring = [status |-> s, wrote |-> TRUE]
      /\ z.length = x.length /\ z.etag = x.etag /\ z.cached = x.cached
      /\ z.body = <<>> /\ z.cut = x.cut
  BY <1>1, WriteHeaderFacts
<1>3. y = Write(z, c) /\ c \in Chunks BY <1>1, ConstantFacts
<1>4. /\ y \in Writer /\ y.status = IF z.status = 0 THEN 200 ELSE z.status
      /\ y.logging = [status |-> z.logging.status, wrote |-> TRUE]
      /\ y.measuring = [status |-> z.measuring.status, wrote |-> TRUE]
      /\ y.length = z.length /\ y.etag = z.etag /\ y.cached = z.cached /\ y.cut = z.cut
      /\ y.body = IF z.length # NoLength /\ Len(z.body) >= z.length THEN z.body ELSE Append(z.body, c)
  BY <1>2, <1>3, WriteFacts
<1>5. y.body = <<c>>
  <2>1. z.length \in {NoLength, BodyLen} BY <1>2 DEF Writer
  <2>2. ~(z.length # NoLength /\ Len(z.body) >= z.length) BY <1>2, <2>1, ConstantFacts
  <2> QED BY <1>2, <1>4, <2>2
<1>6. z.logging.status = s /\ z.measuring.status = s BY <1>2
<1> QED BY <1>2, <1>4, <1>5, <1>6

\* What Upload is answered with is never the zero status, nor 304.
LEMMA ResponseFacts ==
  ASSUME IntakeTypeOK PROVE Response \in {201, 303, 400, 409, 413, 500, 503, 504}
<1>1. err \in {"nil"} \cup FormErrors \cup ImageErrors \cup ServiceErrors BY DEF IntakeTypeOK
<1>2. mapError(err) \in {400, 409, 413, 500, 503, 504} BY <1>1, StatusFacts
<1>3. describeError(err) \in {400, 413, 500, 504} BY StatusFacts
<1> QED BY <1>2, <1>3 DEF Response

\* The books of the requests that were answered, and all that is kept of the responses.
Booked ==
  hpc = "sent" /\ panic = "nil" =>
    /\ logged = <<w.status>>
    /\ measured = IF request.route = "service" THEN <<>> ELSE <<w.status>>

Answers == HttpTypeOK /\ ResponseSound /\ CopiesSound /\ Booked

\* Before a handler has returned nothing has been written.
LEMMA FreshFacts ==
  ASSUME Answers, hpc \notin {"copy", "return", "sent"}
  PROVE  /\ w = NewWriter /\ RecordersSound /\ panic = "nil"
         /\ logged = <<>> /\ measured = <<>>
BY DEF Answers, ResponseSound

\* A handler has answered with a text, with no body, or has panicked before it wrote.
LEMMA PlainAnswer ==
  ASSUME Answers, hpc # "sent", hpc' = "return",
         w' \in Writer, Plain', RecordersSound', panic' \in {"nil", "panic", "abort"},
         UNCHANGED <<traffic, request, object, logged, measured, copies>>
  PROVE  Answers'
<1>1. HttpTypeOK' BY DEF Answers, HttpTypeOK
<1>2. logged' = <<>> /\ measured' = <<>> BY DEF Answers, ResponseSound
<1>3. ResponseSound' BY <1>2 DEF ResponseSound
<1>4. CopiesSound' BY DEF Answers, CopiesSound
<1>5. Booked' BY DEF Booked
<1> QED BY <1>1, <1>3, <1>4, <1>5 DEF Answers

\* The texts of handlers and middleware.
LEMMA TextAnswer ==
  ASSUME Answers, hpc \notin {"copy", "return", "sent"}, hpc' = "return",
         NEW s \in Nat \ {0, 304}, NEW c \in {"json", "page"},
         w' = Write(WriteHeader(w, s), c), UNCHANGED panic,
         UNCHANGED <<traffic, request, object, logged, measured, copies>>
  PROVE  Answers'
<1>1. w = NewWriter /\ panic = "nil" BY FreshFacts
<1>2. PICK y : y = Write(WriteHeader(NewWriter, s), c) OBVIOUS
<1>3. /\ y \in Writer /\ y.status = s
      /\ y.logging = [status |-> s, wrote |-> TRUE] /\ y.measuring = [status |-> s, wrote |-> TRUE]
      /\ y.length = NoLength /\ y.etag = Absent /\ ~y.cached
  BY <1>2, TextFacts, NewWriterFacts
<1>4. w' = y BY <1>1, <1>2
<1>5. Plain' BY <1>3, <1>4 DEF Plain
<1>6. RecordersSound' BY <1>3, <1>4 DEF RecordersSound
<1>7. panic' \in {"nil", "panic", "abort"} /\ hpc # "sent" BY <1>1
<1> QED BY <1>3, <1>4, <1>5, <1>6, <1>7, PlainAnswer

\* A panic before the copy leaves the response to recovering.
LEMMA PanicAnswer ==
  ASSUME Answers, hpc \notin {"copy", "return", "sent"}, Panics("panic"),
         UNCHANGED <<traffic, request, object, logged, measured, copies>>
  PROVE  Answers'
<1>1. hpc' = "return" /\ panic' = "panic" /\ w' = w BY DEF Panics
<1>2. w = NewWriter /\ RecordersSound BY FreshFacts
<1>3. Plain' BY <1>1, <1>2, NewWriterFacts DEF Plain
<1>4. RecordersSound' BY <1>1, <1>2 DEF RecordersSound
<1>5. w' \in Writer BY <1>1, <1>2, NewWriterFacts
<1> QED BY <1>1, <1>3, <1>4, <1>5, PlainAnswer

\* A request begins with a new response.
LEMMA BeginStep ==
  ASSUME Answers, NEW route \in Routes, NEW inm \in SUBSET (DOMAIN copies \cup {"*"}),
         NEW header \in Owners, Begin(route, inm, header), hpc' \in {"handler", "limit"},
         UNCHANGED <<traffic, copies>>
  PROVE  Answers'
<1>1. /\ request' = [route |-> route, ifNoneMatch |-> inm, header |-> header]
      /\ w' = NewWriter /\ object' = Absent /\ panic' = "nil" /\ logged' = <<>> /\ measured' = <<>>
  BY DEF Begin
<1>2. inm \in SUBSET (Objects \cup {"*"}) BY DEF Answers, HttpTypeOK
<1>3. request' \in [route : Routes, ifNoneMatch : SUBSET (Objects \cup {"*"}), header : Owners]
  BY <1>1, <1>2
<1>4. HttpTypeOK' BY <1>1, <1>3, NewWriterFacts DEF Answers, HttpTypeOK
<1>5. RecordersSound' BY <1>1, NewWriterFacts DEF RecordersSound
<1>6. ResponseSound' BY <1>1, <1>5 DEF ResponseSound
<1>7. request'.ifNoneMatch = inm BY <1>1
<1>8. CopiesSound' BY <1>7 DEF Answers, CopiesSound
<1> QED BY <1>4, <1>6, <1>8 DEF Answers, Booked

\* A request enters the middleware with a fresh response and fresh recorders.
LEMMA ServeStep == ASSUME Answers, form \in Forms, Serve PROVE Answers'
<1>1. hpc' = "handler" /\ UNCHANGED <<traffic, copies>> BY DEF Serve
<1>2. CASE Begin("upload", {}, form.header)
  <2>1. form.header \in Owners BY FormFacts DEF Owners
  <2>2. "upload" \in Routes /\ {} \in SUBSET (DOMAIN copies \cup {"*"}) BY DEF Routes
  <2> QED BY <1>1, <1>2, <2>1, <2>2, BeginStep
<1>3. CASE \E route \in Routes \ {"upload"} : \E inm \in (SUBSET DOMAIN copies) \cup {{"*"}} :
             (inm # {} => route = "content") /\ Begin(route, inm, "none")
  <2>1. PICK route \in Routes : \E inm \in (SUBSET DOMAIN copies) \cup {{"*"}} : Begin(route, inm, "none")
    BY <1>3
  <2>2. PICK inm \in (SUBSET DOMAIN copies) \cup {{"*"}} : Begin(route, inm, "none") BY <2>1
  <2>3. inm \in SUBSET (DOMAIN copies \cup {"*"}) OBVIOUS
  <2>4. "none" \in Owners BY DEF Owners
  <2> QED BY <1>1, <2>2, <2>3, <2>4, BeginStep
<1> QED BY <1>2, <1>3 DEF Serve

\* So does a request under the limiter.
LEMMA ServeLimitedStep == ASSUME Answers, ServeLimited PROVE Answers'
<1>1. hpc' = "limit" /\ UNCHANGED <<traffic, copies>> BY DEF ServeLimited
<1>2. PICK header \in {"fits", "long"} : Begin("json", {}, header) BY DEF ServeLimited
<1>3. "json" \in Routes /\ header \in Owners BY DEF Routes, Owners
<1> QED BY <1>1, <1>2, <1>3, BeginStep

\* The limiter refuses with a whole answer or lets the handler go on.
LEMMA LimitingStep == ASSUME Answers, rateLimiting PROVE Answers'
<1>1. /\ hpc = "limit" /\ UNCHANGED <<traffic, request, object, panic, logged, measured, copies>>
      /\ \/ hpc' = "handler" /\ w' = w
         \/ hpc' = "return" /\ w' = writeJSON(w, 429)
  BY DEF rateLimiting
<1>2. CASE hpc' = "return" /\ w' = writeJSON(w, 429)
  BY <1>1, <1>2, TextAnswer DEF writeJSON
<1>3. CASE hpc' = "handler" /\ w' = w
  <2>1. HttpTypeOK' BY <1>1, <1>3 DEF Answers, HttpTypeOK
  <2>2. w = NewWriter /\ RecordersSound /\ panic = "nil" /\ logged = <<>> /\ measured = <<>>
    BY <1>1, FreshFacts
  <2>3. RecordersSound' BY <1>3, <2>2 DEF RecordersSound
  <2>4. ResponseSound' BY <1>1, <1>3, <2>2, <2>3 DEF ResponseSound
  <2>5. CopiesSound' /\ Booked' BY <1>1, <1>3 DEF Answers, CopiesSound, Booked
  <2> QED BY <2>1, <2>4, <2>5 DEF Answers
<1> QED BY <1>1, <1>2, <1>3

\* A JSON answer is written whole or is a panic for recovering.
LEMMA JSONStep == ASSUME Answers, AnswerJSON PROVE Answers'
<1>1. hpc = "handler" /\ UNCHANGED <<traffic, request, object, logged, measured, copies>>
  BY DEF AnswerJSON
<1>2. CASE Shows BY <1>1, <1>2, TextAnswer DEF Shows, Returns, writeJSON
<1>3. CASE Deletes
  <2>1. hpc' = "return" /\ w' = WriteHeader(w, 204) /\ panic' = panic BY <1>3 DEF Deletes, Returns
  <2>2. w = NewWriter /\ panic = "nil" BY <1>1, FreshFacts
  <2>3. PICK y : y = WriteHeader(NewWriter, 204) OBVIOUS
  <2>4. /\ y \in Writer /\ y.status = 204
        /\ y.logging = [status |-> 204, wrote |-> TRUE] /\ y.measuring = [status |-> 204, wrote |-> TRUE]
        /\ y.length = NoLength /\ y.etag = Absent /\ ~y.cached
    BY <2>3, WriteHeaderFacts, NewWriterFacts
  <2>5. w' = y BY <2>1, <2>2, <2>3
  <2>6. Plain' BY <2>4, <2>5 DEF Plain
  <2>7. RecordersSound' BY <2>4, <2>5 DEF RecordersSound
  <2> QED BY <1>1, <2>1, <2>2, <2>4, <2>5, <2>6, <2>7, PlainAnswer
<1>4. CASE \E e \in Errors : Returns(writeJSON(w, mapError(e)))
  <2>1. PICK e \in Errors : Returns(writeJSON(w, mapError(e))) BY <1>4
  <2>2. mapError(e) \in Nat \ {0, 304} BY StatusFacts
  <2> QED BY <1>1, <2>1, <2>2, TextAnswer DEF Returns, writeJSON
<1>5. CASE Panics("panic") BY <1>1, <1>5, PanicAnswer
<1> QED BY <1>2, <1>3, <1>4, <1>5 DEF AnswerJSON

\* So is a page.
LEMMA PageStep == ASSUME Answers, AnswerPage PROVE Answers'
<1>1. hpc = "handler" /\ UNCHANGED <<traffic, request, object, logged, measured, copies>>
  BY DEF AnswerPage
<1>2. CASE Returns(page(w, 200)) BY <1>1, <1>2, TextAnswer DEF Returns, page
<1>3. CASE \E e \in ServiceErrors \ {"panic"} : Returns(page(w, describeError(e)))
  <2>1. PICK e \in ServiceErrors \ {"panic"} : Returns(page(w, describeError(e))) BY <1>3
  <2>2. describeError(e) \in Nat \ {0, 304} BY StatusFacts
  <2> QED BY <1>1, <2>1, <2>2, TextAnswer DEF Returns, page
<1>4. CASE Returns(Write(WriteHeader(w, 500), "page")) BY <1>1, <1>4, TextAnswer DEF Returns
<1>5. CASE Panics("panic") BY <1>1, <1>5, PanicAnswer
<1> QED BY <1>2, <1>3, <1>4, <1>5 DEF AnswerPage

\* So is the answer of an upload door, with the status the door decided.
LEMMA UploadStep == ASSUME Answers, IntakeTypeOK, IntakeSound, AnswerUpload PROVE Answers'
<1>1. hpc = "handler" /\ UNCHANGED <<traffic, request, object, logged, measured, copies>>
  BY DEF AnswerUpload
<1>2. CASE UNCHANGED <<hpc, w, panic>>
  <2>1. HttpTypeOK' BY <1>1, <1>2 DEF Answers, HttpTypeOK
  <2>2. w = NewWriter /\ RecordersSound /\ panic = "nil" /\ logged = <<>> /\ measured = <<>>
    BY <1>1, FreshFacts
  <2>3. RecordersSound' BY <1>2, <2>2 DEF RecordersSound
  <2>4. ResponseSound' BY <1>1, <1>2, <2>2, <2>3 DEF ResponseSound
  <2>5. CopiesSound' /\ Booked' BY <1>1, <1>2 DEF Answers, CopiesSound, Booked
  <2> QED BY <2>1, <2>4, <2>5 DEF Answers
<1>3. CASE Panics("panic") BY <1>1, <1>3, PanicAnswer
<1>4. CASE pc = "done" /\ Returns(IF form.door = "api" THEN writeJSON(w, status) ELSE page(w, status))
  <2>1. status = Response BY <1>4 DEF IntakeSound
  <2>2. status \in Nat \ {0, 304} BY <2>1, ResponseFacts
  <2> QED BY <1>1, <1>4, <2>2, TextAnswer DEF Returns, writeJSON, page
<1> QED BY <1>2, <1>3, <1>4 DEF AnswerUpload

\* Opening an object answers an error or goes on to the headers.
LEMMA OpenStep == ASSUME Answers, OpenContent PROVE Answers'
<1>1. hpc = "handler" /\ UNCHANGED <<traffic, request, logged, measured, copies>>
  BY DEF OpenContent
<1>2. CASE \E o \in Objects : object' = o /\ hpc' = "headers" /\ UNCHANGED <<w, panic>>
  <2>1. object' \in Objects /\ hpc' = "headers" /\ UNCHANGED <<w, panic>> BY <1>2
  <2>2. HttpTypeOK' BY <1>1, <2>1 DEF Answers, HttpTypeOK
  <2>3. w = NewWriter /\ RecordersSound /\ panic = "nil" /\ logged = <<>> /\ measured = <<>>
    BY <1>1, FreshFacts
  <2>4. RecordersSound' BY <2>1, <2>3 DEF RecordersSound
  <2>5. ResponseSound' BY <1>1, <2>1, <2>3, <2>4 DEF ResponseSound
  <2>6. CopiesSound' /\ Booked' BY <1>1, <2>1 DEF Answers, CopiesSound, Booked
  <2> QED BY <2>2, <2>5, <2>6 DEF Answers
<1>3. CASE \E e \in Errors : Returns(writeJSON(w, mapError(e))) /\ UNCHANGED object
  <2>1. PICK e \in Errors : Returns(writeJSON(w, mapError(e))) /\ UNCHANGED object BY <1>3
  <2>2. mapError(e) \in Nat \ {0, 304} BY StatusFacts
  <2> QED BY <1>1, <2>1, <2>2, TextAnswer DEF Returns, writeJSON
<1>4. CASE Panics("panic") /\ UNCHANGED object BY <1>1, <1>4, PanicAnswer
<1> QED BY <1>2, <1>3, <1>4 DEF OpenContent

\* A quoted validator names its object or is absent.
LEMMA QuoteFacts ==
  ASSUME NEW o \in Objects PROVE quoteETag(o) \in Objects \cup {Absent} /\ (quoteETag(o) # Absent => quoteETag(o) = o)
BY DEF quoteETag

\* The headers of an image are sent with 304 only for a validator the client has.
LEMMA HeadersStep == ASSUME Answers, WriteHeaders PROVE Answers'
<1>1. hpc = "headers" /\ UNCHANGED <<traffic, request, object, logged, measured, copies>>
  BY DEF WriteHeaders
<1>2. /\ w = NewWriter /\ panic = "nil" /\ logged = <<>> /\ measured = <<>> /\ object \in Objects
  BY <1>1, FreshFacts DEF Answers, ResponseSound
<1>3. PICK tag \in Objects \cup {Absent} : tag = quoteETag(object) BY <1>2, QuoteFacts
<1>4. PICK x : x = [NewWriter EXCEPT !.etag = tag, !.cached = TRUE] OBVIOUS
<1>5. /\ x \in Writer /\ x.status = 0 /\ x.length = NoLength /\ x.etag = tag /\ x.body = <<>>
      /\ x.logging = NewWriter.logging /\ x.measuring = NewWriter.measuring
  BY <1>4, NewWriterFacts DEF Writer
<1>6. ~x.logging.wrote /\ ~x.measuring.wrote /\ x.logging.status = 200 /\ x.measuring.status = 200
  BY <1>5, NewWriterFacts
<1>7. CASE matchETag(request.ifNoneMatch, tag) /\ Returns(WriteHeader(x, 304))
  <2>1. hpc' = "return" /\ panic' = "nil" BY <1>2, <1>7 DEF Returns
  <2>2. PICK y : y = WriteHeader(x, 304) /\ w' = y BY <1>7 DEF Returns
  <2>3. /\ y \in Writer /\ y.status = 304 /\ y.length = NoLength /\ y.etag = tag
        /\ y.logging = [status |-> 304, wrote |-> TRUE] /\ y.measuring = [status |-> 304, wrote |-> TRUE]
    BY <1>5, <1>6, <2>2, WriteHeaderFacts
  <2>4. HttpTypeOK' BY <1>1, <2>1, <2>2, <2>3 DEF Answers, HttpTypeOK
  <2>5. RecordersSound' BY <2>2, <2>3 DEF RecordersSound
  <2>6. NotModified' BY <1>1, <1>3, <1>7, <2>2, <2>3 DEF NotModified, quoteETag, matchETag
  <2>7. ResponseSound' BY <1>1, <1>2, <2>1, <2>5, <2>6 DEF ResponseSound
  <2>8. CopiesSound' /\ Booked' BY <1>1, <2>1 DEF Answers, CopiesSound, Booked
  <2> QED BY <2>4, <2>7, <2>8 DEF Answers
<1>8. CASE hpc' = "copy" /\ w' = [x EXCEPT !.length = BodyLen] /\ UNCHANGED panic
  <2>1. PICK y : y = [x EXCEPT !.length = BodyLen] /\ w' = y BY <1>8
  <2>2. /\ y \in Writer /\ y.status = 0 /\ y.length = BodyLen /\ y.etag = tag /\ y.body = <<>>
        /\ y.logging = x.logging /\ y.measuring = x.measuring
    BY <1>5, <2>1 DEF Writer
  <2>3. HttpTypeOK' BY <1>1, <1>8, <2>1, <2>2 DEF Answers, HttpTypeOK
  <2>4. RecordersSound' BY <1>6, <2>1, <2>2 DEF RecordersSound
  <2>5. Image' BY <1>1, <1>2, <1>3, <2>1, <2>2, ConstantFacts DEF Image, quoteETag
  <2>6. ResponseSound' BY <1>1, <1>2, <1>8, <2>4, <2>5 DEF ResponseSound
  <2>7. CopiesSound' /\ Booked' BY <1>1, <1>8 DEF Answers, CopiesSound, Booked
  <2> QED BY <2>3, <2>6, <2>7 DEF Answers
<1> QED BY <1>2, <1>3, <1>4, <1>7, <1>8 DEF WriteHeaders

\* The copy sends the object in order, breaks off, or ends with all of it.
LEMMA CopyStep == ASSUME Answers, Copy PROVE Answers'
<1>1. hpc = "copy" /\ UNCHANGED <<traffic, request, object, logged, measured, copies>> BY DEF Copy
<1>2. Image /\ RecordersSound /\ panic = "nil" /\ logged = <<>> /\ measured = <<>> /\ w \in Writer
  BY <1>1 DEF Answers, ResponseSound, HttpTypeOK
<1>3. PICK x \in Writer : x = w BY <1>2
<1>4. /\ object \in Objects /\ x.length = BodyLen /\ x.etag = quoteETag(object)
      /\ x.status \in {0, 200} /\ Len(x.body) <= BodyLen /\ \A i \in DOMAIN x.body : x.body[i] = object
      /\ x.logging.status = (IF x.status = 0 THEN 200 ELSE x.status)
      /\ x.measuring.status = (IF x.status = 0 THEN 200 ELSE x.status)
      /\ (x.logging.wrote <=> x.status # 0) /\ (x.measuring.wrote <=> x.status # 0)
      /\ x.status = 0 => x.body = <<>>
  BY <1>2, <1>3 DEF Image, RecordersSound
\* Whatever the step leaves is again a part of the image.
<1>5. ASSUME NEW y \in Writer, w' = y, hpc' \in {"copy", "return"}, panic' \in {"nil", "panic", "abort"},
             hpc' = "copy" => panic' = "nil",
             y.length = BodyLen, y.etag = x.etag, y.status \in {0, 200}, Len(y.body) <= BodyLen,
             \A i \in DOMAIN y.body : y.body[i] = object,
             y.logging.status = 200, y.measuring.status = 200,
             y.logging.wrote <=> y.status # 0, y.measuring.wrote <=> y.status # 0,
             y.status = 0 => y.body = <<>>
      PROVE  Answers'
  <2>1. HttpTypeOK' BY <1>1, <1>5 DEF Answers, HttpTypeOK
  <2>2. RecordersSound' BY <1>5 DEF RecordersSound
  <2>3. Image' BY <1>1, <1>4, <1>5 DEF Image, quoteETag
  <2>4. ResponseSound' BY <1>1, <1>2, <1>5, <2>2, <2>3 DEF ResponseSound
  <2>5. CopiesSound' /\ Booked' BY <1>1, <1>5 DEF Answers, CopiesSound, Booked
  <2> QED BY <2>1, <2>4, <2>5 DEF Answers
<1>6. CASE Len(w.body) < BodyLen /\ w' = Write(w, object) /\ UNCHANGED <<hpc, panic>>
  <2>1. PICK y : y = Write(x, object) /\ w' = y BY <1>3, <1>6
  <2>2. object \in Chunks BY <1>4, ConstantFacts
  <2>3. /\ y \in Writer /\ y.status = IF x.status = 0 THEN 200 ELSE x.status
        /\ y.logging = [status |-> x.logging.status, wrote |-> TRUE]
        /\ y.measuring = [status |-> x.measuring.status, wrote |-> TRUE]
        /\ y.length = x.length /\ y.etag = x.etag
        /\ y.body = IF x.length # NoLength /\ Len(x.body) >= x.length THEN x.body ELSE Append(x.body, object)
    BY <2>1, <2>2, WriteFacts
  <2>4. x.body \in Seq(Chunks) /\ Len(x.body) \in Nat BY DEF Writer
  <2>5. y.body = Append(x.body, object) BY <1>3, <1>4, <1>6, <2>3, <2>4, ConstantFacts
  <2>6. Len(y.body) <= BodyLen /\ \A i \in DOMAIN y.body : y.body[i] = object
    BY <1>3, <1>4, <1>6, <2>4, <2>5, ConstantFacts
  <2>7. /\ y.status = 200 /\ y.logging.status = 200 /\ y.measuring.status = 200
        /\ y.logging.wrote /\ y.measuring.wrote
    BY <1>4, <2>3
  <2>8. hpc' = "copy" /\ panic' = "nil" /\ y.length = BodyLen BY <1>1, <1>2, <1>4, <1>6, <2>3
  <2>9. w' = y /\ y \in Writer /\ y.etag = x.etag BY <2>1, <2>3
  <2> QED BY ONLY <1>5, <2>6, <2>7, <2>8, <2>9
<1>7. CASE Returns(w) BY <1>2, <1>3, <1>4, <1>5, <1>7 DEF Returns
<1>8. CASE Returns([w EXCEPT !.cut = TRUE])
  <2>1. PICK y : y = [x EXCEPT !.cut = TRUE] /\ w' = y BY <1>3, <1>8 DEF Returns
  <2>2. /\ y \in Writer /\ y.status = x.status /\ y.length = x.length /\ y.etag = x.etag /\ y.body = x.body
        /\ y.logging = x.logging /\ y.measuring = x.measuring
    BY <2>1 DEF Writer
  <2>3. hpc' = "return" /\ panic' = "nil" /\ w' = y BY <1>2, <1>8, <2>1 DEF Returns
  <2>4. /\ y.status \in {0, 200} /\ y.length = BodyLen /\ Len(y.body) <= BodyLen
        /\ y.logging.status = 200 /\ y.measuring.status = 200
        /\ y.logging.wrote <=> y.status # 0
        /\ y.measuring.wrote <=> y.status # 0
        /\ y.status = 0 => y.body = <<>>
    BY <1>4, <2>2
  <2>5. \A i \in DOMAIN y.body : y.body[i] = object BY <1>4, <2>2
  <2>6. y \in Writer /\ y.etag = x.etag BY <2>2
  <2> QED BY ONLY <1>5, <2>3, <2>4, <2>5, <2>6
<1>9. CASE \E p \in {"panic", "abort"} : Panics(p) BY <1>3, <1>4, <1>5, <1>9 DEF Panics
<1> QED BY <1>6, <1>7, <1>8, <1>9 DEF Copy

\* What a client keeps is a whole image.
LEMMA KeepStep == ASSUME Answers, Keep PROVE Answers'
<1>1. /\ hpc = "sent" /\ hpc' = "idle" /\ traffic' = traffic
      /\ request' = NewRequest /\ object' = Absent /\ w' = NewWriter /\ panic' = "nil"
      /\ logged' = <<>> /\ measured' = <<>>
  BY DEF Keep
<1>2. /\ DOMAIN copies' \subseteq Objects
      /\ \A e \in DOMAIN copies' : copies'[e] = [i \in 1..BodyLen |-> e]
  <2>1. /\ DOMAIN copies \subseteq Objects
        /\ \A e \in DOMAIN copies : copies[e] = [i \in 1..BodyLen |-> e]
    BY DEF Answers, HttpTypeOK, CopiesSound
  <2>2. CASE ~(Complete /\ w.status = 200 /\ w.etag # Absent)
    <3>1. copies' = copies BY <2>2 DEF Keep
    <3> QED BY <2>1, <3>1
  <2>3. CASE Complete /\ w.status = 200 /\ w.etag # Absent
    <3>1. Image BY <1>1, <2>3 DEF Answers, ResponseSound, Plain, NotModified, Spoiled
    <3>2. PICK o \in Objects : o = object /\ w.etag = o BY <2>3, <3>1, QuoteFacts DEF Image
    <3>3. PICK b \in Seq(Chunks) : b = w.body BY DEF Answers, HttpTypeOK, Writer
    <3>4. Len(b) = BodyLen /\ \A i \in DOMAIN b : b[i] = o
      BY <2>3, <3>1, <3>2, <3>3, ConstantFacts DEF Complete, Image
    <3>5. b = [i \in 1..BodyLen |-> o] BY <3>4
    <3>6. copies' = [e \in DOMAIN copies \cup {o} |-> IF e = o THEN b ELSE copies[e]]
      BY <2>3, <3>2, <3>3 DEF Keep
    <3> QED BY <2>1, <3>5, <3>6
  <2> QED BY <2>2, <2>3
<1>3. \A e \in DOMAIN copies' : copies'[e] \in Seq(Chunks)
  <2>1. ASSUME NEW e \in Objects PROVE [i \in 1..BodyLen |-> e] \in Seq(Chunks)
    BY ConstantFacts
  <2> QED BY <1>2, <2>1
<1>4. request' \in [route : Routes, ifNoneMatch : SUBSET (Objects \cup {"*"}), header : Owners]
      /\ request'.ifNoneMatch = {}
  BY <1>1 DEF NewRequest, Routes, Owners
<1>5. HttpTypeOK' BY <1>1, <1>2, <1>3, <1>4, NewWriterFacts DEF Answers, HttpTypeOK
<1>6. RecordersSound' BY <1>1, NewWriterFacts DEF RecordersSound
<1>7. ResponseSound' BY <1>1, <1>6 DEF ResponseSound
<1>8. CopiesSound' BY <1>2, <1>4 DEF CopiesSound
<1> QED BY <1>1, <1>5, <1>7, <1>8 DEF Answers, Booked

\* What is logged and measured of a response: nothing of an aborted one.
LEMMA BookFacts ==
  ASSUME NEW v, NEW q, NEW o,
         o = measuring(logging([w |-> v, panic |-> q, logged |-> <<>>, measured |-> <<>>]))
  PROVE  /\ o.w = v /\ o.panic = q
         /\ o.logged = IF q # "nil" THEN <<>> ELSE <<v.logging.status>>
         /\ o.measured = IF q # "nil" \/ request.route = "service" THEN <<>> ELSE <<v.measuring.status>>
<1>1. PICK a : a = [w |-> v, panic |-> q, logged |-> <<>>, measured |-> <<>>] OBVIOUS
<1>2. a.w = v /\ a.panic = q /\ a.logged = <<>> /\ a.measured = <<>> BY <1>1
<1>3. PICK b : b = logging(a) OBVIOUS
<1>4. b = IF q # "nil" THEN a ELSE [a EXCEPT !.logged = Append(<<>>, v.logging.status)]
  BY <1>2, <1>3 DEF logging
<1>5. Append(<<>>, v.logging.status) = <<v.logging.status>> /\ Append(<<>>, v.measuring.status) = <<v.measuring.status>>
  OBVIOUS
<1>6. /\ b.w = v /\ b.panic = q /\ b.measured = <<>>
      /\ b.logged = IF q # "nil" THEN <<>> ELSE <<v.logging.status>>
  BY <1>1, <1>4, <1>5
<1>7. o = IF q # "nil" \/ request.route = "service" THEN b
          ELSE [b EXCEPT !.measured = Append(<<>>, v.measuring.status)]
  BY <1>1, <1>3, <1>6 DEF measuring
<1>8. b = [w |-> v, panic |-> q, logged |-> b.logged, measured |-> <<>>]
  BY <1>1, <1>4
<1>9. o = [w |-> v, panic |-> q, logged |-> b.logged,
           measured |-> IF q # "nil" \/ request.route = "service" THEN <<>> ELSE <<v.measuring.status>>]
  BY <1>5, <1>7, <1>8
<1> QED BY <1>6, <1>9

\* recovering answers for a handler that panicked before it wrote.
LEMMA RecoveringFacts ==
  ASSUME NEW x, NEW p, NEW o,
         o = recovering([w |-> x, panic |-> p, logged |-> <<>>, measured |-> <<>>])
  PROVE  o = [w |-> IF p = "panic" /\ ~x.logging.wrote THEN writeJSON(x, 500) ELSE x,
              panic |-> IF p = "panic" THEN "nil" ELSE p, logged |-> <<>>, measured |-> <<>>]
<1>1. CASE p # "panic" BY <1>1 DEF recovering
<1>2. CASE p = "panic"
  <2>1. PICK v : v = IF x.logging.wrote THEN x ELSE writeJSON(x, 500) OBVIOUS
  <2>2. o = [[w |-> x, panic |-> p, logged |-> <<>>, measured |-> <<>>] EXCEPT !.panic = "nil", !.w = v]
    BY <1>2, <2>1 DEF recovering
  <2>3. o = [w |-> v, panic |-> "nil", logged |-> <<>>, measured |-> <<>>] BY <2>2
  <2> QED BY <1>2, <2>1, <2>3
<1> QED BY <1>1, <1>2

\* The deferred recorders see the response that went out.
LEMMA FinishStep == ASSUME Answers, Finish PROVE Answers'
<1>1. hpc = "return" /\ hpc' = "sent" /\ UNCHANGED <<traffic, request, object, copies>> BY DEF Finish
<1>2. /\ RecordersSound /\ logged = <<>> /\ measured = <<>> /\ w \in Writer
      /\ panic \in {"nil", "panic", "abort"} /\ (Plain \/ NotModified \/ Image)
  BY <1>1 DEF Answers, ResponseSound, HttpTypeOK
<1>3. PICK x \in Writer : x = w BY <1>2
<1>4. PICK p \in {"nil", "panic", "abort"} : p = panic BY <1>2
<1>5. PICK q : q = IF p = "panic" THEN "nil" ELSE p OBVIOUS
<1>6. PICK v : v = IF p = "panic" /\ ~x.logging.wrote THEN writeJSON(x, 500) ELSE x OBVIOUS
<1>7. PICK o : o = middleware([w |-> w, panic |-> panic, logged |-> logged, measured |-> measured]) OBVIOUS
<1>8. /\ o.w = v /\ o.panic = q
      /\ o.logged = IF q # "nil" THEN <<>> ELSE <<v.logging.status>>
      /\ o.measured = IF q # "nil" \/ request.route = "service" THEN <<>> ELSE <<v.measuring.status>>
  <2>1. PICK r : r = recovering([w |-> x, panic |-> p, logged |-> <<>>, measured |-> <<>>]) OBVIOUS
  <2>2. r = [w |-> v, panic |-> q, logged |-> <<>>, measured |-> <<>>] BY <1>5, <1>6, <2>1, RecoveringFacts
  <2>3. o = measuring(logging(r)) BY <1>2, <1>3, <1>4, <1>7, <2>1 DEF middleware
  <2> QED BY <2>2, <2>3, BookFacts
<1>9. /\ x.status = 0 => x.body = <<>>
      /\ x.logging.status = (IF x.status = 0 THEN 200 ELSE x.status)
      /\ x.measuring.status = (IF x.status = 0 THEN 200 ELSE x.status)
      /\ x.logging.wrote <=> x.status # 0
      /\ x.measuring.wrote <=> x.status # 0
  BY <1>2, <1>3 DEF RecordersSound
\* The response after recovering.
<1>10. /\ v \in Writer
       /\ v.logging.status = (IF v.status = 0 THEN 200 ELSE v.status)
       /\ v.measuring.status = (IF v.status = 0 THEN 200 ELSE v.status)
       /\ v = x \/ (/\ x.status = 0 /\ v.status = 500 /\ Len(v.body) = 1
                    /\ v.length = x.length /\ v.etag = x.etag /\ v.cached = x.cached)
  <2>1. CASE ~(p = "panic" /\ ~x.logging.wrote)
    <3>1. v = x BY <1>6, <2>1
    <3> QED BY <1>9, <3>1
  <2>2. CASE p = "panic" /\ ~x.logging.wrote
    <3>1. x.status = 0 /\ ~x.measuring.wrote /\ x.body = <<>> BY <1>9, <2>2
    <3>2. v = Write(WriteHeader(x, 500), "json") BY <1>6, <2>2 DEF writeJSON
    <3>3. /\ v \in Writer /\ v.status = 500 /\ v.body = <<"json">>
          /\ v.logging = [status |-> 500, wrote |-> TRUE] /\ v.measuring = [status |-> 500, wrote |-> TRUE]
          /\ v.length = x.length /\ v.etag = x.etag /\ v.cached = x.cached
      BY <2>2, <3>1, <3>2, TextFacts
    <3>4. Len(v.body) = 1 BY <3>3
    <3> QED BY <3>1, <3>3, <3>4
  <2> QED BY <2>1, <2>2
<1>11. PICK y : y = IF v.status = 0 /\ q = "nil" THEN [v EXCEPT !.status = 200] ELSE v OBVIOUS
<1>12. w' = y /\ panic' = q /\ logged' = o.logged /\ measured' = o.measured
  BY <1>7, <1>8, <1>11 DEF Finish
<1>13. /\ y \in Writer
       /\ y.status = IF v.status = 0 /\ q = "nil" THEN 200 ELSE v.status
       /\ y.length = v.length /\ y.etag = v.etag /\ y.cached = v.cached /\ y.body = v.body
  BY <1>10, <1>11 DEF Writer
<1>14. q \in {"nil", "abort"} BY <1>5
<1>15. q = "nil" => v.logging.status = y.status /\ v.measuring.status = y.status /\ y.status # 0
  BY <1>10, <1>13
<1>16. logged' \in Seq(Nat) /\ measured' \in Seq(Nat)
  <2>1. v.logging.status \in Nat /\ v.measuring.status \in Nat BY <1>10 DEF Writer, Recorder
  <2> QED BY <1>8, <1>12, <2>1
<1>17. HttpTypeOK' BY <1>1, <1>12, <1>13, <1>14, <1>16 DEF Answers, HttpTypeOK
<1>18. Booked' BY <1>1, <1>8, <1>12, <1>15 DEF Booked
<1>19. CopiesSound' BY <1>1 DEF Answers, CopiesSound
<1>20. Plain' \/ NotModified' \/ Image' \/ Spoiled'
  <2>1. CASE v = x /\ Plain
    <3>1. y.length = NoLength /\ y.etag = Absent /\ ~y.cached /\ y.status # 304
      BY <1>3, <1>13, <2>1 DEF Plain
    <3> QED BY <1>12, <3>1 DEF Plain
  <2>2. CASE v = x /\ NotModified
    <3>1. /\ y.status = 304 /\ y.length = NoLength /\ y.etag = quoteETag(object)
          /\ matchETag(request.ifNoneMatch, y.etag)
      BY <1>3, <1>13, <2>2 DEF NotModified
    <3> QED BY <1>1, <1>12, <3>1 DEF NotModified, quoteETag, matchETag
  <2>3. CASE v = x /\ Image
    <3>1. /\ object \in Objects /\ y.length = BodyLen /\ y.etag = quoteETag(object)
          /\ y.status \in {0, 200} /\ Len(y.body) <= BodyLen /\ \A i \in DOMAIN y.body : y.body[i] = object
      BY <1>3, <1>13, <2>3 DEF Image
    <3> QED BY <1>1, <1>12, <3>1 DEF Image, quoteETag
  <2>4. CASE v # x
    <3>1. /\ x.status = 0 /\ v.status = 500 /\ Len(v.body) = 1
          /\ v.length = x.length /\ v.etag = x.etag /\ v.cached = x.cached
      BY <1>10, <2>4
    <3>2. y.status = 500 /\ Len(y.body) = 1 /\ y.length = x.length /\ y.etag = x.etag /\ y.cached = x.cached
      BY <1>13, <3>1
    <3>3. CASE Plain
      <4>1. y.length = NoLength /\ y.etag = Absent /\ ~y.cached BY <1>3, <3>2, <3>3 DEF Plain
      <4> QED BY <1>12, <3>2, <4>1 DEF Plain
    <3>4. CASE NotModified BY <1>3, <3>1, <3>4 DEF NotModified
    <3>5. CASE Image
      <4>1. y.length = BodyLen BY <1>3, <3>2, <3>5 DEF Image
      <4> QED BY <1>12, <3>2, <4>1 DEF Spoiled
    <3> QED BY <1>2, <3>3, <3>4, <3>5
  <2> QED BY <1>2, <2>1, <2>2, <2>3, <2>4
<1>21. ResponseSound' BY <1>1, <1>12, <1>14, <1>15, <1>20 DEF ResponseSound
<1> QED BY <1>17, <1>18, <1>19, <1>21 DEF Answers

\* A fresh response is sound.
LEMMA AnswersInit == ASSUME Init PROVE Answers
<1>1. /\ traffic \in {"uploads", "reads", "limited"}
      /\ hpc = "idle" /\ request = NewRequest /\ object = Absent /\ w = NewWriter
      /\ panic = "nil" /\ logged = <<>> /\ measured = <<>>
      /\ DOMAIN copies = {}
  BY DEF Init
<1>2. /\ request \in [route : Routes, ifNoneMatch : SUBSET (Objects \cup {"*"}), header : Owners]
      /\ request.ifNoneMatch = {}
  BY <1>1 DEF NewRequest, Routes, Owners
<1>3. HttpTypeOK BY <1>1, <1>2, NewWriterFacts DEF HttpTypeOK
<1>4. RecordersSound BY <1>1, NewWriterFacts DEF RecordersSound
<1>5. ResponseSound BY <1>1, <1>4 DEF ResponseSound
<1>6. CopiesSound BY <1>1, <1>2 DEF CopiesSound
<1> QED BY <1>1, <1>3, <1>5, <1>6 DEF Answers, Booked

\* Nothing of a response changes.
LEMMA AnswersStay == ASSUME Answers, UNCHANGED <<traffic, http>> PROVE Answers'
<1>1. UNCHANGED <<traffic, hpc, request, object, w, panic, logged, measured, copies>> BY DEF http
<1>2. HttpTypeOK' BY <1>1 DEF Answers, HttpTypeOK
<1>3. /\ RecordersSound' <=> RecordersSound
      /\ Plain' <=> Plain
      /\ NotModified' <=> NotModified
      /\ Image' <=> Image
      /\ Spoiled' <=> Spoiled
  BY <1>1 DEF RecordersSound, Plain, NotModified, Image, Spoiled, quoteETag, matchETag
<1>4. ResponseSound' BY <1>1, <1>3 DEF Answers, ResponseSound
<1>5. CopiesSound' /\ Booked' BY <1>1 DEF Answers, CopiesSound, Booked
<1> QED BY <1>2, <1>4, <1>5 DEF Answers

\* Every step keeps the response, the recorders and the copies sound.
LEMMA AnswersStep ==
  ASSUME Answers, IntakeTypeOK, IntakeSound, [Next]_vars PROVE Answers'
<1>1. CASE Serve
  <2>1. form \in Forms BY DEF IntakeTypeOK
  <2> QED BY <1>1, <2>1, ServeStep
<1>2. CASE ServeLimited BY <1>2, ServeLimitedStep
<1>3. CASE rateLimiting BY <1>3, LimitingStep
<1>4. CASE AnswerJSON BY <1>4, JSONStep
<1>5. CASE AnswerPage BY <1>5, PageStep
<1>6. CASE AnswerUpload BY <1>6, UploadStep
<1>7. CASE OpenContent BY <1>7, OpenStep
<1>8. CASE WriteHeaders BY <1>8, HeadersStep
<1>9. CASE Copy BY <1>9, CopyStep
<1>10. CASE Finish BY <1>10, FinishStep
<1>11. CASE Keep BY <1>11, KeepStep
<1>12. CASE Pass BY <1>12, AnswersStay DEF Pass
<1>13. CASE Render BY <1>13, AnswersStay DEF Render
<1>14. CASE UNCHANGED vars
  <2>1. UNCHANGED <<traffic, http>> BY <1>14 DEF vars
  <2> QED BY <2>1, AnswersStay
<1> QED
  BY <1>1, <1>2, <1>3, <1>4, <1>5, <1>6, <1>7, <1>8, <1>9, <1>10, <1>11, <1>12, <1>13, <1>14
  DEF Next

\* The whole inductive invariant of Http: the types, the buckets, the uploads, the kinds
\* of response there are, what clients keep, and the books.
THEOREM HttpIsSound == Spec => []IInv
<1> DEFINE Inv == /\ LimiterTypeOK /\ BucketsSound
                  /\ IntakeTypeOK /\ IntakeSound
                  /\ Answers
<1>1. Init => Inv BY LimiterInit, IntakeStart, AnswersInit
<1>2. Inv /\ [Next]_vars => Inv'
  BY LimiterSteps, LimiterStep, IntakeSteps, IntakeStep, AnswersStep
<1>3. Inv => IInv BY DEF IInv, Answers, TypeOK, RecordedIsSent, Booked
<1> QED BY <1>1, <1>2, <1>3, PTL DEF Spec

\* Every request that was not aborted has one log record and one measurement, with the
\* status that was sent, wherever its handler panicked.
THEOREM BooksAreTrue == Spec => []RecordedIsSent
<1>1. IInv => RecordedIsSent BY DEF IInv
<1> QED BY <1>1, HttpIsSound, PTL

\* A client never takes a piece of an image for the whole, nor keeps an error in its place.
THEOREM ImagesAreWhole == Spec => []WholeOrSeen
<1>1. IInv => WholeOrSeen
  <2> SUFFICES ASSUME IInv, hpc = "sent", Complete
               PROVE  /\ w.length # NoLength /\ w.status = 200 => w.body = [i \in 1..BodyLen |-> object]
                      /\ w.cached => w.status \in {200, 304}
    BY DEF WholeOrSeen
  <2>1. Plain \/ NotModified \/ Image \/ Spoiled BY DEF IInv, ResponseSound
  <2>2. /\ panic \in {"nil", "panic", "abort"} /\ w \in Writer BY DEF IInv, TypeOK, HttpTypeOK
  <2>3. panic = "nil" /\ w.status # 0 BY <2>2 DEF IInv, ResponseSound, Complete
  <2>4. CASE Plain BY <2>4 DEF Plain
  <2>5. CASE NotModified BY <2>5 DEF NotModified
  <2>6. CASE Image
    <3>1. w.status = 200 BY <2>3, <2>6 DEF Image
    <3>2. PICK b \in Seq(Chunks) : b = w.body BY <2>2 DEF Writer
    <3>3. Len(b) = BodyLen /\ \A i \in DOMAIN b : b[i] = object
      BY <2>6, <3>2, ConstantFacts DEF Complete, Image
    <3>4. b = [i \in 1..BodyLen |-> object] BY <3>3
    <3> QED BY <3>1, <3>2, <3>4
  <2>7. CASE Spoiled BY <2>7, ConstantFacts DEF Spoiled, Complete
  <2> QED BY <2>1, <2>4, <2>5, <2>6, <2>7
<1> QED BY <1>1, HttpIsSound, PTL

\* 304 is answered only to a client that keeps the very image it would be sent.
THEOREM NotModifiedsAreTrue == Spec => []NotModifiedIsTrue
<1>1. IInv => NotModifiedIsTrue
  <2> SUFFICES ASSUME IInv, hpc = "sent", w.status = 304, "*" \notin request.ifNoneMatch
               PROVE  w.etag \in DOMAIN copies /\ copies[w.etag] = [i \in 1..BodyLen |-> object]
    BY DEF NotModifiedIsTrue
  <2>1. NotModified BY DEF IInv, ResponseSound, Plain, Image, Spoiled
  <2>2. w.etag = quoteETag(object) /\ w.etag # Absent /\ {w.etag, "*"} \cap request.ifNoneMatch # {}
    BY <2>1 DEF NotModified, matchETag
  <2>3. w.etag = object BY <2>2 DEF quoteETag
  <2>4. w.etag \in request.ifNoneMatch /\ w.etag # "*" BY <2>2
  <2>5. request.ifNoneMatch \subseteq DOMAIN copies \cup {"*"} BY DEF IInv, CopiesSound
  <2>6. w.etag \in DOMAIN copies BY <2>4, <2>5
  <2>7. PICK e \in DOMAIN copies : e = w.etag /\ e = object BY <2>3, <2>6
  <2>8. copies[e] = [i \in 1..BodyLen |-> e] BY DEF IInv, CopiesSound
  <2> QED BY <2>7, <2>8
<1> QED BY <1>1, HttpIsSound, PTL
=============================================================================
