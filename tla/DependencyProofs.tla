-------------------------- MODULE DependencyProofs --------------------------
(***************************************************************************)
(* What holds between the process and the services it depends on.  Of      *)
(* Health: what it reports, for any number of requests and of changes of   *)
(* the dependencies.  Of Breaker: whom it lets through and when it opens,  *)
(* for any number of callers, failures and cancellations and any           *)
(* threshold.                                                              *)
(***************************************************************************)
EXTENDS Health, Breaker, FiniteSetTheorems, TLAPS

(* Health: what a check has seen. *)

\* A change of a condition is seen by the checks that are under way and by no other.
LEMMA WatchedSeen ==
  ASSUME TypeOK, ChecksSound, state' \in [Components -> Conditions], seen' = Watched(state'),
         UNCHANGED <<check, ping>>
  PROVE  ChecksSound' /\ seen' \in [Probes -> [Components -> SUBSET Conditions]]
<1>1. ASSUME NEW p \in Probes, NEW c \in Components
      PROVE  seen'[p][c] = IF check[p][c] = "pinging" THEN seen[p][c] \cup {state'[c]} ELSE seen[p][c]
  BY DEF Watched
<1>2. ASSUME NEW p \in Probes, NEW c \in Components
      PROVE  seen[p][c] \in SUBSET Conditions /\ state'[c] \in Conditions
  BY DEF TypeOK
<1>3. seen' \in [Probes -> [Components -> SUBSET Conditions]]
  BY <1>2 DEF Watched
<1>4. ASSUME NEW p \in Probes, NEW c \in Components, check[p][c] = "pinging"
      PROVE  state[c] \in seen[p][c] /\ state'[c] \in seen'[p][c] /\ seen[p][c] \subseteq seen'[p][c]
  BY <1>1, <1>4 DEF ChecksSound
<1>5. ASSUME NEW p \in Probes, NEW c \in Components
      PROVE  /\ check'[p][c] = "pinging" => state'[c] \in seen'[p][c]
             /\ check'[p][c] = "ok" => "up" \in seen'[p][c]
             /\ check'[p][c] = "unavailable" => seen'[p][c] # {"up"}
  BY <1>1, <1>4 DEF ChecksSound
<1>6. ASSUME NEW p \in Probes, check'[p]["broker"] = "pinging"
      PROVE  /\ ping'[p] = "ok" => "up" \in seen'[p]["broker"]
             /\ ping'[p] = "unavailable" => seen'[p]["broker"] # {"up"}
             /\ ping'[p] = "ended" => "closed" \in seen'[p]["broker"]
  <2>1. "broker" \in Components BY DEF Components
  <2>2. seen[p]["broker"] \subseteq seen'[p]["broker"] /\ state["broker"] \in seen[p]["broker"]
    BY <1>4, <1>6, <2>1
  <2>3. seen[p]["broker"] # {"up"} => seen'[p]["broker"] # {"up"} BY <2>2
  <2> QED BY <1>6, <2>1, <2>2, <2>3 DEF ChecksSound
<1> QED BY <1>3, <1>5, <1>6 DEF ChecksSound

\* The result of one check is noted where the check was under way.
LEMMA CheckEnds ==
  ASSUME NEW p \in Probes, NEW c \in Components, NEW r \in {"ok", "unavailable"},
         IInv, check[p][c] = "pinging", Checked(p, c, r), UNCHANGED <<state, changes, pc, gone, seen>>,
         \/ UNCHANGED ping
         \/ ping' = [ping EXCEPT ![p] = "ended"] /\ c = "broker",
         r = "ok" => "up" \in seen[p][c],
         r = "unavailable" => seen[p][c] # {"up"}
  PROVE  IInv'
<1>0. TypeOK /\ ChecksSound /\ AnswersSound BY DEF IInv
<1>1. /\ check' \in [Probes -> [Components -> {"none", "pinging", "ok", "unavailable"}]]
      /\ check'[p][c] = r
      /\ \A q \in Probes, d \in Components : <<q, d>> # <<p, c>> => check'[q][d] = check[q][d]
  BY <1>0 DEF TypeOK, Checked
<1>2. ping' \in [Probes -> PingPC] /\ (\A q \in Probes : q # p => ping'[q] = ping[q])
      /\ (c # "broker" => ping' = ping)
  BY <1>0 DEF TypeOK, PingPC
<1>3. \A q \in Probes, d \in Components : check'[q][d] = "pinging" => check[q][d] = "pinging" /\ <<q, d>> # <<p, c>>
  BY <1>1
<1>4. TypeOK' BY <1>0, <1>1, <1>2, <1>3 DEF TypeOK
<1>5. \A q \in Probes : check'[q]["broker"] = "pinging" => ping'[q] = ping[q]
  BY <1>2, <1>3 DEF Components
<1>6. ASSUME NEW q \in Probes, NEW d \in Components
      PROVE  /\ check'[q][d] = "pinging" => state'[d] \in seen'[q][d]
             /\ check'[q][d] = "ok" => "up" \in seen'[q][d]
             /\ check'[q][d] = "unavailable" => seen'[q][d] # {"up"}
  <2>1. CASE <<q, d>> = <<p, c>> BY <1>1, <2>1
  <2>2. CASE <<q, d>> # <<p, c>> BY <1>0, <1>1, <2>2 DEF ChecksSound
  <2> QED BY <2>1, <2>2
<1>7. ASSUME NEW q \in Probes, check'[q]["broker"] = "pinging"
      PROVE  /\ ping'[q] = "ok" => "up" \in seen'[q]["broker"]
             /\ ping'[q] = "unavailable" => seen'[q]["broker"] # {"up"}
             /\ ping'[q] = "ended" => "closed" \in seen'[q]["broker"]
  <2>1. check[q]["broker"] = "pinging" /\ ping'[q] = ping[q] BY <1>3, <1>5, <1>7 DEF Components
  <2> QED BY <1>0, <2>1 DEF ChecksSound
<1>8. ChecksSound' BY <1>6, <1>7 DEF ChecksSound
<1>9. pc[p] = "waiting" BY <1>0 DEF TypeOK
<1>10. ASSUME NEW q \in Probes
       PROVE  /\ pc'[q] = "idle" <=> \E d \in Components : check'[q][d] = "none"
              /\ pc'[q] = "idle" => ping'[q] = "none"
              /\ pc'[q] = "ok" => \A d \in Components : check'[q][d] = "ok"
              /\ pc'[q] = "degraded" => \E d \in Components : check'[q][d] = "unavailable"
  <2>1. CASE q = p
    <3>1. pc'[p] = "waiting" /\ ~\E d \in Components : check[p][d] = "none" BY <1>0, <1>9 DEF AnswersSound
    <3>2. ~\E d \in Components : check'[p][d] = "none" BY <1>1, <3>1
    <3> QED BY <2>1, <3>1, <3>2
  <2>2. CASE q # p
    <3>1. \A d \in Components : check'[q][d] = check[q][d] BY <1>1, <2>2
    <3>2. pc'[q] = pc[q] /\ ping'[q] = ping[q] BY <1>2, <2>2
    <3> QED BY <1>0, <3>1, <3>2 DEF AnswersSound
  <2> QED BY <2>1, <2>2
<1>11. AnswersSound' BY <1>10 DEF AnswersSound
<1> QED BY <1>4, <1>8, <1>11 DEF IInv
-----------------------------------------------------------------------------
(* The steps. *)

\* A probe starts with what every check sees first.
LEMMA HealthStarts ==
  ASSUME NEW p \in Probes, IInv, health(p)
  PROVE  IInv'
<1>0. TypeOK /\ ChecksSound /\ AnswersSound BY DEF IInv
<1>1. /\ pc' = [pc EXCEPT ![p] = "waiting"]
      /\ check' \in [Probes -> [Components -> {"none", "pinging", "ok", "unavailable"}]]
      /\ seen' \in [Probes -> [Components -> SUBSET Conditions]]
      /\ ping' \in [Probes -> PingPC]
      /\ \A c \in Components : check'[p][c] = "pinging" /\ seen'[p][c] = {state[c]}
      /\ ping'[p] = (IF state["broker"] = "closed" THEN "ended" ELSE "asking")
      /\ \A q \in Probes : q # p => check'[q] = check[q] /\ seen'[q] = seen[q] /\ ping'[q] = ping[q]
      /\ UNCHANGED <<state, changes, gone>>
  BY <1>0 DEF health, TypeOK, PingPC, Components
<1>2. pc' \in [Probes -> {"idle", "waiting", "ok", "degraded"}] /\ pc'[p] = "waiting"
      /\ \A q \in Probes : q # p => pc'[q] = pc[q]
  BY <1>0, <1>1 DEF TypeOK
<1>3. TypeOK' BY <1>0, <1>1, <1>2 DEF TypeOK
<1>4. "broker" \in Components BY DEF Components
<1>5. ASSUME NEW q \in Probes
      PROVE  /\ \A c \in Components :
                  /\ check'[q][c] = "pinging" => state'[c] \in seen'[q][c]
                  /\ check'[q][c] = "ok" => "up" \in seen'[q][c]
                  /\ check'[q][c] = "unavailable" => seen'[q][c] # {"up"}
             /\ check'[q]["broker"] = "pinging" =>
                  /\ ping'[q] = "ok" => "up" \in seen'[q]["broker"]
                  /\ ping'[q] = "unavailable" => seen'[q]["broker"] # {"up"}
                  /\ ping'[q] = "ended" => "closed" \in seen'[q]["broker"]
  <2>1. CASE q = p BY <1>1, <1>4, <2>1
  <2>2. CASE q # p
    <3>1. check'[q] = check[q] /\ seen'[q] = seen[q] /\ ping'[q] = ping[q] /\ state' = state BY <1>1, <2>2
    <3> QED BY <1>0, <3>1 DEF ChecksSound
  <2> QED BY <2>1, <2>2
<1>6. ChecksSound' BY <1>5 DEF ChecksSound
<1>7. ASSUME NEW q \in Probes
      PROVE  /\ pc'[q] = "idle" <=> \E c \in Components : check'[q][c] = "none"
             /\ pc'[q] = "idle" => ping'[q] = "none"
             /\ pc'[q] = "ok" => \A c \in Components : check'[q][c] = "ok"
             /\ pc'[q] = "degraded" => \E c \in Components : check'[q][c] = "unavailable"
  <2>1. CASE q = p BY <1>1, <1>2, <2>1
  <2>2. CASE q # p
    <3>1. check'[q] = check[q] /\ pc'[q] = pc[q] /\ ping'[q] = ping[q] BY <1>1, <1>2, <2>2
    <3> QED BY <1>0, <3>1 DEF AnswersSound
  <2> QED BY <2>1, <2>2
<1>8. AnswersSound' BY <1>7 DEF AnswersSound
<1> QED BY <1>3, <1>6, <1>8 DEF IInv

\* The goroutine of Conn.Ping learns the condition of the broker as a check sees it.
LEMMA QueueChecked ==
  ASSUME NEW p \in Probes, IInv, checkQueue(p)
  PROVE  IInv'
<1>0. TypeOK /\ ChecksSound /\ AnswersSound /\ "broker" \in Components BY DEF IInv, Components
<1>1. /\ ping' \in [Probes -> PingPC] /\ \A q \in Probes : q # p => ping'[q] = ping[q]
      /\ ping'[p] = (IF state["broker"] = "up" THEN "ok" ELSE "unavailable") /\ ping[p] = "asking"
      /\ UNCHANGED <<state, changes, pc, gone, check, seen>>
  BY <1>0 DEF checkQueue, TypeOK, PingPC
<1>2. TypeOK' BY <1>0, <1>1 DEF TypeOK
<1>3. ASSUME NEW q \in Probes, check'[q]["broker"] = "pinging"
      PROVE  /\ ping'[q] = "ok" => "up" \in seen'[q]["broker"]
             /\ ping'[q] = "unavailable" => seen'[q]["broker"] # {"up"}
             /\ ping'[q] = "ended" => "closed" \in seen'[q]["broker"]
  BY <1>0, <1>1, <1>3 DEF ChecksSound
<1>4. ChecksSound' BY <1>0, <1>1, <1>3 DEF ChecksSound
<1>5. AnswersSound' BY <1>0, <1>1 DEF AnswersSound
<1> QED BY <1>2, <1>4, <1>5 DEF IInv

\* The answer of the goroutine is thrown away when the check has given up.
LEMMA DoneUnheard ==
  ASSUME NEW p \in Probes, IInv, Done(p), check[p]["broker"] # "pinging"
  PROVE  IInv'
<1>0. TypeOK /\ ChecksSound /\ AnswersSound BY DEF IInv
<1>1. /\ ping' \in [Probes -> PingPC] /\ (\A q \in Probes : q # p => ping'[q] = ping[q])
      /\ ping[p] # "none" /\ ping'[p] = "ended"
      /\ UNCHANGED <<state, changes, pc, gone, check, seen>>
  BY <1>0 DEF Done, TypeOK, PingPC
<1>2. TypeOK' BY <1>0, <1>1 DEF TypeOK
<1>3. ASSUME NEW q \in Probes, check'[q]["broker"] = "pinging" PROVE ping'[q] = ping[q]
  BY <1>1, <1>3
<1>4. ChecksSound' BY <1>0, <1>1, <1>3 DEF ChecksSound
<1>5. AnswersSound' BY <1>0, <1>1 DEF AnswersSound
<1> QED BY <1>2, <1>4, <1>5 DEF IInv

\* The handler answers only with results of checks that have ended.
LEMMA Answered ==
  ASSUME NEW p \in Probes, IInv, Answer(p)
  PROVE  IInv'
<1>0. TypeOK /\ ChecksSound /\ AnswersSound BY DEF IInv
<1>1. /\ pc' = [pc EXCEPT ![p] = Verdict(p)] /\ pc[p] = "waiting" /\ Verdict(p) \in {"ok", "degraded"}
      /\ UNCHANGED <<state, changes, gone, check, seen, ping>>
  BY DEF Answer, Verdict
<1>2. /\ pc' \in [Probes -> {"idle", "waiting", "ok", "degraded"}] /\ pc'[p] = Verdict(p)
      /\ \A q \in Probes : q # p => pc'[q] = pc[q]
  BY <1>0, <1>1 DEF TypeOK
<1>3. \A c \in Components : check[p][c] \in {"ok", "unavailable"}
  BY <1>0, <1>1 DEF Answer, Waited, TypeOK, AnswersSound
<1>4. /\ Verdict(p) = "ok" => \A c \in Components : check[p][c] = "ok"
      /\ Verdict(p) = "degraded" => \E c \in Components : check[p][c] = "unavailable"
  BY <1>3 DEF Verdict
<1>5. \A q \in Probes, c \in Components : check[q][c] = "pinging" => q # p BY <1>3
<1>6. TypeOK' BY <1>0, <1>1, <1>2, <1>5 DEF TypeOK
<1>7. ChecksSound' BY <1>0, <1>1 DEF ChecksSound
<1>8. AnswersSound' BY <1>0, <1>1, <1>2, <1>3, <1>4 DEF AnswersSound
<1> QED BY <1>6, <1>7, <1>8 DEF IInv

\* Every step of a probe, of a ping and of a dependency keeps the invariant.
LEMMA HealthStep == IInv /\ [Next]_vars => IInv'
<1> SUFFICES ASSUME IInv, [Next]_vars PROVE IInv' OBVIOUS
<1>0. TypeOK /\ ChecksSound /\ AnswersSound /\ "broker" \in Components BY DEF IInv, Components
<1>1. ASSUME UNCHANGED <<pc, gone, check, ping>>, state' \in [Components -> Conditions],
             seen' = Watched(state'), changes' \in 0..MaxChanges
      PROVE  IInv'
  <2>1. ChecksSound' /\ seen' \in [Probes -> [Components -> SUBSET Conditions]] BY <1>0, <1>1, WatchedSeen
  <2>2. TypeOK' BY <1>0, <1>1, <2>1 DEF TypeOK
  <2>3. AnswersSound' BY <1>0, <1>1 DEF AnswersSound
  <2> QED BY <2>1, <2>2, <2>3 DEF IInv
<1>2. ASSUME NEW c \in Components, Change(c) PROVE IInv'
  <2>1. changes' \in 0..MaxChanges BY <1>0, <1>2, HealthAssumption DEF Change, TypeOK
  <2>2. state' \in [Components -> Conditions] BY <1>0, <1>2 DEF Change, TypeOK, Conditions
  <2> QED BY <1>1, <1>2, <2>1, <2>2 DEF Change
<1>3. CASE Heartbeat
  <2>1. state' \in [Components -> Conditions] BY <1>0, <1>3 DEF Heartbeat, TypeOK, Conditions
  <2> QED BY <1>0, <1>1, <1>3, <2>1 DEF Heartbeat, TypeOK
<1>4. ASSUME NEW p \in Probes, Leave(p) PROVE IInv'
  <2>1. TypeOK' BY <1>0, <1>4 DEF Leave, TypeOK
  <2>2. ChecksSound' /\ AnswersSound' BY <1>0, <1>4 DEF Leave, ChecksSound, AnswersSound
  <2> QED BY <2>1, <2>2 DEF IInv
<1>5. ASSUME NEW p \in Probes, NEW c \in Components, Ping(p, c) PROVE IInv'
  <2>1. state[c] \in seen[p][c] BY <1>0, <1>5 DEF Ping, ChecksSound
  <2>2. CASE state[c] = "up" BY <1>5, <2>1, <2>2, CheckEnds DEF Ping
  <2>3. CASE state[c] = "down"
    <3>1. seen[p][c] # {"up"} BY <2>1, <2>3
    <3> QED BY <1>5, <2>3, <3>1, CheckEnds DEF Ping
  <2> QED BY <1>5, <2>2, <2>3 DEF Ping
<1>6. ASSUME NEW p \in Probes, Done(p) PROVE IInv'
  <2>1. CASE check[p]["broker"] = "pinging"
    <3>1. ping[p] = "ok" => "up" \in seen[p]["broker"] BY <1>0, <2>1 DEF ChecksSound
    <3>2. ping[p] = "unavailable" => seen[p]["broker"] # {"up"} BY <1>0, <2>1 DEF ChecksSound
    <3> QED BY <1>0, <1>6, <2>1, <3>1, <3>2, CheckEnds DEF Done
  <2> QED BY <1>6, <2>1, DoneUnheard
<1>7. ASSUME NEW p \in Probes, IsClosed(p) PROVE IInv'
  <2>1. "closed" \in seen[p]["broker"] BY <1>0, <1>7 DEF IsClosed, ChecksSound
  <2>2. seen[p]["broker"] # {"up"} BY <2>1
  <2> QED BY <1>0, <1>7, <2>2, CheckEnds DEF IsClosed
<1>8. ASSUME NEW p \in Probes, NEW c \in Components, checkStatus(p, c) PROVE IInv'
  <2>1. seen[p][c] # {"up"} BY <1>8 DEF checkStatus, Expired
  <2> QED BY <1>8, <2>1, CheckEnds DEF checkStatus
<1>9. CASE UNCHANGED vars BY <1>0, <1>9 DEF vars, IInv, TypeOK, ChecksSound, AnswersSound
<1> QED
  BY <1>2, <1>3, <1>4, <1>5, <1>6, <1>7, <1>8, <1>9, HealthStarts, QueueChecked, Answered DEF Next

\* Before the first probe there are no results to be wrong.
LEMMA HealthInit == Init => IInv
<1> SUFFICES ASSUME Init PROVE IInv OBVIOUS
<1>1. TypeOK BY HealthAssumption DEF Init, TypeOK, Conditions, PingPC
<1>2. ChecksSound BY DEF Init, ChecksSound, Components
<1>3. AnswersSound BY DEF Init, AnswersSound, Components
<1> QED BY <1>1, <1>2, <1>3 DEF IInv

\* /health reports a component ok only if it was up, and unavailable only if it was not,
\* at some moment of the check, whatever answer comes late, whoever leaves and however
\* often the dependencies change; 200 stands for all of them.
THEOREM HealthIsTrue == Spec => []ReportsAreTrue
<1>1. IInv => ReportsAreTrue
  <2> SUFFICES ASSUME IInv PROVE ReportsAreTrue OBVIOUS
  <2>0. TypeOK /\ ChecksSound /\ AnswersSound BY DEF IInv
  <2>1. ASSUME NEW p \in Probes, NEW c \in Components
        PROVE  /\ check[p][c] = "ok" \/ pc[p] = "ok" => "up" \in seen[p][c]
               /\ check[p][c] = "unavailable" => seen[p][c] # {"up"}
    BY <2>0 DEF ChecksSound, AnswersSound
  <2>2. ASSUME NEW p \in Probes, pc[p] = "degraded" PROVE \E c \in Components : seen[p][c] # {"up"}
    BY <2>0, <2>2 DEF ChecksSound, AnswersSound
  <2> QED BY <2>0, <2>1, <2>2 DEF ReportsAreTrue
<1> QED BY <1>1, HealthInit, HealthStep, PTL DEF Spec
-----------------------------------------------------------------------------
(* The circuit breaker. *)

\* newBreaker: closed, with no calls and no counts.
LEMMA BreakerStarts == BreakerInit => BreakerIInv
<1> SUFFICES ASSUME BreakerInit PROVE BreakerIInv OBVIOUS
<1>1. 0 \in 0..(ConsecutiveFailures - 1) /\ MaxFaults \in 0..MaxFaults /\ MaxCancels \in 0..MaxCancels
  BY BreakerAssumption
<1>2. call \in [Callers -> 0..generation] /\ generation \in Nat \ {0} BY DEF BreakerInit
<1>3. failures \in 0..(ConsecutiveFailures - 1) /\ faults \in 0..MaxFaults /\ cancels \in 0..MaxCancels
  BY <1>1 DEF BreakerInit
<1>4. mode \in Modes /\ expired \in BOOLEAN /\ probing \in BOOLEAN /\ streak \in Nat BY DEF BreakerInit, Modes
<1>5. BreakerTypeOK BY <1>2, <1>3, <1>4 DEF BreakerTypeOK
<1> QED BY <1>5 DEF BreakerInit, BreakerIInv, CallsSound, CountSound

\* A call is let through: in a half-open breaker it is the only one.
LEMMA BeginStep ==
  ASSUME NEW c \in Callers, BreakerIInv, Begin(c)
  PROVE  BreakerIInv'
<1>0. BreakerTypeOK /\ CallsSound /\ CountSound BY DEF BreakerIInv
<1>1. /\ Generation \in Nat \ {0} /\ Generation >= generation
      /\ call' \in [Callers -> 0..Generation] /\ call'[c] = Generation /\ generation' = Generation
      /\ \A d \in Callers : d # c => call'[d] = call[d]
  BY <1>0 DEF Begin, Generation, BreakerTypeOK
<1>2. BreakerTypeOK' BY <1>0, <1>1 DEF Begin, Mode, BreakerTypeOK, Modes
<1>3. \/ mode' = "closed"
      \/ mode' = "half-open" /\ probing' = TRUE /\ \A d \in Callers : call[d] # Generation
  <2>1. CASE expired
    <3>1. mode' = "half-open" /\ probing' = TRUE /\ Generation = generation + 1
      BY <2>1 DEF Begin, Mode, Generation
    <3>2. \A d \in Callers : call[d] <= generation BY <1>0 DEF BreakerTypeOK
    <3> QED BY <1>0, <3>1, <3>2 DEF BreakerTypeOK
  <2>2. CASE ~expired
    <3>1. mode' = mode /\ Generation = generation /\ (mode = "closed" \/ (mode = "half-open" /\ ~probing))
          /\ probing' = (mode = "half-open")
      BY <2>2 DEF Begin, Admits, Mode, Generation, Probing
    <3> QED BY <1>0, <3>1 DEF CallsSound
  <2> QED BY <2>1, <2>2
<1>4. CallsSound' BY <1>1, <1>3 DEF Begin, CallsSound
<1>5. CountSound' BY <1>0, <1>3 DEF Begin, Mode, CountSound
<1> QED BY <1>2, <1>4, <1>5 DEF BreakerIInv

\* A call ends: a result of an earlier generation changes nothing, and only as many
\* failures as the breaker counts open it.
LEMMA EndStep ==
  ASSUME NEW c \in Callers, NEW err \in Results, BreakerIInv, End(c, err)
  PROVE  BreakerIInv' /\ (mode = "closed" /\ mode' = "open" => streak' >= ConsecutiveFailures)
<1>0. BreakerTypeOK /\ CallsSound /\ CountSound BY DEF BreakerIInv
<1>1. /\ call' \in [Callers -> 0..generation] /\ call'[c] = 0
      /\ \A d \in Callers : d # c => call'[d] = call[d]
      /\ streak' \in Nat /\ faults' \in 0..MaxFaults /\ cancels' \in 0..MaxCancels /\ expired' = FALSE
      /\ generation \in Nat \ {0} /\ ConsecutiveFailures \in Nat \ {0} /\ failures \in 0..(ConsecutiveFailures - 1)
      /\ \A d \in Callers : call[d] \in 0..generation /\ call'[d] \in 0..generation
      /\ 0 \in 0..(ConsecutiveFailures - 1) /\ generation + 1 \in Nat \ {0}
  <2>1. faults' \in 0..MaxFaults /\ cancels' \in 0..MaxCancels
    BY <1>0, BreakerAssumption DEF End, Outcome, BreakerTypeOK
  <2>2. streak' \in Nat BY <1>0 DEF End, BreakerTypeOK
  <2>3. call' = [call EXCEPT ![c] = 0] /\ expired' = FALSE BY DEF End
  <2> QED BY <1>0, <2>1, <2>2, <2>3, BreakerAssumption DEF BreakerTypeOK
<1>2. CASE ~IsCurrent(c)
  <2>1. /\ mode' = Mode /\ generation' = Generation /\ probing' = Probing /\ failures' = failures
    BY <1>2 DEF End
  <2>2. CASE expired
    <3>1. mode' = "half-open" /\ generation' = generation + 1 /\ probing' = FALSE
      BY <2>1, <2>2 DEF Mode, Generation, Probing
    <3>2. \A d \in Callers : call'[d] # generation' BY <1>1, <3>1
    <3>3. call' \in [Callers -> 0..generation'] BY <1>1, <3>1
    <3>4. BreakerTypeOK' BY <1>1, <2>1, <3>1, <3>3 DEF BreakerTypeOK, Modes
    <3> QED BY <1>1, <3>1, <3>2, <3>4 DEF BreakerIInv, CallsSound, CountSound
  <2>3. CASE ~expired
    <3>1. mode' = mode /\ generation' = generation /\ probing' = probing /\ call[c] # generation /\ streak' = streak
      BY <1>0, <1>2, <2>1, <2>3 DEF Mode, Generation, Probing, IsCurrent, End, BreakerTypeOK
    <3>2. BreakerTypeOK' BY <1>0, <1>1, <2>1, <3>1 DEF BreakerTypeOK
    <3>3. CallsSound' BY <1>0, <1>1, <3>1 DEF CallsSound
    <3> QED BY <1>0, <2>1, <3>1, <3>2, <3>3 DEF BreakerIInv, CountSound
  <2> QED BY <2>2, <2>3
<1>3. CASE IsCurrent(c)
  <2>1. ~expired /\ call[c] = generation /\ Generation = generation /\ Mode = mode /\ mode # "open"
    BY <1>0, <1>1, <1>3 DEF IsCurrent, Generation, Mode, CallsSound
  <2>2. streak' = IF err = "failed" THEN streak + 1 ELSE 0 BY <2>1 DEF End
  <2>3. ASSUME NEW m \in {"closed", "open"}, SetMode(m) PROVE BreakerIInv'
    <3>1. mode' = m /\ generation' = generation + 1 /\ failures' = 0 /\ probing' = FALSE
      BY <2>1, <2>3 DEF SetMode
    <3>2. \A d \in Callers : call'[d] # generation' BY <1>1, <3>1
    <3>3. call' \in [Callers -> 0..generation'] BY <1>1, <3>1
    <3>4. BreakerTypeOK' BY <1>1, <3>1, <3>3 DEF BreakerTypeOK, Modes
    <3> QED BY <1>1, <3>1, <3>2, <3>4 DEF BreakerIInv, CallsSound, CountSound
  <2>4. CASE Mode = "half-open"
    <3>1. SetMode(IF IsSuccessful(err) THEN "closed" ELSE "open") BY <1>3, <2>4 DEF End
    <3> QED BY <2>1, <2>3, <2>4, <3>1
  <2>5. CASE Mode = "closed" /\ IsSuccessful(err)
    <3>1. failures' = 0 /\ UNCHANGED <<mode, generation, probing>> BY <1>3, <2>5 DEF End
    <3>2. BreakerTypeOK' BY <1>0, <1>1, <3>1 DEF BreakerTypeOK
    <3>3. mode' = "closed" BY <2>1, <2>5, <3>1
    <3>4. streak' \in Nat BY <1>0 DEF End, BreakerTypeOK
    <3>5. CallsSound' BY <1>1, <3>3 DEF CallsSound
    <3> QED BY <3>1, <3>2, <3>4, <3>5 DEF BreakerIInv, CountSound
  <2>6. CASE Mode = "closed" /\ ~IsSuccessful(err)
    <3>0. err = "failed" BY <2>6, Zenon DEF IsSuccessful, Results
    <3>1. err = "failed" /\ streak' = streak + 1 /\ failures <= streak /\ streak \in Nat
      BY <1>0, <2>1, <2>2, <2>6, <3>0 DEF CountSound, BreakerTypeOK
    <3>2. CASE ReadyToTrip(failures + 1)
      <4>1. SetMode("open") BY <1>3, <2>6, <3>2 DEF End
      <4>2. streak' >= ConsecutiveFailures BY <1>1, <3>1, <3>2 DEF ReadyToTrip
      <4> QED BY <2>3, <4>1, <4>2
    <3>3. CASE ~ReadyToTrip(failures + 1)
      <4>1. failures' = failures + 1 /\ UNCHANGED <<mode, generation, probing>> BY <1>3, <2>6, <3>3 DEF End
      <4>2. failures' \in 0..(ConsecutiveFailures - 1) BY <1>1, <3>3, <4>1 DEF ReadyToTrip
      <4>3. BreakerTypeOK' BY <1>0, <1>1, <4>1, <4>2 DEF BreakerTypeOK
      <4>4. CountSound' BY <1>1, <3>1, <4>1 DEF CountSound
      <4> QED BY <1>1, <2>1, <2>6, <4>1, <4>3, <4>4 DEF BreakerIInv, CallsSound
    <3> QED BY <3>2, <3>3
  <2> QED BY <1>0, <2>1, <2>4, <2>5, <2>6 DEF BreakerTypeOK, Modes
<1> QED BY <1>2, <1>3

\* Every step keeps the invariant, and none opens a closed breaker before its time.
LEMMA BreakerStep ==
  ASSUME BreakerIInv, [BreakerNext]_breakerVars
  PROVE  BreakerIInv' /\ (mode = "closed" /\ mode' = "open" => streak' >= ConsecutiveFailures)
<1>1. CASE Expire BY <1>1 DEF Expire, BreakerIInv, BreakerTypeOK, CallsSound, CountSound
<1>2. ASSUME NEW c \in Callers, Begin(c) PROVE BreakerIInv' /\ ~(mode = "closed" /\ mode' = "open")
  <2>1. ~(mode = "closed" /\ mode' = "open") BY <1>2 DEF Begin, Mode
  <2> QED BY <1>2, <2>1, BeginStep
<1>3. ASSUME UNCHANGED breakerVars PROVE BreakerIInv' /\ mode' = mode
  BY <1>3 DEF breakerVars, BreakerIInv, BreakerTypeOK, CallsSound, CountSound
<1> QED BY <1>1, <1>2, <1>3, EndStep DEF BreakerNext, Refuse

\* The calls that are out and the count of failures go with the state of the breaker.
LEMMA BreakerIsSound == BreakerSpec => []BreakerIInv
<1>1. BreakerIInv /\ [BreakerNext]_breakerVars => BreakerIInv' BY BreakerStep
<1> QED BY <1>1, BreakerStarts, PTL DEF BreakerSpec

\* A dependency that may still be down gets one call at a time, whatever calls of earlier
\* generations end meanwhile.
THEOREM HalfOpenProbesOnce == BreakerSpec => []OneProbe
<1>1. BreakerIInv => OneProbe
  <2> SUFFICES ASSUME BreakerIInv, mode = "half-open"
               PROVE  Cardinality({c \in Callers : call[c] = generation}) <= 1
    BY DEF BreakerIInv, OneProbe
  <2>1. CASE {c \in Callers : call[c] = generation} = {} BY <2>1, FS_EmptySet
  <2>2. ASSUME NEW d \in {c \in Callers : call[c] = generation}
        PROVE  Cardinality({c \in Callers : call[c] = generation}) <= 1
    <3>1. {c \in Callers : call[c] = generation} = {d} BY DEF BreakerIInv, CallsSound
    <3> QED BY <3>1, FS_Singleton
  <2> QED BY <2>1, <2>2
<1> QED BY <1>1, BreakerIsSound, PTL

\* A closed breaker opens for failures in a row of its own generation alone.
THEOREM BreakerOpensOnStreak == BreakerSpec => OpensOnStreak
<1>1. BreakerIInv /\ [BreakerNext]_breakerVars => [mode = "closed" /\ mode' = "open" => streak' >= ConsecutiveFailures]_breakerVars
  BY BreakerStep
<1> QED BY <1>1, BreakerIsSound, PTL DEF BreakerSpec, OpensOnStreak
=============================================================================
