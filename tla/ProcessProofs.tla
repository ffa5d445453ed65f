--------------------------- MODULE ProcessProofs ---------------------------
(***************************************************************************)
(* The safety properties of Process, for any number of requests, messages  *)
(* and migrations: the inductive invariant IInv and what follows from it.  *)
(***************************************************************************)
EXTENDS Process, TLAPS

(* The dependencies of the three binaries. *)

\* What a step of the process does not change.
LEMMA SameDependencies ==
  ASSUME binary' = binary
  PROVE  /\ Names' = Names /\ Count' = Count /\ Last' = Last
         /\ \A i : Dependency(i)' = Dependency(i)
BY DEF Names, Count, Last, Dependency

\* The dependencies of each binary in the order run opens them.
LEMMA DependencyNames ==
  ASSUME binary \in Binaries
  PROVE  /\ Dependency(1) = "repo" /\ Last \in 1..Count /\ Count \in 1..4
         /\ binary # "migrator" =>
              Dependency(2) = "storage" /\ Dependency(3) = "broker" /\ Last = 3 /\ Count \in {3, 4}
         /\ binary = "worker" => Count = 4 /\ Dependency(4) = "consumer"
         /\ binary = "migrator" => Last = 1 /\ Count = 1
         /\ binary = "server" => Count = 3
<1>1. CASE binary = "server" BY <1>1 DEF Dependency, Dependencies, Last, Count
<1>2. CASE binary = "worker" BY <1>2 DEF Dependency, Dependencies, Last, Count
<1>3. CASE binary = "migrator" BY <1>3 DEF Dependency, Dependencies, Last, Count
<1> QED BY <1>1, <1>2, <1>3 DEF Binaries

\* Dependencies are opened from the first to the last and closed the other way
\* round, the consumer of the worker with its connection.
LEMMA FirstSets ==
  ASSUME binary \in Binaries
  PROVE  /\ First(binary, 0) = {} /\ First(binary, Count) = Names
         /\ \A n \in 1..Count : First(binary, n) = First(binary, n - 1) \cup {Dependency(n)}
         /\ \A n \in 1..Count : Dependency(n) \notin First(binary, n - 1)
         /\ Names \ {Dependency(i) : i \in Last..Count} = First(binary, Last - 1)
<1>1. ASSUME NEW n \in 1..Count PROVE First(binary, n) = First(binary, n - 1) \cup {Dependency(n)}
  <2>1. 1..n = 1..(n - 1) \cup {n} BY DependencyNames
  <2> QED BY <2>1 DEF First, Dependency
<1>2. \A i, j \in 1..Count : i < j => Dependency(i) # Dependency(j)
  BY DependencyNames DEF Binaries
<1>3. ASSUME NEW n \in 1..Count PROVE Dependency(n) \notin First(binary, n - 1)
  BY <1>2, DependencyNames DEF First, Dependency
<1>4. Names \ {Dependency(i) : i \in Last..Count} = First(binary, Last - 1)
  BY <1>2, DependencyNames DEF Names, First, Dependency
<1>5. First(binary, 0) = {} /\ First(binary, Count) = Names
  BY DEF First, Names, Count, Dependency
<1> QED BY <1>1, <1>3, <1>4, <1>5
-----------------------------------------------------------------------------
(* The configuration. *)

\* The checks of a value and its use agree, but for the size of the pool and the numbers
\* that overflow where they are used.
LEMMA ValidIsUsable ==
  ASSUME NEW b \in Binaries, NEW v \in Variables, NEW x \in Values(v)
  PROVE  /\ /\ x # "malformed" /\ Valid(v, x)
            /\ v \in {"DB_MAX_CONNS"} \cup Overflows(b) => x # "wide"
            => Usable(b, v, x)
         /\ x = "malformed" \/ ~Valid(v, x) => ~Usable(b, v, x)
<1>1. CASE v \in Strings
  <2>1. v \notin Named \cup Floats \cup {"RATE_LIMIT_BURST", "DB_MAX_CONNS", "IMAGE_JPEG_QUALITY"}
        /\ {"RATE_LIMIT_RPS", "OTEL_TRACES_SAMPLE_RATIO"} \subseteq Floats
    BY <1>1 DEF Strings, Secrets, Named, Floats
  <2>2. x \in {"empty", "ok", "other"} /\ (x = "other" => v = "APP_ENV")
    BY <1>1, <2>1 DEF Values
  <2>3. CASE v = "APP_ENV" BY <2>1, <2>2, <2>3 DEF Valid, Usable, Bounded
  <2>4. CASE v = "OTEL_EXPORTER_OTLP_ENDPOINT" BY <2>1, <2>2, <2>4 DEF Valid, Usable, Bounded
  <2>5. CASE v \notin {"APP_ENV", "OTEL_EXPORTER_OTLP_ENDPOINT"}
    BY <1>1, <2>1, <2>2, <2>5 DEF Valid, Usable, Bounded
  <2> QED BY <2>3, <2>4, <2>5
<1>2. CASE v \in Named
  BY <1>2 DEF Strings, Secrets, Named, Values, Valid, Usable, Floats, Bounded
<1>3. CASE v \in Floats
  BY <1>3 DEF Strings, Secrets, Named, Values, Valid, Usable, Floats, Bounded
<1>4. CASE v \notin Strings \cup Named \cup Floats
  BY <1>4 DEF Strings, Secrets, Named, Values, Valid, Usable, Floats, Bounded
<1> QED BY <1>1, <1>2, <1>3, <1>4

\* Every variable a binary uses is in a section it validates.
LEMMA UsedIsValidated ==
  ASSUME NEW b \in Binaries, NEW v \in Uses(b)
  PROVE  v \in Variables /\ \E s \in Validated(b) : v \in Section[s]
<1>1. CASE b = "server" BY <1>1 DEF Uses, Validated, Variables
<1>2. CASE b = "worker" BY <1>2 DEF Uses, Validated, Variables
<1>3. CASE b = "migrator"
  BY <1>3 DEF Uses, Validated, Variables, Sections, Section
<1> QED BY <1>1, <1>2, <1>3 DEF Binaries

\* What is left of the environment once it has been read: the usual values.
LEMMA UsualIsAccepted ==
  /\ \A v \in Variables : Usual[v] \in Values(v) /\ Usual[v] # "malformed" /\ Valid(v, Usual[v])
  /\ \A b \in Binaries : Accepts(b, Usual)
<1>1. ASSUME NEW v \in Variables
      PROVE  Usual[v] \in Values(v) /\ Usual[v] # "malformed" /\ Valid(v, Usual[v])
  <2>1. Section.RateLimit = {"RATE_LIMIT_RPS", "RATE_LIMIT_BURST"} BY DEF Section
  <2>2. CASE v \in Secrets
    BY <2>2 DEF Usual, Secrets, Values, Valid, Strings, Named, Floats
  <2>3. CASE v = "OTEL_EXPORTER_OTLP_ENDPOINT"
    BY <2>1, <2>3 DEF Usual, Secrets, Default, Values, Valid, Strings, Named, Floats
  <2>4. CASE v \in Section.RateLimit
    BY <2>1, <2>4 DEF Usual, Secrets, Default, Values, Valid, Strings, Named, Floats
  <2>5. CASE v \notin Secrets \cup {"OTEL_EXPORTER_OTLP_ENDPOINT"} \cup Section.RateLimit
    <3>1. Usual[v] = "ok" BY <2>5 DEF Usual, Default
    <3>2. "ok" \in Values(v) BY DEF Values, Strings, Secrets, Named, Floats
    <3>3. Valid(v, "ok") BY DEF Valid, Strings, Secrets, Named
    <3> QED BY <3>1, <3>2, <3>3
  <2> QED BY <2>2, <2>3, <2>4, <2>5
<1>2. ASSUME NEW b \in Binaries PROVE Validated(b) \subseteq Sections
  BY DEF Binaries, Validated, Sections, Section
<1> QED BY <1>1, <1>2 DEF Accepts, Parses, Variables

\* A binary goes on only with a configuration that its validation accepted.
LEMMA ConfigStep ==
  ASSUME IInv, [Next]_vars
  PROVE  ConfigSound' /\ StartsUsable'
<1>0. binary \in Binaries /\ ConfigSound /\ StartsUsable /\ PhaseSound BY DEF IInv, TypeOK
<1>1. CASE load
  <2>1. ~Accepts(binary, env) => \E v \in Variables : ~Usable(binary, v, env[v])
    <3>1. ASSUME NEW v \in Variables, env[v] = "malformed" \/ ~Valid(v, env[v]) PROVE ~Usable(binary, v, env[v])
      BY <1>0, <3>1, ValidIsUsable DEF ConfigSound
    <3>2. Validated(binary) \subseteq Sections
      BY <1>0 DEF Binaries, Validated, Sections, Section
    <3> QED BY <3>1, <3>2 DEF Accepts, Parses, Variables
  <2> QED BY <1>0, <1>1, <2>1 DEF load, conf, ConfigSound, StartsUsable
<1>2. CASE Connect
  <2>1. ASSUME NEW v \in Uses(binary), ~Usable(binary, v, env[v])
        PROVE  <<v, env[v]>> \in Overflows(binary) \X {"wide"}
    <3>1. v \in Variables /\ \E s \in Validated(binary) : v \in Section[s] BY <1>0, UsedIsValidated
    <3>2. env[v] \in Values(v) /\ env[v] # "malformed" /\ Valid(v, env[v])
      BY <1>0, <1>2, <3>1 DEF Connect, ConfigSound, Accepts, Parses
    <3>3. v = "DB_MAX_CONNS" => env[v] # "wide"
      <4>1. binary = "migrator" => v # "DB_MAX_CONNS" BY DEF Uses, Section
      <4> QED BY <1>2, <4>1 DEF Connect, Sizable
    <3>4. v \in Overflows(binary) /\ env[v] = "wide"
      BY <1>0, <2>1, <3>1, <3>2, <3>3, ValidIsUsable
    <3> QED BY <3>4
  <2>2. unfit' \subseteq Overflows(binary) \X {"wide"}
    BY <1>0, <1>2, <2>1 DEF Connect, StartsUsable
  <2>3. binary' = binary /\ env' = Usual /\ why' # "config"
    BY <1>0, <1>2 DEF Connect, PhaseSound
  <2>4. ConfigSound' BY <1>0, <2>3, UsualIsAccepted DEF ConfigSound
  <2> QED BY <2>2, <2>3, <2>4 DEF StartsUsable
<1>3. CASE Verify BY <1>0, <1>3 DEF Verify, conf, ConfigSound, StartsUsable
<1>4. CASE SetupFails BY <1>0, <1>4 DEF SetupFails, conf, ConfigSound, StartsUsable
<1>5. ASSUME UNCHANGED conf, UNCHANGED why \/ why' # "config",
             pc' \in {"connect", "verify"} => pc' = pc
      PROVE  ConfigSound' /\ StartsUsable'
  BY <1>0, <1>5 DEF conf, ConfigSound, StartsUsable
<1>6. CASE Signal \/ Tracing \/ router \/ Launch \/ Listen \/ Break \/ pump \/ Consume \/ Run
  BY <1>5, <1>6 DEF Signal, Tracing, router, Launch, Listen, Break, pump, Consume, Run
<1>7. CASE \/ ListenFails \/ MetricsFail \/ Shutdown \/ Elapse \/ Drained \/ Consumed \/ GiveUp \/ Join
          \/ Up \/ Flush \/ close \/ Exit
  BY <1>5, <1>7
  DEF ListenFails, MetricsFail, Shutdown, Elapse, Drained, Consumed, GiveUp, GivenUp, Join, Up, Flush, close, Exit
<1>8. CASE \E u \in Units : Accept(u) \/ Query(u) \/ Finish(u)
  BY <1>5, <1>8 DEF Accept, Query, Finish
<1>9. CASE UNCHANGED vars BY <1>5, <1>9 DEF vars
<1> QED
  BY ONLY [Next]_vars, <1>1, <1>2, <1>3, <1>4, <1>6, <1>7, <1>8, <1>9 DEF Next
-----------------------------------------------------------------------------
(* What is open, by where run is. *)

\* What is open is what was opened and not closed yet, in the order of run.
LEMMA OpenStep ==
  ASSUME IInv, [Next]_vars
  PROVE  OpenSound' /\ binary' = binary
<1>0. TypeOK /\ OpenSound /\ PhaseSound /\ binary \in Binaries BY DEF IInv, TypeOK
<1>1. binary' = binary
  <2>1. CASE Next
    BY <2>1 DEF Next, conf, Signal, load, Connect, Verify, SetupFails, Tracing, router, Launch, Listen, Break,
       pump, Consume, Run, ListenFails, MetricsFail, Shutdown, Elapse, Drained, Consumed, GiveUp, Join, Up,
       Flush, close, Exit, Accept, Query, Finish
  <2> QED BY <2>1 DEF vars, conf
<1>2. /\ binary' = binary /\ Names' = Names /\ Count' = Count /\ Last' = Last /\ Count \in 1..4 /\ Last \in 1..Count
      /\ First(binary, 0) = {} /\ First(binary, Count) = Names
      /\ \A n \in 1..Count : First(binary, n) = First(binary, n - 1) \cup {Dependency(n)}
      /\ \A n \in 1..Count : Dependency(n) \notin First(binary, n - 1)
      /\ Names \ {Dependency(i) : i \in Last..Count} = First(binary, Last - 1)
  BY <1>0, <1>1, SameDependencies, DependencyNames, FirstSets
<1>3. Last - 1 \in 0..Last /\ Last - 1 # Last BY <1>2
<1> SUFFICES OpenSound' BY <1>1
<1>4. CASE load
  <2>1. k' = 1 /\ open' = {} /\ pc' \in {"connect", "exited"} BY <1>0, <1>4 DEF load, OpenSound
  <2>2. k' - 1 = 0 BY <2>1
  <2>3. open' = First(binary', k' - 1) BY <1>2, <2>1, <2>2
  <2>4. k' \in 1..Count' BY <1>2, <2>1
  <2> QED BY <2>1, <2>3, <2>4 DEF OpenSound
<1>5. CASE Connect BY <1>0, <1>2, <1>5 DEF Connect, OpenSound
<1>6. CASE Verify BY <1>0, <1>2, <1>6 DEF Verify, OpenSound
<1>7. CASE SetupFails
  <2>1. open \subseteq First(binary, k) /\ k \in 1..Count BY <1>0, <1>2, <1>7 DEF SetupFails, OpenSound
  <2>2. First(binary, k) = First(binary, k - 1) \cup {Dependency(k)} BY <1>2, <2>1
  <2>3. open' = {} BY <1>7, <2>1, <2>2 DEF SetupFails, Abandoned, First, Dependency
  <2>4. pc' = "exited" BY <1>7 DEF SetupFails
  <2> QED BY <2>3, <2>4 DEF OpenSound
<1>8. ASSUME pc' = "close", k' = Last, open' = open, open = Names PROVE OpenSound'
  BY <1>2, <1>8 DEF OpenSound
<1>9. CASE Tracing BY <1>0, <1>2, <1>8, <1>9 DEF Tracing, OpenSound
<1>10. CASE Up BY <1>0, <1>2, <1>8, <1>10 DEF Up, OpenSound
<1>11. CASE Flush
  <2>1. pc' = "close" /\ k' = Last /\ open' = open /\ open = Names BY <1>0, <1>11 DEF Flush, OpenSound
  <2> QED BY <1>8, <2>1
<1>12. CASE close
  <2>1. /\ pc' = "close" /\ k' = k - 1 /\ k \in 1..Last
        /\ open' = open \ (IF k = Last THEN {Dependency(i) : i \in k..Count} ELSE {Dependency(k)})
        /\ open = IF k = Last THEN Names ELSE First(binary, k)
    BY <1>0, <1>2, <1>12 DEF close, OpenSound
  <2>2. CASE k = Last BY <1>2, <1>3, <2>1, <2>2 DEF OpenSound
  <2>3. CASE k # Last
    <3>1. k \in 1..Count /\ k - 1 \in 0..Last /\ k - 1 # Last BY <1>2, <2>1
    <3>2. First(binary, k) = First(binary, k - 1) \cup {Dependency(k)} /\ Dependency(k) \notin First(binary, k - 1)
      BY <1>2, <3>1
    <3>3. open' = First(binary, k - 1) BY <2>1, <2>3, <3>2
    <3> QED BY <1>2, <2>1, <3>1, <3>3 DEF OpenSound
  <2> QED BY <2>2, <2>3
<1>13. CASE Exit BY <1>0, <1>2, <1>13 DEF Exit, OpenSound
<1>14. ASSUME k' = k, open' = open,
              pc' = pc \/ (/\ pc \in {"tracing", "start", "serve", "await", "drain", "join", "migrate"}
                           /\ pc' \in {"start", "serve", "await", "drain", "join", "flush"})
       PROVE  OpenSound'
  BY <1>0, <1>2, <1>14 DEF OpenSound
<1>15. CASE Signal \/ router \/ Launch \/ Listen \/ Break \/ pump \/ Consume \/ Run
  BY <1>14, <1>15 DEF Signal, router, Launch, Listen, Break, pump, Consume, Run
<1>16. CASE ListenFails \/ MetricsFail \/ Shutdown \/ Elapse \/ Drained \/ Consumed \/ GiveUp \/ Join
  BY <1>14, <1>16 DEF ListenFails, MetricsFail, Shutdown, Elapse, Drained, Consumed, GiveUp, Join
<1>17. CASE \E u \in Units : Accept(u) \/ Query(u) \/ Finish(u)
  BY <1>14, <1>17 DEF Accept, Query, Finish
<1>18. CASE UNCHANGED vars BY <1>14, <1>18 DEF vars
<1> QED
  BY ONLY [Next]_vars, <1>1, <1>4, <1>5, <1>6, <1>7, <1>9, <1>10, <1>11, <1>12, <1>13, <1>15, <1>16, <1>17, <1>18
  DEF Next

\* Every step of run and of its goroutines keeps the types.
LEMMA TypeStep ==
  ASSUME IInv, [Next]_vars
  PROVE  TypeOK'
<1>0. /\ TypeOK /\ OpenSound /\ binary \in Binaries
      /\ OpenSound' /\ binary' = binary /\ NumMigrations \in Nat
  BY OpenStep, ProcessAssumption DEF IInv, TypeOK
<1>1. Names' = Names /\ Count \in 1..4 /\ Last \in 1..4 /\ \A n \in 0..Count : First(binary, n) \subseteq Names
  BY <1>0, SameDependencies, DependencyNames DEF First, Names, Dependency, Count
<1>2. /\ DOMAIN Usual = Variables
      /\ \A b \in Binaries : Uses(b) \subseteq Variables
  BY UsedIsValidated DEF Usual
<1> USE <1>0, <1>1, <1>2 DEF TypeOK
<1>3. CASE Connect
  <2>1. k \in 1..Count BY <1>3 DEF Connect, OpenSound
  <2>2. Dependency(k) \in Names BY <2>1 DEF Names
  <2>3. unfit' \subseteq Variables \X Classes
    <3>1. ASSUME NEW v \in Variables PROVE env[v] \in Classes
      BY <3>1 DEF IInv, ConfigSound, Values, Classes
    <3> QED BY <1>3, <3>1 DEF Connect
  <2> QED BY <1>3, <2>1, <2>2, <2>3 DEF Connect, routines, stops
<1>4. CASE Verify
  <2>1. k' \in 0..5 BY <1>4 DEF Verify, OpenSound
  <2> QED BY <1>4, <2>1 DEF Verify, OpenSound, conf, routines, stops
<1>5. CASE SetupFails BY <1>5 DEF SetupFails, Abandoned, conf, routines, stops
<1>6. CASE Signal BY <1>6 DEF Signal, conf, routines
<1>7. CASE load BY <1>7 DEF load, conf, routines, stops
<1>8. CASE Tracing
  BY <1>8 DEF OpenSound, Tracing, conf, routines, stops
<1>9. CASE router \/ Launch
  BY <1>9 DEF router, Launch, conf, routines, stops
<1>10. CASE Listen \/ Break \/ pump \/ Consume \/ Run
  BY <1>10 DEF Listen, Break, pump, Consume, Run, conf, routines, stops
<1>11. CASE ListenFails \/ Drained BY <1>11 DEF ListenFails, Drained, conf, routines, stops
<1>12. CASE MetricsFail BY <1>12 DEF MetricsFail, conf, routines
<1>13. CASE Shutdown BY <1>13 DEF Shutdown, conf, stops
<1>14. CASE Elapse BY <1>14 DEF Elapse, conf, routines
<1>15. CASE Consumed BY <1>15 DEF Consumed, conf, routines
<1>16. CASE GiveUp
  BY <1>16 DEF GiveUp, GivenUp, Active, conf, routines, stops
<1>17. CASE Join \/ Flush
  BY <1>17 DEF Join, Flush, conf, routines, stops
<1>18. CASE Up BY <1>18 DEF Up, conf, routines, stops
<1>19. CASE close BY <1>19 DEF close, OpenSound, conf, routines, stops
<1>20. CASE Exit BY <1>20 DEF Exit, conf, routines, stops
<1>21. CASE \E u \in Units : Accept(u) \/ Query(u) \/ Finish(u)
  BY <1>21 DEF Accept, Query, Finish, conf, routines, stops
<1>22. CASE UNCHANGED vars BY <1>22 DEF vars, conf, routines, stops
<1> QED
  BY ONLY [Next]_vars, <1>3, <1>4, <1>5, <1>6, <1>7, <1>8, <1>9, <1>10, <1>11, <1>12, <1>13,
     <1>14, <1>15, <1>16, <1>17, <1>18, <1>19, <1>20, <1>21, <1>22 DEF Next
-----------------------------------------------------------------------------
(* Why run returns. *)

\* Until run returns it has no reason to, and each reason has its cause.
LEMMA PhaseStep ==
  ASSUME IInv, [Next]_vars
  PROVE  PhaseSound'
<1>0. PhaseSound /\ RoutinesSound /\ binary \in Binaries /\ binary' = binary BY OpenStep DEF IInv, TypeOK
<1> USE <1>0 DEF PhaseSound
<1>1. CASE load BY <1>1 DEF load, stops
<1>2. CASE Connect \/ SetupFails BY <1>2 DEF Connect, SetupFails, stops
<1>3. CASE Verify BY <1>3 DEF Verify, stops
<1>4. CASE Tracing \/ router \/ Launch BY <1>4 DEF Tracing, router, Launch, stops, Binaries
<1>5. CASE Signal \/ Elapse BY <1>5 DEF Signal, Elapse
<1>6. CASE Listen \/ Break \/ pump \/ Consume \/ Run BY <1>6 DEF Listen, Break, pump, Consume, Run, stops
<1>7. CASE ListenFails \/ MetricsFail BY <1>7 DEF ListenFails, MetricsFail, stops
<1>8. CASE Shutdown \/ Drained BY <1>8 DEF Shutdown, Drained, stops
<1>9. CASE Consumed
  <2>1. binary = "worker" BY <1>9 DEF Consumed, RoutinesSound
  <2> QED BY <1>9, <2>1 DEF Consumed
<1>10. CASE GiveUp BY <1>10 DEF GiveUp, GivenUp, Expired
<1>11. CASE Join \/ Flush BY <1>11 DEF Join, Flush, stops
<1>12. CASE Up BY <1>12 DEF Up, stops
<1>13. CASE close BY <1>13 DEF close, stops
<1>14. CASE Exit BY <1>14 DEF Exit, stops
<1>15. CASE \E u \in Units : Accept(u) \/ Query(u) \/ Finish(u) BY <1>15 DEF Accept, Query, Finish, stops
<1>16. CASE UNCHANGED vars BY <1>16 DEF vars, stops
<1> QED
  BY ONLY [Next]_vars, <1>1, <1>2, <1>3, <1>4, <1>5, <1>6, <1>7, <1>8, <1>9, <1>10, <1>11, <1>12, <1>13,
     <1>14, <1>15, <1>16 DEF Next
-----------------------------------------------------------------------------
(* What may run beside run. *)

\* A goroutine is there only in the phases that wait for it, or after the limit.
LEMMA RoutinesStep ==
  ASSUME IInv, [Next]_vars
  PROVE  RoutinesSound'
<1>0. PhaseSound /\ RoutinesSound /\ binary \in Binaries /\ binary' = binary BY OpenStep DEF IInv, TypeOK
<1> USE <1>0 DEF RoutinesSound
<1>1. CASE load \/ Connect \/ SetupFails BY <1>1 DEF load, Connect, SetupFails, routines, PhaseSound
<1>2. CASE Verify BY <1>2 DEF Verify, routines
<1>3. CASE Tracing \/ router BY <1>3 DEF Tracing, router, routines
<1>4. CASE Launch BY <1>4 DEF Launch, PhaseSound
<1>5. CASE Signal \/ Elapse BY <1>5 DEF Signal, Elapse, routines
<1>6. CASE Listen \/ Break BY <1>6 DEF Listen, Break, Listening
<1>7. CASE pump \/ Consume BY <1>7 DEF pump, Consume
<1>8. CASE Run BY <1>8 DEF Run
<1>9. CASE ListenFails \/ MetricsFail BY <1>9 DEF ListenFails, MetricsFail, routines
<1>10. CASE Shutdown \/ Drained BY <1>10 DEF Shutdown, Drained, routines
<1>11. CASE Consumed BY <1>11 DEF Consumed, routines, PhaseSound
<1>12. CASE GiveUp BY <1>12 DEF GiveUp, GivenUp, routines
<1>13. CASE Join BY <1>13 DEF Join, Joined
<1>14. CASE Flush \/ Up BY <1>14 DEF Flush, Up, routines, PhaseSound
<1>15. CASE close BY <1>15 DEF close, routines
<1>16. CASE Exit BY <1>16 DEF Exit, routines
<1>17. CASE \E u \in Units : Accept(u) \/ Query(u) \/ Finish(u) BY <1>17 DEF Accept, Query, Finish, routines
<1>18. CASE UNCHANGED vars BY <1>18 DEF vars, routines
<1> QED
  BY ONLY [Next]_vars, <1>1, <1>2, <1>3, <1>4, <1>5, <1>6, <1>7, <1>8, <1>9, <1>10, <1>11, <1>12, <1>13,
     <1>14, <1>15, <1>16, <1>17, <1>18 DEF Next
-----------------------------------------------------------------------------
(* The work that is under way. *)

\* Work outlives its server or consumer, or is cut off, only for a reason that allows it.
LEMMA WorkStep ==
  ASSUME IInv, [Next]_vars
  PROVE  WorkSound'
<1>0. /\ PhaseSound /\ RoutinesSound /\ WorkSound
      /\ binary \in Binaries /\ binary' = binary /\ work \in [Units -> {"none", "running", "holding", "done", "cut"}]
  BY OpenStep DEF IInv, TypeOK
<1>1. work' = work => Active' = Active BY DEF Active
<1> USE <1>0, <1>1 DEF WorkSound
<1>2. CASE load \/ Connect \/ SetupFails
  <2>1. Active = {} /\ work' = work /\ UNCHANGED <<severed, routines>> /\ why = "none"
    BY <1>2 DEF load, Connect, SetupFails, RoutinesSound, PhaseSound, Binaries
  <2> QED BY <1>2, <2>1 DEF load, Connect, SetupFails, routines
<1>3. CASE Verify \/ Tracing \/ Signal \/ Elapse
  <2>1. CASE pc' \in {"close", "flush"} BY <1>3, <2>1 DEF Verify, Tracing, Signal, Elapse, routines, RoutinesSound, PhaseSound
  <2> QED BY <1>3, <2>1 DEF Verify, Tracing, Signal, Elapse, routines, RoutinesSound, PhaseSound
<1>4. CASE router \/ Launch
  BY <1>4 DEF router, Launch, RoutinesSound, PhaseSound
<1>5. CASE Listen \/ Break \/ pump \/ Run
  BY <1>5 DEF Listen, Break, pump, Run, RoutinesSound
<1>6. CASE Consume
  BY <1>6 DEF Consume, Idle
<1>7. CASE ListenFails \/ MetricsFail
  BY <1>7 DEF ListenFails, MetricsFail, routines, PhaseSound
<1>8. CASE Shutdown
  BY <1>8 DEF Shutdown, PhaseSound
<1>9. CASE Drained
  BY <1>9 DEF Drained, Idle, routines, PhaseSound
<1>10. CASE Consumed
  BY <1>10 DEF Consumed, routines, PhaseSound, RoutinesSound
<1>11. CASE GiveUp
  BY <1>11 DEF GiveUp, GivenUp, routines, PhaseSound
<1>12. CASE Join
  BY <1>12 DEF Join, PhaseSound
<1>13. CASE Flush
  BY <1>13 DEF Flush, routines
<1>14. CASE Up
  BY <1>14 DEF Up, routines, PhaseSound, RoutinesSound
<1>15. CASE close
  BY <1>15 DEF close, routines
<1>16. CASE Exit
  <2>1. Active' = {} BY <1>16 DEF Exit, Active
  <2>2. Active # {} => why = "timeout" \/ (binary = "server" /\ why = "listener")
    <3>1. consume \in {"off", "on", "stopping", "broken", "nil", "error"} BY DEF IInv, TypeOK
    <3> QED BY <1>16, <3>1 DEF Exit, RoutinesSound
  <2>3. \A u \in Units : work'[u] = "cut" => work[u] = "cut" \/ Active # {} BY <1>16 DEF Exit
  <2> QED BY <1>16, <2>1, <2>2, <2>3 DEF Exit, routines
<1>17. ASSUME NEW u \in Units, Accept(u) PROVE WorkSound'
  <2>1. why # "clean" /\ pc # "exited" BY <1>17 DEF Accept, RoutinesSound, PhaseSound, Binaries
  <2>2. \A w \in Units : work'[w] = "cut" => work[w] = "cut" BY <1>17 DEF Accept
  <2>3. /\ binary = "server" => listener = "on" /\ pc = "serve"
        /\ binary # "server" => consume = "on"
    BY <1>17 DEF Accept, RoutinesSound
  <2> QED BY <1>17, <2>1, <2>2, <2>3 DEF Accept, routines
<1>18. ASSUME NEW u \in Units, Query(u) \/ Finish(u) PROVE WorkSound'
  <2>1. Active' \subseteq Active BY <1>18 DEF Query, Finish, Active
  <2>2. \A w \in Units : work'[w] = "cut" => work[w] = "cut" BY <1>18 DEF Query, Finish
  <2>3. UNCHANGED <<pc, why, severed, listener, consume>> BY <1>18 DEF Query, Finish, routines
  <2> QED BY <2>1, <2>2, <2>3
<1>19. CASE UNCHANGED vars BY <1>19 DEF vars, routines
<1> QED
  BY ONLY [Next]_vars, <1>2, <1>3, <1>4, <1>5, <1>6, <1>7, <1>8, <1>9, <1>10, <1>11, <1>12, <1>13,
     <1>14, <1>15, <1>16, <1>17, <1>18, <1>19 DEF Next
-----------------------------------------------------------------------------
(* The theorems. *)

\* A process that has just been started satisfies the invariant.
LEMMA InitSound == Init => IInv
<1> SUFFICES ASSUME Init PROVE IInv OBVIOUS
<1> USE DEF Init
<1>1. DOMAIN env = Variables /\ \A v \in Variables : env[v] \in Values(v)
  <2>1. PICK w \in Variables : \E x \in Values(w) : env = [Usual EXCEPT ![w] = x] BY DEF Environments
  <2>2. DOMAIN Usual = Variables /\ Usual = [v \in DOMAIN Usual |-> Usual[v]] BY DEF Usual
  <2> QED BY <2>1, <2>2, UsualIsAccepted
<1>2. 0 \in 0..NumMigrations /\ 1 \in 0..5 BY ProcessAssumption
<1>3. TypeOK BY <1>1, <1>2 DEF TypeOK
<1>4. OpenSound /\ PhaseSound /\ RoutinesSound BY DEF OpenSound, PhaseSound, RoutinesSound
<1>5. WorkSound BY DEF WorkSound, Active
<1> QED BY <1>1, <1>3, <1>4, <1>5 DEF IInv, ConfigSound, StartsUsable

\* What is open, what run may return and what may still run go with where run is, on
\* every way through cmd/server, cmd/worker and cmd/migrator.
THEOREM ProcessIsSound == Spec => []IInv
<1>1. IInv /\ [Next]_vars => IInv'
  BY TypeStep, OpenStep, PhaseStep, RoutinesStep, WorkStep, ConfigStep DEF IInv
<1> QED BY <1>1, InitSound, PTL DEF Spec

\* What a process does not refuse it can use, but for the four numbers without an upper
\* bound that overflow where they are used; and it refuses nothing else.
THEOREM StartsOnUsableValues == Spec => []StartsUsable
<1>1. IInv => StartsUsable BY DEF IInv
<1> QED BY <1>1, ProcessIsSound, PTL

\* A handler keeps its dependencies up to its last query, and is cut off only after the
\* time of the drain, except in a server whose listener has failed.
THEOREM WorkIsSpared == Spec => []WorkSpared
<1>1. IInv => WorkSpared
  <2> SUFFICES ASSUME IInv PROVE WorkSpared OBVIOUS
  <2>0. TypeOK /\ OpenSound /\ PhaseSound /\ RoutinesSound /\ WorkSound BY DEF IInv
  <2>1. open # Names => pc \in {"load", "connect", "verify", "close", "exited"}
    BY <2>0 DEF TypeOK, OpenSound
  <2>2. open # Names /\ Active \ severed # {} => why = (IF binary = "server" THEN "listener" ELSE "timeout")
    <3>1. pc \in {"load", "connect", "verify", "exited"} => Active = {}
      BY <2>0 DEF WorkSound, RoutinesSound, TypeOK, Binaries
    <3>2. CASE binary = "server" BY <2>0, <2>1, <3>1, <3>2 DEF WorkSound
    <3>3. CASE binary # "server"
      <4>1. Active # {} => consume \in {"on", "stopping", "broken"} BY <2>0, <3>3 DEF WorkSound, TypeOK
      <4> QED BY <2>0, <2>1, <3>1, <3>3, <4>1 DEF RoutinesSound
    <3> QED BY <3>2, <3>3
  <2>3. severed # {} \/ (\E u \in Units : work[u] = "cut") => elapsed \/ (binary = "server" /\ why = "listener")
    BY <2>0 DEF WorkSound, PhaseSound
  <2>4. open # Names => reconciler # "pass" BY <2>0, <2>1 DEF RoutinesSound
  <2> QED BY <2>2, <2>3, <2>4 DEF WorkSpared
<1> QED BY <1>1, ProcessIsSound, PTL

\* Whatever way a process takes to its exit, it leaves no dependency open.
THEOREM ProcessLeavesInOrder == Spec => []LeavesInOrder
<1>1. IInv => LeavesInOrder BY DEF IInv, OpenSound, LeavesInOrder
<1> QED BY <1>1, ProcessIsSound, PTL

\* Exit code 0: nothing was cut off, nothing of the worker still runs, every migration
\* has been applied.
THEOREM ExitZeroIsTrue == Spec => []ExitZeroMeansDone
<1>1. IInv => ExitZeroMeansDone
  <2> SUFFICES ASSUME IInv, pc = "exited", why = "clean" PROVE ExitZeroMeansDone!2 BY DEF ExitZeroMeansDone
  <2>0. TypeOK /\ PhaseSound /\ RoutinesSound /\ WorkSound BY DEF IInv
  <2>1. ASSUME NEW u \in Units PROVE work[u] \in {"none", "done"} BY <2>0 DEF TypeOK, WorkSound, Active
  <2>2. consume \in {"off", "nil"} /\ reconciler \in {"off", "ended"} BY <2>0 DEF TypeOK, RoutinesSound
  <2>3. binary = "migrator" => applied = NumMigrations BY <2>0 DEF PhaseSound
  <2> QED BY <2>1, <2>2, <2>3
<1> QED BY <1>1, ProcessIsSound, PTL
=============================================================================
