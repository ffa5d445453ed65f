---------------------------- MODULE MCDependency ----------------------------
(* An instance of Health and one of Breaker.  The two have no state in common, and no  *)
(* property speaks of both, so a behaviour is one of the former or one of the latter.  *)
EXTENDS Health, Breaker

VARIABLE part   \* which of the two a behaviour is about

PartInit == Init /\ BreakerInit /\ part \in {"health", "breaker"}

PartNext ==
  \/ part = "health" /\ Next /\ UNCHANGED <<breakerVars, part>>
  \/ part = "breaker" /\ BreakerNext /\ UNCHANGED <<vars, part>>

\* Requests keep coming, calls end (each has a timeout), time passes.
BreakerFairness ==
  /\ WF_breakerVars(part = "breaker" /\ Expire)
  /\ WF_breakerVars(part = "breaker" /\ \E c \in Callers : Begin(c))
  /\ \A c \in Callers :
       WF_breakerVars(part = "breaker" /\ \E err \in Results : End(c, err))

\* Fairness is that of Health, which asks for no step before a probe arrives.
PartSpec ==
  /\ PartInit /\ [][PartNext]_<<vars, breakerVars, part>>
  /\ Fairness /\ BreakerFairness
=============================================================================
