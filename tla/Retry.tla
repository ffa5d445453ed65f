-------------------------------- MODULE Retry --------------------------------
(***************************************************************************)
(* internal/broker/retry.go: how the number of an attempt is read from the *)
(* headers of a message, and what forwarding and rejecting do to them.     *)
(*                                                                         *)
(* A header record keeps the two counters the consumer reads: "attempts",  *)
(* the x-avatar-attempts header the consumer writes (0: absent), and       *)
(* "deaths", the sum of the counters of the x-death history RabbitMQ       *)
(* writes.  Once the former is there x-death is never read again, so the   *)
(* history of such a message is not kept.                                  *)
(***************************************************************************)
EXTENDS Naturals

CONSTANT MaxAttempts   \* maxAttempts of retry.go, 5 in the code

ASSUME MaxAttemptsAssumption == MaxAttempts \in Nat /\ MaxAttempts > 1

\* Deaths above MaxAttempts - 1 cannot be told apart: the attempt is final.
MaxDeaths == MaxAttempts - 1

Headers == [attempts : 0..MaxDeaths, deaths : 0..MaxDeaths]

NoHeaders == [attempts |-> 0, deaths |-> 0]

attemptNumber(h) == IF h.attempts > 0 THEN h.attempts + 1 ELSE h.deaths + 1

\* Mutant: one attempt too few.
isFinalAttempt_Early(n) == n >= MaxAttempts - 1

isFinalAttempt(n) == n >= MaxAttempts

Final(h) == isFinalAttempt(attemptNumber(h))

\* forward: the republished copy carries the attempts made so far.
Forwarded(h) == [attempts |-> attemptNumber(h), deaths |-> 0]

\* A dead-lettering: RabbitMQ counts it in x-death, whose counters deathCount
\* adds up.
Died(h) ==
  IF h.attempts > 0 \/ h.deaths = MaxDeaths THEN h ELSE [h EXCEPT !.deaths = @ + 1]

\* Reject: the original dies twice, in the process queue and, on expiry, at the
\* first retry level.
Rejected(h) == Died(Died(h))
=============================================================================
