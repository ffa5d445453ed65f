------------------------------- MODULE Broker -------------------------------
(***************************************************************************)
(* What the broker and its consumer promise about an event, whatever is    *)
(* between them: how often each message is there and with which headers,   *)
(* and when one may be acknowledged.  There are no exchanges, keys,        *)
(* levels, channels, goroutines or restarts here: a message that is        *)
(* queued, waits for a repeat or is delivered is there.  Consumer          *)
(* implements this specification.                                          *)
(***************************************************************************)
EXTENDS Retry

CONSTANT Events

VARIABLES
  published,   \* the events the exchange took
  msgs,        \* how many there are of each message
  dead,        \* the events in the dead letter queue
  handled      \* events whose handler ended without a repeat being due

vars == <<published, msgs, dead, handled>>

Message == [event : Events, headers : Headers]

New(e) == [event |-> e, headers |-> NoHeaders]

With(ms, m) == [ms EXCEPT ![m] = @ + 1]

Without(ms, m) == [ms EXCEPT ![m] = @ - 1]

Init == published = {} /\ msgs = [m \in Message |-> 0] /\ dead = {} /\ handled = {}

\* A published event that no handler ended is there, or is a dead letter.
Kept ==
  \A e \in published \ handled :
    e \in dead \/ \E m \in Message : m.event = e /\ msgs[m] > 0
-----------------------------------------------------------------------------
Publish(e) ==
  /\ e \notin published /\ published' = published \cup {e}
  /\ msgs' = With(msgs, New(e))
  /\ UNCHANGED <<dead, handled>>

\* The handler of a message that is there ends, successfully or for good.
Handle(m) ==
  /\ msgs[m] > 0
  /\ handled' = handled \cup {m.event}
  /\ UNCHANGED <<published, msgs, dead>>

\* A copy that counts the attempt, while it is not the last one.
Repeat(m) ==
  /\ msgs[m] > 0 /\ ~Final(m.headers)
  /\ msgs' = With(msgs, [m EXCEPT !.headers = Forwarded(@)])
  /\ UNCHANGED <<published, dead, handled>>

\* A dead letter after the last attempt, and never before.
Bury(m) ==
  /\ msgs[m] > 0 /\ Final(m.headers)
  /\ dead' = dead \cup {m.event}
  /\ UNCHANGED <<published, msgs, handled>>

\* The message itself is repeated, and the broker counts the attempt.
Reject(m) ==
  /\ msgs[m] > 0
  /\ msgs' = With(Without(msgs, m), [m EXCEPT !.headers = Rejected(@)])
  /\ UNCHANGED <<published, dead, handled>>

\* The end of a message: its event was handled or goes on without it.
Acknowledge(m) ==
  /\ msgs[m] > 0
  /\ msgs' = Without(msgs, m) /\ UNCHANGED <<published, dead, handled>>
  /\ Kept'

Next ==
  \/ \E e \in Events : Publish(e)
  \/ \E m \in Message : Handle(m) \/ Repeat(m) \/ Bury(m) \/ Reject(m) \/ Acknowledge(m)

Spec == Init /\ [][Next]_vars
=============================================================================
