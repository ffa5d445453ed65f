------------------------------ MODULE Publisher ------------------------------
(***************************************************************************)
(* internal/broker/publisher.go: requests that share one Publisher, one    *)
(* AMQP channel with publisher confirms, and the frames the broker sends   *)
(* back on it.  The client library (external) reads these frames in order  *)
(* on one goroutine and blocks on a return nobody makes room for.          *)
(***************************************************************************)
EXTENDS Naturals, Sequences

CONSTANTS
  Callers,       \* goroutines that publish
  MaxFrames,     \* bound: no call starts with more publications and frames under way
  MaxFaults      \* bound: failures and timeouts in one behaviour

\* A frame or a return belongs to the publication of a caller, or to one that
\* its caller does not wait for any more.
Abandoned == "abandoned"

ASSUME PublisherAssumption ==
  MaxFrames \in Nat /\ MaxFaults \in Nat /\ Abandoned \notin Callers

VARIABLES
  lock,       \* Publisher.mu: the caller that holds it, at most one
  ch,         \* Publisher.ch: nil, open, or closed by the broker
  returns,    \* Publisher.returns: a buffer of one
  sent,       \* publications on their way to the broker
  inbox,      \* frames on their way back
  pc,         \* the callers
  confirm,    \* the deferred confirm of the caller's publication
  queued,     \* whether the broker put the caller's message into a queue
  result,     \* what publish returned last
  routable,   \* the exchange has a queue for the key
  faults

vars == <<lock, ch, returns, sent, inbox, pc, confirm, queued, result, routable, faults>>

Owner == Callers \cup {Abandoned}

Frame == [kind : {"return", "ack", "nack"}, by : Owner]

TypeOK ==
  /\ lock \in {{}} \cup {{c} : c \in Callers}
  /\ ch \in {"nil", "open", "closed"}
  /\ returns \in Seq(Owner) /\ Len(returns) <= 1
  /\ sent \in Seq(Owner)
  /\ inbox \in Seq(Frame)
  /\ pc \in [Callers -> {"idle", "lock", "open", "send", "wait", "check"}]
  /\ confirm \in [Callers -> {"none", "ack", "nack"}]
  /\ queued \in [Callers -> BOOLEAN]
  /\ result \in [Callers -> {"none", "nil", "error", "unroutable"}]
  /\ routable \in BOOLEAN
  /\ faults \in 0..MaxFaults

Init ==
  /\ lock = {} /\ ch = "nil" /\ returns = <<>> /\ sent = <<>> /\ inbox = <<>>
  /\ pc = [c \in Callers |-> "idle"]
  /\ confirm = [c \in Callers |-> "none"]
  /\ queued = [c \in Callers |-> FALSE]
  /\ result = [c \in Callers |-> "none"]
  /\ routable = TRUE
  /\ faults = MaxFaults

Fault == faults > 0 /\ faults' = faults - 1

Works == UNCHANGED faults

Move(c, from, to) == pc[c] = from /\ pc' = [pc EXCEPT ![c] = to]

\* publish returns and the deferred Unlock runs.
Return(c, from, r) ==
  /\ Move(c, from, "idle") /\ lock' = {}
  /\ result' = [result EXCEPT ![c] = r]
-----------------------------------------------------------------------------
(* publish *)

\* The deadline is set before the lock is waited for.
Publish(c) ==
  /\ Move(c, "idle", "lock") /\ Len(sent) + Len(inbox) <= MaxFrames
  /\ confirm' = [confirm EXCEPT ![c] = "none"]
  /\ queued' = [queued EXCEPT ![c] = FALSE]
  /\ result' = [result EXCEPT ![c] = "none"]
  /\ UNCHANGED <<lock, ch, returns, sent, inbox, routable, faults>>

Lock(c) ==
  /\ Move(c, "lock", "open") /\ lock = {} /\ lock' = {c}
  /\ UNCHANGED <<ch, returns, sent, inbox, confirm, queued, result, routable, faults>>

\* A new channel has its own confirms and its own returns.
openLocked(c) ==
  /\ \/ /\ ch = "open" /\ Move(c, "open", "send") /\ Works
        /\ UNCHANGED <<lock, ch, returns, sent, inbox, result>>
     \/ /\ ch # "open" /\ Move(c, "open", "send") /\ Works
        /\ ch' = "open" /\ returns' = <<>> /\ sent' = <<>> /\ inbox' = <<>>
        /\ UNCHANGED <<lock, result>>
     \/ /\ ch # "open" /\ Return(c, "open", "error") /\ Fault
        /\ UNCHANGED <<ch, returns, sent, inbox>>
  /\ UNCHANGED <<confirm, queued, routable>>

\* Mutant: the lock is kept when nothing could be sent.
Send_LockKept(c) ==
  /\ \/ /\ ch = "open" /\ Move(c, "send", "wait") /\ Works
        /\ sent' = Append(sent, c)
        /\ UNCHANGED <<ch, returns, inbox, result>>
     \/ /\ ch = "open" /\ Fault /\ Move(c, "send", "idle")
        /\ result' = [result EXCEPT ![c] = "error"]
        /\ ch' = "nil" /\ returns' = <<>> /\ sent' = <<>> /\ inbox' = <<>>
  /\ UNCHANGED <<lock, confirm, queued, routable>>

\* The library writes the frames whatever the context says.  On an error
\* dropLocked forgets the channel.
Send(c) ==
  /\ \/ /\ ch = "open" /\ Move(c, "send", "wait") /\ Works
        /\ sent' = Append(sent, c)
        /\ UNCHANGED <<lock, ch, returns, inbox, result>>
     \/ /\ (ch = "closed" /\ Works) \/ (ch = "open" /\ Fault)
        /\ Return(c, "send", "error")
        /\ ch' = "nil" /\ returns' = <<>> /\ sent' = <<>> /\ inbox' = <<>>
  /\ UNCHANGED <<confirm, queued, routable>>

\* confirm.WaitContext: the broker's answer.
Confirmed(c) ==
  /\ \/ confirm[c] = "ack" /\ Move(c, "wait", "check") /\ UNCHANGED <<lock, result>>
     \/ confirm[c] = "nack" /\ Return(c, "wait", "error")
  /\ UNCHANGED <<ch, returns, sent, inbox, confirm, queued, routable, faults>>

\* The reader is stuck at a return that does not fit into the buffer.
Blocked == inbox # <<>> /\ Head(inbox).kind = "return" /\ returns # <<>>

Abandon(c, seq) == [i \in DOMAIN seq |-> IF seq[i] = c THEN Abandoned ELSE seq[i]]

AbandonFrames(c, seq) ==
  [i \in DOMAIN seq |-> IF seq[i].by = c THEN [seq[i] EXCEPT !.by = Abandoned] ELSE seq[i]]

\* confirm.WaitContext: the deadline passes.  The channel and the answers still
\* to come are left as they are.  When no answer can come this is no accident.
TimedOut(c) ==
  /\ confirm[c] = "none" /\ Return(c, "wait", "error")
  /\ IF Blocked THEN Works ELSE Fault
  /\ returns' = Abandon(c, returns) /\ sent' = Abandon(c, sent)
  /\ inbox' = AbandonFrames(c, inbox)
  /\ UNCHANGED <<ch, confirm, queued, routable>>

\* Mutant: an acknowledged message counts as routed.
Check_Acked(c) ==
  /\ Return(c, "check", "nil")
  /\ UNCHANGED <<ch, returns, sent, inbox, confirm, queued, routable, faults>>

\* The non-blocking look at returns.  A closed channel has closed the Go channel
\* too, and receiving from that succeeds.
Check(c) ==
  /\ \/ returns # <<>> /\ Return(c, "check", "unroutable") /\ returns' = Tail(returns)
     \/ returns = <<>> /\ ch = "closed" /\ Return(c, "check", "unroutable") /\ UNCHANGED returns
     \/ returns = <<>> /\ ch # "closed" /\ Return(c, "check", "nil") /\ UNCHANGED returns
  /\ UNCHANGED <<ch, sent, inbox, confirm, queued, routable, faults>>

publish(c) ==
  Lock(c) \/ openLocked(c) \/ Send(c) \/ Confirmed(c) \/ TimedOut(c) \/ Check(c)

\* Publisher.Close, for a publisher that ends before its connection.
Close ==
  /\ lock = {} /\ ch # "nil" /\ ch' = "nil"
  /\ sent' = <<>> /\ inbox' = <<>>
  /\ UNCHANGED <<lock, returns, pc, confirm, queued, result, routable, faults>>
-----------------------------------------------------------------------------
(* The broker and the library's reader. *)

\* A mandatory message without a queue is returned, and then confirmed.
Accept ==
  LET c == Head(sent) IN
  /\ ch = "open" /\ sent # <<>> /\ sent' = Tail(sent)
  /\ \/ /\ Works
        /\ queued' = [d \in Callers |-> queued[d] \/ (d = c /\ routable)]
        /\ inbox' = inbox \o (IF routable THEN <<>> ELSE <<[kind |-> "return", by |-> c]>>)
                          \o <<[kind |-> "ack", by |-> c]>>
     \/ /\ Fault /\ UNCHANGED queued
        /\ inbox' = Append(inbox, [kind |-> "nack", by |-> c])
  /\ UNCHANGED <<lock, ch, returns, pc, confirm, result, routable>>

Read ==
  LET f == Head(inbox) IN
  /\ ch = "open" /\ inbox # <<>> /\ ~Blocked
  /\ inbox' = Tail(inbox)
  /\ IF f.kind = "return"
     THEN returns' = Append(returns, f.by) /\ UNCHANGED confirm
     ELSE /\ confirm' = [c \in Callers |-> IF c = f.by THEN f.kind ELSE confirm[c]]
          /\ UNCHANGED returns
  /\ UNCHANGED <<lock, ch, sent, pc, queued, result, routable, faults>>

\* The broker closes the channel: whatever waits for a confirm is refused.
CloseChannel ==
  /\ ch = "open" /\ ch' = "closed" /\ Fault
  /\ sent' = <<>> /\ inbox' = <<>>
  /\ confirm' = [c \in Callers |-> IF pc[c] = "wait" /\ confirm[c] = "none" THEN "nack" ELSE confirm[c]]
  /\ UNCHANGED <<lock, returns, pc, queued, result, routable>>

LoseQueue ==
  /\ routable /\ routable' = FALSE
  /\ UNCHANGED <<lock, ch, returns, sent, inbox, pc, confirm, queued, result, faults>>

RestoreQueue ==
  /\ ~routable /\ routable' = TRUE
  /\ UNCHANGED <<lock, ch, returns, sent, inbox, pc, confirm, queued, result, faults>>
-----------------------------------------------------------------------------
Next ==
  \/ \E c \in Callers : Publish(c) \/ publish(c)
  \/ Close \/ Accept \/ Read \/ CloseChannel \/ LoseQueue \/ RestoreQueue

Spec == Init /\ [][Next]_vars

\* A call goes on, the mutex starves nobody, the broker and the reader work.
Fairness ==
  /\ \A c \in Callers : WF_vars(publish(c)) /\ SF_vars(Lock(c))
  /\ WF_vars(Accept) /\ WF_vars(Read)

FairSpec == Spec /\ Fairness
-----------------------------------------------------------------------------
(* Properties. *)

\* The types, and Publish returns nil only for a message that is in a queue:
\* neither an answer to another publication nor a late one is taken for the
\* confirm or hides the return of this message.
NilMeansQueued == TypeOK /\ \A c \in Callers : result[c] = "nil" => queued[c]

\* No call waits for ever, for the lock or for an answer, with the reader stuck too.
PublishEnds == \A c \in Callers : (pc[c] # "idle") ~> (pc[c] = "idle")
-----------------------------------------------------------------------------
(* The inductive invariant behind NilMeansQueued. *)

\* One call at a time is beyond the lock, on a channel of its own choice.
LockSound ==
  /\ \A c \in Callers : pc[c] \in {"open", "send", "wait", "check"} <=> c \in lock
  /\ \A c \in lock : pc[c] \in {"send", "wait", "check"} => ch # "nil"

\* The confirm and the result are those of this call, and not of an earlier one.
CallsSound ==
  \A c \in Callers :
    /\ pc[c] \in {"lock", "open", "send"} => confirm[c] = "none"
    /\ pc[c] # "idle" => result[c] = "none"
    /\ pc[c] = "check" => confirm[c] = "ack"
    /\ pc[c] \in {"wait", "check"} /\ confirm[c] = "ack" => queued[c] \/ returns # <<>> \/ ch = "closed"
    /\ result[c] = "nil" => queued[c]

Answers(i) == inbox[i].kind # "return"

\* Of every publication somebody waits for there is one trace, the publication itself
\* or its answer, and none of one that was answered.
OneTrace ==
  /\ \A i \in 1..Len(sent) : sent[i] \in Callers => pc[sent[i]] = "wait" /\ confirm[sent[i]] = "none"
  /\ \A i \in 1..Len(inbox) : Answers(i) /\ inbox[i].by \in Callers =>
       pc[inbox[i].by] = "wait" /\ confirm[inbox[i].by] = "none"
  /\ \A i, j \in 1..Len(sent) : sent[i] = sent[j] /\ sent[i] \in Callers => i = j
  /\ \A i, j \in 1..Len(inbox) :
       Answers(i) /\ Answers(j) /\ inbox[i].by = inbox[j].by /\ inbox[i].by \in Callers => i = j
  /\ \A i \in 1..Len(sent), j \in 1..Len(inbox) : Answers(j) /\ sent[i] \in Callers => inbox[j].by # sent[i]

\* The return of a message goes before its confirm.
ReturnsFirst ==
  \A i \in 1..Len(inbox) :
    inbox[i].kind = "ack" /\ inbox[i].by \in Callers /\ ~queued[inbox[i].by] =>
      returns # <<>> \/ \E j \in 1..(i - 1) : inbox[j].kind = "return"

IInv == TypeOK /\ LockSound /\ CallsSound /\ OneTrace /\ ReturnsFirst
===============================================================================
