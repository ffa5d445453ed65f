-------------------------- MODULE PublisherProofs --------------------------
(***************************************************************************)
(* The safety of Publisher, for any number of callers, failures and frames *)
(* under way: the inductive invariant IInv and what follows from it.       *)
(***************************************************************************)
EXTENDS Publisher, SequenceTheorems, TLAPS

(* Frames and their owners. *)

\* Giving up a publication renames its frames and moves none.
LEMMA AbandonProperties ==
  ASSUME NEW c \in Callers, NEW s \in Seq(Owner)
  PROVE  /\ Abandon(c, s) \in Seq(Owner) /\ Len(Abandon(c, s)) = Len(s)
         /\ \A i \in 1..Len(s) : Abandon(c, s)[i] = IF s[i] = c THEN Abandoned ELSE s[i]
<1>1. DOMAIN s = 1..Len(s) /\ Len(s) \in Nat /\ \A i \in 1..Len(s) : s[i] \in Owner
  BY LenProperties, ElementOfSeq
<1>2. Abandon(c, s) = [i \in 1..Len(s) |-> IF s[i] = c THEN Abandoned ELSE s[i]] BY <1>1 DEF Abandon
<1>3. Abandon(c, s) \in [1..Len(s) -> Owner] BY <1>1, <1>2 DEF Owner
<1> QED BY <1>1, <1>2, <1>3

\* So does giving up its answers.
LEMMA AbandonFramesProperties ==
  ASSUME NEW c \in Callers, NEW s \in Seq(Frame)
  PROVE  /\ AbandonFrames(c, s) \in Seq(Frame) /\ Len(AbandonFrames(c, s)) = Len(s)
         /\ \A i \in 1..Len(s) : AbandonFrames(c, s)[i].kind = s[i].kind
         /\ \A i \in 1..Len(s) : AbandonFrames(c, s)[i].by = IF s[i].by = c THEN Abandoned ELSE s[i].by
<1>1. DOMAIN s = 1..Len(s) /\ Len(s) \in Nat /\ \A i \in 1..Len(s) : s[i] \in Frame
  BY LenProperties, ElementOfSeq
<1>2. AbandonFrames(c, s) = [i \in 1..Len(s) |-> IF s[i].by = c THEN [s[i] EXCEPT !.by = Abandoned] ELSE s[i]]
  BY <1>1 DEF AbandonFrames
<1>3. \A f \in Frame : /\ [f EXCEPT !.by = Abandoned] \in Frame /\ [f EXCEPT !.by = Abandoned].by = Abandoned
                       /\ [f EXCEPT !.by = Abandoned].kind = f.kind
  BY DEF Frame, Owner
<1>4. AbandonFrames(c, s) \in [1..Len(s) -> Frame] BY <1>1, <1>2, <1>3
<1> QED BY <1>1, <1>2, <1>3, <1>4

\* The mutex: one call at a time is beyond it.
LEMMA OneHolder ==
  ASSUME IInv, NEW c \in Callers, pc[c] \in {"open", "send", "wait", "check"}
  PROVE  /\ lock = {c}
         /\ \A d \in Callers : pc[d] \in {"open", "send", "wait", "check"} => d = c
BY DEF IInv, TypeOK, LockSound

\* An empty wire and an empty inbox have their types.
LEMMA NoFrames == <<>> \in Seq(Owner) /\ <<>> \in Seq(Frame) /\ Len(<<>>) = 0
OBVIOUS

\* Without frames there is nothing to take for an answer.
LEMMA FramesGone ==
  ASSUME sent' = <<>>, inbox' = <<>>
  PROVE  OneTrace' /\ ReturnsFirst'
BY DEF OneTrace, ReturnsFirst

\* The frames stay as they are while their owner waits.
LEMMA FramesKept ==
  ASSUME IInv, sent' = sent, inbox' = inbox,
         \A d \in Callers : pc[d] = "wait" /\ confirm[d] = "none" =>
           pc'[d] = "wait" /\ confirm'[d] = "none" /\ (queued[d] => queued'[d])
             /\ (returns # <<>> => returns' # <<>>)
  PROVE  OneTrace' /\ ReturnsFirst'
<1>1. OneTrace' BY DEF IInv, OneTrace, Answers
<1>2. ReturnsFirst' BY DEF IInv, OneTrace, ReturnsFirst, Answers
<1> QED BY <1>1, <1>2
-----------------------------------------------------------------------------
(* The steps of a call. *)

\* A call begins: the results of the one before are forgotten.
LEMMA PublishStep ==
  ASSUME IInv, NEW c \in Callers, Publish(c)
  PROVE  IInv'
<1>0. TypeOK /\ LockSound /\ CallsSound BY DEF IInv
<1>1. /\ pc[c] = "idle" /\ pc' = [pc EXCEPT ![c] = "lock"]
      /\ confirm' = [confirm EXCEPT ![c] = "none"] /\ queued' = [queued EXCEPT ![c] = FALSE]
      /\ result' = [result EXCEPT ![c] = "none"]
      /\ UNCHANGED <<lock, ch, returns, sent, inbox, routable, faults>>
  BY DEF Publish, Move
<1>2. TypeOK' BY <1>0, <1>1 DEF TypeOK
<1>3. LockSound' BY <1>0, <1>1 DEF LockSound, TypeOK
<1>4. CallsSound' BY <1>0, <1>1 DEF CallsSound, TypeOK
<1>5. OneTrace' /\ ReturnsFirst' BY <1>0, <1>1, FramesKept DEF TypeOK
<1> QED BY <1>2, <1>3, <1>4, <1>5 DEF IInv

\* Taking the mutex keeps the invariant: nobody else is inside.
LEMMA LockStep ==
  ASSUME IInv, NEW c \in Callers, Lock(c)
  PROVE  IInv'
<1>0. TypeOK /\ LockSound /\ CallsSound BY DEF IInv
<1>1. /\ pc[c] = "lock" /\ pc' = [pc EXCEPT ![c] = "open"] /\ lock = {} /\ lock' = {c}
      /\ UNCHANGED <<ch, returns, sent, inbox, confirm, queued, result, routable, faults>>
  BY DEF Lock, Move
<1>2. TypeOK' BY <1>0, <1>1 DEF TypeOK
<1>3. LockSound' BY <1>0, <1>1 DEF LockSound, TypeOK
<1>4. CallsSound' BY <1>0, <1>1 DEF CallsSound, TypeOK
<1>5. OneTrace' /\ ReturnsFirst' BY <1>0, <1>1, FramesKept DEF TypeOK
<1> QED BY <1>2, <1>3, <1>4, <1>5 DEF IInv

\* A call that returns leaves the lock, and no trace of a publication.
LEMMA ReturnStep ==
  ASSUME IInv, NEW c \in Callers, pc[c] \in {"open", "send", "wait", "check"},
         NEW r \in {"nil", "error", "unroutable"}, r = "nil" => queued[c],
         pc' = [pc EXCEPT ![c] = "idle"], lock' = {}, result' = [result EXCEPT ![c] = r],
         UNCHANGED <<confirm, queued, routable>>, faults' \in 0..MaxFaults,
         returns' \in Seq(Owner), Len(returns') <= 1, sent' \in Seq(Owner), inbox' \in Seq(Frame),
         ch' \in {"nil", "open", "closed"}
  PROVE  TypeOK' /\ LockSound' /\ CallsSound'
<1>0. TypeOK /\ LockSound /\ CallsSound BY DEF IInv
<1>1. \A d \in Callers : d # c => pc[d] \in {"idle", "lock"} /\ pc'[d] = pc[d]
  BY <1>0, OneHolder DEF TypeOK
<1>2. TypeOK' BY <1>0 DEF TypeOK
<1>3. LockSound' BY <1>0, <1>1 DEF LockSound, TypeOK
<1>4. CallsSound' BY <1>0, <1>1 DEF CallsSound, TypeOK
<1> QED BY <1>2, <1>3, <1>4

\* A new channel comes with empty returns and nothing on the wire.
LEMMA OpenLockedStep ==
  ASSUME IInv, NEW c \in Callers, openLocked(c)
  PROVE  IInv'
<1>0. TypeOK /\ LockSound /\ CallsSound /\ pc[c] = "open" BY DEF IInv, openLocked, Move, Return
<1>1. ASSUME Move(c, "open", "send"), ch' = "open", UNCHANGED <<lock, result, confirm, queued, routable, faults>>,
             \/ ch = "open" /\ UNCHANGED <<returns, sent, inbox>>
             \/ returns' = <<>> /\ sent' = <<>> /\ inbox' = <<>>
      PROVE  IInv'
  <2>1. pc' = [pc EXCEPT ![c] = "send"] BY <1>1 DEF Move
  <2>2. \A d \in Callers : d # c => pc[d] \in {"idle", "lock"} /\ pc'[d] = pc[d]
    BY <1>0, <2>1, OneHolder DEF TypeOK
  <2>3. /\ returns' \in Seq(Owner) /\ Len(returns') <= 1 /\ sent' \in Seq(Owner) /\ inbox' \in Seq(Frame)
    <3>1. returns \in Seq(Owner) /\ Len(returns) <= 1 /\ sent \in Seq(Owner) /\ inbox \in Seq(Frame)
      BY <1>0 DEF TypeOK
    <3>2. CASE UNCHANGED <<returns, sent, inbox>> BY <3>1, <3>2
    <3>3. CASE returns' = <<>> /\ sent' = <<>> /\ inbox' = <<>> BY <3>3, NoFrames
    <3> QED BY <1>1, <3>2, <3>3
  <2>4. TypeOK' BY <1>0, <1>1, <2>1, <2>3 DEF TypeOK
  <2>5. LockSound' BY <1>0, <1>1, <2>1, <2>2 DEF LockSound, TypeOK
  <2>6. CallsSound' BY <1>0, <1>1, <2>1, <2>2 DEF CallsSound, TypeOK
  <2>7. OneTrace' /\ ReturnsFirst'
    <3>1. CASE ch = "open" /\ UNCHANGED <<returns, sent, inbox>>
      BY <1>0, <1>1, <2>2, <3>1, FramesKept
    <3> QED BY <1>1, <3>1, FramesGone
  <2> QED BY <2>4, <2>5, <2>6, <2>7 DEF IInv
<1>2. ASSUME Return(c, "open", "error"), Fault, UNCHANGED <<ch, returns, sent, inbox, confirm, queued, routable>>
      PROVE  IInv'
  <2>1. faults' \in 0..MaxFaults BY <1>0, <1>2, PublisherAssumption DEF Fault, TypeOK
  <2>2. /\ returns' \in Seq(Owner) /\ Len(returns') <= 1 /\ sent' \in Seq(Owner) /\ inbox' \in Seq(Frame)
        /\ ch' \in {"nil", "open", "closed"}
    BY <1>0, <1>2 DEF TypeOK
  <2>5. TypeOK' /\ LockSound' /\ CallsSound' BY <1>0, <1>2, <2>1, <2>2, ReturnStep DEF Return, Move
  <2>3. \A d \in Callers : pc[d] # "wait" BY <1>0, OneHolder
  <2>4. OneTrace' /\ ReturnsFirst' BY <1>2, <2>3, FramesKept
  <2> QED BY <2>5, <2>4 DEF IInv
<1> QED BY <1>1, <1>2 DEF openLocked, Works

\* The publication is the only trace of its call.
LEMMA SendStep ==
  ASSUME IInv, NEW c \in Callers, Send(c)
  PROVE  IInv'
<1>0. TypeOK /\ LockSound /\ CallsSound /\ OneTrace /\ ReturnsFirst /\ pc[c] = "send"
  BY DEF IInv, Send, Move, Return
<1>1. ASSUME ch = "open", Move(c, "send", "wait"), sent' = Append(sent, c),
             UNCHANGED <<lock, ch, returns, inbox, result, confirm, queued, routable, faults>>
      PROVE  IInv'
  <2>1. pc' = [pc EXCEPT ![c] = "wait"] /\ confirm[c] = "none" BY <1>0, <1>1 DEF Move, CallsSound
  <2>2. \A d \in Callers : d # c => pc[d] \in {"idle", "lock"} /\ pc'[d] = pc[d]
    BY <1>0, <2>1, OneHolder DEF TypeOK
  <2>3. sent \in Seq(Owner) /\ c \in Owner /\ Len(sent) \in Nat BY <1>0 DEF TypeOK, Owner
  <2>4. /\ sent' \in Seq(Owner) /\ Len(sent') = Len(sent) + 1 /\ sent'[Len(sent) + 1] = c
        /\ \A i \in 1..Len(sent) : sent'[i] = sent[i]
    BY <1>1, <2>3, AppendProperties
  <2>5. TypeOK' BY <1>0, <1>1, <2>1, <2>4 DEF TypeOK
  <2>6. LockSound' BY <1>0, <1>1, <2>1, <2>2 DEF LockSound, TypeOK
  <2>7. CallsSound' BY <1>0, <1>1, <2>1, <2>2 DEF CallsSound, TypeOK
  <2>8. /\ \A i \in 1..Len(sent) : sent[i] \notin Callers
        /\ \A i \in 1..Len(inbox) : Answers(i) => inbox[i].by \notin Callers
    BY <1>0, <2>2 DEF OneTrace
  <2>9. \A i \in 1..Len(sent') : sent'[i] \in Callers => i = Len(sent) + 1 /\ sent'[i] = c
    BY <2>3, <2>4, <2>8
  <2>10. pc'[c] = "wait" /\ confirm'[c] = "none" BY <1>0, <1>1, <2>1 DEF TypeOK
  <2>11. \A i \in 1..Len(inbox') : Answers(i)' => inbox'[i].by \notin Callers
    BY <1>1, <2>8 DEF Answers
  <2>12. OneTrace' BY <2>9, <2>10, <2>11 DEF OneTrace
  <2>13. ReturnsFirst' BY <1>1, <2>8 DEF ReturnsFirst, Answers
  <2> QED BY <2>5, <2>6, <2>7, <2>12, <2>13 DEF IInv
<1>2. ASSUME Return(c, "send", "error"), faults' \in 0..MaxFaults, ch' = "nil", returns' = <<>>,
             sent' = <<>>, inbox' = <<>>, UNCHANGED <<confirm, queued, routable>>
      PROVE  IInv'
  <2>1. /\ returns' \in Seq(Owner) /\ Len(returns') <= 1 /\ sent' \in Seq(Owner) /\ inbox' \in Seq(Frame)
        /\ ch' \in {"nil", "open", "closed"}
    BY <1>2, NoFrames
  <2>2. TypeOK' /\ LockSound' /\ CallsSound' BY <1>0, <1>2, <2>1, ReturnStep DEF Return, Move
  <2> QED BY <1>2, <2>2, FramesGone DEF IInv
<1>3. faults \in 0..MaxFaults BY <1>0 DEF TypeOK
<1> QED BY <1>1, <1>2, <1>3, PublisherAssumption DEF Send, Works, Fault

\* A confirmed call looks for its return; a refused one is over, and its trace with it.
LEMMA ConfirmedStep ==
  ASSUME IInv, NEW c \in Callers, Confirmed(c)
  PROVE  IInv'
<1>0. TypeOK /\ LockSound /\ CallsSound /\ OneTrace /\ pc[c] = "wait" /\ confirm[c] # "none"
  BY DEF IInv, Confirmed, Move, Return
<1>1. \A d \in Callers : d # c => pc[d] \in {"idle", "lock"} BY <1>0, OneHolder DEF TypeOK
<1>2. UNCHANGED <<ch, returns, sent, inbox, confirm, queued, routable, faults>> BY DEF Confirmed
<1>3. \A d \in Callers : ~(pc[d] = "wait" /\ confirm[d] = "none") BY <1>0, <1>1
<1>4. OneTrace' /\ ReturnsFirst' BY <1>2, <1>3, FramesKept
<1>5. CASE confirm[c] = "ack" /\ Move(c, "wait", "check") /\ UNCHANGED <<lock, result>>
  <2>1. pc' = [pc EXCEPT ![c] = "check"] BY <1>5 DEF Move
  <2>2. TypeOK' BY <1>0, <1>2, <1>5, <2>1 DEF TypeOK
  <2>3. LockSound' BY <1>0, <1>2, <1>5, <2>1 DEF LockSound, TypeOK
  <2>4. CallsSound' BY <1>0, <1>2, <1>5, <2>1 DEF CallsSound, TypeOK
  <2> QED BY <1>4, <2>2, <2>3, <2>4 DEF IInv
<1>6. CASE Return(c, "wait", "error")
  <2>1. TypeOK' /\ LockSound' /\ CallsSound'
    BY <1>0, <1>2, <1>6, ReturnStep DEF Return, Move, TypeOK
  <2> QED BY <1>4, <2>1 DEF IInv
<1> QED BY <1>5, <1>6 DEF Confirmed

\* Nobody will take the answers of a call that has given up for its own.
LEMMA TimedOutStep ==
  ASSUME IInv, NEW c \in Callers, TimedOut(c)
  PROVE  IInv'
<1>0. TypeOK /\ OneTrace /\ ReturnsFirst /\ pc[c] = "wait" BY DEF IInv, TimedOut, Return, Move
<1>1. /\ returns \in Seq(Owner) /\ Len(returns) <= 1 /\ sent \in Seq(Owner) /\ inbox \in Seq(Frame)
      /\ ch \in {"nil", "open", "closed"} /\ faults \in 0..MaxFaults
  BY <1>0 DEF TypeOK
<1>2. /\ returns' = Abandon(c, returns) /\ sent' = Abandon(c, sent) /\ inbox' = AbandonFrames(c, inbox)
      /\ UNCHANGED <<ch, confirm, queued, routable>>
  BY DEF TimedOut
<1>3. returns' \in Seq(Owner) /\ Len(returns') = Len(returns) BY <1>1, <1>2, AbandonProperties
<1>4. /\ sent' \in Seq(Owner) /\ Len(sent') = Len(sent)
      /\ \A i \in 1..Len(sent) : sent'[i] = IF sent[i] = c THEN Abandoned ELSE sent[i]
  BY <1>1, <1>2, AbandonProperties
<1>5. /\ inbox' \in Seq(Frame) /\ Len(inbox') = Len(inbox)
      /\ \A i \in 1..Len(inbox) : inbox'[i].by = IF inbox[i].by = c THEN Abandoned ELSE inbox[i].by
      /\ \A i \in 1..Len(inbox) : inbox'[i].kind = inbox[i].kind
  BY <1>1, <1>2, AbandonFramesProperties
<1>6. faults' \in 0..MaxFaults BY <1>1, PublisherAssumption DEF TimedOut, Works, Fault
<1>7. TypeOK' /\ LockSound' /\ CallsSound'
  BY <1>0, <1>1, <1>2, <1>3, <1>4, <1>5, <1>6, ReturnStep DEF TimedOut, Return, Move
<1>8. \A d \in Callers : pc[d] = "wait" => d = c BY <1>0, OneHolder
<1>9. \A i \in 1..Len(sent') : sent'[i] \notin Callers
  BY <1>0, <1>4, <1>8, PublisherAssumption DEF OneTrace
<1>10. \A i \in 1..Len(inbox') : Answers(i)' => inbox'[i].by \notin Callers
  BY <1>0, <1>5, <1>8, PublisherAssumption DEF OneTrace, Answers
<1>11. OneTrace' BY <1>9, <1>10 DEF OneTrace
<1>12. ReturnsFirst' BY <1>10 DEF ReturnsFirst, Answers
<1> QED BY <1>7, <1>11, <1>12 DEF IInv

\* nil is returned when there is no return to be found on a channel that is still open.
LEMMA CheckStep ==
  ASSUME IInv, NEW c \in Callers, Check(c)
  PROVE  IInv'
<1>0. TypeOK /\ LockSound /\ CallsSound /\ OneTrace /\ pc[c] = "check"
  BY DEF IInv, Check, Return, Move
<1>1. \A d \in Callers : pc[d] # "wait" BY <1>0, OneHolder
<1>2. UNCHANGED <<ch, sent, inbox, confirm, queued, routable, faults>> BY DEF Check
<1>3. OneTrace' /\ ReturnsFirst' BY <1>1, <1>2, FramesKept
<1>4. /\ returns \in Seq(Owner) /\ Len(returns) <= 1 /\ sent \in Seq(Owner) /\ inbox \in Seq(Frame)
      /\ ch \in {"nil", "open", "closed"} /\ faults \in 0..MaxFaults
  BY <1>0 DEF TypeOK
<1>5. CASE returns # <<>> /\ Return(c, "check", "unroutable") /\ returns' = Tail(returns)
  <2>1. returns' \in Seq(Owner) /\ Len(returns') <= 1 BY <1>4, <1>5, HeadTailProperties
  <2> QED BY <1>0, <1>2, <1>3, <1>4, <1>5, <2>1, ReturnStep DEF IInv, Return, Move
<1>6. CASE Return(c, "check", "unroutable") /\ UNCHANGED returns
  BY <1>0, <1>2, <1>3, <1>4, <1>6, ReturnStep DEF IInv, Return, Move
<1>7. CASE returns = <<>> /\ ch # "closed" /\ Return(c, "check", "nil") /\ UNCHANGED returns
  <2>1. queued[c] BY <1>0, <1>7 DEF CallsSound
  <2> QED BY <1>0, <1>2, <1>3, <1>4, <1>7, <2>1, ReturnStep DEF IInv, Return, Move
<1> QED BY <1>5, <1>6, <1>7 DEF Check
-----------------------------------------------------------------------------
(* The broker and the reader. *)

\* The broker answers the oldest publication: the answer takes its place as its trace.
LEMMA AnswerArrives ==
  ASSUME IInv, sent # <<>>, sent' = Tail(sent), UNCHANGED <<pc, confirm, returns>>,
         NEW n \in {Len(inbox) + 1, Len(inbox) + 2},
         inbox' \in Seq(Frame), Len(inbox') = n, \A i \in 1..Len(inbox) : inbox'[i] = inbox[i],
         inbox'[n].by = Head(sent),
         n = Len(inbox) + 2 => inbox'[Len(inbox) + 1].kind = "return",
         \A d \in Callers : queued[d] => queued'[d],
         inbox'[n].kind = "ack" /\ Head(sent) \in Callers => queued'[Head(sent)] \/ n = Len(inbox) + 2
  PROVE  OneTrace' /\ ReturnsFirst'
<1>0. OneTrace /\ ReturnsFirst /\ sent \in Seq(Owner) /\ inbox \in Seq(Frame) BY DEF IInv, TypeOK
<1>1. /\ Len(sent) \in Nat /\ Len(sent) >= 1 /\ Head(sent) = sent[1] /\ Len(inbox) \in Nat
      /\ Len(sent') = Len(sent) - 1 /\ \A i \in 1..Len(sent') : sent'[i] = sent[i + 1]
  BY <1>0, HeadTailProperties
<1>2. \A i \in 1..Len(sent') : i + 1 \in 1..Len(sent) /\ sent'[i] = sent[i + 1] /\ i + 1 # 1 BY <1>1
<1>3. 1 \in 1..Len(sent) /\ (Head(sent) \in Callers => pc[Head(sent)] = "wait" /\ confirm[Head(sent)] = "none")
  BY <1>0, <1>1 DEF OneTrace
<1>4. \A i \in 1..Len(inbox') : Answers(i)' => (i \in 1..Len(inbox) /\ Answers(i)) \/ i = n
  BY <1>1 DEF Answers
<1>5. ASSUME NEW i \in 1..Len(sent'), sent'[i] \in Callers
      PROVE  /\ pc'[sent'[i]] = "wait" /\ confirm'[sent'[i]] = "none" /\ sent'[i] # Head(sent)
             /\ \A j \in 1..Len(inbox) : Answers(j) => inbox[j].by # sent'[i]
             /\ \A j \in 1..Len(sent') : sent'[j] = sent'[i] => j = i
  <2>1. i + 1 \in 1..Len(sent) /\ sent'[i] = sent[i + 1] /\ i + 1 # 1 /\ sent[1] = Head(sent) BY <1>1, <1>2
  <2>2. sent'[i] # Head(sent) BY <1>0, <1>3, <1>5, <2>1 DEF OneTrace
  <2>3. ASSUME NEW j \in 1..Len(sent'), sent'[j] = sent'[i] PROVE j = i
    <3>1. j + 1 \in 1..Len(sent) /\ sent'[j] = sent[j + 1] BY <1>2
    <3>2. j + 1 = i + 1 BY <1>0, <1>5, <2>1, <2>3, <3>1 DEF OneTrace
    <3> QED BY <1>1, <3>2
  <2> QED BY <1>0, <1>5, <2>1, <2>2, <2>3 DEF OneTrace
<1>6. ASSUME NEW i \in 1..Len(inbox'), Answers(i)', inbox'[i].by \in Callers
      PROVE  /\ pc'[inbox'[i].by] = "wait" /\ confirm'[inbox'[i].by] = "none"
             /\ \A j \in 1..Len(inbox') : Answers(j)' /\ inbox'[j].by = inbox'[i].by => j = i
  <2>1. \A j \in 1..Len(inbox) : Answers(j) => inbox[j].by # Head(sent) \/ Head(sent) \notin Callers
    BY <1>0, <1>1, <1>3 DEF OneTrace
  <2>2. CASE i = n
    <3>1. pc'[inbox'[i].by] = "wait" /\ confirm'[inbox'[i].by] = "none" /\ inbox'[i].by = Head(sent)
      BY <1>3, <1>6, <2>2
    <3> QED BY <1>4, <1>6, <2>1, <2>2, <3>1
  <2>3. CASE i \in 1..Len(inbox) /\ Answers(i)
    <3>1. inbox'[i] = inbox[i] /\ inbox[i].by \in Callers BY <1>6, <2>3
    <3>2. pc[inbox[i].by] = "wait" /\ confirm[inbox[i].by] = "none" BY <1>0, <2>3, <3>1 DEF OneTrace
    <3>3. \A j \in 1..Len(inbox) : Answers(j) /\ inbox[j].by = inbox[i].by => j = i
      BY <1>0, <2>3, <3>1 DEF OneTrace
    <3> QED BY <1>4, <2>1, <2>3, <3>1, <3>2, <3>3
  <2> QED BY <1>4, <1>6, <2>2, <2>3
<1>7. ASSUME NEW i \in 1..Len(sent'), NEW j \in 1..Len(inbox'), Answers(j)', sent'[i] \in Callers
      PROVE  inbox'[j].by # sent'[i]
  <2>1. sent'[i] # Head(sent) /\ \A m \in 1..Len(inbox) : Answers(m) => inbox[m].by # sent'[i] BY <1>5, <1>7
  <2>2. (j \in 1..Len(inbox) /\ Answers(j)) \/ j = n BY <1>4, <1>7
  <2> QED BY <2>1, <2>2
<1>8. OneTrace' BY <1>5, <1>6, <1>7 DEF OneTrace
<1>9. ASSUME NEW i \in 1..Len(inbox'), inbox'[i].kind = "ack", inbox'[i].by \in Callers, ~queued'[inbox'[i].by]
      PROVE  returns' # <<>> \/ \E j \in 1..(i - 1) : inbox'[j].kind = "return"
  <2>1. CASE i = n
    <3>1. n = Len(inbox) + 2 BY <1>9, <2>1
    <3>2. Len(inbox) + 1 \in 1..(i - 1) BY <1>1, <2>1, <3>1
    <3> QED BY <3>1, <3>2
  <2>2. CASE i \in 1..Len(inbox)
    <3>1. inbox'[i] = inbox[i] /\ ~queued[inbox[i].by] BY <1>9, <2>2
    <3>2. returns # <<>> \/ \E j \in 1..(i - 1) : inbox[j].kind = "return"
      BY <1>0, <1>9, <2>2, <3>1 DEF ReturnsFirst
    <3>3. \A j \in 1..(i - 1) : inbox'[j] = inbox[j] BY <1>1, <2>2
    <3> QED BY <3>2, <3>3
  <2>3. Answers(i)' BY <1>9 DEF Answers
  <2> QED BY <1>4, <2>1, <2>2, <2>3
<1>10. ReturnsFirst' BY <1>9 DEF ReturnsFirst
<1> QED BY <1>8, <1>10

\* The broker answers the oldest frame, with a return before the confirm if unroutable.
LEMMA AcceptStep ==
  ASSUME IInv, Accept
  PROVE  IInv'
<1>0. TypeOK /\ LockSound /\ CallsSound /\ sent \in Seq(Owner) /\ inbox \in Seq(Frame) /\ Len(inbox) \in Nat
      /\ queued \in [Callers -> BOOLEAN] /\ routable \in BOOLEAN /\ faults \in 0..MaxFaults
  BY DEF IInv, TypeOK
<1> DEFINE c == Head(sent)
           Frm(kind) == [kind |-> kind, by |-> c]
<1>1. /\ sent # <<>> /\ sent' = Tail(sent) /\ UNCHANGED <<lock, ch, returns, pc, confirm, result, routable>>
  BY DEF Accept
<1>2. c \in Owner /\ sent' \in Seq(Owner) BY <1>0, <1>1, HeadTailProperties
<1>3. \A kind \in {"return", "ack", "nack"} : Frm(kind) \in Frame /\ Frm(kind).kind = kind /\ Frm(kind).by = c
  BY <1>2 DEF Frame
<1>4. ASSUME queued' \in [Callers -> BOOLEAN], faults' \in 0..MaxFaults, \A d \in Callers : queued[d] => queued'[d],
             NEW n \in {Len(inbox) + 1, Len(inbox) + 2},
             inbox' \in Seq(Frame), Len(inbox') = n, \A i \in 1..Len(inbox) : inbox'[i] = inbox[i],
             inbox'[n].by = c, n = Len(inbox) + 2 => inbox'[Len(inbox) + 1].kind = "return",
             inbox'[n].kind = "ack" /\ c \in Callers => queued'[c] \/ n = Len(inbox) + 2
      PROVE  IInv'
  <2>1. OneTrace' /\ ReturnsFirst' BY <1>1, <1>4, AnswerArrives
  <2>2. TypeOK' BY <1>0, <1>1, <1>2, <1>4 DEF TypeOK
  <2>3. LockSound' BY <1>0, <1>1 DEF LockSound
  <2>4. CallsSound' BY <1>0, <1>1, <1>4 DEF CallsSound
  <2> QED BY <2>1, <2>2, <2>3, <2>4 DEF IInv
<1>5. CASE /\ Works
           /\ queued' = [d \in Callers |-> queued[d] \/ (d = c /\ routable)]
           /\ inbox' = inbox \o (IF routable THEN <<>> ELSE <<Frm("return")>>) \o <<Frm("ack")>>
  <2>1. /\ queued' \in [Callers -> BOOLEAN] /\ (\A d \in Callers : queued[d] => queued'[d])
        /\ (c \in Callers /\ routable => queued'[c])
    BY <1>0, <1>5
  <2>2. faults' \in 0..MaxFaults BY <1>0, <1>5 DEF Works
  <2>3. <<Frm("ack")>> \in Seq(Frame) /\ Len(<<Frm("ack")>>) = 1 /\ <<Frm("ack")>>[1] = Frm("ack")
        /\ <<Frm("return")>> \in Seq(Frame) /\ Len(<<Frm("return")>>) = 1 /\ <<Frm("return")>>[1] = Frm("return")
    BY <1>3
  <2>4. CASE routable
    <3>1. inbox' = inbox \o <<Frm("ack")>> BY <1>0, <1>5, <2>4, ConcatEmptySeq
    <3>2. /\ inbox' \in Seq(Frame) /\ Len(inbox') = Len(inbox) + 1 /\ inbox'[Len(inbox) + 1] = Frm("ack")
          /\ \A i \in 1..Len(inbox) : inbox'[i] = inbox[i]
      BY <1>0, <2>3, <3>1, ConcatProperties
    <3> QED BY <1>0, <1>3, <1>4, <2>1, <2>2, <2>4, <3>2
  <2>5. CASE ~routable
    <3> DEFINE mid == inbox \o <<Frm("return")>>
    <3>1. inbox' = mid \o <<Frm("ack")>> BY <1>5, <2>5
    <3>2. /\ mid \in Seq(Frame) /\ Len(mid) = Len(inbox) + 1 /\ mid[Len(inbox) + 1] = Frm("return")
          /\ \A i \in 1..Len(inbox) : mid[i] = inbox[i]
      BY <1>0, <2>3, ConcatProperties
    <3> HIDE DEF mid
    <3>3. /\ inbox' \in Seq(Frame) /\ Len(inbox') = Len(mid) + 1 /\ inbox'[Len(mid) + 1] = Frm("ack")
          /\ \A i \in 1..Len(mid) : inbox'[i] = mid[i]
      BY <2>3, <3>1, <3>2, ConcatProperties
    <3>4. /\ Len(inbox') = Len(inbox) + 2 /\ inbox'[Len(inbox) + 2] = Frm("ack")
          /\ inbox'[Len(inbox) + 1] = Frm("return")
          /\ \A i \in 1..Len(inbox) : inbox'[i] = inbox[i]
      <4>1. Len(mid) = Len(inbox) + 1 /\ Len(inbox) + 1 \in 1..Len(mid) /\ Len(mid) + 1 = Len(inbox) + 2
        BY <1>0, <3>2
      <4>2. \A i \in 1..Len(inbox) : i \in 1..Len(mid) BY <1>0, <4>1
      <4> QED BY ONLY <3>2, <3>3, <4>1, <4>2
    <3> QED BY <1>3, <1>4, <2>1, <2>2, <3>3, <3>4
  <2> QED BY <1>0, <2>4, <2>5
<1>6. CASE Fault /\ UNCHANGED queued /\ inbox' = Append(inbox, Frm("nack"))
  <2>1. /\ inbox' \in Seq(Frame) /\ Len(inbox') = Len(inbox) + 1 /\ inbox'[Len(inbox) + 1] = Frm("nack")
        /\ \A i \in 1..Len(inbox) : inbox'[i] = inbox[i]
    BY <1>0, <1>3, <1>6, AppendProperties
  <2>2. faults' \in 0..MaxFaults BY <1>0, <1>6, PublisherAssumption DEF Fault
  <2> QED BY <1>0, <1>3, <1>4, <1>6, <2>1, <2>2
<1> QED BY <1>5, <1>6 DEF Accept

\* The reader delivers an answer to the call that waits for it, after the return of its
\* message.
LEMMA ReadStep ==
  ASSUME IInv, Read
  PROVE  IInv'
<1>0. /\ TypeOK /\ LockSound /\ CallsSound /\ OneTrace /\ ReturnsFirst
      /\ inbox \in Seq(Frame) /\ returns \in Seq(Owner) /\ confirm \in [Callers -> {"none", "ack", "nack"}]
  BY DEF IInv, TypeOK
<1>1. /\ ch = "open" /\ inbox # <<>> /\ ~Blocked /\ inbox' = Tail(inbox)
      /\ UNCHANGED <<lock, ch, sent, pc, queued, result, routable, faults>>
  BY DEF Read
<1>2. /\ Head(inbox) \in Frame /\ inbox' \in Seq(Frame) /\ Len(inbox) \in Nat /\ Len(inbox) >= 1
      /\ Len(inbox') = Len(inbox) - 1 /\ Head(inbox) = inbox[1] /\ 1 \in 1..Len(inbox)
      /\ \A i \in 1..Len(inbox') : inbox'[i] = inbox[i + 1]
  BY <1>0, <1>1, HeadTailProperties
<1>3. \A i \in 1..Len(inbox') : /\ i + 1 \in 1..Len(inbox) /\ i + 1 # 1
                                /\ inbox'[i] = inbox[i + 1] /\ (Answers(i)' <=> Answers(i + 1))
  BY <1>2 DEF Answers
<1>4. \A i, j \in 1..Len(inbox') :
        Answers(i)' /\ Answers(j)' /\ inbox'[i].by = inbox'[j].by /\ inbox'[i].by \in Callers => i = j
  <2>1. ASSUME NEW i \in 1..Len(inbox'), NEW j \in 1..Len(inbox'),
               Answers(i + 1), Answers(j + 1), inbox[i + 1].by = inbox[j + 1].by, inbox[i + 1].by \in Callers
        PROVE  i = j
    <3>1. i + 1 = j + 1 BY <1>0, <1>3, <2>1 DEF OneTrace
    <3> QED BY <1>2, <3>1
  <2> QED BY <1>3, <2>1
<1>5. \A i \in 1..Len(sent'), j \in 1..Len(inbox') : Answers(j)' /\ sent'[i] \in Callers => inbox'[j].by # sent'[i]
  BY <1>0, <1>1, <1>3 DEF OneTrace
<1>6. \A i \in 1..Len(inbox') : Answers(i)' /\ inbox'[i].by \in Callers =>
        pc'[inbox'[i].by] = "wait" /\ confirm[inbox'[i].by] = "none"
  BY <1>0, <1>1, <1>3 DEF OneTrace
<1>7. LockSound' BY <1>0, <1>1 DEF LockSound
<1>8. CASE Head(inbox).kind = "return"
  <2>1. returns' = Append(returns, Head(inbox).by) /\ UNCHANGED confirm BY <1>8 DEF Read
  <2>2. returns = <<>> /\ Head(inbox).by \in Owner BY <1>1, <1>2, <1>8 DEF Blocked, Frame
  <2>3. returns' \in Seq(Owner) /\ Len(returns') = 1 /\ returns' # <<>>
    BY <1>0, <2>1, <2>2, AppendProperties, NoFrames
  <2>4. TypeOK' BY <1>0, <1>1, <1>2, <2>1, <2>3 DEF TypeOK
  <2>5. CallsSound' BY <1>0, <1>1, <2>1, <2>3 DEF CallsSound
  <2>6. OneTrace' BY <1>0, <1>1, <1>4, <1>5, <1>6, <2>1 DEF OneTrace
  <2>7. ReturnsFirst' BY <2>3 DEF ReturnsFirst
  <2> QED BY <1>7, <2>4, <2>5, <2>6, <2>7 DEF IInv
<1>9. CASE Head(inbox).kind # "return"
  <2> DEFINE d == Head(inbox).by
             kind == Head(inbox).kind
  <2>1. confirm' = [e \in Callers |-> IF e = d THEN kind ELSE confirm[e]] /\ returns' = returns
    BY <1>9 DEF Read
  <2>2. kind \in {"ack", "nack"} /\ Answers(1) BY <1>2, <1>9 DEF Frame, Answers
  <2>3. d \in Callers => pc[d] = "wait" /\ confirm[d] = "none" BY <1>0, <1>2, <2>2 DEF OneTrace
  <2>4. d \in Callers /\ kind = "ack" => queued[d] \/ returns # <<>>
    <3>1. ~\E j \in 1..(1 - 1) : inbox[j].kind = "return" OBVIOUS
    <3> QED BY <1>0, <1>2, <3>1 DEF ReturnsFirst
  <2> HIDE DEF kind
  <2>5. confirm' \in [Callers -> {"none", "ack", "nack"}] BY <1>0, <2>1, <2>2
  <2>6. TypeOK' BY <1>0, <1>1, <1>2, <2>1, <2>5 DEF TypeOK
  <2>7. ASSUME NEW e \in Callers
        PROVE  /\ pc'[e] \in {"lock", "open", "send"} => confirm'[e] = "none"
               /\ pc'[e] # "idle" => result'[e] = "none"
               /\ pc'[e] = "check" => confirm'[e] = "ack"
               /\ pc'[e] \in {"wait", "check"} /\ confirm'[e] = "ack" => queued'[e] \/ returns' # <<>> \/ ch' = "closed"
               /\ result'[e] = "nil" => queued'[e]
    <3>1. CASE e = d BY <1>0, <1>1, <2>1, <2>3, <2>4, <3>1 DEF CallsSound
    <3>2. CASE e # d
      <4>1. confirm'[e] = confirm[e] BY <2>1, <3>2
      <4> QED BY <1>0, <1>1, <2>1, <4>1 DEF CallsSound
    <3> QED BY <3>1, <3>2
  <2>8. CallsSound' BY <2>7 DEF CallsSound
  <2>9. \A i \in 1..Len(inbox') : Answers(i)' /\ inbox'[i].by \in Callers => inbox'[i].by # d
    BY <1>0, <1>2, <1>3, <2>2 DEF OneTrace
  <2>10. \A i \in 1..Len(sent) : sent[i] \in Callers => sent[i] # d
    BY <1>0, <1>2, <2>2 DEF OneTrace
  <2>11. \A e \in Callers : e # d => confirm'[e] = confirm[e] BY <2>1
  <2> HIDE DEF d
  <2>12. OneTrace' BY <1>0, <1>1, <1>4, <1>5, <1>6, <2>9, <2>10, <2>11 DEF OneTrace
  <2>13. ASSUME NEW i \in 1..Len(inbox'), inbox'[i].kind = "ack", inbox'[i].by \in Callers, ~queued'[inbox'[i].by],
                returns' = <<>>
         PROVE  \E j \in 1..(i - 1) : inbox'[j].kind = "return"
    <3>1. PICK j \in 1..i : inbox[j].kind = "return"
      <4>1. i + 1 \in 1..Len(inbox) /\ inbox'[i] = inbox[i + 1] BY <1>3
      <4>2. \E j \in 1..(i + 1 - 1) : inbox[j].kind = "return" BY <1>0, <1>1, <2>1, <2>13, <4>1 DEF ReturnsFirst
      <4> QED BY <4>2
    <3>2. j # 1 BY <1>2, <1>9, <3>1
    <3>3. j - 1 \in 1..(i - 1) /\ j - 1 \in 1..Len(inbox') /\ (j - 1) + 1 = j BY <1>2, <3>1, <3>2
    <3> QED BY <1>2, <3>1, <3>3
  <2>14. ReturnsFirst' BY <2>13 DEF ReturnsFirst
  <2> QED BY <1>7, <2>6, <2>8, <2>12, <2>14 DEF IInv
<1> QED BY <1>8, <1>9

\* The broker closes the channel: what waits is not confirmed and the wire is empty.
LEMMA CloseChannelStep ==
  ASSUME IInv, CloseChannel
  PROVE  IInv'
<1>0. TypeOK /\ LockSound /\ CallsSound /\ faults \in 0..MaxFaults BY DEF IInv, TypeOK
<1>1. /\ ch' = "closed" /\ sent' = <<>> /\ inbox' = <<>> /\ UNCHANGED <<lock, returns, pc, queued, result, routable>>
      /\ confirm' = [c \in Callers |-> IF pc[c] = "wait" /\ confirm[c] = "none" THEN "nack" ELSE confirm[c]]
  BY DEF CloseChannel
<1>2. faults' \in 0..MaxFaults BY <1>0, PublisherAssumption DEF CloseChannel, Fault
<1>3. TypeOK' BY <1>0, <1>1, <1>2, NoFrames DEF TypeOK
<1>4. LockSound' BY <1>0, <1>1 DEF LockSound
<1>5. CallsSound' BY <1>0, <1>1 DEF CallsSound
<1> QED BY <1>1, <1>3, <1>4, <1>5, FramesGone DEF IInv

\* Close of the publisher leaves no frames.
LEMMA CloseStep ==
  ASSUME IInv, Close
  PROVE  IInv'
<1>0. TypeOK /\ LockSound /\ CallsSound BY DEF IInv
<1>1. /\ lock = {} /\ ch' = "nil" /\ sent' = <<>> /\ inbox' = <<>>
      /\ UNCHANGED <<lock, returns, pc, confirm, queued, result, routable, faults>>
  BY DEF Close
<1>2. TypeOK' BY <1>0, <1>1, NoFrames DEF TypeOK
<1>3. LockSound' BY <1>0, <1>1 DEF LockSound
<1>4. \A c \in Callers : pc[c] \notin {"wait", "check"} BY <1>0, <1>1 DEF LockSound
<1>5. CallsSound' BY <1>0, <1>1, <1>4 DEF CallsSound
<1> QED BY <1>1, <1>2, <1>3, <1>5, FramesGone DEF IInv

\* Every step of callers, broker and publisher keeps the invariant.
LEMMA PublisherStep ==
  ASSUME IInv, [Next]_vars
  PROVE  IInv'
<1>1. ASSUME UNCHANGED <<lock, ch, returns, sent, inbox, pc, confirm, queued, result, faults>>, routable' \in BOOLEAN
      PROVE  IInv'
  <2>1. TypeOK' /\ LockSound' /\ CallsSound' BY <1>1 DEF IInv, TypeOK, LockSound, CallsSound
  <2>2. OneTrace' /\ ReturnsFirst' BY <1>1, FramesKept
  <2> QED BY <2>1, <2>2 DEF IInv
<1>2. routable \in BOOLEAN BY DEF IInv, TypeOK
<1>3. CASE LoseQueue \/ RestoreQueue BY <1>1, <1>3 DEF LoseQueue, RestoreQueue
<1>4. CASE UNCHANGED vars BY <1>1, <1>2, <1>4 DEF vars
<1>5. ASSUME NEW c \in Callers, Publish(c) \/ publish(c) PROVE IInv'
  BY <1>5, PublishStep, LockStep, OpenLockedStep, SendStep, ConfirmedStep, TimedOutStep, CheckStep DEF publish
<1> QED BY <1>3, <1>4, <1>5, CloseStep, AcceptStep, ReadStep, CloseChannelStep DEF Next

\* A new publisher satisfies the invariant.
LEMMA PublisherInit == Init => IInv
<1> SUFFICES ASSUME Init PROVE IInv OBVIOUS
<1>1. TypeOK BY NoFrames, PublisherAssumption DEF Init, TypeOK
<1>2. LockSound /\ CallsSound BY DEF Init, LockSound, CallsSound
<1>3. OneTrace /\ ReturnsFirst BY DEF Init, OneTrace, ReturnsFirst
<1> QED BY <1>1, <1>2, <1>3 DEF IInv

\* Publish returns nil only for a message that is in a queue, however many share the
\* channel, whatever answers come late, and wherever the channel or the queue is lost.
THEOREM NilIsQueued == Spec => []NilMeansQueued
<1>1. IInv => NilMeansQueued BY DEF IInv, CallsSound, NilMeansQueued
<1>2. IInv /\ [Next]_vars => IInv' BY PublisherStep
<1> QED BY <1>1, <1>2, PublisherInit, PTL DEF Spec
============================================================================
