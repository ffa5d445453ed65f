------------------------------- MODULE Health -------------------------------
(***************************************************************************)
(* GET /health (internal/server/http/health.go) and the Ping methods of    *)
(* the repository, the storage and the broker connection.  Every request   *)
(* checks all dependencies at once, each within checkTimeout.  A ping of   *)
(* the broker cannot be cancelled: its goroutine outlives the check.       *)
(***************************************************************************)
EXTENDS Naturals, FiniteSets

CONSTANTS
  Probes,      \* requests to /health
  MaxChanges   \* bound: how often a dependency may change

ASSUME HealthAssumption == MaxChanges \in Nat

Components == {"db", "s3", "broker"}

\* hung: neither answers nor refuses (the database: also no free connection).  closed: the broker connection is gone for good.
Conditions == {"up", "down", "hung", "closed"}

VARIABLES
  state,    \* the condition of each component
  changes,  \* how often it has changed
  pc,       \* per probe: the handler
  gone,     \* per probe: whether its client has left
  check,    \* per probe and component: the goroutine of the check and its result
  seen,     \* per probe and component: its conditions since the check began
  ping      \* per probe: the goroutine of Conn.Ping

vars == <<state, changes, pc, gone, check, seen, ping>>

\* ok, unavailable: the answer of checkQueue, on its way into the channel of Ping.
PingPC == {"none", "asking", "ok", "unavailable", "ended"}

TypeOK ==
  /\ state \in [Components -> Conditions]
  /\ changes \in 0..MaxChanges
  /\ pc \in [Probes -> {"idle", "waiting", "ok", "degraded"}]
  /\ gone \in [Probes -> BOOLEAN]
  /\ check \in [Probes -> [Components -> {"none", "pinging", "ok", "unavailable"}]]
  /\ seen \in [Probes -> [Components -> SUBSET Conditions]]
  /\ ping \in [Probes -> PingPC]
  /\ \A p \in Probes, c \in Components : check[p][c] = "pinging" => pc[p] = "waiting"

Init ==
  /\ state = [c \in Components |-> "up"] /\ changes = 0
  /\ pc = [p \in Probes |-> "idle"] /\ gone = [p \in Probes |-> FALSE]
  /\ check = [p \in Probes |-> [c \in Components |-> "none"]]
  /\ seen = [p \in Probes |-> [c \in Components |-> {}]]
  /\ ping = [p \in Probes |-> "none"]
-----------------------------------------------------------------------------
\* What a check sees of the conditions from now on.
Watched(now) ==
  [p \in Probes |-> [c \in Components |->
     IF check[p][c] = "pinging" THEN seen[p][c] \cup {now[c]} ELSE seen[p][c]]]

\* A dependency fails, hangs or comes back; a closed connection does not come back.
Change(c) ==
  /\ changes < MaxChanges /\ changes' = changes + 1
  /\ state[c] # "closed"
  /\ \E s \in {"up", "down", "hung"} \ {state[c]} : state' = [state EXCEPT ![c] = s]
  /\ seen' = Watched(state')
  /\ UNCHANGED <<pc, gone, check, ping>>

\* The heartbeats of a hung broker stay away: the connection is closed.
Heartbeat ==
  /\ state["broker"] = "hung"
  /\ state' = [state EXCEPT !["broker"] = "closed"]
  /\ seen' = Watched(state')
  /\ UNCHANGED <<changes, pc, gone, check, ping>>

\* health starts a goroutine for every check.
health(p) ==
  /\ pc[p] = "idle" /\ pc' = [pc EXCEPT ![p] = "waiting"]
  /\ check' = [check EXCEPT ![p] = [c \in Components |-> "pinging"]]
  /\ seen' = [seen EXCEPT ![p] = [c \in Components |-> {state[c]}]]
  /\ ping' = [ping EXCEPT ![p] = IF state["broker"] = "closed" THEN "ended" ELSE "asking"]
  /\ UNCHANGED <<state, changes, gone>>

\* The client goes away: the context of the request is cancelled.
Leave(p) ==
  /\ pc[p] = "waiting" /\ ~gone[p]
  /\ gone' = [gone EXCEPT ![p] = TRUE]
  /\ UNCHANGED <<state, changes, pc, check, seen, ping>>

Checked(p, c, result) == check' = [check EXCEPT ![p][c] = result]

\* Repository.Ping and Storage.Ping: the query and the request are answered.
Ping(p, c) ==
  /\ c # "broker" /\ check[p][c] = "pinging"
  /\ \/ state[c] = "up" /\ Checked(p, c, "ok")
     \/ state[c] = "down" /\ Checked(p, c, "unavailable")
  /\ UNCHANGED <<state, changes, pc, gone, seen, ping>>

\* The goroutine of Conn.Ping: checkQueue returns when the broker answers or the
\* connection is closed.
checkQueue(p) ==
  /\ ping[p] = "asking" /\ state["broker"] # "hung"
  /\ ping' = [ping EXCEPT ![p] = IF state["broker"] = "up" THEN "ok" ELSE "unavailable"]
  /\ UNCHANGED <<state, changes, pc, gone, check, seen>>

\* Mutant: the channel of Ping has no buffer.
Sends_Unbuffered(p) == check[p]["broker"] = "pinging"

\* A value can be put into the buffer of done though nobody waits any more.
Sends(p) == TRUE

\* done <- err; Conn.Ping takes it if it still waits.
Done(p) ==
  /\ ping[p] \in {"ok", "unavailable"} /\ Sends(p)
  /\ ping' = [ping EXCEPT ![p] = "ended"]
  /\ IF check[p]["broker"] = "pinging"
     THEN Checked(p, "broker", ping[p])
     ELSE UNCHANGED check
  /\ UNCHANGED <<state, changes, pc, gone, seen>>

\* Conn.Ping on a connection that is closed already.
IsClosed(p) ==
  /\ check[p]["broker"] = "pinging" /\ ping[p] = "ended"
  /\ Checked(p, "broker", "unavailable")
  /\ UNCHANGED <<state, changes, pc, gone, seen, ping>>

\* Mutant: the context of the request is used.
Expired_ClientGone(p, c) == "hung" \in seen[p][c] \/ gone[p]

\* The limit of a check: only a dependency that hung meanwhile is too slow for it, and
\* the client's leaving does not count.
Expired(p, c) == "hung" \in seen[p][c]

\* checkStatus gives up.
checkStatus(p, c) ==
  /\ check[p][c] = "pinging" /\ Expired(p, c)
  /\ Checked(p, c, "unavailable")
  /\ UNCHANGED <<state, changes, pc, gone, seen, ping>>

Verdict(p) == IF \A c \in Components : check[p][c] = "ok" THEN "ok" ELSE "degraded"

\* wg.Wait
Waited(p) == \A c \in Components : check[p][c] # "pinging"

\* health answers.
Answer(p) ==
  /\ pc[p] = "waiting" /\ Waited(p)
  /\ pc' = [pc EXCEPT ![p] = Verdict(p)]
  /\ UNCHANGED <<state, changes, gone, check, seen, ping>>

Next ==
  \/ \E c \in Components : Change(c)
  \/ Heartbeat
  \/ \E p \in Probes :
       \/ health(p) \/ Leave(p) \/ checkQueue(p) \/ Done(p) \/ IsClosed(p) \/ Answer(p)
       \/ \E c \in Components : Ping(p, c) \/ checkStatus(p, c)

Spec == Init /\ [][Next]_vars

\* Goroutines run, a dependency that is up or down answers, the limit of a check comes,
\* and a connection without heartbeats is closed; dependencies need not recover.
Fairness ==
  /\ WF_vars(Heartbeat)
  /\ \A p \in Probes :
       /\ WF_vars(checkQueue(p)) /\ WF_vars(Done(p)) /\ WF_vars(IsClosed(p))
       /\ WF_vars(Answer(p))
       /\ \A c \in Components : WF_vars(Ping(p, c)) /\ WF_vars(checkStatus(p, c))
-----------------------------------------------------------------------------
\* The types, and a component is reported ok only if it was up, and unavailable only if
\* it was not, at some moment of the check: neither an answer that comes after the limit
\* nor a client that leaves turns a living dependency into a dead one.  So is the whole:
\* 200 is answered only after every component was found up by a check of this request.
ReportsAreTrue ==
  /\ TypeOK
  /\ \A p \in Probes, c \in Components :
       /\ check[p][c] = "ok" \/ pc[p] = "ok" => "up" \in seen[p][c]
       /\ check[p][c] = "unavailable" => seen[p][c] # {"up"}
  /\ \A p \in Probes : pc[p] = "degraded" => \E c \in Components : seen[p][c] # {"up"}

\* Every probe is answered, though dependencies hang for good: the limit of each check
\* ends it.  The goroutines that pings of a slow broker leave behind end as well: the
\* operation or the heartbeat ends them, and the buffered channel takes their answer.
ProbesEnd ==
  \A p \in Probes :
    /\ pc[p] = "waiting" ~> pc[p] \in {"ok", "degraded"}
    /\ ping[p] = "asking" ~> ping[p] = "ended"
-----------------------------------------------------------------------------
(* The inductive invariant behind ReportsAreTrue. *)

\* A check under way has seen the condition of its component, and what the goroutine of
\* Conn.Ping is about to report.
ChecksSound ==
  \A p \in Probes :
    /\ \A c \in Components :
         /\ check[p][c] = "pinging" => state[c] \in seen[p][c]
         /\ check[p][c] = "ok" => "up" \in seen[p][c]
         /\ check[p][c] = "unavailable" => seen[p][c] # {"up"}
    /\ check[p]["broker"] = "pinging" =>
         /\ ping[p] = "ok" => "up" \in seen[p]["broker"]
         /\ ping[p] = "unavailable" => seen[p]["broker"] # {"up"}
         /\ ping[p] = "ended" => "closed" \in seen[p]["broker"]

\* The answer is that of the checks, all of which have ended.
AnswersSound ==
  \A p \in Probes :
    /\ pc[p] = "idle" <=> \E c \in Components : check[p][c] = "none"
    /\ pc[p] = "idle" => ping[p] = "none"
    /\ pc[p] = "ok" => \A c \in Components : check[p][c] = "ok"
    /\ pc[p] = "degraded" => \E c \in Components : check[p][c] = "unavailable"

IInv == TypeOK /\ ChecksSound /\ AnswersSound
===============================================================================
