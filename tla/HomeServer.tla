----------------------------- MODULE HomeServer -----------------------------
(***************************************************************************)
(* The home server of a proxy (main/process.c, realms.c, command.c): its   *)
(* state (unknown, alive, zombie, dead, connection failed, down), the      *)
(* count of requests it has not answered, the status checks sent to it,    *)
(* and its one timer, which sends the next check or revives it.            *)
(*                                                                         *)
(* The master thread runs the timers, the replies and the commands of      *)
(* radmin; worker threads choose the server (home_server_ldb), enter the   *)
(* request in the proxy hash and leave it.  The pool has this one server,  *)
(* reached over UDP.  Times are not counted: a timer that is set may fire, *)
(* and quiet holds the intervals since the last reply that are over.       *)
(*                                                                         *)
(* A status check that is answered too early to make a dead server alive   *)
(* is dropped by request_ping without request_done; its memory is not part *)
(* of the model.                                                           *)
(***************************************************************************)
EXTENDS Integers, FiniteSets

CONSTANTS Requests,        \* requests to be proxied (reused once they are done)
          Pings,           \* bound: status checks in flight at once
          MaxOutstanding,  \* max_outstanding
          PingCheck,       \* status_check: "none", "status" or "request"
          PingsToAlive,    \* num_answers_to_alive
          MaxTimeouts,     \* response_timeouts
          MaxSent,         \* bound: copies of one request
          Overlap,         \* two workers may be between the choice and the hash
          Lossy,           \* packets may be lost though the server answers
          SocketFails,     \* opening a socket may fail
          NoIds,           \* all identifiers may be in use, no more sockets
          Admin            \* radmin sets the state

ASSUME HomeAssumption ==
  /\ IsFiniteSet(Requests) /\ IsFiniteSet(Pings)
  /\ {MaxOutstanding, PingsToAlive, MaxTimeouts, MaxSent} \subseteq Nat \ {0}
  /\ PingCheck \in {"none", "status", "request"}
  /\ {Overlap, Lossy, SocketFails, NoIds, Admin} \subseteq BOOLEAN

VARIABLES home,    \* home_server_t
          ping,    \* status checks in the proxy hash
          req,     \* the requests
          up       \* the server answers what it gets

vars == <<home, ping, req, up>>

Intervals == {"window", "quarter"}   \* response_window, zombie_period / 4

Home == [state    : {"unknown", "alive", "zombie", "dead", "conn_fail", "down"},
         count    : 0..Cardinality(Requests) + Cardinality(Pings),
         ev       : {"none", "ping", "revive"},
         received : 0..PingsToAlive,      \* num_received_pings, no higher
         timeouts : 0..MaxTimeouts,       \* response_timeouts, no higher
         quiet    : SUBSET Intervals,     \* since last_packet_recv
         streak   : 0..PingsToAlive]      \* ghost: answers since the last lost check

Request == [at   : {"idle", "chosen", "waiting", "running", "noreply", "finished"},
            hash : BOOLEAN,               \* in_proxy_hash
            sent : 0..MaxSent,            \* num_proxied_requests
            got  : 0..MaxSent]            \* num_proxied_responses

TypeOK ==
  /\ home \in Home
  /\ ping \in [Pings -> BOOLEAN]
  /\ req \in [Requests -> Request]
  /\ up \in BOOLEAN

Init ==
  /\ home = [state |-> "unknown", count |-> 0, ev |-> "none", received |-> 0,
             timeouts |-> 0, quiet |-> Intervals, streak |-> 0]
  /\ ping = [p \in Pings |-> FALSE]
  /\ req = [r \in Requests |-> [at |-> "idle", hash |-> FALSE, sent |-> 0, got |-> 0]]
  /\ up = TRUE

InHash == {r \in Requests : req[r].hash}

Sent == {p \in Pings : ping[p]}

IsDead(h) == h.state \in {"dead", "down", "conn_fail"}

\* One more, as far as the code looks.
Upto(n, max) == IF n < max THEN n + 1 ELSE n

-----------------------------------------------------------------------------
(* What the functions of process.c make of the home server. *)

\* Mutant: the count is left alone.
RemovedNever(h) == h

\* remove_from_proxy_hash_nl.
Removed(h) ==
  LET g == [h EXCEPT !.count = @ - 1]
  IN IF h.count = 0 THEN h
     ELSE IF g.count = 0 /\ g.state = "alive" /\ "window" \in g.quiet
       THEN [g EXCEPT !.state = "unknown", !.quiet = Intervals]
       ELSE g

\* mark_home_server_alive.
Alive(h) ==
  [h EXCEPT !.state = "alive", !.timeouts = 0, !.count = 0, !.received = 0,
            !.ev = "none"]

\* revive_home_server.
Revived(h) ==
  [h EXCEPT !.state = "alive", !.timeouts = 0, !.count = 0, !.ev = "none"]

\* mark_home_server_dead, but for the first status check.
Dead(h) ==
  [h EXCEPT !.state = "dead",
            !.ev = IF PingCheck # "none" /\ h.state # "conn_fail" THEN @
                   ELSE "revive"]

\* Mutant: the next check is not put on the timer.
CheckOnce(h, ps) ==
  {<<[h EXCEPT !.count = @ + 1], [ps EXCEPT ![p] = TRUE]>> :
     p \in {q \in Pings : ~ps[q]}}

\* ping_home_server, from request_alloc on: the check is sent and the next one
\* put on the timer, unless it does not get into the proxy hash.
Check(h, ps) ==
  {<<[h EXCEPT !.count = @ + 1, !.ev = "ping"], [ps EXCEPT ![p] = TRUE]>> :
     p \in {q \in Pings : ~ps[q]}}
  \union (IF NoIds THEN {<<h, ps>>} ELSE {})
  \union (IF SocketFails THEN {<<[h EXCEPT !.state = "conn_fail"], ps>>} ELSE {})

\* ping_home_server; over: the zombie period is over.
PingHome(h, ps, over) ==
  LET g == IF h.state = "zombie" /\ over THEN Dead(h) ELSE h
  IN IF h.state = "alive" \/ h.ev # "none" THEN {<<h, ps>>}
     ELSE IF PingCheck # "none" THEN Check(g, ps)
     ELSE {<<IF g.state = "zombie" THEN [g EXCEPT !.ev = "ping"] ELSE g, ps>>}

\* mark_home_server_dead(home, now, false).
MarkDead(h, ps) ==
  IF PingCheck # "none" /\ h.state = "alive"
    THEN PingHome([h EXCEPT !.state = "dead"], ps, FALSE)
    ELSE {<<Dead(h), ps>>}

\* mark_home_server_zombie.
MarkZombie(h, ps) ==
  IF "quarter" \notin h.quiet THEN {<<h, ps>>}
  ELSE PingHome([h EXCEPT !.state = "zombie", !.ev = "none", !.received = 0],
                ps, FALSE)

\* proxy_wait_for_reply: connections that failed, then the response that did
\* not come.
Failed(h) == IF h.state = "conn_fail" THEN Dead(h) ELSE h

TimedOut(h, ps) ==
  LET g == Failed(h)
      t == [g EXCEPT !.timeouts = Upto(@, MaxTimeouts)]
  IN IF g.state \notin {"alive", "unknown"} THEN {<<g, ps>>}
     ELSE IF t.timeouts < MaxTimeouts THEN {<<t, ps>>}
     ELSE MarkZombie(t, ps)

\* home_server_ldb.
Usable(h) == ~IsDead(h) /\ h.count < MaxOutstanding

-----------------------------------------------------------------------------
(* Requests: workers and master. *)

Move(r, to) == req' = [req EXCEPT ![r].at = to]

\* request_will_proxy: a server for the request, or Post-Proxy-Type Fail.
Choose(r) ==
  /\ req[r].at = "idle"
  /\ Overlap \/ \A s \in Requests : req[s].at # "chosen"
  /\ Move(r, IF Usable(home) THEN "chosen" ELSE "finished")
  /\ UNCHANGED <<home, ping, up>>

\* insert_into_proxy_hash.
Inserted(r, h) ==
  /\ home' = [h EXCEPT !.count = @ + 1]
  /\ req' = [req EXCEPT ![r] = [at |-> "waiting", hash |-> TRUE, sent |-> 1, got |-> 0]]

NotInserted(r, h) ==
  /\ \/ NoIds /\ home' = h
     \/ SocketFails /\ home' = [h EXCEPT !.state = "conn_fail"]
  /\ req' = [req EXCEPT ![r].at = "finished", ![r].hash = FALSE]

\* request_proxy; there is no second server to retry with.
Proxy(r) ==
  /\ req[r].at = "chosen"
  /\ Inserted(r, home) \/ NotInserted(r, home)
  /\ UNCHANGED <<ping, up>>

\* request_proxy_reply for a proxied request.  A second reply only counts; a
\* request that is no longer waiting ignores it.
Reply(r) ==
  /\ up /\ req[r].hash /\ req[r].got < req[r].sent
  /\ LET h == [home EXCEPT !.quiet = {}]
     IN home' = IF req[r].got = 0 /\ h.state \in {"unknown", "zombie"}
                THEN Alive(h) ELSE h
  /\ req' = [req EXCEPT ![r].got = @ + 1,
                        ![r].at = IF @ = "waiting" THEN "running" ELSE @]
  /\ UNCHANGED <<ping, up>>

\* proxy_wait_for_reply, FR_ACTION_TIMER after the response window.
Timeout(r) ==
  /\ req[r].at = "waiting"
  /\ Lossy \/ ~up
  /\ \E w \in TimedOut(home, ping) : home' = w[1] /\ ping' = w[2]
  /\ \E to \in {"noreply", "finished"} : Move(r, to)   \* setup_post_proxy_fail
  /\ UNCHANGED up

\* request_proxy_anew: out of the hash, and to a server chosen again.
Anew(r, h) ==
  LET g == Removed(h)
  IN \/ /\ Usable(g)
        /\ Inserted(r, g) \/ NotInserted(r, g)
     \/ /\ ~Usable(g)
        /\ home' = g
        /\ req' = [req EXCEPT ![r].at = "finished", ![r].hash = FALSE]

\* proxy_wait_for_reply, FR_ACTION_DUP: send it again, or, when the server is
\* dead or the packet carries Acct-Delay-Time, anew.
Duplicate(r) ==
  LET h == Failed(home)
  IN /\ req[r].at = "waiting"
     /\ \/ /\ ~IsDead(h) /\ req[r].sent < MaxSent
           /\ home' = h
           /\ req' = [req EXCEPT ![r].sent = @ + 1]
        \/ Anew(r, h)
     /\ UNCHANGED <<ping, up>>

\* process_proxy_reply with a reply, from proxy_running.
Run(r) ==
  /\ req[r].at = "running"
  /\ LET leaves == req[r].hash /\ req[r].sent <= req[r].got
     IN /\ home' = IF leaves THEN Removed(home) ELSE home
        /\ req' = [req EXCEPT ![r].at = "finished",
                              ![r].hash = @ /\ ~leaves]
  /\ UNCHANGED <<ping, up>>

\* process_proxy_reply without one, from proxy_no_reply.
NoAnswer(r) ==
  /\ req[r].at = "noreply"
  /\ home' = IF req[r].hash THEN Removed(home) ELSE home
  /\ req' = [req EXCEPT ![r].at = "finished", ![r].hash = FALSE]
  /\ UNCHANGED <<ping, up>>

\* request_done: failed connections of the pool, unless it was looked at in this
\* second, then out of the hash, unless there are replies to wait for.
Done(r) ==
  /\ req[r].at = "finished"
  /\ \E h \in {home, Failed(home)} :
       \/ /\ home' = IF req[r].hash THEN Removed(h) ELSE h
          /\ req' = [req EXCEPT ![r] = [at |-> "idle", hash |-> FALSE, sent |-> 0, got |-> 0]]
       \/ /\ req[r].hash /\ req[r].sent > req[r].got
          /\ home' = h
          /\ UNCHANGED req
  /\ UNCHANGED <<ping, up>>

-----------------------------------------------------------------------------
(* Timers and status checks: the master. *)

\* The timer of a home server that is checked.  Without checks it is set for the
\* end of the zombie period.
PingTimer ==
  /\ home.ev = "ping"
  /\ \E over \in (IF PingCheck = "none" THEN {TRUE} ELSE BOOLEAN) :
       \E w \in PingHome([home EXCEPT !.ev = "none"], ping, over) :
         home' = w[1] /\ ping' = w[2]
  /\ UNCHANGED <<req, up>>

ReviveTimer ==
  /\ home.ev = "revive"
  /\ home' = Revived(home)
  /\ UNCHANGED <<ping, req, up>>

\* Mutant: an answer is not counted.
AnsweredNever(h) ==
  LET g == Removed(h)
  IN IF g.state = "alive" \/ (IsDead(g) /\ g.received < PingsToAlive)
       THEN g ELSE Alive(g)

\* request_ping, FR_ACTION_PROXY_REPLY.
Answered(h) ==
  LET g == Removed([h EXCEPT !.received = Upto(@, PingsToAlive),
                             !.streak = Upto(@, PingsToAlive)])
  IN IF g.state = "alive" \/ (IsDead(g) /\ g.received < PingsToAlive)
       THEN g ELSE Alive(g)

\* request_proxy_reply for a status check.
PingReply(p) ==
  /\ up /\ ping[p]
  /\ LET h == [home EXCEPT !.quiet = IF PingCheck = "request" THEN {} ELSE @]
     IN home' = Answered(IF h.state \in {"unknown", "zombie"} THEN Alive(h) ELSE h)
  /\ ping' = [ping EXCEPT ![p] = FALSE]
  /\ UNCHANGED <<req, up>>

\* request_ping, FR_ACTION_TIMER.
PingTimeout(p) ==
  /\ ping[p]
  /\ Lossy \/ ~up
  /\ home' = [Removed(home) EXCEPT !.streak = 0]
  /\ ping' = [ping EXCEPT ![p] = FALSE]
  /\ UNCHANGED <<req, up>>

-----------------------------------------------------------------------------
(* radmin: command_set_home_server_state. *)

SetAlive ==
  /\ Admin /\ home' = Revived(home)
  /\ UNCHANGED <<ping, req, up>>

SetDead ==
  /\ Admin
  /\ \E w \in MarkDead(home, ping) : home' = w[1] /\ ping' = w[2]
  /\ UNCHANGED <<req, up>>

SetDown ==
  /\ Admin /\ home' = [home EXCEPT !.state = "down"]
  /\ UNCHANGED <<ping, req, up>>

-----------------------------------------------------------------------------
(* The world: time since the last reply, and the server itself. *)

Silence ==
  /\ \E i \in Intervals \ home.quiet : home' = [home EXCEPT !.quiet = @ \union {i}]
  /\ UNCHANGED <<ping, req, up>>

HomeDown == up /\ up' = FALSE /\ UNCHANGED <<home, ping, req>>

HomeUp == ~up /\ up' = TRUE /\ UNCHANGED <<home, ping, req>>

Next ==
  \/ \E r \in Requests : \/ Choose(r) \/ Proxy(r) \/ Reply(r) \/ Timeout(r)
                         \/ Duplicate(r) \/ Run(r) \/ NoAnswer(r) \/ Done(r)
  \/ \E p \in Pings : PingReply(p) \/ PingTimeout(p)
  \/ PingTimer \/ ReviveTimer
  \/ SetAlive \/ SetDead \/ SetDown
  \/ Silence \/ HomeDown \/ HomeUp

Spec == Init /\ [][Next]_vars

\* The event loop runs every timer that is due, and a status check that a living
\* server answers is read from its socket before it times out.
FairSpec ==
  /\ Spec
  /\ WF_vars(PingTimer) /\ WF_vars(ReviveTimer)
  /\ \A p \in Pings : WF_vars(PingReply(p)) /\ WF_vars(PingTimeout(p))

-----------------------------------------------------------------------------
(* Properties *)

\* A request counts for as long as it is in the proxy hash and no longer, so a
\* home server with nothing outstanding is never passed over as too busy by
\* home_server_ldb, whatever order replies, timeouts, revivals and commands
\* come in.  (The other direction does not hold: see MaxKept.)
NeverOvercounted == home.count <= Cardinality(InHash) + Cardinality(Sent)

\* A home server that is a zombie or dead has a timer, which checks it or revives
\* it: no order of replies, lost checks and failed connections leaves it dead for
\* ever.  "It will continue sending status checks until the home server is marked
\* alive" (raddb/proxy.conf).
ChecksContinue == home.state \in {"zombie", "dead"} => home.ev # "none"

\* A home server that is in use has no timer: a revival left over would forget
\* its outstanding requests (revive_home_server sets the count to 0).
NoStaleTimer == home.state \in {"alive", "unknown"} => home.ev = "none"

\* A home server that answers from some time on is used again, from whatever
\* state it was in.
Recovers == <>[]up => []<>(home.state \in {"alive", "unknown"})

\* Not more than max_outstanding requests wait for an answer of the home server:
\* "if ((#request sent) - (#requests received)) > max_outstanding then stop
\* sending more packets to the home server" (raddb/proxy.conf).
MaxKept == Cardinality({r \in InHash : req[r].got = 0}) <= MaxOutstanding

\* "Administratively down - don't do anything to bring it up"
\* (mark_home_server_dead): only radmin makes it alive again.
DownStays ==
  [][home.state = "down" /\ home'.state # "down" => SetAlive \/ SetDead]_vars

\* "the number of status checks in a row that the home server needs to respond to
\* before it is marked alive" (raddb/proxy.conf), for a dead one that is checked.
InARow ==
  [][home.state = "dead" /\ home.ev = "ping" /\ home'.state = "alive"
       => home'.streak >= PingsToAlive]_vars
=============================================================================
