---------------------------- MODULE RequestProcess ----------------------------
(***************************************************************************)
(* The state machine of a client's request in radiusd (main/process.c):    *)
(* the master thread receives packets, finds duplicates and conflicts in   *)
(* its tree of live requests and fires timers, while a child thread runs   *)
(* the request.  Both write the REQUEST without a lock.  The home servers   *)
(* of a proxy are in HomeServer, the threads themselves in ThreadPool.      *)
(*                                                                         *)
(* Clocks are abstract: a delay may pass at any time after it began, since *)
(* the time a child takes is not bounded.                                  *)
(***************************************************************************)
EXTENDS Integers, FiniteSets

CONSTANTS
    Packet,          \* packets of the NASes: same bytes and authenticator
    KeyOf,           \* [Packet -> source, port and ID], what the tree compares
    Accounting,      \* the packets that are Accounting-Requests
    Slot,            \* memory for REQUESTs
    MaxRequests,     \* max_requests, 0 for no limit
    MaxQueue,        \* max_queue_size of the thread pool
    RejectDelay,     \* whether reject_delay is set
    Stalls,          \* whether a child may stall for seconds between its last statements
    NoPacket, NoReply

ASSUME RequestAssumption ==
    /\ Accounting \subseteq Packet /\ NoPacket \notin Packet
    /\ KeyOf \in [Packet -> {KeyOf[p] : p \in Packet}]
    /\ MaxRequests \in Nat /\ MaxQueue \in Nat \ {0, 1}
    /\ RejectDelay \in BOOLEAN /\ Stalls \in BOOLEAN
    /\ NoReply \notin {"accept", "reject", "response"}

VARIABLES
    req,      \* [Slot -> REQUEST]
    cpc       \* where the child of each request is

vars == <<req, cpc>>

Reply == {"accept", "reject", "response", NoReply}
Process == {"running", "response_delay", "cleanup_delay", "done"}
ChildState == {"QUEUED", "RUNNING", "RESPONSE_DELAY", "CLEANUP_DELAY", "DONE"}
ChildAt == {"none", "queued", "run", "handle", "answer",
            "final RESPONSE_DELAY", "final CLEANUP_DELAY", "final DONE"}

\* Mutant: a queued request has no child to wait for.
UnfinishedRunning == {"RUNNING"}

\* child_state <= REQUEST_RUNNING
Unfinished == {"QUEUED", "RUNNING"}

REQUEST == [live: BOOLEAN, pkt: Packet \cup {NoPacket}, process: Process,
            stop: BOOLEAN,           \* master_state is REQUEST_STOP_PROCESSING
            child: ChildState, in_hash: BOOLEAN,
            timer: BOOLEAN,          \* an event is in the list
            reply: Reply, sent: BOOLEAN]

\* What request_free leaves.
Freed == [live |-> FALSE, pkt |-> NoPacket, process |-> "done", stop |-> TRUE,
          child |-> "DONE", in_hash |-> FALSE, timer |-> FALSE, reply |-> NoReply,
          sent |-> FALSE]

TypeOK ==
    /\ req \in [Slot -> REQUEST]
    /\ cpc \in [Slot -> ChildAt]

-----------------------------------------------------------------------------
(* States of the machine, as called by the master *)

\* request_done by the master: stop it, take it out of the tree, and free it
\* or wait for the child with a timer.  A cancelled request counts as done.
request_done(q, action) ==
    LET stopped == [q EXCEPT !.process = "done", !.stop = TRUE]
        acked == IF action = "DONE" /\ q.child \notin Unfinished
                 THEN [stopped EXCEPT !.child = "DONE"] ELSE stopped IN
    IF action = "DUP" /\ q.reply # NoReply THEN [stopped EXCEPT !.sent = TRUE]
    ELSE IF acked.child \in Unfinished
    THEN [acked EXCEPT !.in_hash = FALSE, !.timer = TRUE]
    ELSE Freed

\* request_cleanup_delay_init by the master: a delayed reject was sent.
request_cleanup_delay_init(q) ==
    [q EXCEPT !.process = "cleanup_delay", !.child = "CLEANUP_DELAY", !.timer = TRUE]

\* Mutant: the timer is not set again.
MaxTimeOnce(q) ==
    IF q.child = "DONE" THEN {request_done(q, "DONE")} ELSE {request_done(q, "DONE"), q}

\* request_max_time: the child is done, or has run out of time, or neither.
request_max_time(q) ==
    IF q.child = "DONE" THEN {request_done(q, "DONE")}
    ELSE {request_done(q, "DONE"), [q EXCEPT !.timer = TRUE]}

\* A second is long enough for the child's last statements, unless Stalls.
SecondPassed(i) == Stalls \/ cpc[i] = "none"

\* request_response_delay: wait some more, or send the reject.
request_response_delay(i, q) ==
    {[q EXCEPT !.timer = TRUE]} \cup
    (IF SecondPassed(i) THEN {request_cleanup_delay_init([q EXCEPT !.sent = TRUE])} ELSE {})

\* request_cleanup_delay: wait some more for duplicates, or clean up.
request_cleanup_delay(q) == {[q EXCEPT !.timer = TRUE], request_done(q, "DONE")}

\* request->process(request, FR_ACTION_TIMER): what may become of a request.
OnTimer(i, q) ==
    CASE q.process = "done" -> {request_done(q, "TIMER")}
      [] q.process # "done" /\ q.stop -> {request_done(q, "DONE")}
      [] q.process = "running" /\ ~q.stop -> request_max_time(q)
      [] q.process = "response_delay" /\ ~q.stop ->
            request_response_delay(i, q)
      [] q.process = "cleanup_delay" /\ ~q.stop -> request_cleanup_delay(q)

\* request->process(request, FR_ACTION_DUP): a duplicate is ignored until
\* there is a reply to send again, and then it renews the cleanup delay.
OnDup(q) ==
    CASE q.process = "done" -> request_done(q, "DUP")
      [] q.process # "done" /\ q.stop -> request_done(q, "DONE")
      [] q.process = "cleanup_delay" /\ ~q.stop -> [q EXCEPT !.timer = TRUE]
      [] q.process \in {"running", "response_delay"} /\ ~q.stop -> q

-----------------------------------------------------------------------------
(* The master *)

Found(p) == {i \in Slot : req[i].in_hash /\ KeyOf[req[i].pkt] = KeyOf[p]}
Outstanding(r) == Cardinality({i \in Slot : r[i].in_hash})
Queued == {i \in Slot : cpc[i] = "queued"}

\* Mutant: accounting packets are not looked up (a listener with nodup).
NewNoDup(p) ==
    [live |-> TRUE, pkt |-> p, process |-> "running", stop |-> FALSE, child |-> "RUNNING",
     in_hash |-> p \notin Accounting, timer |-> TRUE, reply |-> NoReply, sent |-> FALSE]

\* request_setup, the insertion into the tree, and request_queue_or_run: the
\* timer is set, then the thread pool takes the request or refuses it.
New(p) ==
    [live |-> TRUE, pkt |-> p, process |-> "running", stop |-> FALSE, child |-> "RUNNING",
     in_hash |-> TRUE, timer |-> TRUE, reply |-> NoReply, sent |-> FALSE]

request_queue_or_run(r, i, p) ==
    IF Cardinality(Queued) < MaxQueue
    THEN /\ req' = [r EXCEPT ![i] = [New(p) EXCEPT !.child = "QUEUED"]]
         /\ cpc' = [cpc EXCEPT ![i] = "queued"]
    ELSE /\ req' = [r EXCEPT ![i] = request_done(New(p), "DONE")]
         /\ UNCHANGED cpc

\* The packet is in the tree with the same authenticator.
ReceiveDup(p) ==
    \E i \in Found(p) :
        /\ req[i].pkt = p
        /\ req' = [req EXCEPT ![i] = OnDup(req[i])]
        /\ UNCHANGED cpc

\* The packet is new.  One that has its source and ID but is another packet
\* is given up first.  Over max_requests the new one is dropped.
ReceiveNew(p) ==
    LET r == [i \in Slot |-> IF i \in Found(p) THEN request_done(req[i], "DONE") ELSE req[i]]
    IN  /\ \A i \in Found(p) : req[i].pkt # p
        /\ \/ /\ MaxRequests > 0 /\ Outstanding(r) > MaxRequests
              /\ req' = r
              /\ UNCHANGED cpc
           \/ /\ MaxRequests = 0 \/ Outstanding(r) <= MaxRequests
              /\ \E i \in Slot : ~req[i].live /\ cpc[i] = "none"
                                 /\ request_queue_or_run(r, i, p)

\* request_timer: the event is gone from the list when it fires.
request_timer(i) ==
    /\ req[i].live /\ req[i].timer
    /\ \E q \in OnTimer(i, [req[i] EXCEPT !.timer = FALSE]) : req' = [req EXCEPT ![i] = q]
    /\ UNCHANGED cpc

-----------------------------------------------------------------------------
(* A child *)

\* request_dequeue: one that was stopped is acknowledged at once.
Dequeue(i) ==
    /\ cpc[i] = "queued"
    /\ IF req[i].stop
       THEN /\ req' = [req EXCEPT ![i].child = "DONE"]
            /\ cpc' = [cpc EXCEPT ![i] = "none"]
       ELSE /\ req' = [req EXCEPT ![i].child = "RUNNING"]
            /\ cpc' = [cpc EXCEPT ![i] = "run"]

\* CHECK_FOR_STOP and request_done in a child: the last word is the state.
ChildDone(i) ==
    /\ req' = [req EXCEPT ![i].process = "done"]
    /\ cpc' = [cpc EXCEPT ![i] = "final DONE"]

\* request->process(request, FR_ACTION_RUN) begins: request_running, or
\* request_done when the master was faster.  The packet may not decode.
request_running(i) ==
    /\ cpc[i] = "run"
    /\ \/ (req[i].process = "done" \/ req[i].stop) /\ ChildDone(i)
       \/ /\ req[i].process # "done" /\ ~req[i].stop
          /\ \E next \in {"handle", "final DONE"} : cpc' = [cpc EXCEPT ![i] = next]
          /\ UNCHANGED req

\* request->handle returns; request_finish settles the reply's code.
Codes(p) == IF p \in Accounting THEN {"response", NoReply} ELSE {"accept", "reject", NoReply}
Handle(i) ==
    /\ cpc[i] = "handle"
    /\ \/ req[i].stop /\ ChildDone(i)
       \/ /\ ~req[i].stop
          /\ \E c \in Codes(req[i].pkt) : req' = [req EXCEPT ![i].reply = c]
          /\ cpc' = [cpc EXCEPT ![i] = "answer"]

\* request_cleanup_delay_init in a child; accounting packets are done.
ChildCleanup(i, q) ==
    IF q.pkt \in Accounting
    THEN /\ req' = [req EXCEPT ![i] = [q EXCEPT !.process = "done"]]
         /\ cpc' = [cpc EXCEPT ![i] = "final DONE"]
    ELSE /\ req' = [req EXCEPT ![i] = [q EXCEPT !.process = "cleanup_delay"]]
         /\ cpc' = [cpc EXCEPT ![i] = "final CLEANUP_DELAY"]

\* The end of request_finish: no reply, a reply suppressed because the
\* request left the tree, a delayed reject, or the reply.
request_finish(i) ==
    LET q == req[i]
        suppress == q.reply = NoReply \/ ~q.in_hash
        delay == q.reply = "reject" /\ RejectDelay IN
    /\ cpc[i] = "answer"
    /\ \/ suppress /\ ChildCleanup(i, q)
       \/ /\ ~suppress /\ delay
          /\ req' = [req EXCEPT ![i].process = "response_delay"]
          /\ cpc' = [cpc EXCEPT ![i] = "final RESPONSE_DELAY"]
       \/ ~suppress /\ ~delay /\ ChildCleanup(i, [q EXCEPT !.sent = TRUE])

\* FINAL_STATE: the child's last write to the request.
FINAL_STATE(i) ==
    /\ \/ cpc[i] = "final RESPONSE_DELAY" /\ req' = [req EXCEPT ![i].child = "RESPONSE_DELAY"]
       \/ cpc[i] = "final CLEANUP_DELAY" /\ req' = [req EXCEPT ![i].child = "CLEANUP_DELAY"]
       \/ cpc[i] = "final DONE" /\ req' = [req EXCEPT ![i].child = "DONE"]
    /\ cpc' = [cpc EXCEPT ![i] = "none"]

Init ==
    /\ req = [i \in Slot |-> Freed]
    /\ cpc = [i \in Slot |-> "none"]

Child(i) == Dequeue(i) \/ request_running(i) \/ Handle(i) \/ request_finish(i) \/ FINAL_STATE(i)
Next ==
    \/ \E p \in Packet : ReceiveDup(p) \/ ReceiveNew(p)
    \/ \E i \in Slot : request_timer(i) \/ Child(i)

Spec == Init /\ [][Next]_vars

\* Threads run, handlers return, timers fire and the delays they wait for
\* pass: a timer that may free its request or move it on does so at last.
Expires(i) == request_timer(i) /\ [req[i] EXCEPT !.timer = TRUE] # req'[i]
FairSpec == Spec /\ \A i \in Slot : WF_vars(Child(i)) /\ WF_vars(Expires(i))

-----------------------------------------------------------------------------
(* Properties *)

\* The memory of a request is not given back while a child or the queue of
\* the thread pool holds it, although nothing but child_state says so.
NotFreedInUse == \A i \in Slot : cpc[i] # "none" => req[i].live

\* A packet is worked on twice at once only if one of the two was given up:
\* duplicates do not get past the tree.
OneAtATime ==
    \A i, j \in Slot :
        (i # j /\ req[i].live /\ req[j].live /\ req[i].pkt = req[j].pkt)
            => req[i].stop \/ req[j].stop

\* Every live request has an event in the list: nothing else frees it.
TimerArmed == \A i \in Slot : req[i].live => req[i].timer

\* A request that waits for duplicates in the tree has sent the reply it
\* keeps for them.
SentBeforeCleanup ==
    \A i \in Slot : (req[i].process = "cleanup_delay" /\ req[i].in_hash /\ ~req[i].stop
                     /\ req[i].reply # NoReply) => req[i].sent

\* The tree holds no more requests than max_requests says.
TrackedBounded == MaxRequests > 0 => Outstanding(req) <= MaxRequests

\* Every request is freed in the end, however it is stopped, repeated or
\* answered.
EventuallyFreed == \A i \in Slot : req[i].live ~> ~req[i].live

\* A delayed reject is sent, unless the request is given up.
RejectSent ==
    \A i \in Slot : (req[i].live /\ req[i].process = "response_delay") ~>
                    (req[i].sent \/ req[i].stop \/ ~req[i].live)
=============================================================================
