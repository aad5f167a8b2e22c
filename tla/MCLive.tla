------------------------------- MODULE MCLive -------------------------------
(***************************************************************************)
(* What must happen in the end, for TLC.  The parts share no state and are *)
(* checked side by side: a behaviour is one of them, under the fairness of *)
(* its own specification, and the others stay as they began.               *)
(***************************************************************************)
EXTENDS Integers, FiniteSets

CONSTANTS
    x1, alice, bras1, sid1, w1, NoRow, Null,     \* the session
    q1, q2, None,                                \* requests for the thread pool
    a1, a2, b1, k1, k2, NoPacket, NoReply,       \* packets and their REQUESTs
    r1, p1, p2,                                  \* a proxied request, status checks
    t1, t2                                       \* threads with connections

VARIABLES
    part,
    now, online, offline, byte_remain, second_remain, next_id, blocked, job, form,
    sess, used, begun, contact, coa,
    list, pc, status, held, handled, sem, fifo, num_queued, active, exited,
    last_cleaned, last_spawned, stop_flag, master, child_state, stopped, freed, clock,
    req, cpc,
    home, ping, proxied, up,
    pool, thr, connUp, exiting, aborted, last_failure,
    readers, maxReaders, numReaders, rset, wset, rsnap, wsnap, loop, i, call

-----------------------------------------------------------------------------
OneUser == [x \in {x1} |-> alice]
OneBras == [x \in {x1} |-> bras1]
OneSid == [x \in {x1} |-> sid1]
Quota == [u \in {alice} |-> 3]
NoQuota == [u \in {alice} |-> 0]

Sessions == INSTANCE AccountingTimely WITH
    Uid <- {x1}, User <- {alice}, Nas <- {bras1}, Sid <- {sid1}, UserOf <- OneUser,
    NasOf <- OneBras, SidOf <- OneSid, ByteGrant <- Quota, SecondGrant <- NoQuota,
    Worker <- {w1}, StaleAfter <- 1, Interval <- 1, MaxOctets <- 1, MaxTime <- 4,
    Horizon <- 2

\* No thread is ever cancelled: MaxSpare = MaxThreads.
Listeners == [q \in {q1, q2} |-> IF q = q1 THEN 2 ELSE 1]
Threads == INSTANCE ThreadPool WITH
    now <- clock, Request <- {q1, q2}, Accounting <- {q1}, PriorityOf <- Listeners,
    NumFifos <- 2, MaxThreads <- 2, StartThreads <- 1, MinSpare <- 1, MaxSpare <- 2,
    MaxQueue <- 2, CleanupDelay <- 1, MaxPerThread <- 0, AutoLimitAcct <- TRUE,
    CreateFails <- TRUE, MaxTime <- 1

\* The packets a1 and a2 share their source and ID.
Keys == [p \in {a1, a2, b1} |-> IF p = b1 THEN b1 ELSE a1]
Machine == INSTANCE RequestProcess WITH
    Packet <- {a1, a2, b1}, KeyOf <- Keys, Accounting <- {b1}, Slot <- {k1, k2},
    MaxRequests <- 0, MaxQueue <- 2, RejectDelay <- TRUE, Stalls <- FALSE

\* Status checks are answered while the home server is up.
Home == INSTANCE HomeServer WITH
    req <- proxied, Requests <- {r1}, Pings <- {p1, p2}, MaxOutstanding <- 2,
    PingCheck <- "status", PingsToAlive <- 2, MaxTimeouts <- 1, MaxSent <- 2,
    Overlap <- TRUE, Lossy <- FALSE, SocketFails <- FALSE, NoIds <- FALSE, Admin <- FALSE

\* The back end goes down and comes back.
Conn == INSTANCE ConnectionPool WITH
    up <- connUp, Thread <- {t1, t2}, MaxConns <- 1, MinConns <- 1, StartConns <- 1,
    SpareConns <- 0, MaxUses <- 0, Lifetime <- 0, IdleTimeout <- 0, CleanupInterval <- 1,
    RetryDelay <- 1, MaxCall <- 1

\* One of two sockets always has something to read, and writing may fail.
Loop == INSTANCE EventLoop WITH
    pc <- loop, Fds <- {1, 2}, Slots <- 2, Hot <- {1}, Twice <- FALSE, WriteErrors <- TRUE
-----------------------------------------------------------------------------
sessionState == <<now, online, offline, byte_remain, second_remain, next_id, blocked, job,
                  form, sess, used, begun, contact, coa>>
threadState == <<list, pc, status, held, handled, sem, fifo, num_queued, active, exited,
                 last_cleaned, last_spawned, stop_flag, master, child_state, stopped,
                 freed, clock>>
requestState == <<req, cpc>>
homeState == <<home, ping, proxied, up>>
connState == <<pool, thr, connUp, exiting, aborted, last_failure>>
loopState == <<readers, maxReaders, numReaders, rset, wset, rsnap, wsnap, loop, i, call>>

\* What an idle part began with is not a choice.
MCInit ==
    /\ part \in {"sessions", "threads", "requests", "home", "connections", "loop"}
    /\ Sessions!Init /\ Threads!Init /\ Machine!Init /\ Home!Init /\ Conn!Init /\ Loop!Init
    /\ part # "connections" => connUp

SessionsNext ==
    /\ part = "sessions" /\ Sessions!Next
    /\ UNCHANGED <<part, threadState, requestState, homeState, connState, loopState>>
ThreadsNext ==
    /\ part = "threads" /\ Threads!Next
    /\ UNCHANGED <<part, sessionState, requestState, homeState, connState, loopState>>
RequestsNext ==
    /\ part = "requests" /\ Machine!Next
    /\ UNCHANGED <<part, sessionState, threadState, homeState, connState, loopState>>
HomeNext ==
    /\ part = "home" /\ Home!Next
    /\ UNCHANGED <<part, sessionState, threadState, requestState, connState, loopState>>
ConnNext ==
    /\ part = "connections" /\ Conn!Next
    /\ UNCHANGED <<part, sessionState, threadState, requestState, homeState, loopState>>
LoopNext ==
    /\ part = "loop" /\ Loop!Next
    /\ UNCHANGED <<part, sessionState, threadState, requestState, homeState, connState>>

MCNext ==
    \/ SessionsNext \/ ThreadsNext \/ RequestsNext \/ HomeNext \/ ConnNext \/ LoopNext

mcVars == <<part, sessionState, threadState, requestState, homeState, connState, loopState>>

\* The fairness of the specification of the part that runs.
SessionsFair ==
    LET On(A) == part = "sessions" /\ A
        Event(A) == On(A /\ UNCHANGED <<sess, used, begun, contact, coa>>) IN
    /\ SF_sessionState(On(Sessions!CoaRead)) /\ SF_sessionState(On(Sessions!CoaDisconnect(x1)))
    /\ WF_sessionState(On(Sessions!CoaMiss(x1)))
    /\ SF_sessionState(On(Sessions!Tick)) /\ SF_sessionState(On(Sessions!Interim(x1)))
    /\ WF_sessionState(Event(Sessions!EventMark(w1)))
    /\ SF_sessionState(Event(Sessions!EventCopy(w1)))
    /\ SF_sessionState(Event(Sessions!EventMove(w1)))
    /\ WF_sessionState(Event(Sessions!EventMoveRow(w1, x1)))
    /\ WF_sessionState(Event(Sessions!EventDone(w1)))
ThreadsFair ==
    /\ WF_threadState(part = "threads" /\ Threads!Master)
    /\ WF_threadState(part = "threads" /\ Threads!Posted)
    /\ \A t \in 1..2 : WF_threadState(part = "threads" /\ Threads!Awake(t))
RequestsFair ==
    \A k \in {k1, k2} :
        /\ WF_requestState(part = "requests" /\ Machine!Child(k))
        /\ WF_requestState(part = "requests" /\ Machine!Expires(k))
HomeFair ==
    /\ WF_homeState(part = "home" /\ Home!PingTimer)
    /\ WF_homeState(part = "home" /\ Home!ReviveTimer)
    /\ \A p \in {p1, p2} : /\ WF_homeState(part = "home" /\ Home!PingReply(p))
                           /\ WF_homeState(part = "home" /\ Home!PingTimeout(p))
ConnFair ==
    /\ WF_connState(part = "connections" /\ Conn!Runs)
    /\ \A t \in {t1, t2} : WF_connState(part = "connections" /\ Conn!Works(t))
LoopFair == WF_loopState(part = "loop" /\ Loop!Loop)

MCSpec ==
    /\ MCInit /\ [][MCNext]_mcVars
    /\ SessionsFair /\ ThreadsFair /\ RequestsFair /\ HomeFair /\ ConnFair
    /\ LoopFair
-----------------------------------------------------------------------------
\* A session flagged for disconnection ends although each request may be lost,
\* and the sessions a restarting NAS left behind reach the ledger.
SessionsEnd ==
    part = "sessions" =>
        []Sessions!TypeOK /\ Sessions!KickedSessionEnds /\ Sessions!LostSessionsSettled

\* A queued request is taken by a thread, stopping the pool ends, every request
\* is freed, a delayed reject is sent unless the request is given up, and a socket
\* that always has something to read is read again and again until it is removed.
RequestsEnd ==
    /\ part = "threads" => Threads!QueuedServed /\ Threads!StopJoins
    /\ part = "requests" => Machine!EventuallyFreed /\ Machine!RejectSent
    /\ part = "loop" => Loop!HotServed

\* A home server that answers again is used again, and threads get connections
\* again once the back end stays up.
PeersRecover ==
    /\ part = "home" => Home!Recovers
    /\ part = "connections" => Conn!Recovers
=============================================================================
