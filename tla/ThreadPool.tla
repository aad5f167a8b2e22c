------------------------------ MODULE ThreadPool ------------------------------
(***************************************************************************)
(* The thread pool of radiusd (main/threads.c), in the build the container *)
(* ships: no <stdatomic.h>, so the queues are fr_fifo_t under queue_mutex. *)
(*                                                                         *)
(* The master thread hands requests over with request_enqueue, which first *)
(* may manage the pool; the children wait on a semaphore, dequeue and run  *)
(* a request, and leave when they were cancelled.  Requests are also       *)
(* stopped (max_request_time, a conflicting packet) and freed by the       *)
(* master, which must not happen under a child's hands.                    *)
(*                                                                         *)
(* The steps are the accesses other threads can see: a section under       *)
(* queue_mutex is one step, unlocked reads of the counters and of a        *)
(* handle's status are steps of their own.                                 *)
(***************************************************************************)
EXTENDS Integers, FiniteSets, Sequences, SequencesExt, Lists

CONSTANTS
    MaxThreads,      \* max_servers
    Request,         \* the requests a behaviour hands over
    NumFifos,        \* NUM_FIFOS, one fifo per listener type
    PriorityOf,      \* [Request -> 1..NumFifos], request->priority
    Accounting,      \* the requests that are Accounting-Requests
    StartThreads,    \* start_servers
    MinSpare,        \* min_spare_servers
    MaxSpare,        \* max_spare_servers
    MaxQueue,        \* max_queue_size
    CleanupDelay,    \* cleanup_delay of the pool, in seconds
    MaxPerThread,    \* max_requests_per_server, 0 for no limit
    AutoLimitAcct,   \* auto_limit_acct
    CreateFails,     \* whether pthread_create may fail
    None,            \* no request
    MaxTime          \* bound of the clock

Thread == 1..MaxThreads        \* handles; a deleted handle is allocated again
Priority == 1..NumFifos

\* What thread_pool_init requires of the configuration, or brings it to.
PoolAssumption ==
    /\ MaxThreads \in Nat \ {0} /\ NumFifos \in Nat \ {0}
    /\ PriorityOf \in [Request -> Priority] /\ Accounting \subseteq Request
    /\ IsFiniteSet(Request) /\ None \notin Request
    /\ StartThreads \in 0..MaxThreads
    /\ MinSpare \in Nat \ {0} /\ MaxSpare \in Nat /\ MaxSpare >= MinSpare
    /\ MaxQueue \in Nat \ {0, 1}
    /\ CleanupDelay \in Nat /\ MaxPerThread \in Nat /\ MaxTime \in Nat \ {0}
    /\ AutoLimitAcct \in BOOLEAN /\ CreateFails \in BOOLEAN

VARIABLES
    list,            \* thread_pool.head .. tail
    pc,              \* where each thread is in request_handler_thread
    status,          \* handle->status
    held,            \* handle->request
    handled,         \* handle->request_count, counted up to MaxPerThread
    sem,             \* value of thread_pool.semaphore
    fifo,            \* thread_pool.fifo[]
    num_queued,      \* thread_pool.num_queued
    active,          \* active_threads
    exited,          \* exited_threads
    last_cleaned, last_spawned,
    stop_flag,
    master,          \* where the master is: [at, req, spare, i]
    child_state,     \* request->child_state
    stopped,         \* requests with master_state REQUEST_STOP_PROCESSING
    freed,           \* requests the master freed
    now

poolVars == <<list, pc, status, held, handled>>
queueVars == <<sem, fifo, num_queued, active, exited>>
timeVars == <<last_cleaned, last_spawned, now>>
reqVars == <<child_state, stopped, freed>>
vars == <<list, pc, status, held, handled, sem, fifo, num_queued, active, exited,
          last_cleaned, last_spawned, now, stop_flag, master, child_state, stopped, freed>>

MasterAt == {"idle", "reap", "adjust", "scan", "cancel", "push", "post", "join", "gone"}

TypeOK ==
    /\ list \in Seq(Thread) /\ IsInjective(list)
    /\ pc \in [Thread -> {"none", "wait", "woken", "run", "after", "exit", "leave", "gone"}]
    /\ status \in [Thread -> {"RUNNING", "CANCELLED", "EXITED"}]
    /\ held \in [Thread -> Request \cup {None}]
    /\ handled \in [Thread -> 0..MaxPerThread]
    /\ sem \in Nat
    /\ fifo \in [Priority -> Seq(Request)] /\ num_queued \in 0..MaxQueue
    /\ active \in 0..MaxThreads /\ exited \in 0..MaxThreads
    /\ last_cleaned \in 0..MaxTime /\ last_spawned \in 0..MaxTime /\ now \in 1..MaxTime
    /\ stop_flag \in BOOLEAN
    /\ master \in [at: MasterAt, req: Request \cup {None}, spare: 0..MaxThreads,
                   i: 0..MaxThreads + 1]
    /\ child_state \in [Request -> {"new", "queued", "running", "done", "refused"}]
    /\ stopped \subseteq Request /\ freed \subseteq Request

total_threads == Len(list)
At(s) == {t \in Thread : pc[t] = s}
Goto(s) == master' = [master EXCEPT !.at = s]
Idle == [at |-> "idle", req |-> None, spare |-> 0, i |-> 0]

-----------------------------------------------------------------------------
(* The master: request_enqueue and thread_pool_manage *)

\* n new handles at the end of the list, each starting in sem_wait.  They are
\* allocated: which ones they are does not matter.
spawn_thread(n) ==
    LET new == CHOOSE s \in [1..n -> At("none")] : IsInjective(s) IN
    /\ list' = list \o new
    /\ pc' = [t \in Thread |-> IF Contains(new, t) THEN "wait" ELSE pc[t]]
    /\ status' = [t \in Thread |-> IF Contains(new, t) THEN "RUNNING" ELSE status[t]]
    /\ handled' = [t \in Thread |-> IF Contains(new, t) THEN 0 ELSE handled[t]]
    /\ last_spawned' = IF n > 0 THEN now ELSE last_spawned
    /\ UNCHANGED held

\* Enter request_enqueue.  The counters are read without the mutex.
request_enqueue(r) ==
    /\ master.at = "idle" /\ child_state[r] = "new"
    /\ master' = [at |-> IF \/ last_cleaned < now
                            \/ active = total_threads
                            \/ exited > 0
                         THEN "reap" ELSE "push",
                  req |-> r, spare |-> 0, i |-> 0]
    /\ UNCHANGED <<poolVars, queueVars, timeVars, stop_flag, reqVars>>

\* thread_pool_manage, first half: delete_thread for every handle that says
\* EXITED, then read active_threads.  EXITED is a thread's last write, so one
\* step is enough: a write that comes too late for the loop comes after it.
Reap ==
    LET gone == {t \in Thread : Contains(list, t) /\ status[t] = "EXITED"}
        rest == Without(list, gone) IN
    /\ master.at = "reap"
    /\ list' = rest
    /\ pc' = [t \in Thread |-> IF t \in gone THEN "none" ELSE pc[t]]
    /\ exited' = exited - Cardinality(gone)
    /\ master' = [master EXCEPT !.at = "adjust", !.spare = Len(rest) - active]
    /\ UNCHANGED <<status, held, handled, sem, fifo, num_queued, active, timeVars,
                   stop_flag, reqVars>>

TooFewSpare == total_threads < MaxThreads /\ master.spare < MinSpare

\* Second half, too few spares: create the missing ones, up to MaxThreads.
\* pthread_create may fail for one of them, and the loop gives up.
SpawnSpares ==
    LET total == IF MinSpare - master.spare + total_threads > MaxThreads
                 THEN MaxThreads - total_threads ELSE MinSpare - master.spare IN
    /\ master.at = "adjust" /\ TooFewSpare
    /\ \E n \in IF CreateFails THEN 0..total ELSE {total} : spawn_thread(n)
    /\ Goto("push")
    /\ UNCHANGED <<queueVars, last_cleaned, now, stop_flag, reqVars>>

\* Second half, enough spares: at most once a second, and not soon after a
\* spawn, look for one thread to cancel when there are too many.
CleanSpares ==
    /\ master.at = "adjust" /\ ~TooFewSpare
    /\ last_cleaned' = now
    /\ master' = IF /\ now # last_cleaned
                    /\ now - last_spawned >= CleanupDelay
                    /\ master.spare > MaxSpare
                 THEN [master EXCEPT !.at = "scan", !.i = 1]
                 ELSE [master EXCEPT !.at = "push"]
    /\ UNCHANGED <<poolVars, queueVars, last_spawned, now, stop_flag, reqVars>>

\* One handle of the walk over the list: idle and running, or the next one.
Scan ==
    /\ master.at = "scan"
    /\ master' = IF master.i > total_threads THEN [master EXCEPT !.at = "push"]
                 ELSE LET t == list[master.i] IN
                      IF held[t] = None /\ status[t] = "RUNNING"
                      THEN [master EXCEPT !.at = "cancel"]
                      ELSE [master EXCEPT !.i = @ + 1]
    /\ UNCHANGED <<poolVars, queueVars, timeVars, stop_flag, reqVars>>

\* Tell that thread to exit, with an extra post of the semaphore.
Cancel ==
    /\ master.at = "cancel"
    /\ status' = [status EXCEPT ![list[master.i]] = "CANCELLED"]
    /\ sem' = sem + 1
    /\ Goto("push")
    /\ UNCHANGED <<list, pc, held, handled, fifo, num_queued, active, exited, timeVars,
                   stop_flag, reqVars>>

\* auto_limit_acct: an Accounting-Request is thrown away by a dice roll once
\* the queue is more than half full (the packet rates are left open).
TossAccounting(r) == AutoLimitAcct /\ r \in Accounting /\ num_queued > MaxQueue \div 2

\* Under queue_mutex: refuse the request, or queue it.
Push ==
    LET r == master.req IN
    /\ master.at = "push"
    /\ \/ /\ num_queued < MaxQueue
          /\ fifo' = [fifo EXCEPT ![PriorityOf[r]] = Append(@, r)]
          /\ num_queued' = num_queued + 1
          /\ child_state' = [child_state EXCEPT ![r] = "queued"]
          /\ Goto("post")
       \/ /\ num_queued >= MaxQueue \/ TossAccounting(r)
          /\ child_state' = [child_state EXCEPT ![r] = "refused"]
          /\ master' = Idle
          /\ UNCHANGED <<fifo, num_queued>>
    /\ UNCHANGED <<poolVars, sem, active, exited, timeVars, stop_flag, stopped, freed>>

\* Mutant: no post when one is pending already.
PostOnce ==
    /\ master.at = "post"
    /\ sem' = IF sem = 0 THEN 1 ELSE sem
    /\ master' = Idle
    /\ UNCHANGED <<poolVars, fifo, num_queued, active, exited, timeVars, stop_flag, reqVars>>

\* The post comes after the unlock: a child may have run the request by now.
Post ==
    /\ master.at = "post"
    /\ sem' = sem + 1
    /\ master' = Idle
    /\ UNCHANGED <<poolVars, fifo, num_queued, active, exited, timeVars, stop_flag, reqVars>>

-----------------------------------------------------------------------------
(* A child: request_handler_thread *)

\* sem_wait returns.
Wake(t) ==
    /\ pc[t] = "wait" /\ sem > 0
    /\ sem' = sem - 1
    /\ pc' = [pc EXCEPT ![t] = "woken"]
    /\ UNCHANGED <<list, status, held, handled, fifo, num_queued, active, exited, timeVars,
                   stop_flag, master, reqVars>>

\* The loop condition, reached by `continue' and at the end of the body.
Again(t) == IF status[t] # "CANCELLED" THEN "wait" ELSE "exit"

\* stop_flag is seen before anything is dequeued.
SeeStop(t) ==
    /\ pc[t] = "woken" /\ stop_flag
    /\ pc' = [pc EXCEPT ![t] = "exit"]
    /\ UNCHANGED <<list, status, held, handled, queueVars, timeVars, stop_flag, master, reqVars>>

\* fr_fifo_peek and fr_fifo_pop of a head that was stopped, once per fifo.
Cleared(q) == [p \in Priority |->
                 IF q[p] # <<>> /\ Head(q[p]) \in stopped THEN Tail(q[p]) ELSE q[p]]

\* The request the retry loop ends at: the first one that was not stopped, in
\* the first fifo that has one; and what is left in the fifos.
Live(s) == SelectInSeq(s, LAMBDA r : r \notin stopped)
FirstFifo(q) == {p \in Priority : Live(q[p]) > 0 /\ \A o \in 1..p - 1 : Live(q[o]) = 0}
Popped(q) == [p \in Priority |->
                IF \E f \in FirstFifo(q) : f < p THEN q[p]
                ELSE IF Live(q[p]) > 0 THEN SubSeq(q[p], Live(q[p]) + 1, Len(q[p]))
                ELSE <<>>]
Elements(q) == UNION {ToSet(q[p]) : p \in Priority}

\* request_dequeue, all of it under queue_mutex: the stopped requests it meets
\* are acknowledged as done; the first other one is taken.
request_dequeue(t) ==
    LET q == Cleared(fifo)
        rest == Popped(q)
        took == {q[p][Live(q[p])] : p \in FirstFifo(q)}
        acked == (Elements(fifo) \ Elements(rest)) \ took IN
    /\ pc[t] = "woken" /\ ~stop_flag
    /\ fifo' = rest
    /\ num_queued' = num_queued - Cardinality(acked) - Cardinality(took)
    /\ child_state' = [r \in Request |-> IF r \in acked THEN "done"
                                         ELSE IF r \in took THEN "running" ELSE child_state[r]]
    /\ \/ /\ took = {}
          /\ pc' = [pc EXCEPT ![t] = Again(t)]
          /\ UNCHANGED <<held, handled, active>>
       \/ \E r \in took :
          /\ held' = [held EXCEPT ![t] = r]
          /\ handled' = [handled EXCEPT ![t] = IF @ < MaxPerThread THEN @ + 1 ELSE @]
          /\ active' = active + 1
          /\ pc' = [pc EXCEPT ![t] = "run"]
    /\ UNCHANGED <<list, status, sem, exited, timeVars, stop_flag, master, stopped, freed>>

\* request->process(request, FR_ACTION_RUN), to its end.
Run(t) ==
    /\ pc[t] = "run"
    /\ child_state' = [child_state EXCEPT ![held[t]] = "done"]
    /\ pc' = [pc EXCEPT ![t] = "after"]
    /\ UNCHANGED <<list, status, held, handled, queueVars, timeVars, stop_flag, master,
                   stopped, freed>>

\* Mutant: a cancelled thread leaves before it gives up its place.
AfterCancelled(t) ==
    /\ pc[t] = "after"
    /\ held' = [held EXCEPT ![t] = None]
    /\ active' = IF status[t] = "CANCELLED" THEN active ELSE active - 1
    /\ pc' = [pc EXCEPT ![t] = Again(t)]
    /\ UNCHANGED <<list, status, handled, sem, fifo, num_queued, exited, timeVars, stop_flag,
                   master, reqVars>>

\* self->request = NULL; active_threads-- under the mutex; the loop's end.
After(t) ==
    /\ pc[t] = "after"
    /\ held' = [held EXCEPT ![t] = None]
    /\ active' = active - 1
    /\ pc' = [pc EXCEPT ![t] = IF MaxPerThread > 0 /\ handled[t] >= MaxPerThread
                               THEN "exit" ELSE Again(t)]
    /\ UNCHANGED <<list, status, handled, sem, fifo, num_queued, exited, timeVars, stop_flag,
                   master, reqVars>>

\* exited_threads++ under the mutex ...
CountExit(t) ==
    /\ pc[t] = "exit"
    /\ exited' = exited + 1
    /\ pc' = [pc EXCEPT ![t] = "leave"]
    /\ UNCHANGED <<list, status, held, handled, sem, fifo, num_queued, active, timeVars,
                   stop_flag, master, reqVars>>

\* ... and, as the last thing, the status the master looks for.
Leave(t) ==
    /\ pc[t] = "leave"
    /\ status' = [status EXCEPT ![t] = "EXITED"]
    /\ pc' = [pc EXCEPT ![t] = "gone"]
    /\ UNCHANGED <<list, held, handled, queueVars, timeVars, stop_flag, master, reqVars>>

-----------------------------------------------------------------------------
(* The rest of the master *)

\* Mutant: the master marks the request done itself.
StopMarksDone(r) ==
    /\ master.at = "idle" /\ child_state[r] \in {"queued", "running"} /\ r \notin stopped
    /\ stopped' = stopped \cup {r}
    /\ child_state' = [child_state EXCEPT ![r] = "done"]
    /\ UNCHANGED <<poolVars, queueVars, timeVars, stop_flag, master, freed>>

\* Mark the request as STOP: any time between two calls of request_enqueue.
StopRequest(r) ==
    /\ master.at = "idle" /\ child_state[r] \in {"queued", "running"} /\ r \notin stopped
    /\ stopped' = stopped \cup {r}
    /\ UNCHANGED <<poolVars, queueVars, timeVars, stop_flag, master, child_state, freed>>

\* request_done and request_free: only when the child acknowledged it.
request_free(r) ==
    /\ master.at = "idle" /\ child_state[r] = "done" /\ r \notin freed
    /\ freed' = freed \cup {r}
    /\ UNCHANGED <<poolVars, queueVars, timeVars, stop_flag, master, child_state, stopped>>

\* thread_pool_stop: raise the flag and post once per thread ...
thread_pool_stop ==
    /\ master.at = "idle"
    /\ stop_flag' = TRUE
    /\ sem' = sem + total_threads
    /\ Goto("join")
    /\ UNCHANGED <<poolVars, fifo, num_queued, active, exited, timeVars, reqVars>>

\* ... then join and delete the handles one by one, and free the fifos.
Join ==
    /\ master.at = "join"
    /\ \/ /\ list # <<>> /\ pc[Head(list)] = "gone"
          /\ list' = Tail(list)
          /\ pc' = [pc EXCEPT ![Head(list)] = "none"]
          /\ UNCHANGED <<fifo, master>>
       \/ /\ list = <<>>
          /\ fifo' = [p \in Priority |-> <<>>]
          /\ Goto("gone")
          /\ UNCHANGED <<list, pc>>
    /\ UNCHANGED <<status, held, handled, sem, num_queued, active, exited, timeVars,
                   stop_flag, reqVars>>

\* The clock is read when a request arrives only, so it may stand still while
\* the master is at work.
Tick ==
    /\ master.at = "idle" /\ now < MaxTime
    /\ now' = now + 1
    /\ UNCHANGED <<poolVars, queueVars, last_cleaned, last_spawned, stop_flag, master, reqVars>>

\* thread_pool_init, at second 1 (last_cleaned is a static 0).
Init ==
    /\ list = [i \in 1..StartThreads |-> i]
    /\ pc = [t \in Thread |-> IF t <= StartThreads THEN "wait" ELSE "none"]
    /\ status = [t \in Thread |-> "RUNNING"]
    /\ held = [t \in Thread |-> None]
    /\ handled = [t \in Thread |-> 0]
    /\ sem = 0 /\ fifo = [p \in Priority |-> <<>>] /\ num_queued = 0
    /\ active = 0 /\ exited = 0
    /\ last_cleaned = 0 /\ last_spawned = 1 /\ now = 1
    /\ stop_flag = FALSE
    /\ master = Idle
    /\ child_state = [r \in Request |-> "new"]
    /\ stopped = {} /\ freed = {}

Manage == Reap \/ SpawnSpares \/ CleanSpares \/ Scan \/ Cancel
Master == Manage \/ Push \/ Post \/ Join
Child(t) ==
    Wake(t) \/ SeeStop(t) \/ request_dequeue(t) \/ Run(t) \/ After(t) \/ CountExit(t) \/ Leave(t)
Next ==
    \/ Master
    \/ \E t \in Thread : Child(t)
    \/ \E r \in Request : request_enqueue(r) \/ StopRequest(r) \/ request_free(r)
    \/ thread_pool_stop \/ Tick

Spec == Init /\ [][Next]_vars

\* The scheduler runs every thread, and a call that was entered goes on; a
\* semaphore wakes somebody, not each waiting thread; packets, stops and the
\* clock promise nothing.
Posted == \E t \in Thread : Wake(t)
Awake(t) == Child(t) /\ pc[t] # "wait"
FairSpec == Spec /\ WF_vars(Master) /\ WF_vars(Posted) /\ \A t \in Thread : WF_vars(Awake(t))

-----------------------------------------------------------------------------
(* Properties *)

\* A request the master freed is in no fifo and no child runs it.
NotFreedInUse ==
    \A r \in freed :
        /\ r \notin Elements(fifo)
        /\ \A t \in Thread : pc[t] = "run" => held[t] # r

\* A request is run by at most one child, and never while it is queued.
RunOnce ==
    \A t \in Thread : pc[t] = "run" =>
        /\ held[t] \notin Elements(fifo)
        /\ \A u \in Thread \ {t} : pc[u] = "run" => held[u] # held[t]

\* No wake-up is lost: every queued request has a post of the semaphore that
\* is still there, or a child that woke up and has yet to look into the
\* fifos, or the master about to post.
NoLostWakeup ==
    num_queued <= sem + Cardinality(At("woken")) + (IF master.at = "post" THEN 1 ELSE 0)

\* The counters agree with what they count, whatever the interleaving: the
\* unsigned spare count of thread_pool_manage cannot wrap, and the queue
\* limit is one of the fifos together.
CountersExact ==
    /\ active = Cardinality(At("run") \cup At("after"))
    /\ active <= total_threads
    /\ master.at # "gone" => num_queued = Cardinality(Elements(fifo))
    /\ stop_flag \/ exited = Cardinality(At("leave") \cup At("gone"))

\* A thread that is gone says so, and the next thread_pool_manage finds it.
GoneIsReaped == \A t \in Thread : pc[t] = "gone" => status[t] = "EXITED"

\* A queued request is eventually taken by a child, or acknowledged as
\* stopped, unless the server is told to exit.
QueuedServed ==
    \A r \in Request : child_state[r] = "queued" ~> (child_state[r] # "queued" \/ stop_flag)

\* thread_pool_stop ends: the posts reach every thread, no join waits forever.
StopJoins == stop_flag ~> master.at = "gone"
=============================================================================
