---------------------------- MODULE RequestPool ----------------------------
(***************************************************************************)
(* The requests of radiusd and, beside them, the pool of threads that runs *)
(* them: request_enqueue hands a request over, request_free comes back     *)
(* when the request was acknowledged.                                      *)
(***************************************************************************)
EXTENDS RequestProcess

CONSTANTS
    Job, AcctJob,    \* the requests handed over, the Accounting-Requests among them
    PriorityOf, NumFifos,
    MaxThreads, StartThreads, MinSpare, MaxSpare,
    CleanupDelay, MaxPerThread, AutoLimitAcct, CreateFails, MaxTime

VARIABLES
    list, pc, status, held, handled, sem, fifo, num_queued, active, exited,
    last_cleaned, last_spawned, stop_flag, master, child_state, stopped, freed, now

poolState == <<list, pc, status, held, handled, sem, fifo, num_queued, active, exited,
               last_cleaned, last_spawned, now, stop_flag, master, child_state, stopped,
               freed>>

Pool == INSTANCE ThreadPool WITH
    Request <- Job, Accounting <- AcctJob, None <- NoPacket

ASSUME PoolAssumption == Pool!PoolAssumption

\* While threads are spawned, cancelled and reaped and the queue is full, the
\* master frees no request that is queued or runs, and no request runs twice.
PoolRequestsSafe == Pool!NotFreedInUse /\ Pool!RunOnce

\* The semaphore and the counts of active and exited threads fit the threads
\* there are: no wake-up for a queued request gets lost, and a thread that is
\* gone will be reaped.  The last needs threads without a limit of requests
\* (max_requests_per_server = 0, as shipped): one that reached its limit may
\* leave between the master's look at it and its cancellation, which then
\* overwrites EXITED.
PoolCountsFit ==
    /\ Pool!TypeOK /\ Pool!NoLostWakeup /\ Pool!CountersExact
    /\ MaxPerThread = 0 => Pool!GoneIsReaped
=============================================================================
