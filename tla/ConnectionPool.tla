---------------------------- MODULE ConnectionPool ----------------------------
(***************************************************************************)
(* The pool of connections radiusd keeps to a back end such as the SQL     *)
(* database (main/connection.c).                                           *)
(*                                                                         *)
(* A section under pool->mutex is one step.  The steps outside it are      *)
(* those other threads can see: the unlocked look before a connection is   *)
(* opened, the opening itself, the unlocked write of last_failed.          *)
(*                                                                         *)
(* Times are kept as ages in seconds, counted no further than any test can *)
(* tell apart; age of a thread is that of the "now" its call read.         *)
(***************************************************************************)
EXTENDS Integers, FiniteSets, Sequences, SequencesExt, Lists

CONSTANTS
    Thread,          \* worker threads
    None,            \* no connection, no failure
    MaxConns,        \* max
    MinConns,        \* min
    StartConns,      \* start
    SpareConns,      \* spare
    MaxUses,         \* uses, 0 for no limit
    Lifetime,        \* lifetime, 0 for no limit
    IdleTimeout,     \* idle_timeout, 0 for no limit
    CleanupInterval, \* cleanup_interval
    RetryDelay,      \* retry_delay
    MaxCall          \* bound: no call of the pool takes more seconds

Conn == 1..MaxConns  \* names of the connections; a closed one's name is used again

\* What fr_connection_pool_init requires of the configuration, or brings it to.
ConnAssumption ==
    /\ MaxConns \in Nat \ {0} /\ MinConns \in 0..MaxConns /\ StartConns \in 0..MaxConns
    /\ SpareConns \in 0..(MaxConns - MinConns)
    /\ MaxUses \in Nat /\ Lifetime \in Nat /\ IdleTimeout \in Nat
    /\ CleanupInterval \in Nat /\ RetryDelay \in Nat /\ MaxCall \in Nat
    /\ Lifetime > 0 => IdleTimeout <= Lifetime
    /\ IdleTimeout > 0 => CleanupInterval <= IdleTimeout
    /\ None \notin Conn /\ None \notin Nat

VARIABLES
    pool,            \* the fr_connection_pool_t, see Pool
    thr,             \* the call each thread is in: [at, conn, age, why]
    up,              \* whether the back end accepts connections
    exiting,         \* main_config.exiting
    aborted,         \* rad_assert(found != NULL) failed
    last_failure     \* history: age of the latest create() that failed

vars == <<pool, thr, up, exiting, aborted, last_failure>>

Upto(n) == 0..n
CreatedCap == IF Lifetime = 0 THEN 0 ELSE Lifetime + MaxCall + 1
ReleasedCap == IF IdleTimeout = 0 THEN 0 ELSE IdleTimeout + MaxCall + 1
FailedCap == RetryDelay + MaxCall
OpenedCap == 2 * CleanupInterval + MaxConns

Pool == [
    order : {s \in BoundedSeq(Conn, MaxConns) : IsInjective(s)},
                                           \* head .. tail, by last_reserved, oldest first
    heap : {s \in BoundedSeq(Conn, MaxConns) : IsInjective(s)},
                                           \* what is in the heap, by last_released
    in_use : SUBSET Conn,
    uses : [Conn -> Upto(MaxUses)],        \* num_uses
    created : [Conn -> Upto(CreatedCap)],
    released : [Conn -> Upto(ReleasedCap)],
    active : Upto(MaxConns), pending : Upto(MaxConns), max_pending : 1..MaxConns,
    last_failed : Upto(FailedCap) \cup {None},
    last_opened : Upto(OpenedCap),
    delay_interval : Upto(OpenedCap), next_delay : Upto(CleanupInterval + 1),
    checked : BOOLEAN ]                    \* last_checked is the present second

Call == [
    at : {"idle", "see_num", "see_pending", "see_failed", "spawn", "create", "failed",
          "mine", "manage", "held"},
    conn : Conn \cup {None},
    age : Upto(MaxCall),
    why : {"get", "check"} ]

NoCall == [at |-> "idle", conn |-> None, age |-> 0, why |-> "get"]

Num(p) == Len(p.order)                     \* stats.num

TypeOK ==
    /\ pool \in Pool
    /\ thr \in [Thread -> Call]
    /\ up \in BOOLEAN /\ exiting \in BOOLEAN /\ aborted \in BOOLEAN
    /\ last_failure \in Upto(FailedCap)
-----------------------------------------------------------------------------
\* The heap's top: last_reserved_cmp on a heap whose top is the least.  The
\* configuration is read after the heap was made, so "spread" changes nothing.
ByReserved(p) == Without(p.order, Conn \ ToSet(p.heap))

\* Mutant: a connection closed while in use stays counted.
CloseAllStaysActive(p, S) ==
    [p EXCEPT !.order = Without(@, S),
              !.heap = Without(@, S \ p.in_use),
              !.in_use = @ \ S]

CloseAll(p, S) ==
    [p EXCEPT !.order = Without(@, S),
              !.heap = Without(@, S \ p.in_use),
              !.in_use = @ \ S,
              !.active = @ - Cardinality(S \cap p.in_use)]

CloseInternal(p, c) == CloseAll(p, {c})

Expired(p, c, age, get) ==
    /\ c \notin p.in_use
    /\ \/ MaxUses > 0 /\ p.uses[c] >= MaxUses
       \/ Lifetime > 0 /\ p.created[c] - age > Lifetime
       \/ ~get /\ IdleTimeout > 0 /\ p.released[c] - age > IdleTimeout

ManageAll(p, age) ==
    [CloseAll(p, {c \in ToSet(p.order) : Expired(p, c, age, FALSE)}) EXCEPT
        !.checked = (age = 0)]

\* The top of the heap that may still be used; the ones before it are closed.
Usable(p) == Without(ByReserved(p), {c \in Conn : Expired(p, c, 0, TRUE)})

DropExpired(p) ==
    CloseAll(p, {c \in ToSet(p.heap) :
        /\ Expired(p, c, 0, TRUE)
        /\ \A d \in ToSet(Usable(p)) :
              \E i, j \in DOMAIN p.order : i < j /\ p.order[i] = c /\ p.order[j] = d})

Reserve(p, c) ==
    [p EXCEPT !.heap = Without(@, {c}),
              !.order = Append(Without(@, {c}), c),
              !.in_use = @ \cup {c},
              !.active = @ + 1,
              !.uses = [@ EXCEPT ![c] = IF p.uses[c] < MaxUses THEN p.uses[c] + 1 ELSE p.uses[c]]]

\* fr_connection_pool_check up to the decision.
Counted(p) == Num(p) + p.pending
Spare(p) == p.pending + (Num(p) - p.active)

WantsMore(p) ==
    \/ Counted(p) < MinConns
    \/ Spare(p) < SpareConns /\ p.pending < p.max_pending /\ Counted(p) < MaxConns

WantsFewer(p) ==
    /\ Counted(p) > MaxConns \/ (Spare(p) > SpareConns /\ Counted(p) > MinConns)
    /\ p.pending = 0
    /\ p.last_opened >= p.delay_interval

Unused(p) == Without(p.order, p.in_use)

CloseSpare(p) ==
    LET next == IF p.next_delay \div 2 = 0 THEN 1 ELSE p.next_delay \div 2
    IN  [CloseInternal(p, Head(Unused(p))) EXCEPT
            !.next_delay = next, !.delay_interval = @ + next]

PoolCheck(t, p) ==
    \/ /\ p.checked
       /\ pool' = p /\ thr' = [thr EXCEPT ![t] = NoCall] /\ UNCHANGED aborted
    \/ /\ ~p.checked /\ WantsMore(p)
       /\ pool' = p
       /\ thr' = [thr EXCEPT ![t] = [at |-> "see_num", conn |-> None, age |-> 0, why |-> "check"]]
       /\ UNCHANGED aborted
    \/ /\ ~p.checked /\ ~WantsMore(p)
       /\ aborted' = (WantsFewer(p) /\ Unused(p) = <<>>)
       /\ pool' = ManageAll(IF WantsFewer(p) /\ ~aborted' THEN CloseSpare(p) ELSE p, 0)
       /\ thr' = [thr EXCEPT ![t] = NoCall]
-----------------------------------------------------------------------------
Continue(t, at) == thr' = [thr EXCEPT ![t].at = at]

\* fr_connection_get_internal up to fr_connection_spawn.
Get(t) ==
    /\ thr[t].at = "idle" /\ ~exiting
    /\ LET p == DropExpired(pool) IN
       \/ /\ Usable(pool) # <<>>
          /\ pool' = Reserve(p, Head(Usable(pool)))
          /\ thr' = [thr EXCEPT ![t] = [@ EXCEPT !.at = "held", !.conn = Head(Usable(pool))]]
       \/ /\ Usable(pool) = <<>> /\ Num(p) = MaxConns
          /\ pool' = p /\ UNCHANGED thr
       \/ /\ Usable(pool) = <<>> /\ Num(p) # MaxConns
          /\ pool' = p
          /\ Continue(t, "see_num")
    /\ UNCHANGED <<up, exiting, aborted, last_failure>>

\* fr_connection_spawn returns no connection.
NotSpawned(t) ==
    thr' = [thr EXCEPT ![t] = IF @.why = "get" THEN NoCall ELSE [@ EXCEPT !.at = "manage"]]

\* The test before the lock reads num, pending and last_failed one by one.
SpawnLook(t) ==
    /\ \/ /\ thr[t].at = "see_num"
          /\ Continue(t, IF Num(pool) = 0 THEN "see_pending" ELSE "spawn")
       \/ /\ thr[t].at = "see_pending"
          /\ Continue(t, IF pool.pending > 0 THEN "see_failed" ELSE "spawn")
       \/ /\ thr[t].at = "see_failed"
          /\ IF pool.last_failed # None THEN NotSpawned(t) ELSE Continue(t, "spawn")
    /\ UNCHANGED <<pool, up, exiting, aborted, last_failure>>

Throttled(p, age) == p.last_failed # None /\ p.last_failed - age < RetryDelay

SpawnBegin(t) ==
    /\ thr[t].at = "spawn"
    /\ IF \/ Num(pool) + pool.pending >= MaxConns
          \/ Throttled(pool, thr[t].age)
          \/ pool.pending > pool.max_pending
       THEN NotSpawned(t) /\ UNCHANGED pool
       ELSE pool' = [pool EXCEPT !.pending = @ + 1] /\ Continue(t, "create")
    /\ UNCHANGED <<up, exiting, aborted, last_failure>>

\* create() fails and last_failed is written before the mutex is taken.
CreateFails(t) ==
    /\ thr[t].at = "create" /\ ~up
    /\ pool' = [pool EXCEPT !.last_failed = thr[t].age]
    /\ last_failure' = 0
    /\ Continue(t, "failed")
    /\ UNCHANGED <<up, exiting, aborted>>

SpawnFailed(t) ==
    /\ thr[t].at = "failed"
    /\ pool' = [pool EXCEPT !.max_pending = 1, !.pending = @ - 1]
    /\ NotSpawned(t)
    /\ UNCHANGED <<up, exiting, aborted, last_failure>>

Linked(p, c, age, in_use) ==
    [p EXCEPT !.order = Append(@, c),
              !.heap = IF in_use THEN @ ELSE Append(@, c),
              !.in_use = IF in_use THEN @ \cup {c} ELSE @,
              !.uses = [@ EXCEPT ![c] = 0],
              !.created = [@ EXCEPT ![c] = IF age < CreatedCap THEN age ELSE CreatedCap],
              !.released = [@ EXCEPT ![c] = 0],
              !.pending = @ - 1,
              !.max_pending = IF @ < MaxConns THEN @ + 1 ELSE @,
              !.last_opened = 0,
              !.delay_interval = CleanupInterval, !.next_delay = CleanupInterval,
              !.last_failed = None]

Spawned(t) ==
    /\ thr[t].at = "create" /\ up
    /\ LET c == CHOOSE d \in Conn : d \notin ToSet(pool.order)
           get == thr[t].why = "get"
       IN  /\ pool' = Linked(pool, c, thr[t].age, get)
           /\ thr' = [thr EXCEPT ![t] = [@ EXCEPT !.at = IF get THEN "mine" ELSE "manage",
                                                 !.conn = IF get THEN c ELSE None]]
    /\ UNCHANGED <<up, exiting, aborted, last_failure>>

\* The end of fr_connection_get_internal, after fr_connection_spawn.
GetSpawned(t) ==
    /\ thr[t].at = "mine"
    /\ pool' = Reserve(pool, thr[t].conn)
    /\ thr' = [thr EXCEPT ![t] = [NoCall EXCEPT !.at = "held", !.conn = thr[t].conn]]
    /\ UNCHANGED <<up, exiting, aborted, last_failure>>

\* The end of fr_connection_pool_check, after fr_connection_spawn.
CheckSpawned(t) ==
    /\ thr[t].at = "manage"
    /\ pool' = ManageAll(pool, thr[t].age)
    /\ thr' = [thr EXCEPT ![t] = NoCall]
    /\ UNCHANGED <<up, exiting, aborted, last_failure>>

Released(p, c) ==
    [p EXCEPT !.in_use = @ \ {c}, !.released = [@ EXCEPT ![c] = 0], !.heap = Append(@, c),
              !.active = @ - 1]

Release(t) ==
    /\ thr[t].at = "held"
    /\ PoolCheck(t, Released(pool, thr[t].conn))
    /\ UNCHANGED <<up, exiting, last_failure>>

Close(t) ==
    /\ thr[t].at = "held"
    /\ PoolCheck(t, CloseInternal(pool, thr[t].conn))
    /\ UNCHANGED <<up, exiting, last_failure>>

\* create() is called with the mutex held; while exiting the connection is released.
Reconnect(t) ==
    /\ thr[t].at = "held" /\ ~exiting
    /\ IF up THEN UNCHANGED <<pool, thr>>
       ELSE LET p == CloseInternal(pool, thr[t].conn) IN
            IF Usable(p) # <<>>
            THEN /\ pool' = Reserve(DropExpired(p), Head(Usable(p)))
                 /\ thr' = [thr EXCEPT ![t].conn = Head(Usable(p))]
            ELSE /\ pool' = DropExpired(p)
                 /\ thr' = [thr EXCEPT ![t] = NoCall]
    /\ last_failure' = IF up THEN last_failure ELSE 0
    /\ UNCHANGED <<up, exiting, aborted>>
-----------------------------------------------------------------------------
Older(n, cap) == IF n < cap THEN n + 1 ELSE n

\* A second passes.  A connection that is closed keeps no times.
Tick ==
    /\ \A t \in Thread : thr[t].at \notin {"idle", "held"} => thr[t].age < MaxCall
    /\ pool' = [pool EXCEPT
          !.created = [c \in Conn |-> IF c \in ToSet(pool.order) THEN Older(@[c], CreatedCap) ELSE 0],
          !.released = [c \in Conn |-> IF c \in ToSet(pool.heap) THEN Older(@[c], ReleasedCap) ELSE 0],
          !.last_failed = IF @ = None THEN None ELSE Older(@, FailedCap),
          !.last_opened = Older(@, OpenedCap),
          !.checked = FALSE]
    /\ thr' = [t \in Thread |->
          IF thr[t].at \in {"idle", "held"} THEN thr[t] ELSE [thr[t] EXCEPT !.age = @ + 1]]
    /\ last_failure' = Older(last_failure, FailedCap)
    /\ UNCHANGED <<up, exiting, aborted>>

BackEnd == up' = ~up /\ UNCHANGED <<pool, thr, exiting, aborted, last_failure>>
Exit == ~exiting /\ exiting' = TRUE /\ UNCHANGED <<pool, thr, up, aborted, last_failure>>

\* fr_connection_pool_init opened StartConns connections.
Init ==
    /\ pool = [order |-> [i \in 1..StartConns |-> i], heap |-> [i \in 1..StartConns |-> i],
               in_use |-> {}, uses |-> [c \in Conn |-> 0],
               created |-> [c \in Conn |-> 0], released |-> [c \in Conn |-> 0],
               active |-> 0, pending |-> 0, max_pending |-> MaxConns,
               last_failed |-> None,
               last_opened |-> IF StartConns = 0 THEN OpenedCap ELSE 0,
               delay_interval |-> IF StartConns = 0 THEN 0 ELSE CleanupInterval,
               next_delay |-> IF StartConns = 0 THEN 0 ELSE CleanupInterval,
               checked |-> FALSE]
    /\ thr = [t \in Thread |-> NoCall]
    /\ up \in BOOLEAN /\ (StartConns > 0 => up)
    /\ exiting = FALSE /\ aborted = FALSE
    /\ last_failure = FailedCap

Step(t) ==
    \/ Get(t) \/ SpawnLook(t) \/ SpawnBegin(t) \/ CreateFails(t) \/ SpawnFailed(t)
    \/ Spawned(t) \/ GetSpawned(t) \/ CheckSpawned(t)
    \/ Release(t) \/ Close(t) \/ Reconnect(t)

Next ==
    /\ ~aborted
    /\ (\E t \in Thread : Step(t)) \/ Tick \/ BackEnd \/ Exit

Spec == Init /\ [][Next]_vars

\* Threads run, time passes, and requests keep using the pool and give back what
\* they reserved; a thread may close or reconnect but need not.
Runs == ~aborted /\ Tick
Works(t) ==
    ~aborted /\ (Get(t) \/ SpawnLook(t) \/ SpawnBegin(t) \/ CreateFails(t) \/ SpawnFailed(t)
                 \/ Spawned(t) \/ GetSpawned(t) \/ CheckSpawned(t) \/ Release(t))
FairSpec == Spec /\ WF_vars(Runs) /\ \A t \in Thread : WF_vars(Works(t))
-----------------------------------------------------------------------------
Holds(t) == thr[t].at \in {"mine", "held"}

\* A connection is reserved by one thread at most, is marked in use exactly while
\* it is, stays in the list until its own thread gives it up, and is offered to
\* others (in the heap) exactly while nobody has it.
OneHolder ==
    /\ \A t, u \in Thread : t # u /\ Holds(t) /\ Holds(u) => thr[t].conn # thr[u].conn
    /\ pool.in_use = {thr[t].conn : t \in {u \in Thread : Holds(u)}}
    /\ pool.in_use \subseteq ToSet(pool.order)
    /\ ToSet(pool.heap) = ToSet(pool.order) \ pool.in_use

\* stats.active counts the threads that reserved a connection, and pending those
\* that are opening one, whichever way their calls ended.
CountsExact ==
    /\ pool.active = Cardinality({t \in Thread : thr[t].at = "held"})
    /\ pool.pending = Cardinality({t \in Thread : thr[t].at \in {"create", "failed"}})

\* Never more than max connections, those being opened included, whoever opens
\* them: rad_assert(pool->stats.num <= pool->max) in fr_connection_spawn.
AtMostMax == Num(pool) + pool.pending <= MaxConns

\* rad_assert(found != NULL) in fr_connection_pool_check holds: there is an unused
\* connection to close whenever there are too many spare ones.
FoundOne == ~aborted

\* Once the back end stays up, somebody reserves a connection again and again: no
\* refusal of fr_connection_spawn (throttle, max_pending, the look at pending)
\* outlives the outage.
Recovers ==
    <>[](up /\ ~exiting) => []<>(\E t \in Thread : thr[t].at = "held")

\* "don't open multiple connections until we successfully open at least one"
OpensOne ==
    [][pool'.pending > pool.pending /\ Num(pool) = 0 /\ pool.last_failed # None
          => pool.pending = 0]_vars

\* "The number of seconds to wait after the server tries to open a connection, and
\* fails.  During this time, no new connections will be opened."
RetryDelayKept ==
    [][pool'.pending > pool.pending /\ pool.last_failed # None
          => last_failure >= RetryDelay]_vars

TakesIdle(t) == thr[t].at = "idle" /\ thr'[t].at = "held"

\* "We want most recently *started*": a reservation takes the idle connection that
\* was reserved last.
MostRecentlyStarted ==
    [][\A t \in Thread : TakesIdle(t) => thr'[t].conn = Last(ByReserved(pool))]_vars

\* spread: "using the connection released longest ago, first".
SpreadReleasedFirst ==
    [][\A t \in Thread : TakesIdle(t) => thr'[t].conn = Head(pool.heap)]_vars
=============================================================================
