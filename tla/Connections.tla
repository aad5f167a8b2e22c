---------------------------- MODULE Connections -----------------------------
(***************************************************************************)
(* The pool of connections radiusd keeps to its database (rlm_sql).        *)
(***************************************************************************)
EXTENDS Integers, FiniteSets

CONSTANTS
    Thread, None, MaxConns, MinConns, StartConns, SpareConns, MaxUses, Lifetime,
    IdleTimeout, CleanupInterval, RetryDelay, MaxCall

VARIABLES pool, thr, connUp, exiting, aborted, last_failure

connState == <<pool, thr, connUp, exiting, aborted, last_failure>>

Backend == INSTANCE ConnectionPool WITH up <- connUp

ASSUME BackendAssumption == Backend!ConnAssumption

\* A connection a thread reserved is no other thread's and stays in the list
\* until that thread gives it up; the counts of reserved connections and of those
\* being opened are exact whichever way the calls ended; and the pool, what is
\* being opened included, stays within its maximum.
ConnSound ==
    /\ Backend!TypeOK /\ Backend!OneHolder /\ Backend!CountsExact /\ Backend!AtMostMax
=============================================================================
