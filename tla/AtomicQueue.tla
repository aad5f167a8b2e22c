------------------------------ MODULE AtomicQueue ------------------------------
(***************************************************************************)
(* The lock-free queue of lib/atomic_queue.c that request_enqueue and      *)
(* request_dequeue use where the compiler has C11 atomics.  Any number of  *)
(* threads push and pop.  A step is one access to shared memory; the       *)
(* accesses are taken as sequentially consistent (the code's acquire and   *)
(* release order each entry's data by its seq, which is what is relied on).*)
(*                                                                         *)
(* head and tail are 64-bit and never wrap in practice: MaxPos bounds the  *)
(* number of pushes.                                                       *)
(***************************************************************************)
EXTENDS Integers, Sequences, FiniteSets

CONSTANTS
    Thread, Value,
    Size,            \* the size given to fr_atomic_queue_create
    MaxPos,          \* bound on the number of pushes
    None             \* NULL

ASSUME QueueAssumption ==
    /\ Size \in Nat \ {0} /\ MaxPos \in Nat
    /\ None \notin Value

VARIABLES
    head, tail,      \* aq->head, aq->tail
    entry,           \* aq->entry[], each with seq and data
    pc,              \* where each thread is
    pos,             \* its local head or tail
    val              \* the data it pushes, or has popped

vars == <<head, tail, entry, pc, pos, val>>

At == {"idle", "push", "push_reload", "push_cas", "push_data", "push_publish",
       "pop", "pop_reload", "pop_cas", "pop_data", "pop_release"}
Index == 0..(Size - 1)
Slot(p) == p % Size

TypeOK ==
    /\ head \in Nat /\ tail \in Nat
    /\ entry \in [Index -> [seq: Nat, data: Value \cup {None}]]
    /\ pc \in [Thread -> At]
    /\ pos \in [Thread -> Nat]
    /\ val \in [Thread -> Value \cup {None}]

Goto(t, at) == pc' = [pc EXCEPT ![t] = at]

-----------------------------------------------------------------------------
(* fr_atomic_queue_push *)

PushBegin(t, v) ==
    /\ pc[t] = "idle" /\ head < MaxPos
    /\ pos' = [pos EXCEPT ![t] = head]
    /\ val' = [val EXCEPT ![t] = v]
    /\ Goto(t, "push")
    /\ UNCHANGED <<head, tail, entry>>

\* The entry's seq is behind the local head (full), ahead of it (another
\* thread wrote the entry: load head again), or equal to it.
PushLook(t) ==
    /\ pc[t] = "push"
    /\ LET diff == entry[Slot(pos[t])].seq - pos[t]
       IN  \/ diff < 0 /\ Goto(t, "idle") /\ val' = [val EXCEPT ![t] = None]
           \/ diff > 0 /\ Goto(t, "push_reload") /\ UNCHANGED val
           \/ diff = 0 /\ Goto(t, "push_cas") /\ UNCHANGED val
    /\ UNCHANGED <<head, tail, entry, pos>>

PushReload(t) ==
    /\ pc[t] = "push_reload"
    /\ pos' = [pos EXCEPT ![t] = head]
    /\ Goto(t, "push")
    /\ UNCHANGED <<head, tail, entry, val>>

\* Mutant: a plain load and store in place of the compare-and-exchange.
PushCasPlain(t) ==
    /\ pc[t] = "push_cas"
    /\ head' = pos[t] + 1 /\ Goto(t, "push_data")
    /\ UNCHANGED <<tail, entry, pos, val>>

\* cas_incr(aq->head, head): a failed exchange loads the current value.
PushCas(t) ==
    /\ pc[t] = "push_cas"
    /\ \/ head = pos[t] /\ head' = head + 1 /\ Goto(t, "push_data") /\ UNCHANGED pos
       \/ head # pos[t] /\ pos' = [pos EXCEPT ![t] = head] /\ Goto(t, "push") /\ UNCHANGED head
    /\ UNCHANGED <<tail, entry, val>>

\* Mutant: the entry is announced before its data is there.
PushDataLate(t) ==
    /\ pc[t] = "push_data"
    /\ entry' = [entry EXCEPT ![Slot(pos[t])].seq = pos[t] + 1]
    /\ Goto(t, "push_publish")
    /\ UNCHANGED <<head, tail, pos, val>>

PushData(t) ==
    /\ pc[t] = "push_data"
    /\ entry' = [entry EXCEPT ![Slot(pos[t])].data = val[t]]
    /\ Goto(t, "push_publish")
    /\ UNCHANGED <<head, tail, pos, val>>

PushPublish(t) ==
    /\ pc[t] = "push_publish"
    /\ entry' = [entry EXCEPT ![Slot(pos[t])].seq = pos[t] + 1]
    /\ val' = [val EXCEPT ![t] = None]
    /\ Goto(t, "idle")
    /\ UNCHANGED <<head, tail, pos>>

-----------------------------------------------------------------------------
(* fr_atomic_queue_pop *)

PopBegin(t) ==
    /\ pc[t] = "idle"
    /\ pos' = [pos EXCEPT ![t] = tail]
    /\ val' = [val EXCEPT ![t] = None]
    /\ Goto(t, "pop")
    /\ UNCHANGED <<head, tail, entry>>

PopLook(t) ==
    /\ pc[t] = "pop"
    /\ LET diff == entry[Slot(pos[t])].seq - (pos[t] + 1)
       IN  \/ diff < 0 /\ Goto(t, "idle")
           \/ diff > 0 /\ Goto(t, "pop_reload")
           \/ diff = 0 /\ Goto(t, "pop_cas")
    /\ UNCHANGED <<head, tail, entry, pos, val>>

PopReload(t) ==
    /\ pc[t] = "pop_reload"
    /\ pos' = [pos EXCEPT ![t] = tail]
    /\ Goto(t, "pop")
    /\ UNCHANGED <<head, tail, entry, val>>

PopCas(t) ==
    /\ pc[t] = "pop_cas"
    /\ \/ tail = pos[t] /\ tail' = tail + 1 /\ Goto(t, "pop_data") /\ UNCHANGED pos
       \/ tail # pos[t] /\ pos' = [pos EXCEPT ![t] = tail] /\ Goto(t, "pop") /\ UNCHANGED tail
    /\ UNCHANGED <<head, entry, val>>

\* The pointer is copied before the entry is given back.
PopData(t) ==
    /\ pc[t] = "pop_data"
    /\ val' = [val EXCEPT ![t] = entry[Slot(pos[t])].data]
    /\ Goto(t, "pop_release")
    /\ UNCHANGED <<head, tail, entry, pos>>

PopRelease(t) ==
    /\ pc[t] = "pop_release"
    /\ entry' = [entry EXCEPT ![Slot(pos[t])].seq = pos[t] + Size]
    /\ Goto(t, "idle")
    /\ UNCHANGED <<head, tail, pos, val>>

-----------------------------------------------------------------------------

\* fr_atomic_queue_create
Init ==
    /\ head = 0 /\ tail = 0
    /\ entry = [i \in Index |-> [seq |-> i, data |-> None]]
    /\ pc = [t \in Thread |-> "idle"]
    /\ pos = [t \in Thread |-> 0]
    /\ val = [t \in Thread |-> None]

Begin(t) == (\E v \in Value : PushBegin(t, v)) \/ PopBegin(t)
Step(t) ==
    \/ PushLook(t) \/ PushReload(t) \/ PushCas(t) \/ PushData(t) \/ PushPublish(t)
    \/ PopLook(t) \/ PopReload(t) \/ PopCas(t) \/ PopData(t) \/ PopRelease(t)
Next == \E t \in Thread : Begin(t) \/ Step(t)

Spec == Init /\ [][Next]_vars

-----------------------------------------------------------------------------
(* Properties *)

Writing(t) == pc[t] \in {"push_data", "push_publish"}
Reading(t) == pc[t] \in {"pop_data", "pop_release"}

\* The entry of position p waits for the push that will be p's.
FreeAt(p) == entry[Slot(p)].seq = p
\* The entry of position p holds what the push of p left.
FullAt(p) == entry[Slot(p)].seq = p + 1

\* Threads that won a position own its entry: no two of them the same one,
\* neither two writers, two readers, nor a writer and a reader.
OneOwner ==
    \A t, u \in Thread :
        (t # u /\ (Writing(t) \/ Reading(t)) /\ (Writing(u) \/ Reading(u)))
            => Slot(pos[t]) # Slot(pos[u])

\* What the compare-and-exchanges rely on: the positions of the queue are
\* tail..head-1, at most Size of them; one whose push is not over is free
\* and has its writer, the others are full; the positions to come are free
\* unless the pop of the round before still reads the entry.
PositionsOK ==
    /\ tail <= head /\ head <= tail + Size
    /\ \A t \in Thread :
        /\ Writing(t) => pos[t] < head /\ tail <= pos[t] /\ FreeAt(pos[t])
        /\ Reading(t) => pos[t] < tail /\ head <= pos[t] + Size /\ FullAt(pos[t])
    /\ \A p \in tail..(head - 1) :
        FullAt(p) \/ \E t \in Thread : Writing(t) /\ pos[t] = p
    /\ \A p \in head..(tail + Size - 1) :
        FreeAt(p) \/ \E t \in Thread : Reading(t) /\ pos[t] + Size = p

\* What a thread saw before its compare-and-exchange is not taken back: the
\* seq of an entry only grows.
SeenOK ==
    \A t \in Thread :
        /\ pc[t] \in {"push", "push_reload", "push_cas"} => pos[t] <= head
        /\ pc[t] \in {"pop", "pop_reload", "pop_cas"} => pos[t] <= tail
        /\ pc[t] = "push_cas" => pos[t] <= entry[Slot(pos[t])].seq
        /\ pc[t] = "pop_cas" => pos[t] + 1 <= entry[Slot(pos[t])].seq

\* The value of position p: its writer's until it has been published.
Pending(p) == {t \in Thread : Writing(t) /\ pos[t] = p}
ValueAt(p) == IF Pending(p) # {} THEN val[CHOOSE t \in Pending(p) : TRUE]
                                 ELSE entry[Slot(p)].data

\* The values in the queue, and what each thread's pop took: a push takes
\* effect when it wins head, a pop when it wins tail.
Queue == [i \in 1..(head - tail) |-> ValueAt(tail + i - 1)]
Taken == [t \in Thread |->
            IF pc[t] = "pop_data" THEN entry[Slot(pos[t])].data
            ELSE IF pc[t] \in {"idle", "pop_release"} THEN val[t] ELSE None]

B == INSTANCE BoundedQueue WITH queue <- Queue, taken <- Taken

\* The queue is a bounded first-in first-out queue: every successful pop of
\* fr_atomic_queue_pop returns what was pushed first of what is left.
Refines == B!Spec

\* The queue never holds more values than it has entries.
FullRefused == head - tail <= Size

\* A pop that reports an empty queue found no value whose push was over.
EmptyIsEmpty ==
    [][\A t \in Thread :
         (pc[t] = "pop" /\ pc'[t] = "idle")
            => \A p \in tail..(head - 1) : Pending(p) # {}]_vars
=============================================================================
