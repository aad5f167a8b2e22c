----------------------------- MODULE BoundedQueue -----------------------------
(***************************************************************************)
(* What lib/atomic_queue.c promises its callers: a first-in first-out      *)
(* queue of at most Size values.  A push may be refused and a pop may find *)
(* nothing at any time: the callers have to cope with both.                *)
(***************************************************************************)
EXTENDS Integers, Sequences

CONSTANTS Thread, Value, Size, None

VARIABLES queue,     \* the values in the order they were pushed
          taken      \* the value each thread's last pop took

vars == <<queue, taken>>

Init == queue = <<>> /\ taken = [t \in Thread |-> None]

Push(v) ==
    /\ Len(queue) < Size
    /\ queue' = Append(queue, v)
    /\ UNCHANGED taken

Pop(t) ==
    /\ queue # <<>>
    /\ queue' = Tail(queue)
    /\ taken' = [taken EXCEPT ![t] = Head(queue)]

\* The thread is done with what it took.
Forget(t) == taken' = [taken EXCEPT ![t] = None] /\ UNCHANGED queue

Next == (\E v \in Value : Push(v)) \/ (\E t \in Thread : Pop(t) \/ Forget(t))

Spec == Init /\ [][Next]_vars
=============================================================================
