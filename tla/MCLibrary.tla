----------------------------- MODULE MCLibrary ------------------------------
(***************************************************************************)
(* The data structures of libfreeradius for TLC: the lock-free queue, the  *)
(* table of descriptors of the event loop and the heap of its timers.  A   *)
(* behaviour uses one of them, the others stay as they began.              *)
(***************************************************************************)
EXTENDS Library, TLC

VARIABLE part

\* The threads are alike.
Alike == Permutations(Thread)

MCInit == part \in {"queue", "loop", "timers"} /\ Init /\ Loop!Init /\ Timers!Init

MCNext ==
    /\ UNCHANGED part
    /\ \/ part = "queue" /\ Next /\ UNCHANGED <<loopState, heapState>>
       \/ part = "loop" /\ Loop!Next /\ UNCHANGED <<vars, heapState>>
       \/ part = "timers" /\ Timers!Next /\ UNCHANGED <<vars, loopState>>

MCSpec == MCInit /\ [][MCNext]_<<part, vars, loopState, heapState>>
=============================================================================
