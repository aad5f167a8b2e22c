------------------------------ MODULE Library ------------------------------
(***************************************************************************)
(* Three structures of libfreeradius side by side: the lock-free queue,    *)
(* the table of descriptors of the event loop and the heap of its timers.  *)
(* The callers of fr_event_fd_insert do not insert a descriptor again, and *)
(* writing to a blocked socket does not fail (EventLoop has both cases,    *)
(* and the others of its properties fail in them).                         *)
(***************************************************************************)
EXTENDS AtomicQueue

CONSTANTS Fds, Slots, Events, Times

VARIABLES readers, maxReaders, numReaders, rset, wset, rsnap, wsnap, loop, slot, call,
          heap, num_elements, offset, when, op

loopState == <<readers, maxReaders, numReaders, rset, wset, rsnap, wsnap, loop, slot, call>>

Loop == INSTANCE EventLoop WITH
    pc <- loop, i <- slot, Hot <- {}, Twice <- FALSE, WriteErrors <- FALSE

ASSUME LoopAssumption == Loop!EventAssumption

heapState == <<heap, num_elements, offset, when, op>>

Timers == INSTANCE FrHeap WITH p <- heap

ASSUME TimersAssumption == Timers!HeapAssumption

\* The slots, the descriptor sets and the counts of the event loop agree, and a
\* read handler is called only for a descriptor that is still registered and was
\* found readable, whatever the callbacks before it in the same pass did.
TableAgrees == Loop!TypeOK /\ Loop!TableAgrees /\ Loop!OnlyReadySockets

\* Between the calls of fr_event_insert, fr_event_delete and fr_event_run, every
\* timer that is set is in the heap, once and at the position it holds, no other
\* is, and the first one is the earliest.
TimersInOrder ==
    Timers!TypeOK /\ (op = Timers!Idle => Timers!OffsetsExact /\ Timers!EarliestFirst)

\* The heap implements a set of timers: each is due at the time it was last set
\* for until fr_event_delete is called for it or fr_event_run calls it, none is
\* lost or comes back with another one, and the one called is the earliest.
TimersKept == Timers!Queue!Spec
=============================================================================
