------------------------------ MODULE EventLoop ------------------------------
(***************************************************************************)
(* The file descriptors of radiusd's event loop, as built with select()    *)
(* (lib/event.c): the table of readers, the two fd_sets, and the pass of   *)
(* fr_event_loop over the table after select() returned.  Callbacks -- of  *)
(* timers, of readable sockets, and tls_write_available (main/tls_listen.c) *)
(* for a socket that was blocked -- change the table while the pass is at  *)
(* it.  A worker thread blocks a socket (proxy_listener_freeze,            *)
(* main/process.c) at any time.                                            *)
(*                                                                         *)
(* The order of timers is FrHeap's subject; here a timer is a callback     *)
(* that may run between select() and the pass.                             *)
(***************************************************************************)
EXTENDS Integers, FiniteSets, FiniteSetsExt

CONSTANTS Fds,           \* descriptors, positive numbers
          Slots,         \* FR_EV_MAX_FDS
          Hot,           \* descriptors that always have something to read
          Twice,         \* callers may insert a descriptor again
          WriteErrors    \* writing to a TLS socket may fail

EventAssumption ==
  /\ IsFiniteSet(Fds) /\ Fds \subseteq Nat \ {0}
  /\ Slots \in Nat \ {0}
  /\ Hot \subseteq Fds
  /\ {Twice, WriteErrors} \subseteq BOOLEAN

VARIABLES readers,       \* el->readers
          maxReaders,    \* el->max_readers
          numReaders,    \* el->num_readers
          rset, wset,    \* el->read_fds, el->write_fds
          rsnap, wsnap,  \* what select() returned
          pc,            \* where fr_event_loop is
          i,             \* the slot the pass is at
          call           \* ghost: the last call of a read handler

table == <<readers, maxReaders, numReaders, rset, wset>>

vars == <<table, rsnap, wsnap, pc, i, call>>

NoFd == 0        \* fd = -1

NoCall == [fd |-> NoFd, ready |-> TRUE]

Index == 0..Slots - 1

TypeOK ==
  /\ readers \in [Index -> [fd : Fds \union {NoFd}, write : BOOLEAN]]
  /\ maxReaders \in 0..Slots
  /\ numReaders \in 0..Slots
  /\ rset \subseteq Fds /\ wset \subseteq Fds
  /\ rsnap \subseteq Fds /\ wsnap \subseteq Fds
  /\ pc \in {"select", "timers", "write", "read", "handler"}
  /\ i \in 0..Slots
  /\ call \in [fd : Fds \union {NoFd}, ready : BOOLEAN]

Init ==
  /\ readers = [j \in Index |-> [fd |-> NoFd, write |-> FALSE]]
  /\ maxReaders = 0 /\ numReaders = 0
  /\ rset = {} /\ wset = {} /\ rsnap = {} /\ wsnap = {}
  /\ pc = "select" /\ i = 0
  /\ call = NoCall

Registered == {readers[j].fd : j \in Index} \ {NoFd}

\* The slot a linear search for the descriptor ends at, if any.
At(f) == {j \in 0..maxReaders - 1 : readers[j].fd = f}

(***************************************************************************)
(* What callbacks do with the table.                                       *)
(***************************************************************************)
\* fr_event_fd_insert: the search ends at the descriptor itself or at the
\* first free slot, whichever comes first.
Insert(f) ==
  /\ numReaders < Slots
  /\ LET j == Min({k \in Index : k <= maxReaders /\ readers[k].fd \in {f, NoFd}})
     IN  IF readers[j].fd = f
         THEN UNCHANGED table
         ELSE /\ readers' = [readers EXCEPT ![j].fd = f]
              /\ maxReaders' = IF j = maxReaders THEN j + 1 ELSE maxReaders
              /\ numReaders' = numReaders + 1
              /\ rset' = rset \union {f}
              /\ UNCHANGED wset

\* Mutant: a slot in the middle shortens the table as well.
DeleteShort(f) ==
  /\ At(f) # {}
  /\ LET j == Min(At(f))
     IN  /\ readers' = [readers EXCEPT ![j].fd = NoFd]
         /\ maxReaders' = maxReaders - 1
  /\ numReaders' = numReaders - 1
  /\ rset' = rset \ {f}
  /\ wset' = wset \ {f}

\* fr_event_fd_delete; the write handler stays in the free slot.
Delete(f) ==
  /\ At(f) # {}
  /\ LET j == Min(At(f))
     IN  /\ readers' = [readers EXCEPT ![j].fd = NoFd]
         /\ maxReaders' = IF j + 1 = maxReaders THEN j ELSE maxReaders
  /\ numReaders' = numReaders - 1
  /\ rset' = rset \ {f}
  /\ wset' = wset \ {f}

\* fr_event_fd_write_handler: on or off, the descriptor is put in write_fds.
WriteHandler(f, on) ==
  /\ At(f) # {}
  /\ readers' = [readers EXCEPT ![Min(At(f))].write = on]
  /\ wset' = wset \union {f}
  /\ UNCHANGED <<maxReaders, numReaders, rset>>

\* event_new_fd in a callback: a listener comes or goes.
Callback ==
  /\ pc \in {"timers", "handler"}
  /\ \/ \E f \in Fds : (Twice \/ f \notin Registered) /\ Insert(f)
     \/ \E f \in Fds : Delete(f)
  /\ UNCHANGED <<rsnap, wsnap, pc, i, call>>

\* proxy_listener_freeze, in any thread.
Freeze ==
  /\ \E f \in Fds : WriteHandler(f, TRUE)
  /\ UNCHANGED <<rsnap, wsnap, pc, i, call>>

(***************************************************************************)
(* fr_event_loop.                                                          *)
(***************************************************************************)
\* select() returns what is ready, or nothing when a timer is due.
Select ==
  /\ pc = "select"
  /\ \E r \in SUBSET rset, w \in SUBSET wset :
       /\ Hot \intersect rset \subseteq r
       /\ rsnap' = r
       /\ wsnap' = w
  /\ pc' = "timers"
  /\ call' = NoCall
  /\ UNCHANGED <<table, i>>

\* No timer is due any more: the pass starts, unless nothing was ready.
TimersDone ==
  /\ pc = "timers"
  /\ pc' = IF rsnap \union wsnap = {} THEN "select" ELSE "write"
  /\ i' = 0
  /\ UNCHANGED <<table, rsnap, wsnap, call>>

\* The pass goes on: max_readers is read anew each time.
PassLeft == i < maxReaders

EndPass ==
  /\ pc = "write"
  /\ ~PassLeft
  /\ pc' = "select"
  /\ UNCHANGED <<table, rsnap, wsnap, i, call>>

\* A free slot, or one whose socket cannot be written to or is not blocked.
NoWrite ==
  /\ pc = "write"
  /\ PassLeft
  /\ \/ /\ readers[i].fd = NoFd
        /\ i' = i + 1
        /\ UNCHANGED pc
     \/ /\ readers[i].fd # NoFd
        /\ ~(readers[i].write /\ readers[i].fd \in wsnap)
        /\ pc' = "read"
        /\ UNCHANGED i
  /\ UNCHANGED <<table, rsnap, wsnap, call>>

\* tls_write_available: proxy_listener_thaw, then tls_socket_write, which
\* writes, blocks again, or fails and removes the socket.
Write ==
  /\ pc = "write"
  /\ PassLeft
  /\ readers[i].fd \in wsnap
  /\ readers[i].write
  /\ \/ WriteHandler(readers[i].fd, FALSE)
     \/ UNCHANGED table
     \/ WriteErrors /\ Delete(readers[i].fd)
  /\ pc' = "read"
  /\ UNCHANGED <<rsnap, wsnap, i, call>>

\* FD_ISSET of a descriptor of -1 is undefined: it may be found set.
Read ==
  /\ pc = "read"
  /\ LET f == readers[i].fd
     IN  \/ /\ f \in rsnap \/ f = NoFd
            /\ pc' = "handler"
            /\ call' = [fd |-> f, ready |-> f \in rsnap \intersect rset]
            /\ UNCHANGED i
         \/ /\ f \notin rsnap
            /\ pc' = "write"
            /\ i' = i + 1
            /\ UNCHANGED call
  /\ UNCHANGED <<table, rsnap, wsnap>>

Return ==
  /\ pc = "handler"
  /\ pc' = "write"
  /\ i' = i + 1
  /\ UNCHANGED <<table, rsnap, wsnap, call>>

Loop == Select \/ TimersDone \/ EndPass \/ NoWrite \/ Write \/ Read \/ Return

Next == Loop \/ Callback \/ Freeze

Spec == Init /\ [][Next]_vars

\* The loop goes on: callbacks return and timers end.
FairSpec == Spec /\ WF_vars(Loop)

(***************************************************************************)
(* Properties.                                                             *)
(***************************************************************************)
\* The three records of what is registered agree: a descriptor has one slot,
\* within max_readers, and is in read_fds; num_readers counts them; only a
\* registered descriptor is in write_fds.
TableAgrees ==
  /\ \A j, k \in Index :
       readers[j].fd # NoFd /\ readers[j].fd = readers[k].fd => j = k
  /\ \A j \in Index : readers[j].fd # NoFd => j < maxReaders
  /\ rset = Registered
  /\ wset \subseteq Registered
  /\ numReaders = Cardinality(Registered)

\* A read handler is called only for a descriptor that is still registered
\* and that select() found readable, whatever the callbacks before it in
\* the same pass removed or added.
OnlyReadySockets == call.ready

\* A socket that always has something to read is served again and again, or
\* is removed: no change of the table hides it from the pass.
HotServed ==
  \A f \in Hot : []<>(call.fd = f \/ f \notin Registered)

\* select() sleeps unless there is something to do: a descriptor it returns
\* as writable has a write handler to call.
WokenForWork ==
  [][pc = "select" /\ pc' = "timers" =>
       \A f \in wsnap' : \E j \in At(f) : readers[j].write]_vars
=============================================================================
