------------------------------- MODULE FrHeap -------------------------------
(***************************************************************************)
(* The heap radiusd keeps its timers in (lib/heap.c, used by lib/event.c): *)
(* an array of pointers ordered by the events' times, in which every event *)
(* also holds its own position so that it can be taken out of the middle.  *)
(* A step is one iteration of a loop of fr_heap_extract or fr_heap_bubble, *)
(* or the code between two loops.  One thread at a time works on an event  *)
(* list, so a call of fr_event_insert, fr_event_delete or fr_event_run is  *)
(* over before the next begins.  The array grows when it is full; it has   *)
(* the room it needs.                                                      *)
(***************************************************************************)
EXTENDS Integers

CONSTANTS Events,     \* the fr_event_t of the program
          Times       \* when they are set for

HeapAssumption == Times \subseteq Nat

VARIABLES p,             \* hp->p[0 .. num_elements - 1]
          num_elements,
          offset,        \* ev->heap
          when,          \* ev->when
          op             \* the call that is being made

vars == <<p, num_elements, offset, when, op>>

\* RESET_OFFSET
NotIn == -1

\* The time of an event that is not allocated, or freed.
Unset == -1

(***************************************************************************)
(* A call works on one event.  It is where `at' says: in the loop of       *)
(* fr_heap_extract ("sink"), in fr_heap_bubble called at its end           *)
(* ("refill"), between extraction and what follows it ("out"), or in       *)
(* fr_heap_bubble called by fr_heap_insert ("rise").  `node' is the        *)
(* variable parent of fr_heap_extract, or child of fr_heap_bubble; `time'  *)
(* is when the event is to be set for, Unset if it is to be freed; `call'  *)
(* is whether its callback is called after that.                           *)
(***************************************************************************)
Op == [at : {"sink", "refill", "out", "rise"}, node : Nat, event : Events,
       time : Times \cup {Unset}, call : BOOLEAN]

Idle == [at |-> "idle"]

TypeOK ==
  /\ num_elements \in Nat
  /\ p \in [0..(num_elements - 1) -> Events]
  /\ offset \in [Events -> Nat \cup {NotIn}]
  /\ when \in [Events -> Times \cup {Unset}]
  /\ op \in Op \cup {Idle}

Init ==
  /\ num_elements = 0 /\ p = [i \in 0..-1 |-> Unset]
  /\ offset = [e \in Events |-> NotIn]
  /\ when = [e \in Events |-> Unset]
  /\ op = Idle

Goto(at, node) == op' = [op EXCEPT !.at = at, !.node = node]

Parent(i) == (i - 1) \div 2

Left(i) == 2 * i + 1

\* fr_event_list_time_cmp
Earlier(a, b) == when[a] < when[b]

-----------------------------------------------------------------------------
(* fr_heap_extract *)

\* Up to the loop.  The position the event holds is taken for where it is;
\* one outside the heap ends the extraction.
Extract(e, t, call) ==
  LET at(a, n) == [at |-> a, node |-> n, event |-> e, time |-> t, call |-> call]
  IN  /\ IF offset[e] \in 0..(num_elements - 1)
         THEN /\ offset' = [offset EXCEPT ![p[offset[e]]] = NotIn]
              /\ op' = at("sink", offset[e])
         ELSE /\ op' = at("out", 0)
              /\ UNCHANGED offset
      /\ UNCHANGED <<p, num_elements, when>>

\* The smaller of two children; the left one when they are equal or when
\* it is the last element.
SmallerChild(left) ==
  IF left # num_elements - 1 /\ Earlier(p[left + 1], p[left]) THEN left + 1 ELSE left

\* The hole goes down: its smaller child moves up into it.
Sink ==
  /\ op.at = "sink" /\ Left(op.node) < num_elements
  /\ LET child == SmallerChild(Left(op.node))
     IN  /\ p' = [p EXCEPT ![op.node] = p[child]]
         /\ offset' = [offset EXCEPT ![p[child]] = op.node]
         /\ Goto("sink", child)
  /\ UNCHANGED <<num_elements, when>>

Short(q) == [i \in 0..(num_elements - 2) |-> q[i]]

\* Mutant: the last element is not put back when the hole is elsewhere.
FillNot ==
  /\ op.at = "sink" /\ Left(op.node) >= num_elements
  /\ num_elements' = num_elements - 1
  /\ p' = Short(p) /\ Goto("out", 0)
  /\ UNCHANGED <<offset, when>>

\* At a leaf the last element fills the hole, unless the hole is where it was.
Fill ==
  /\ op.at = "sink" /\ Left(op.node) >= num_elements
  /\ LET max == num_elements - 1
     IN  /\ num_elements' = max
         /\ p' = Short([p EXCEPT ![op.node] = p[max]])
         /\ IF op.node = max THEN Goto("out", 0) ELSE Goto("refill", op.node)
  /\ UNCHANGED <<offset, when>>

-----------------------------------------------------------------------------
(* fr_heap_bubble, at the end of an extraction or of an insertion *)

Rises(child) == child > 0 /\ ~ Earlier(p[Parent(child)], p[child])

\* Mutant: the one that comes down keeps its old position.
SwapUpStale ==
  /\ op.at \in {"refill", "rise"} /\ Rises(op.node)
  /\ LET child == op.node  parent == Parent(op.node)
     IN  /\ p' = [p EXCEPT ![child] = p[parent], ![parent] = p[child]]
         /\ Goto(op.at, parent)
  /\ UNCHANGED <<num_elements, offset, when>>

\* HEAP_SWAP with the parent, and SET_OFFSET of the one that comes down.
SwapUp ==
  /\ op.at \in {"refill", "rise"} /\ Rises(op.node)
  /\ LET child == op.node  parent == Parent(op.node)
     IN  /\ p' = [p EXCEPT ![child] = p[parent], ![parent] = p[child]]
         /\ offset' = [offset EXCEPT ![p[parent]] = child]
         /\ Goto(op.at, parent)
  /\ UNCHANGED <<num_elements, when>>

\* Where the element stays.
Settle ==
  /\ op.at \in {"refill", "rise"} /\ ~ Rises(op.node)
  /\ offset' = [offset EXCEPT ![p[op.node]] = op.node]
  /\ IF op.at = "refill" THEN Goto("out", 0) ELSE op' = Idle
  /\ UNCHANGED <<p, num_elements, when>>

-----------------------------------------------------------------------------
(* fr_event_insert, fr_event_delete and fr_event_run *)

\* The events somebody holds: fr_event_insert allocated them and
\* fr_event_delete has not freed them.
SetEvents == {e \in Events : when[e] # Unset}

\* fr_event_insert: an event that is set already is taken out first,
\* otherwise a new one is allocated.
EventInsert(e, t) ==
  /\ op = Idle
  /\ \/ e \in SetEvents /\ Extract(e, t, FALSE)
     \/ /\ e \notin SetEvents
        /\ op' = [at |-> "out", node |-> 0, event |-> e, time |-> t, call |-> FALSE]
        /\ UNCHANGED <<p, num_elements, offset, when>>

EventDelete(e) ==
  op = Idle /\ e \in SetEvents /\ Extract(e, Unset, FALSE)

\* fr_event_run: the first event is deleted, then called.
EventRun ==
  op = Idle /\ num_elements > 0 /\ Extract(p[0], Unset, TRUE)

\* fr_event_insert sets the event's time, and fr_heap_insert puts it at the end.
HeapInsert ==
  /\ op.at = "out" /\ op.time # Unset
  /\ when' = [when EXCEPT ![op.event] = op.time]
  /\ num_elements' = num_elements + 1
  /\ p' = [i \in 0..num_elements |-> IF i = num_elements THEN op.event ELSE p[i]]
  /\ Goto("rise", num_elements)
  /\ UNCHANGED offset

\* fr_event_delete frees the event, and fr_event_run goes on to its callback.
Free ==
  /\ op.at = "out" /\ op.time = Unset
  /\ when' = [when EXCEPT ![op.event] = Unset]
  /\ op' = Idle
  /\ UNCHANGED <<p, num_elements, offset>>

Next ==
  \/ \E e \in Events, t \in Times : EventInsert(e, t)
  \/ \E e \in Events : EventDelete(e)
  \/ EventRun
  \/ Sink \/ Fill \/ SwapUp \/ Settle \/ HeapInsert \/ Free

Spec == Init /\ [][Next]_vars

(***************************************************************************)
(* Properties.                                                             *)
(***************************************************************************)
\* Between the calls, the array holds exactly the events that are set, each
\* once and at the position it holds itself: what fr_assert(ret == 1) of
\* fr_event_insert and fr_event_delete expects.  An event taken out by a
\* wrong position would be another request's timer.
OffsetsExact ==
  /\ \A e \in SetEvents : offset[e] \in 0..(num_elements - 1) /\ p[offset[e]] = e
  /\ \A i \in 0..(num_elements - 1) : p[i] \in SetEvents /\ offset[p[i]] = i
  /\ \A e \in Events \ SetEvents : offset[e] = NotIn

\* The event fr_event_run takes is one of the earliest, after any sequence
\* of insertions, changes of time and extractions from the middle.
EarliestFirst ==
  \A e \in SetEvents : num_elements > 0 /\ when[p[0]] <= when[e]

(***************************************************************************)
(* What the heap is for.                                                   *)
(***************************************************************************)
Queue == INSTANCE TimerQueue WITH
  due <- IF op = Idle THEN when ELSE [when EXCEPT ![op.event] = op.time],
  called <- IF op # Idle /\ op.call THEN {op.event} ELSE {}

=============================================================================
