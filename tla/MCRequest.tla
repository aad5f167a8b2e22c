------------------------------ MODULE MCRequest ------------------------------
(***************************************************************************)
(* The request state machine and the thread pool for TLC.  They are        *)
(* checked side by side: a behaviour is one of the two, the other one      *)
(* stays as it began.  The packets a1 and a2 share their source and ID;    *)
(* the accounting listener has the last fifo.                              *)
(***************************************************************************)
EXTENDS RequestPool, TLC

CONSTANTS a1, a2

Keys == [p \in Packet |-> IF p \in {a1, a2} THEN a1 ELSE p]

Priorities == [q \in Job |-> IF q \in AcctJob THEN 2 ELSE 1]

VARIABLES part

MCInit == part \in {"requests", "pool"} /\ Init /\ Pool!Init

MCNext ==
    /\ UNCHANGED part
    /\ \/ part = "requests" /\ Next /\ UNCHANGED poolState
       \/ part = "pool" /\ Pool!Next /\ UNCHANGED vars

MCSpec == MCInit /\ [][MCNext]_<<part, vars, poolState>>

SlotSymmetry == Permutations(Slot)
=============================================================================
