------------------------------ MODULE MCPeers -------------------------------
(***************************************************************************)
(* What radiusd keeps about its peers, for TLC: a home server and the pool *)
(* of connections to a back end.  They share no state and are checked side *)
(* by side: a behaviour is one of the two, the other one stays as it began.*)
(***************************************************************************)
EXTENDS HomeServer, Connections, TLC

CONSTANTS t1, t2, t3

VARIABLE part

MCInit ==
    /\ part \in {"home", "connections"} /\ Init /\ Backend!Init
    /\ part = "home" => connUp

MCNext ==
    /\ UNCHANGED part
    /\ \/ part = "home" /\ Next /\ UNCHANGED connState
       \/ part = "connections" /\ Backend!Next /\ UNCHANGED vars

MCSpec == MCInit /\ [][MCNext]_<<part, vars, connState>>

Alike == Permutations({t1, t2, t3})
=============================================================================
