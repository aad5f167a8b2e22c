------------------------------ MODULE MCLogin -------------------------------
(***************************************************************************)
(* Logins and the state kept between the rounds of a login, for TLC, side  *)
(* by side: a behaviour is one part, the other stays as it began.          *)
(***************************************************************************)
EXTENDS LoginState, TLC

VARIABLE part

MCInit == part \in {"login", "states"} /\ Init /\ States!Init

MCNext ==
    /\ UNCHANGED part
    /\ \/ part = "login" /\ Next /\ UNCHANGED stateVars
       \/ part = "states" /\ States!Next /\ UNCHANGED vars

MCSpec == MCInit /\ [][MCNext]_<<part, vars, stateVars>>
=============================================================================
