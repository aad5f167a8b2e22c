--------------------------- MODULE SessionLedger ---------------------------
(***************************************************************************)
(* What session accounting promises, without tables, events or packets:    *)
(* a session is opened, uses octets, and is settled once, for no more than *)
(* it used.  Settling takes the amount from the account's balance, unless  *)
(* that is used up (or was never bought).  Nothing else changes a balance. *)
(***************************************************************************)
EXTENDS Integers

CONSTANTS Uid, User, UserOf, Grant

VARIABLES
    phase,      \* of a session: new, open, settled
    usage,      \* octets used by a session
    balance     \* octets left to an account

ledgerVars == <<phase, usage, balance>>

Init ==
    /\ phase = [x \in Uid |-> "new"]
    /\ usage = [x \in Uid |-> 0]
    /\ balance = Grant

Open(x) ==
    /\ phase[x] = "new"
    /\ phase' = [phase EXCEPT ![x] = "open"]
    /\ UNCHANGED <<usage, balance>>

Use(x) ==
    /\ phase[x] = "open"
    /\ usage' = [usage EXCEPT ![x] = usage[x] + 1]
    /\ UNCHANGED <<phase, balance>>

Settle(x) ==
    /\ phase[x] = "open"
    /\ phase' = [phase EXCEPT ![x] = "settled"]
    /\ \E amount \in 0..usage[x] :
           balance' = [balance EXCEPT ![UserOf[x]] =
                          IF balance[UserOf[x]] > 0 THEN balance[UserOf[x]] - amount
                          ELSE balance[UserOf[x]]]
    /\ UNCHANGED usage

Next == \E x \in Uid : Open(x) \/ Use(x) \/ Settle(x)

Spec == Init /\ [][Next]_ledgerVars
=============================================================================
