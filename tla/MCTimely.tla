------------------------------ MODULE MCTimely ------------------------------
(***************************************************************************)
(* Values of the constants of AccountingTimely for TLC.                    *)
(***************************************************************************)
EXTENDS AccountingTimely, TLC

CONSTANTS x1, x2, alice, bras1, s1, s2, w1, w2

OneUser == [x \in Uid |-> alice]
OneBras == [x \in Uid |-> bras1]
OwnSid == [x \in Uid |-> IF x = x1 THEN s1 ELSE s2]

NoQuota == [u \in User |-> 0]
Quota == [u \in User |-> 3]

\* The two sessions are alike: swap them with their Acct-Session-Ids.
AlikeSessions ==
    {p \in Permutations({x1, x2, s1, s2}) :
        /\ p[x1] = x1 <=> p[s1] = s1
        /\ p[x1] = x2 <=> p[s1] = s2
        /\ p[x1] \in {x1, x2}}
=============================================================================
