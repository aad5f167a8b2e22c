---------------------------- MODULE MCAccounting ----------------------------
(***************************************************************************)
(* One session for AccountingLossy and TLC.  Two sessions, and overlapping *)
(* executions of the event, are in MCVariants.                             *)
(***************************************************************************)
EXTENDS AccountingLossy

CONSTANTS alice, bras1, s1

OneUser == [x \in Uid |-> alice]
OneBras == [x \in Uid |-> bras1]
OneSid == [x \in Uid |-> s1]

NoQuota == [u \in User |-> 0]
Quota == [u \in User |-> 3]
=============================================================================
