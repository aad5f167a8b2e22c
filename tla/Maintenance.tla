----------------------------- MODULE Maintenance ----------------------------
(***************************************************************************)
(* What keeps the database in order beside its users: the partitions of    *)
(* radpostauth and the scripts that follow the roles of the two servers.   *)
(* They share no state.                                                    *)
(***************************************************************************)
EXTENDS Integers, FiniteSets

CONSTANTS PostAuth,       \* the rows of radpostauth
          Retain, MaxBack, First, Second, MaxWait

VARIABLES
    parts, postauth, ran, backs,
    db, role, loop, setup, wait, calm

dayState == <<parts, postauth, ran, backs>>
masterState == <<db, role, loop, setup, wait, calm>>

\* radpostauth: keys and bounds are days; the clock may be set back.
Days == INSTANCE Partitions WITH Row <- PostAuth, row <- postauth, BoundsFit <- TRUE

Masters == INSTANCE Failover

ASSUME DaysAssumption == Days!PartitionAssumption
ASSUME MastersAssumption == Masters!FailoverAssumption

\* A row of radpostauth is dropped only when it is older than what is to be kept,
\* whichever days the event did not run, as long as the clock was not set back.
RowsKept == []Days!TypeOK /\ [][backs = 0 => Days!DropsOnlyOld]_dayState

\* After a round of setsql.sh during which nothing changed, the master takes
\* writes and runs the events and the slave does neither.
MastersSettled == Masters!TypeOK /\ Masters!SettledAfterRound
=============================================================================
