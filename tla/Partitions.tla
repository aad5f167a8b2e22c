------------------------------ MODULE Partitions ------------------------------
(***************************************************************************)
(* The partitions of a table by date, which event_of_day keeps with        *)
(* ManagePartitionsByDay (radpostauth, 7 days) and ManagePartitionsByMonth *)
(* (offline_user, 12 months).  The procedures are the same but for the     *)
(* unit, here called a day, and for what a partition is bounded by.        *)
(*                                                                         *)
(* A date is kept as its distance from the present day; every distance     *)
(* grows as days pass, up to Old, beyond which nothing tells them apart.   *)
(***************************************************************************)
EXTENDS Integers, FiniteSets

CONSTANTS
    Row,             \* the rows a behaviour inserts
    Retain,          \* retainDays, retainMonths
    BoundsFit,       \* whether bounds and keys are counted in the same unit
    MaxBack          \* bound: how many days the clock is set back in all

PartitionAssumption ==
    Retain \in Nat /\ BoundsFit \in BOOLEAN /\ MaxBack \in Nat

Old == Retain + MaxBack + 1
Age == (0 - MaxBack)..Old

VARIABLES
    parts,           \* ages of the partitions other than max
    row,             \* each row: [at, part, age], part is the age of its partition
    ran,             \* event_of_day ran today
    backs            \* days the clock was set back

vars == <<parts, row, ran, backs>>

TypeOK ==
    /\ parts \subseteq Age
    /\ row \in [Row -> [at : {"none", "max", "part", "gone"}, part : Age, age : Age]]
    /\ ran \in BOOLEAN /\ backs \in 0..MaxBack

Stored(r) == row[r].at \in {"max", "part"}

\* Whether a row of date d is below the bound of the partition of date p.  The table
\* offline_user is partitioned by TO_DAYS(acctstoptime) while its bounds are months,
\* year * 12 + month: a number of days, some thirty times as large, is below none.
Below(d, p) == BoundsFit /\ d >= p

\* A new row goes to the earliest partition whose bound it is below, or to max.
Insert(r) ==
    /\ row[r].at = "none"
    /\ \/ /\ ~\E p \in parts : Below(0, p)
          /\ row' = [row EXCEPT ![r].at = "max"]
       \/ \E p \in parts :
             /\ Below(0, p) /\ \A q \in parts : Below(0, q) => q <= p
             /\ row' = [row EXCEPT ![r].at = "part", ![r].part = p]
    /\ UNCHANGED <<parts, ran, backs>>

\* Mutant: a day too early.
OutdatedEarly(p) == p >= Retain \/ p < 0

\* The partitions a run drops: older than Retain, or of a day to come.
Outdated(p) == p > Retain \/ p < 0

\* highest < current, where the highest date includes the partitions just dropped.
NeedsPartition(P) == \A p \in P : p > 0

\* Mutant: the new partition takes no rows out of max.
ReorganizedEmpty(r, new) == row[r]

\* REORGANIZE PARTITION max: its rows below the new bound move to the new partition.
Reorganized(r, new) ==
    IF new /\ row[r].at = "max" /\ Below(row[r].age, 0)
    THEN [row[r] EXCEPT !.at = "part", !.part = 0]
    ELSE row[r]

ManagePartitions ==
    /\ ~ran
    /\ LET new == NeedsPartition(parts) IN
       /\ parts' = {p \in parts : ~Outdated(p)} \cup (IF new THEN {0} ELSE {})
       /\ row' = [r \in Row |->
             IF row[r].at = "part" /\ Outdated(row[r].part)
             THEN [row[r] EXCEPT !.at = "gone"]
             ELSE Reorganized(r, new)]
    /\ ran' = TRUE
    /\ UNCHANGED backs

Later(n) == IF n < Old THEN n + 1 ELSE n
Earlier(n) == n - 1
Shift(f(_)) ==
    /\ parts' = {f(p) : p \in parts}
    /\ row' = [r \in Row |->
          CASE row[r].at = "max" -> [row[r] EXCEPT !.age = f(@)]
            [] row[r].at = "part" -> [row[r] EXCEPT !.age = f(@), !.part = f(@)]
            [] OTHER -> row[r]]

\* A day passes; the event may not have run on it (the server was down).
NextDay == Shift(Later) /\ ran' = FALSE /\ UNCHANGED backs

\* The clock of the server is set back a day.
ClockBack ==
    /\ backs < MaxBack
    /\ Shift(Earlier) /\ backs' = backs + 1 /\ ran' = FALSE

\* The table is created with the partitions of the days before its dump was made,
\* which are kept on that day and long past on a later one.
Init ==
    /\ parts \in {0..Retain, {Old}}
    /\ row = [r \in Row |-> [at |-> "none", part |-> 0, age |-> 0]]
    /\ ran = FALSE /\ backs = 0

Next == (\E r \in Row : Insert(r)) \/ ManagePartitions \/ NextDay \/ ClockBack

Spec == Init /\ [][Next]_vars

\* Days pass, and the event runs again and again, though not every day.
FairSpec == Spec /\ WF_vars(NextDay) /\ SF_vars(ManagePartitions)
-----------------------------------------------------------------------------
\* A row is dropped only when it is older than what is to be kept, though its
\* partition may hold rows of earlier days on which the event did not run.
DropsOnlyOld == \A r \in Row : Stored(r) /\ row'[r].at = "gone" => row[r].age > Retain
RetentionKept == [][DropsOnlyOld]_vars

\* Every row is dropped some day: none slips below all partitions or stays in max.
Purged == \A r \in Row : Stored(r) ~> row[r].at = "gone"
=============================================================================
