------------------------------ MODULE Failover ------------------------------
(***************************************************************************)
(* Two MariaDB servers that replicate each other behind MaxScale, and the  *)
(* scripts around them: setup_dual_master_replication.sh, run once;        *)
(* wait_for_replication.sh, which holds MaxScale back; and setsql.sh, the  *)
(* loop that makes the master writable and lets its events run, and does   *)
(* the opposite on a slave.  MaxScale's monitor and the servers are        *)
(* external: roles change at any time, servers stop and come back with the *)
(* settings of their my.cnf (SET GLOBAL does not outlive the server).      *)
(*                                                                         *)
(* setsql.sh asks for the servers twice in one round, once for the master  *)
(* and once for the slaves, and the roles may change in between.           *)
(***************************************************************************)
EXTENDS Naturals, FiniteSets

CONSTANTS First, Second,    \* mysql01, mysql02
          MaxWait           \* rounds of wait_for_replication.sh before it gives up

FailoverAssumption == First # Second /\ MaxWait \in Nat

Servers == {First, Second}

VARIABLES db,       \* the servers: running, read_only, event_scheduler, replicating
          role,     \* what "maxctrl list servers" says of them
          loop,     \* setsql.sh: where it is and the hosts it still has to set
          setup,    \* setup_dual_master_replication.sh: the next step
          wait,     \* wait_for_replication.sh: rounds, and MaxScale started
          calm      \* ghost: nothing but the loop happened since its round began

vars == <<db, role, loop, setup, wait, calm>>

Roles == {"Master", "Slave", "Running", "Down"}

TypeOK ==
  /\ db \in [Servers -> [up : BOOLEAN, read_only : BOOLEAN, events : BOOLEAN,
                         repl : BOOLEAN]]
  /\ role \in [Servers -> Roles]
  /\ loop \in [pc : {"off", "master", "setMaster", "slaves", "setSlaves", "sleep"},
               hosts : SUBSET Servers]
  /\ setup \in 1..5
  /\ wait \in [rounds : 0..MaxWait, started : BOOLEAN]
  /\ calm \in BOOLEAN

\* my.cnf: only mysql02 has read_only=1; event_scheduler is off by default.
Fresh(s) == [up |-> TRUE, read_only |-> s = Second, events |-> FALSE, repl |-> FALSE]

Init ==
  /\ db = [s \in Servers |-> Fresh(s)]
  /\ role = [s \in Servers |-> "Running"]
  /\ loop = [pc |-> "off", hosts |-> {}]
  /\ setup = 1
  /\ wait = [rounds |-> 0, started |-> FALSE]
  /\ calm = FALSE

-----------------------------------------------------------------------------
\* SHOW REPLICA STATUS says "Slave_IO_Running: Yes" on both.
BothReplicate == \A s \in Servers : db[s].up /\ db[s].repl

\* setup_dual_master_replication.sh: mysql01 follows mysql02, mysql02 follows
\* mysql01, mysql02 becomes writable, the events of mysql01 run.  With set -e a
\* step on a server that is down ends it; the stack starts it again, and where
\* both replicate already it has nothing to do.
SetupStep ==
  LET s == IF setup \in {1, 4} THEN First ELSE Second
  IN /\ setup \in 1..4
     /\ IF setup = 1 /\ BothReplicate THEN setup' = 5 /\ UNCHANGED db
        ELSE IF db[s].up
          THEN /\ db' = [db EXCEPT
                    ![s] = IF setup \in {1, 2} THEN [@ EXCEPT !.repl = TRUE]
                           ELSE IF setup = 3 THEN [@ EXCEPT !.read_only = FALSE]
                           ELSE [@ EXCEPT !.events = TRUE]]
               /\ setup' = setup + 1
          ELSE setup' = (IF setup = 4 THEN 5 ELSE 1) /\ UNCHANGED db
     /\ calm' = FALSE
     /\ UNCHANGED <<role, loop, wait>>

\* wait_for_replication.sh: both replicate, or time is up; then run.sh starts the
\* loop.
Wait ==
  /\ ~wait.started
  /\ IF BothReplicate \/ wait.rounds = MaxWait
       THEN /\ wait' = [wait EXCEPT !.started = TRUE]
            /\ loop' = [loop EXCEPT !.pc = "master"]
       ELSE /\ wait' = [wait EXCEPT !.rounds = @ + 1]
            /\ UNCHANGED loop
  /\ UNCHANGED <<db, role, setup, calm>>

-----------------------------------------------------------------------------
(* setsql.sh *)

\* set_variables; it has no effect on a server that does not answer.
SetVariables(s, readOnly, events) ==
  db' = IF db[s].up
        THEN [db EXCEPT ![s].read_only = readOnly, ![s].events = events]
        ELSE db

FindMaster ==
  /\ loop.pc = "master"
  /\ loop' = [pc |-> "setMaster", hosts |-> {s \in Servers : role[s] = "Master"}]
  /\ calm' = TRUE
  /\ UNCHANGED <<db, role, setup, wait>>

SetMaster ==
  /\ loop.pc = "setMaster"
  /\ \/ loop.hosts = {} /\ UNCHANGED db       \* no host to connect to
     \/ \E s \in loop.hosts : SetVariables(s, FALSE, TRUE)
  /\ loop' = [pc |-> "slaves", hosts |-> {}]
  /\ UNCHANGED <<role, setup, wait, calm>>

FindSlaves ==
  /\ loop.pc = "slaves"
  /\ loop' = [pc |-> "setSlaves", hosts |-> {s \in Servers : role[s] = "Slave"}]
  /\ UNCHANGED <<db, role, setup, wait, calm>>

\* Mutant: a slave is made read-only and keeps its events.
SetSlaveEvents ==
  /\ loop.pc = "setSlaves"
  /\ \/ /\ loop.hosts = {}
        /\ loop' = [loop EXCEPT !.pc = "sleep"]
        /\ UNCHANGED db
     \/ \E s \in loop.hosts : /\ SetVariables(s, TRUE, db[s].events)
                              /\ loop' = [loop EXCEPT !.hosts = @ \ {s}]
  /\ UNCHANGED <<role, setup, wait, calm>>

SetSlave ==
  /\ loop.pc = "setSlaves"
  /\ \/ /\ loop.hosts = {}
        /\ loop' = [loop EXCEPT !.pc = "sleep"]
        /\ UNCHANGED db
     \/ \E s \in loop.hosts : /\ SetVariables(s, TRUE, FALSE)
                              /\ loop' = [loop EXCEPT !.hosts = @ \ {s}]
  /\ UNCHANGED <<role, setup, wait, calm>>

NextRound ==
  /\ loop.pc = "sleep"
  /\ loop' = [loop EXCEPT !.pc = "master"]
  /\ UNCHANGED <<db, role, setup, wait, calm>>

-----------------------------------------------------------------------------
(* External: the monitor of MaxScale and the servers *)

\* A server the monitor does not reach is down to it, though it may be running;
\* one without working replication is neither master nor slave.
Monitor ==
  /\ role' \in [Servers -> Roles]
  /\ role' # role
  /\ \A s \in Servers : ~db[s].up => role'[s] = "Down"
  /\ ~(role'[First] = "Master" /\ role'[Second] = "Master")
  /\ calm' = FALSE
  /\ UNCHANGED <<db, loop, setup, wait>>

Crash(s) ==
  /\ db[s].up
  /\ db' = [db EXCEPT ![s].up = FALSE]
  /\ calm' = FALSE
  /\ UNCHANGED <<role, loop, setup, wait>>

Restart(s) ==
  /\ ~db[s].up
  /\ db' = [db EXCEPT ![s] = [Fresh(s) EXCEPT !.repl = db[s].repl]]
  /\ calm' = FALSE
  /\ UNCHANGED <<role, loop, setup, wait>>

Loop == FindMaster \/ SetMaster \/ FindSlaves \/ SetSlave \/ NextRound

Next ==
  \/ SetupStep \/ Wait
  \/ FindMaster \/ SetMaster \/ FindSlaves \/ SetSlave \/ NextRound
  \/ Monitor
  \/ \E s \in Servers : Crash(s) \/ Restart(s)

Spec == Init /\ [][Next]_vars

\* The scripts keep running.
FairSpec == Spec /\ WF_vars(Wait) /\ WF_vars(Loop)

-----------------------------------------------------------------------------
(* Properties *)

AsListed ==
  \A s \in Servers :
    db[s].up => /\ role[s] = "Master" => ~db[s].read_only /\ db[s].events
                /\ role[s] = "Slave" => db[s].read_only /\ ~db[s].events

\* When nothing changed while setsql.sh made a round, the servers are at its end
\* as the monitor lists them: the master takes writes and runs the events, and a
\* slave does neither - whatever failovers, restarts and half rounds came before.
SettledAfterRound == loop.pc = "sleep" /\ calm => AsListed

\* Once roles and servers stay as they are, the settings follow and stay: the
\* events run on the master and are not left running on a slave.
Converges == <>[]calm => <>[]AsListed

\* "so that the applications reach the database only once both masters are
\* ready" (docker/scripts/README.md): MaxScale has not started before both
\* servers replicate.
ReadyFirst ==
  [][wait'.started /\ ~wait.started => \A s \in Servers : db[s].repl]_vars
=============================================================================
