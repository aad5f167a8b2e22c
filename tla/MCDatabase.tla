----------------------------- MODULE MCDatabase -----------------------------
(***************************************************************************)
(* What else happens to the database, for TLC: the organisation tree and   *)
(* its pruning, the node statistics, the daily partitions and the roles of *)
(* the two servers.  The parts share no state and are checked side by      *)
(* side: a behaviour is one of them, the others stay as they began.        *)
(***************************************************************************)
EXTENDS Maintenance, Sidebar

CONSTANTS
    r, f, g, h, l, b,              \* nodes and a browser
    top, fold, sub, x, y, c1, c2   \* nodes and calls of the statistics

VARIABLE part

-----------------------------------------------------------------------------
\* A root r with two folders f and g, a folder h in f and a leaf l in h.
Nodes == {r, f, g, h, l}
Pids == [n \in Nodes |->
            CASE n = r -> Top [] n \in {f, g} -> r [] n = h -> f [] n = l -> h]
BelowF == [n \in {b} |-> f]

\* All trees of two leaves below a chain of three folders.
SmallTrees ==
    {t \in [{top, fold, sub, x, y} -> {top, fold, sub, Top}] :
        t[top] = Top /\ t[fold] = top /\ t[sub] = fold /\ t[x] # Top /\ t[y] # Top}
AskTop == [c \in {c1, c2} |-> top]

ASSUME Org!Apart
-----------------------------------------------------------------------------
mcVars == <<part, orgState, statState, dayState, masterState>>

\* What an idle part began with is not a choice.
MCInit ==
    /\ part \in {"org", "statistic", "days", "masters"}
    /\ Org!Init /\ Statistic!Init /\ Days!Init /\ Masters!Init
    /\ part # "statistic" => /\ pid[x] = top /\ pid[y] = top
                             /\ \A q \in Realm : node_id[q] = x /\ accounts[q] = 0
    /\ part # "days" => 0 \in parts

MCNext ==
    /\ UNCHANGED part
    /\ \/ /\ part = "org" /\ Org!Next
          /\ UNCHANGED <<statState, dayState, masterState>>
       \/ /\ part = "statistic" /\ Statistic!Next
          /\ UNCHANGED <<orgState, dayState, masterState>>
       \/ /\ part = "days" /\ Days!Next
          /\ UNCHANGED <<orgState, statState, masterState>>
       \/ /\ part = "masters" /\ Masters!Next
          /\ UNCHANGED <<orgState, statState, dayState>>

\* The fairness of the parts with a liveness property.
Fairness ==
    /\ WF_dayState(part = "days" /\ Days!NextDay)
    /\ SF_dayState(part = "days" /\ Days!ManagePartitions)
    /\ WF_masterState(part = "masters" /\ Masters!Wait)
    /\ WF_masterState(part = "masters" /\ Masters!Loop)

MCSpec == MCInit /\ [][MCNext]_mcVars /\ Fairness
-----------------------------------------------------------------------------
\* Rows of radpostauth are dropped some day though the clock was set back, and
\* once the roles of the database servers stay as they are, the settings follow.
DatabaseSettles ==
    /\ part = "days" => Days!Purged
    /\ part = "masters" => Masters!Converges
=============================================================================
