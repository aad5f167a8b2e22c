---------------------------- MODULE NodeStatistic ----------------------------
(***************************************************************************)
(* The statistics of the organisation tree: GET /NodeStatistic calls       *)
(* make_node_statistic, which empties the table and adds up the accounts   *)
(* of every realm in the leaf it belongs to and then in the folders above, *)
(* and selects the row of the node it was asked for.  Each statement is a  *)
(* transaction of its own.  One of the three numbers is modelled; the      *)
(* others are added up by the same statements.                             *)
(***************************************************************************)
EXTENDS Integers, FiniteSets, FiniteSetsExt

CONSTANTS
    Node, Leaf, Top,     \* sidebar_tree, its nodes of type 0, the pid of its root
    Trees,               \* the functions from Node to pid that are considered
    Realm,               \* realms, each of a leaf
    MaxAccounts,         \* bound: accounts of a realm
    MaxRecursion,        \* max_sp_recursion_depth, 10 in the code
    Call,                \* calls of the API
    Asked                \* [Call -> Node]

\* In a tree no node is below itself, and none is below a leaf (see OrgTree).
StatisticAssumption ==
    /\ IsFiniteSet(Node) /\ IsFiniteSet(Realm) /\ Leaf \subseteq Node /\ Top \notin Node
    /\ \A t \in Trees :
          /\ t \in [Node -> (Node \ Leaf) \cup {Top}]
          /\ \A S \in SUBSET Node \ {{}} : \E n \in S : t[n] \notin S
    /\ MaxAccounts \in Nat /\ MaxRecursion \in Nat /\ Asked \in [Call -> Node]

VARIABLES
    pid, node_id, accounts,   \* the tree, each realm's leaf, its number of accounts
    stat,                     \* node_statistic: a function on the nodes that have a row
    call,                     \* each call: [at, realms, leaves, node, depth, i, answer]
    alone                     \* history: calls that no other call overlapped

vars == <<pid, node_id, accounts, stat, call, alone>>

TypeOK ==
    /\ pid \in Trees /\ node_id \in [Realm -> Leaf] /\ accounts \in [Realm -> 0..MaxAccounts]
    /\ DOMAIN stat \subseteq Node /\ \A n \in DOMAIN stat : stat[n] \in Nat
    /\ call \in [Call -> [at : {"idle", "realms", "open", "leaves", "folder", "select", "done",
                                "failed"},
                          realms : SUBSET Realm, leaves : SUBSET Leaf,
                          node : Node \cup {Top}, depth : 0..MaxRecursion, i : Nat, answer : Nat]]
    /\ alone \subseteq Call

Go(c, at) == call' = [call EXCEPT ![c].at = at]
Data == UNCHANGED <<pid, node_id, accounts>>
Running == {c \in Call : call[c].at \notin {"idle", "done", "failed"}}

Begin(c) ==
    /\ call[c].at = "idle"
    /\ call' = [call EXCEPT ![c].at = "realms", ![c].realms = Realm]
    /\ alone' = IF Running = {} THEN alone \cup {c} ELSE alone \ Running
    /\ Data

\* Mutant: the rows of the call before are kept.
EmptyNot(c) == Begin(c) /\ UNCHANGED stat

\* DELETE FROM node_statistic
Empty(c) == Begin(c) /\ stat' = [n \in {} |-> 0]

\* INSERT ... ON DUPLICATE KEY UPDATE total_accounts = total_accounts + i
Added(n, i) ==
    [m \in DOMAIN stat \cup {n} |->
        IF m # n THEN stat[m] ELSE IF n \in DOMAIN stat THEN stat[n] + i ELSE i]

\* The loops over the leaves and their realms, one realm a step.
AddRealm(c) ==
    /\ call[c].at = "realms"
    /\ \/ \E r \in call[c].realms :
             /\ stat' = Added(node_id[r], accounts[r])
             /\ call' = [call EXCEPT ![c].realms = @ \ {r}, ![c].i = accounts[r]]
       \/ call[c].realms = {} /\ Go(c, "open") /\ UNCHANGED stat
    /\ Data /\ UNCHANGED alone

\* OPEN leaf_statistic_cursor
OpenLeaves(c) ==
    /\ call[c].at = "open"
    /\ call' = [call EXCEPT ![c].at = "leaves", ![c].leaves = DOMAIN stat \cap Leaf]
    /\ UNCHANGED stat /\ Data /\ UNCHANGED alone

\* FETCH and SELECT ... INTO i.  A row that is gone by now raises NOT FOUND, which
\* the handler takes for the end of the cursor, once the folders were added to with
\* the number read before.
FetchLeaf(c) ==
    /\ call[c].at = "leaves"
    /\ \/ \E n \in call[c].leaves :
             call' = [call EXCEPT
                 ![c].at = "folder", ![c].node = n, ![c].depth = 0,
                 ![c].leaves = IF n \in DOMAIN stat THEN @ \ {n} ELSE {},
                 ![c].i = IF n \in DOMAIN stat THEN stat[n] ELSE @]
       \/ call[c].leaves = {} /\ Go(c, "select")
    /\ UNCHANGED stat /\ Data /\ UNCHANGED alone

\* make_folder_statistic, one level of its recursion: a CALL deeper than MaxRecursion
\* is an error, which ends everything; what was added stays.
AddFolder(c) ==
    /\ call[c].at = "folder"
    /\ LET up == pid[call[c].node] IN
       \/ up \notin Node /\ Go(c, "leaves") /\ UNCHANGED stat
       \/ /\ up \in Node /\ stat' = Added(up, call[c].i)
          /\ \/ /\ call[c].depth < MaxRecursion
                /\ call' = [call EXCEPT ![c].node = up, ![c].depth = @ + 1]
             \/ call[c].depth = MaxRecursion /\ Go(c, "failed")
    /\ Data /\ UNCHANGED alone

\* mapper.selectList; a node without a row counts as nothing.
Select(c) ==
    /\ call[c].at = "select"
    /\ call' = [call EXCEPT ![c].at = "done",
                            ![c].answer = IF Asked[c] \in DOMAIN stat THEN stat[Asked[c]] ELSE 0]
    /\ UNCHANGED stat /\ Data /\ UNCHANGED alone

Init ==
    /\ pid \in Trees /\ node_id \in [Realm -> Leaf] /\ accounts \in [Realm -> 0..MaxAccounts]
    /\ stat = [n \in {} |-> 0]
    /\ call = [c \in Call |-> [at |-> "idle", realms |-> {}, leaves |-> {},
                               node |-> Top, depth |-> 0, i |-> 0, answer |-> 0]]
    /\ alone = {}

Step(c) ==
    Empty(c) \/ AddRealm(c) \/ OpenLeaves(c) \/ FetchLeaf(c) \/ AddFolder(c) \/ Select(c)

Next == \E c \in Call : Step(c)

Spec == Init /\ [][Next]_vars
-----------------------------------------------------------------------------
\* The nodes above n, n included: the fewest that have with each of them its parent.
Path(n) ==
    {m \in Node : \A S \in SUBSET Node :
        n \in S /\ (\A k \in S : pid[k] \in Node => pid[k] \in S) => m \in S}

Total(n) == MapThenSumSet(LAMBDA r : accounts[r], {r \in Realm : n \in Path(node_id[r])})

\* What a call answers for a node is the number of accounts in the realms of all
\* leaves below it.
ExactAnswer == \A c \in Call : call[c].at = "done" => call[c].answer = Total(Asked[c])

\* So does a call that no other overlapped, whatever calls before it left behind.
ExactAlone ==
    \A c \in alone : call[c].at = "done" => call[c].answer = Total(Asked[c])
=============================================================================
