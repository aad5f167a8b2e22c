------------------------------ MODULE Sidebar -------------------------------
(***************************************************************************)
(* The organisation tree with the browsers that edit it, and the           *)
(* statistics that are made of such a tree.                                *)
(***************************************************************************)
EXTENDS Integers, FiniteSets

CONSTANTS
    Node, Top, Pid, Folder, Existing, Admin, RootOf, MaxPosts, Overlap,
    StatNode, Leaf, Trees, Realm, MaxAccounts, MaxRecursion, Walk, Asked

VARIABLES
    tree, view, posts, used, removed, attached,
    pid, node_id, accounts, stat, walk, alone

orgState == <<tree, view, posts, used, removed, attached>>
statState == <<pid, node_id, accounts, stat, walk, alone>>

Org == INSTANCE OrgTree

Statistic == INSTANCE NodeStatistic WITH Node <- StatNode, Call <- Walk, call <- walk

ASSUME SidebarAssumption == Org!TreeAssumption
ASSUME WalkAssumption == Statistic!StatisticAssumption

\* A browser alone with its subtree shows, once its save has ended, what the table
\* holds; and saves that do not overlap never leave a node whose parent is gone.
TreeInSync == Org!TreeInSync

\* What a browser alone with its subtree deletes was removed on purpose and stays
\* gone, with its realms and administrators, and nothing else is pruned.
TreePruned == Org!TreePruned

\* A call of make_node_statistic that no other overlapped answers, if it answers,
\* with the number of accounts below the node, whatever calls before it left behind.
StatisticExact == Statistic!TypeOK /\ Statistic!ExactAlone
=============================================================================
