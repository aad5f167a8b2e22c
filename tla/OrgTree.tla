------------------------------- MODULE OrgTree -------------------------------
(***************************************************************************)
(* The organisation tree (table sidebar_tree), as the administrators'      *)
(* browsers edit it.  A browser loads the subtree of its administrator     *)
(* once, changes its copy, and after each change posts the whole copy; the *)
(* server (SidebarTreeController.setTreeNodeList) brings the subtree in    *)
(* the table to what it was sent.                                          *)
(*                                                                         *)
(* The browser has no way to move a node, so a node's pid is part of its   *)
(* identity.  A save is a transaction at REPEATABLE READ: what it selects  *)
(* is the state at its first statement, what it writes meets the rows as   *)
(* they are; its row locks make the writes of one save a step.             *)
(***************************************************************************)
EXTENDS Integers, FiniteSets

CONSTANTS
    Node,            \* ids of nodes, uuids the browsers choose
    Top,             \* the pid of the tree's root, no node
    Pid,             \* [Node -> Node \cup {Top}]
    Folder,          \* nodes of type 1; the others are of type 0
    Existing,        \* nodes in the table at the beginning
    Admin,           \* administrators with a browser open
    RootOf,          \* [Admin -> Existing], the node of each one's subtree
    MaxPosts,        \* bound: saves of one browser on their way at once
    Overlap          \* whether a save may begin before another has ended

\* A node is never put below itself, and the table begins as a tree whose inner
\* nodes are folders.
TreeAssumption ==
    /\ IsFiniteSet(Node) /\ Top \notin Node /\ Pid \in [Node -> Node \cup {Top}]
    /\ \A S \in SUBSET Node \ {{}} : \E n \in S : Pid[n] \notin S
    /\ Folder \subseteq Node /\ Existing \subseteq Node
    /\ \A n \in Existing : Pid[n] \in (Existing \cap Folder) \cup {Top}
    /\ RootOf \in [Admin -> Existing] /\ MaxPosts \in Nat \ {0} /\ Overlap \in BOOLEAN

VARIABLES
    tree,            \* ids in sidebar_tree
    view,            \* what each browser shows
    posts,           \* requests: [admin, list, seen, at], seen is what the save selected
    used,            \* ids that were chosen
    removed,         \* nodes an administrator removed
    attached         \* nodes with realms or administrators of their own

vars == <<tree, view, posts, used, removed, attached>>

Post == [admin : Admin, list : SUBSET Node, seen : SUBSET Node, at : {"sent", "open"}]

TypeOK ==
    /\ tree \subseteq Node /\ view \in [Admin -> SUBSET Node]
    /\ posts \subseteq Post /\ used \subseteq Node
    /\ removed \subseteq used /\ attached \subseteq used

\* getAllSubNodes: the nodes of T reached from r by pid, the fewest that have with r,
\* and with each of them, its children in T.
AllSubNodes(T, r) ==
    {n \in T : \A S \in SUBSET T : (\A m \in T : Pid[m] \in S \cup {r} => m \in S) => n \in S}

\* GetTreeNodeList: the subtree with its root.
TreeNodeList(r) == AllSubNodes(tree, r) \cup (tree \cap {r})

Children(S, n) == {m \in S : Pid[m] = n}
Mine(a) == {p \in posts : p.admin = a}

Load(a) ==
    /\ Mine(a) = {}
    /\ view' = [view EXCEPT ![a] = TreeNodeList(RootOf[a])]
    /\ UNCHANGED <<tree, posts, used, removed, attached>>

\* SetTree: the browser posts its list and does not wait for the answer.
Send(a, list) ==
    /\ Cardinality(Mine(a)) < MaxPosts
    /\ view' = [view EXCEPT ![a] = list]
    /\ posts' = posts \cup {[admin |-> a, list |-> list, seen |-> {}, at |-> "sent"]}

\* append, appendFolder
AppendNode(a, n) ==
    /\ n \notin used /\ Pid[n] \in view[a] \cap Folder
    /\ Send(a, view[a] \cup {n})
    /\ used' = used \cup {n}
    /\ UNCHANGED <<tree, removed, attached>>

\* remove: not a folder that shows children, not the root.
Remove(a, n) ==
    /\ n \in view[a] \ {RootOf[a]}
    /\ n \in Folder => Children(view[a], n) = {}
    /\ Send(a, view[a] \ (AllSubNodes(view[a], n) \cup {n}))
    /\ removed' = removed \cup {n}
    /\ UNCHANGED <<tree, used, attached>>

\* renameNodeConfirm: the label is left out, the list is sent all the same.
Rename(a) ==
    /\ view[a] # {} /\ Send(a, view[a])
    /\ UNCHANGED <<tree, used, removed, attached>>

\* setTreeNodeList up to its first select.
SaveBegin(p) ==
    /\ p.at = "sent"
    /\ Overlap \/ \A q \in posts : q.at = "sent"
    /\ posts' = (posts \ {p}) \cup {[p EXCEPT !.at = "open", !.seen = tree]}
    /\ UNCHANGED <<tree, view, used, removed, attached>>

\* findRootNodeId: a node of the list whose pid is not in it.
RootIds(list) == {n \in list : Pid[n] \notin list}

\* Mutant: only the root's own children are deleted.
SavedOneLevel(p, root) ==
    (tree \cup (p.list \ p.seen)) \ (Children(p.seen, root) \ p.list)

\* Mutant: all that is not listed is deleted, below the root or not.
SavedWhole(p, root) == (tree \cup (p.list \ p.seen)) \ (p.seen \ p.list)

\* The table after the save: a listed node that was selected is updated if it is
\* still there, one that was not is inserted, and what was selected of the subtree
\* and is not listed is deleted.
Saved(p, root) ==
    (tree \cup (p.list \ p.seen)) \ (AllSubNodes(p.seen, root) \ p.list)

\* The rest of setTreeNodeList; the insert of an id that is there by now is a
\* duplicate key, and the save is rolled back.
SaveEnd(p) ==
    /\ p.at = "open"
    /\ posts' = posts \ {p}
    /\ \E root \in RootIds(p.list) :
          tree' = IF (p.list \ p.seen) \cap tree # {} THEN tree ELSE Saved(p, root)
    /\ UNCHANGED <<view, used, removed, attached>>

\* A realm or an administrator is given to a node of the tree.
Attach(n) ==
    /\ n \in tree /\ attached' = attached \cup {n}
    /\ UNCHANGED <<tree, view, posts, used, removed>>

\* event_of_minute deletes the realms and administrators whose node is not there.
Prune ==
    /\ attached' = attached \cap tree
    /\ UNCHANGED <<tree, view, posts, used, removed>>

Init ==
    /\ tree = Existing /\ used = Existing
    /\ view = [a \in Admin |-> TreeNodeList(RootOf[a])]
    /\ posts = {} /\ removed = {} /\ attached = {}

Next ==
    \/ \E a \in Admin : Load(a) \/ Rename(a) \/ \E n \in Node : AppendNode(a, n) \/ Remove(a, n)
    \/ \E p \in posts : SaveBegin(p) \/ SaveEnd(p)
    \/ (\E n \in Node : Attach(n)) \/ Prune

Spec == Init /\ [][Next]_vars
-----------------------------------------------------------------------------
\* Where the subtree of a browser's administrator can ever have nodes.
Territory(a) == AllSubNodes(Node, RootOf[a]) \cup {RootOf[a]}

\* Every subtree has one browser, which waits for each of its saves; or there may be
\* several, and the saves do not overlap.
Apart ==
    /\ MaxPosts = 1
    /\ \A a, b \in Admin : a # b => Territory(a) \cap Territory(b) = {}
Aligned ==
    /\ ~Overlap
    /\ \A a, b \in Admin : RootOf[a] = RootOf[b] \/ Territory(a) \cap Territory(b) = {}

\* Once all its saves have ended, a browser shows what the table holds: the API's
\* "对根节点对应的整棵子树做“增改删”同步" (the whole subtree is synchronised).
InSync ==
    \A a \in Admin : Mine(a) = {} => view[a] = TreeNodeList(RootOf[a])

\* Every node of the table hangs, over nodes of the table, on the root.
Connected == \A n \in tree : Pid[n] \in tree \cup {Top}

\* "此操作将永久删除该节点及其关联的管理员": a node that was removed, and is gone from
\* the table, stays gone.
RemovedForGood ==
    [][\A n \in removed : n \notin tree => n \notin tree']_vars

\* event_of_minute deletes realms and administrators only of nodes that somebody
\* removed.
PrunesRemoved == [][attached \ attached' \subseteq removed]_vars

\* "不能删非空的文件夹或者根节点": no save deletes a folder together with nodes in it that
\* nobody removed.
NonEmptyKept ==
    [][\A n \in Folder : n \in tree \ tree' => Children(tree, n) \subseteq removed]_vars
-----------------------------------------------------------------------------
\* Saves never leave a node whose parent is gone; and a browser alone with its
\* subtree shows, once its save has ended, what the table holds.
TreeInSync == TypeOK /\ (Apart \/ Aligned => Connected) /\ (Apart => InSync)

\* Realms and administrators of a node are removed only when an administrator
\* removed the node, a removed node does not come back, and a folder is deleted
\* only together with nodes that were removed on purpose.
TreePruned == RemovedForGood /\ NonEmptyKept /\ PrunesRemoved
=============================================================================
