----------------------------- MODULE DentryCache ------------------------------
(***************************************************************************)
(* The dentry cache (src/cache.cpp, DentryCache) at the level of its       *)
(* pointers: a heap of nodes, the children of a node in a ring of next_    *)
(* pointers entered at childs_, with the cache calls FileSystem makes in   *)
(* their order.  A lookup moves childs_, and remove relies on where it     *)
(* points, so the order of the calls matters.                              *)
(*                                                                         *)
(* The directory tree behind the cache is reduced to which path names      *)
(* which inode.  It has two levels: a name of Dirs is a directory of the   *)
(* root, a name of Files a file in the root or in such a directory.        *)
(***************************************************************************)
EXTENDS Integers, FiniteSets, SequencesExt

CONSTANTS Dirs, Files,  \* names of directories and of files
          Deep,         \* bound: the directories files are put in, beside the root
          NInodes,      \* inodes, the root included
          None,         \* no such path
          RenameDown    \* may a file be renamed into a sibling directory?

ASSUME NamesAssumption == Dirs \cap Files = {} /\ Deep \subseteq Dirs
ASSUME NInodesAssumption == NInodes \in Nat \ {0}
ASSUME NoneAssumption == None \notin Int
ASSUME RenameDownAssumption == RenameDown \in BOOLEAN

Inodes == 0 .. NInodes - 1
Names == Dirs \cup Files
FilePaths == {<<n>> : n \in Files} \cup (Deep \X Files)
DirPaths == {<<d>> : d \in Dirs}
Paths == FilePaths \cup DirPaths

\* Heap nodes: 0 is the null pointer, 1 is root_.  The heap has a node for
\* every path, so calloc finds one (alloc_new_node does not check it).
Null == 0
RootNode == 1
NNodes == 1 + Cardinality(Paths)
NodeIds == 1 .. NNodes
FreeNode == [live |-> FALSE, name |-> None, inode |-> None, childs |-> Null, next |-> Null]

VARIABLES heap,  \* the nodes
          tree   \* the inode of every path of the file system

vars == <<heap, tree>>

(***************************************************************************)
(* DentryCache's functions, on a heap h.                                   *)
(***************************************************************************)
\* The nodes met from node n along next_.  A ring has at most one node for a
\* name, so a walk of RingBound steps has been around it.
RingBound == Cardinality(Names)

Follow(h, n) ==
  LET at[k \in 0 .. RingBound] ==
        IF k = 0 THEN n
        ELSE LET last == at[k - 1] IN IF last = Null THEN Null ELSE h[last].next
  IN  at

\* A match in a ring: the node, and the node met before it (itself, if the walk
\* begins there).
NoMatch == [ptr |-> Null, prev |-> Null]
Match(at, k) == [ptr |-> at[k], prev |-> IF k = 0 THEN at[k] ELSE at[k - 1]]
Positions(at, h, name) == {k \in 0 .. RingBound : at[k] # Null /\ h[at[k]].name = name}
FirstMatch(at, ks) == IF ks = {} THEN NoMatch ELSE Match(at, Min(ks))
Search(h, n, name) == FirstMatch(Follow(h, n), Positions(Follow(h, n), h, name))

\* lookup: the node found, or Null, and the heap with childs_ moved to it.
Entered(h, parent, found) ==
  [node |-> found, heap |-> IF found = Null THEN h ELSE [h EXCEPT ![parent].childs = found]]
CacheLookup(h, parent, name) == Entered(h, parent, Search(h, h[parent].childs, name).ptr)

Fresh(h) == CHOOSE n \in NodeIds : ~h[n].live /\ \A m \in 1 .. n - 1 : h[m].live

\* insert: the new node follows childs_ and becomes childs_.
CacheInsert(h, parent, name, inode) ==
  LET new == Fresh(h)
      first == h[parent].childs
      Node(next) == [live |-> TRUE, name |-> name, inode |-> inode,
                     childs |-> Null, next |-> next]
  IN  [node |-> new,
       heap |-> IF first = Null
                THEN [h EXCEPT ![new] = Node(new), ![parent].childs = new]
                ELSE [h EXCEPT ![new] = Node(h[first].next),
                               ![first].next = new,
                               ![parent].childs = new]]

\* release_node: the nodes below n (they have no children themselves).
Below(h, n) ==
  IF h[n].childs = Null THEN {}
  ELSE LET at == Follow(h, h[n].childs) IN {at[k] : k \in 0 .. RingBound}

\* The heap with the match m bypassed: childs_ moves behind it.
Bypass(h, parent, m) ==
  [[h EXCEPT ![parent].childs = IF h[m.ptr].next = m.ptr THEN Null ELSE h[m.ptr].next]
     EXCEPT ![m.prev].next = h[m.ptr].next]
Freed(h, nodes) == [n \in NodeIds |-> IF n \in nodes THEN FreeNode ELSE h[n]]

\* Fault: childs_ is not cleared with the last child.
CutOut_KeepsLast(h, parent, m) ==
  IF m = NoMatch THEN h
  ELSE Freed([[h EXCEPT ![parent].childs = h[m.ptr].next] EXCEPT ![m.prev].next = h[m.ptr].next],
             {m.ptr} \cup Below(h, m.ptr))

\* Fault: release_node is not called.
CutOut_KeepsSubtree(h, parent, m) ==
  IF m = NoMatch THEN h ELSE Freed(Bypass(h, parent, m), {m.ptr})

CutOut(h, parent, m) ==
  IF m = NoMatch THEN h
  ELSE Freed(Bypass(h, parent, m), {m.ptr} \cup Below(h, m.ptr))

\* remove: the walk starts at childs_->next_, and prev starts there too.
CacheRemove(h, parent, name) ==
  IF h[parent].childs = Null THEN h
  ELSE CutOut(h, parent, Search(h, h[h[parent].childs].next, name))

(***************************************************************************)
(* The cache calls of FileSystem::inode_lookup and inode_unlink.           *)
(***************************************************************************)
\* One component of a path: from the cache (c), or from the directory t and then
\* inserted.  A node Null means the component does not exist.
InsertOnMiss(c, t, parent, path) ==
  IF c.node # Null \/ t[path] = None THEN c
  ELSE CacheInsert(c.heap, parent, path[Len(path)], t[path])
Step(h, t, parent, path) ==
  InsertOnMiss(CacheLookup(h, parent, path[Len(path)]), t, parent, path)

Descend(c, t, path) ==
  IF Len(path) = 1 \/ c.node = Null THEN c ELSE Step(c.heap, t, c.node, path)
Walk(h, t, path) ==
  IF path = << >> THEN [node |-> RootNode, heap |-> h]
  ELSE Descend(Step(h, t, RootNode, SubSeq(path, 1, 1)), t, path)

Lookup(h, t, path) == Walk(h, t, path).heap

Parent(path) == SubSeq(path, 1, Len(path) - 1)

\* Fault: the cache entry is not removed.
Unlink_KeepsEntry(h, t, path) == Walk(h, t, Parent(path)).heap

\* inode_unlink: look up the directory, look up its node once more from its
\* parent, remove the name.
RemoveFrom(d, name) == CacheRemove(d.heap, d.node, name)
Unlink(h, t, path) == RemoveFrom(Walk(h, t, Parent(path)), path[Len(path)])

\* The paths that unlinking path removes: a directory loses what is below it.
Without(t, path) ==
  [p \in Paths |-> IF IsPrefix(path, p) THEN None ELSE t[p]]

\* inode_link looks up the source and the directory of the destination;
\* dentry_create leaves the cache alone.
Link(h, t, p, q) == Lookup(Lookup(h, t, p), t, Parent(q))

(***************************************************************************)
(* The handlers.                                                           *)
(***************************************************************************)
Init ==
  /\ heap = [n \in NodeIds |-> IF n = RootNode THEN [FreeNode EXCEPT !.live = TRUE, !.inode = 0]
                               ELSE FreeNode]
  /\ tree = [p \in Paths |-> None]

Exists(p) == tree[p] # None
ParentExists(p) == Len(p) = 2 => Exists(Parent(p))

\* getattr, open, access, readdir, readlink and the other readers.
LookupPath(p) ==
  /\ heap' = Lookup(heap, tree, p)
  /\ UNCHANGED tree

Used == {tree[p] : p \in Paths} \cup {0}
FirstFree(i) == i \notin Used /\ \A j \in 0 .. i - 1 : j \in Used

\* fuse_create and fuse_mkdir: inode_create looks up the parent.
CreatePath(p) ==
  /\ ParentExists(p) /\ ~Exists(p)
  /\ \E i \in Inodes : FirstFree(i) /\ tree' = [tree EXCEPT ![p] = i]
  /\ heap' = Lookup(heap, tree, Parent(p))

LinkPath(p, q) ==
  /\ Exists(p) /\ ParentExists(q) /\ ~Exists(q)
  /\ heap' = Link(heap, tree, p, q)
  /\ tree' = [tree EXCEPT ![q] = tree[p]]

\* fuse_unlink and fuse_rmdir (of an empty directory): a lookup, then
\* inode_unlink.
UnlinkPath(p) ==
  /\ Exists(p)
  /\ p \in DirPaths => \A q \in Paths : Parent(q) = p => ~Exists(q)
  /\ heap' = Unlink(Lookup(heap, tree, p), tree, p)
  /\ tree' = Without(tree, p)

\* A rename that moves a file into a directory next to it: looking up the
\* destination moves the childs_ of the directory the source is in.
MovesDown(p, q) == Len(p) = 1 /\ Len(q) = 2

\* fuse_rename with flags 0: look up both, unlink the destination if it exists,
\* link, unlink the source.
Replaced(h, q) == IF Exists(q) THEN Unlink(h, tree, q) ELSE h

RenamePath(p, q) ==
  /\ p # q /\ Exists(p) /\ ParentExists(q)
  /\ MovesDown(p, q) => RenameDown
  /\ LET h1 == Lookup(Lookup(heap, tree, p), tree, q)
         t2 == Without(tree, q)
         h3 == Link(Replaced(h1, q), t2, p, q)
         t3 == [t2 EXCEPT ![q] = tree[p]]
     IN  /\ heap' = Unlink(h3, t3, p)
         /\ tree' = Without(t3, p)

\* fuse_rename of a directory over another one: the destination is unlinked with
\* all that is below it, then inode_link refuses the source for being a
\* directory.  No file below the destination has a second name elsewhere.
RenameDir(p, q) ==
  /\ p # q /\ Exists(p) /\ Exists(q)
  /\ \A f, g \in FilePaths : Parent(f) = q /\ Exists(f) /\ tree[f] = tree[g] => Parent(g) = q
  /\ heap' = Lookup(Unlink(Lookup(Lookup(heap, tree, p), tree, q), tree, q), tree, p)
  /\ tree' = Without(tree, q)

Next ==
  \/ \E p \in Paths : LookupPath(p) \/ CreatePath(p) \/ UnlinkPath(p)
  \/ \E p, q \in DirPaths : RenameDir(p, q)
  \/ \E p, q \in FilePaths : LinkPath(p, q) \/ RenamePath(p, q)

Spec == Init /\ [][Next]_vars

(***************************************************************************)
(* Properties.                                                             *)
(***************************************************************************)
\* Every variable has its type.
TypeOK ==
  /\ heap \in [NodeIds -> [live : BOOLEAN, name : Names \cup {None},
                           inode : Inodes \cup {None},
                           childs : NodeIds \cup {Null}, next : NodeIds \cup {Null}]]
  /\ tree \in [Paths -> Inodes \cup {None}]

LiveNodes == {n \in NodeIds : heap[n].live}

\* The children of n: the ring entered at its childs_.
Ring(n) == Below(heap, n)

\* "Remove a cache entry for a given file name" (remove, include/cache.h) and
\* leave the others: no pointer of a live node leads to a freed one, so that no
\* later lookup reads freed memory.
NoDanglingPointer ==
  \A n \in LiveNodes : {heap[n].childs, heap[n].next} \ {Null} \subseteq LiveNodes

\* The next_ pointers of the children of a node form one ring through childs_,
\* and every node but the root is in the ring of exactly one node: a lookup
\* reaches every cached child and ends, and no node is leaked.
RingsPartitionNodes ==
  /\ \A n \in LiveNodes : LET ring == Ring(n) IN
       \A m \in ring : Follow(heap, m)[Cardinality(ring)] = m
  /\ UNION {Ring(n) : n \in LiveNodes} = LiveNodes \ {RootNode}
  /\ \A n \in LiveNodes : Ring(n) # {} =>
       \A k \in LiveNodes \ {n} : Ring(n) \cap Ring(k) = {}

\* What is cached under a path is what the directories say: after an unlink, a
\* rename or the reuse of an inode number, no lookup finds a stale inode or a
\* child of a removed directory.
CacheMatchesTree ==
  \A m \in Ring(RootNode) :
    /\ tree[<<heap[m].name>>] = heap[m].inode
    /\ \A k \in Ring(m) : tree[<<heap[m].name, heap[k].name>>] = heap[k].inode
=============================================================================
