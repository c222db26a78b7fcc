------------------------------ MODULE BlockCache ------------------------------
(***************************************************************************)
(* The write-back block cache (include/cache.h, src/cache.cpp) with the    *)
(* FileSystem operations that use it (src/filesystem.cpp), one block group *)
(* and one caller at a time.  The cache is modelled at pointer level: the  *)
(* pool entries_, the doubly linked recency list between head_ and tail_,  *)
(* the index map_ and the stack free_entries_.  A block's 4096 bytes are   *)
(* one value.                                                              *)
(***************************************************************************)
EXTENDS Integers, Sequences

CONSTANTS Size,     \* BLOCK_CACHE_SIZE
          NBlocks,  \* data blocks of the block group
          Vals,     \* contents a block can have
          Zero,     \* the all-zero content
          Fail      \* get_block returning false

ASSUME SizeAssumption == Size \in Nat \ {0}
ASSUME NBlocksAssumption == NBlocks \in Nat \ {0}
ASSUME ValsAssumption == Zero \in Vals /\ Fail \notin Vals

Blocks == 0 .. NBlocks - 1
Nodes == 1 .. Size
HeadNode == 0
TailNode == Size + 1
Null == -1
Ends == Nodes \cup {HeadNode, TailNode}

VARIABLES map,      \* map_: block index -> node, or Null
          dirty,    \* Node::dirty_
          index,    \* Node::index_
          block,    \* content of *Node::block_
          links,    \* Node::prev_ and Node::next_, head_ and tail_ included
          free,     \* free_entries_, a stack
          disk,     \* the blocks on the disk
          bitmap,   \* the blocks set in the group's block bitmap
          written,  \* history: the blocks written since they were allocated
          out       \* history: what the last get_block for reading returned

cacheVars == <<map, dirty, index, block, links, free>>
vars == <<map, dirty, index, block, links, free, disk, bitmap, written, out>>

Cached == {b \in Blocks : map[b] # Null}
Linked == {map[b] : b \in Cached}

(***************************************************************************)
(* The list primitives.                                                    *)
(***************************************************************************)
\* Fault: prev_->next_ is not updated.
Detach_OneSided(l, n) ==
  [l EXCEPT !.prev = [@ EXCEPT ![l.next[n]] = l.prev[n]]]

Detach(l, n) ==
  [prev |-> [l.prev EXCEPT ![l.next[n]] = l.prev[n]],
   next |-> [l.next EXCEPT ![l.prev[n]] = l.next[n]]]

Attach(l, n) ==
  [prev |-> [l.prev EXCEPT ![n] = HeadNode, ![l.next[HeadNode]] = n],
   next |-> [l.next EXCEPT ![n] = l.next[HeadNode], ![HeadNode] = n]]

EmptyList ==
  [prev |-> [n \in Ends |-> IF n = TailNode THEN HeadNode ELSE Null],
   next |-> [n \in Ends |-> IF n = HeadNode THEN TailNode ELSE Null]]

\* Fault: a dirty block is dropped.
WriteBack_Never(n) == disk

\* release: a dirty block is written back before its memory is freed.
WriteBack(n) == IF dirty[n] THEN [disk EXCEPT ![index[n]] = block[n]] ELSE disk

Fill(n, b, v, d) ==
  /\ index' = [index EXCEPT ![n] = b]
  /\ block' = [block EXCEPT ![n] = v]
  /\ dirty' = [dirty EXCEPT ![n] = d]

\* insert of a block that is not cached, in a node of the pool.
InsertFree(b, v, d) ==
  /\ map[b] = Null
  /\ free # << >>
  /\ LET n == free[Len(free)]
     IN  /\ free' = SubSeq(free, 1, Len(free) - 1)
         /\ map' = [map EXCEPT ![b] = n]
         /\ links' = Attach(links, n)
         /\ Fill(n, b, v, d)
  /\ UNCHANGED disk

\* insert of a block that is not cached, in the least recently used node:
\* release pushes the node on the pool and insert pops it again.
InsertEvict(b, v, d) ==
  /\ map[b] = Null
  /\ free = << >>
  /\ LET n == links.prev[TailNode]
     IN  /\ disk' = WriteBack(n)
         /\ map' = [map EXCEPT ![index[n]] = Null, ![b] = n]
         /\ links' = Attach(Detach(links, n), n)
         /\ Fill(n, b, v, d)
  /\ UNCHANGED free

Insert(b, v, d) == InsertFree(b, v, d) \/ InsertEvict(b, v, d)

\* Fault: the node is not moved to the front.
Get_KeepsPlace(b, v, d) ==
  LET n == map[b]
  IN  /\ n # Null
      /\ dirty' = [dirty EXCEPT ![n] = @ \/ d]
      /\ block' = [block EXCEPT ![n] = v]
      /\ UNCHANGED <<links, map, index, free, disk>>

\* Fault: dirty_ is assigned instead of raised.
Get_SetsDirty(b, v, d) ==
  LET n == map[b]
  IN  /\ n # Null
      /\ links' = Attach(Detach(links, n), n)
      /\ dirty' = [dirty EXCEPT ![n] = d]
      /\ block' = [block EXCEPT ![n] = v]
      /\ UNCHANGED <<map, index, free, disk>>

\* get of a cached block: most recently used from now on, content v, dirty
\* if it was or if d.
Get(b, v, d) ==
  LET n == map[b]
  IN  /\ n # Null
      /\ links' = Attach(Detach(links, n), n)
      /\ dirty' = [dirty EXCEPT ![n] = @ \/ d]
      /\ block' = [block EXCEPT ![n] = v]
      /\ UNCHANGED <<map, index, free, disk>>

(***************************************************************************)
(* The operations of FileSystem.                                           *)
(***************************************************************************)
Init ==
  /\ map = [b \in Blocks |-> Null]
  /\ dirty = [n \in Nodes |-> FALSE]
  /\ index = [n \in Nodes |-> 0]
  /\ block = [n \in Nodes |-> Zero]
  /\ links = EmptyList
  /\ free = [i \in 1 .. Size |-> i]
  /\ disk = [b \in Blocks |-> Zero]
  /\ bitmap = {}
  /\ written = {}
  /\ out = << >>

\* get_block for reading: a cached block, or one fetched from the disk.
ReadHit(b) ==
  /\ map[b] # Null
  /\ Get(b, block[map[b]], FALSE)
  /\ out' = <<b, block[map[b]]>>
  /\ UNCHANGED <<bitmap, written>>

ReadMiss(b) ==
  /\ b \in bitmap
  /\ Insert(b, disk[b], FALSE)
  /\ out' = <<b, disk[b]>>
  /\ UNCHANGED <<bitmap, written>>

ReadFail(b) ==
  /\ map[b] = Null
  /\ b \notin bitmap
  /\ out' = <<b, Fail>>
  /\ UNCHANGED <<cacheVars, disk, bitmap, written>>

\* get_block for writing, and get_block followed by a change in place and by
\* modify, as inode_unlink and dentry_create do on a directory block.
WriteBlock(b, v) ==
  /\ \/ Get(b, v, TRUE)
     \/ b \in bitmap /\ Insert(b, v, TRUE)
  /\ written' = written \cup {b}
  /\ out' = << >>
  /\ UNCHANGED bitmap

FirstFree(b) == b \notin bitmap /\ \A c \in 0 .. b - 1 : c \in bitmap

\* alloc_block: the zeroed block enters the cache clean.
AllocBlock(b) ==
  /\ FirstFree(b)
  /\ bitmap' = bitmap \cup {b}
  /\ Insert(b, Zero, FALSE)
  /\ out' = << >>
  /\ UNCHANGED written

\* Fault: the bit of the block is not set.
AllocModify_BitClear(b, v) ==
  /\ FirstFree(b)
  /\ Insert(b, v, TRUE)
  /\ written' = written \cup {b}
  /\ out' = << >>
  /\ UNCHANGED bitmap

\* alloc_block followed by a change in place and by modify: a new directory
\* block or a new indirect block.
AllocModify(b, v) ==
  /\ FirstFree(b)
  /\ bitmap' = bitmap \cup {b}
  /\ Insert(b, v, TRUE)
  /\ written' = written \cup {b}
  /\ out' = << >>

\* Fault: the node is not pushed on free_entries_.
Remove_Leaks(b) ==
  LET n == map[b]
  IN  /\ n # Null
      /\ links' = Detach(links, n)
      /\ disk' = WriteBack(n)
      /\ map' = [map EXCEPT ![index[n]] = Null]
      /\ UNCHANGED <<dirty, index, block, free>>

\* BlockCache::remove of a cached block.
Remove(b) ==
  LET n == map[b]
  IN  /\ n # Null
      /\ links' = Detach(links, n)
      /\ disk' = WriteBack(n)
      /\ free' = Append(free, n)
      /\ map' = [map EXCEPT ![index[n]] = Null]
      /\ UNCHANGED <<dirty, index, block>>

\* Fault: the block stays in the cache.
FreeBlock_StaysCached(b) ==
  /\ b \in bitmap
  /\ bitmap' = bitmap \ {b}
  /\ written' = written \ {b}
  /\ out' = << >>
  /\ UNCHANGED <<cacheVars, disk>>

FreeBlock(b) ==
  /\ b \in bitmap
  /\ bitmap' = bitmap \ {b}
  /\ written' = written \ {b}
  /\ out' = << >>
  /\ \/ Remove(b)
     \/ map[b] = Null /\ UNCHANGED <<cacheVars, disk>>

\* The disk after a flush of the dirty blocks of S.
FlushDisk(S) ==
  [b \in Blocks |-> IF b \in S \cap Cached /\ dirty[map[b]]
                    THEN block[map[b]] ELSE disk[b]]

FlushSome(S) ==
  /\ disk' = FlushDisk(S)
  /\ dirty' = [n \in Nodes |-> dirty[n] /\ n \notin {map[b] : b \in S \cap Cached}]
  /\ out' = << >>
  /\ UNCHANGED <<map, index, block, links, free, bitmap, written>>

\* BlockCache::flush()
Flush == FlushSome(Blocks)

\* BlockCache::flush(inode_index): the number is compared with index_.
FlushInode(i) == FlushSome({i})

\* fuse_destroy and the next fuse_init: the destructor flushes, and the new
\* cache is empty.
Remount ==
  /\ disk' = FlushDisk(Blocks)
  /\ map' = [b \in Blocks |-> Null]
  /\ dirty' = [n \in Nodes |-> FALSE]
  /\ index' = [n \in Nodes |-> 0]
  /\ block' = [n \in Nodes |-> Zero]
  /\ links' = EmptyList
  /\ free' = [i \in 1 .. Size |-> i]
  /\ out' = << >>
  /\ UNCHANGED <<bitmap, written>>

Next ==
  \/ \E b \in Blocks :
       \/ ReadHit(b)
       \/ ReadMiss(b)
       \/ ReadFail(b)
       \/ AllocBlock(b)
       \/ FreeBlock(b)
       \/ FlushInode(b)
  \/ \E b \in Blocks, v \in Vals : WriteBlock(b, v) \/ AllocModify(b, v)
  \/ Flush
  \/ Remount

Spec == Init /\ [][Next]_vars

(***************************************************************************)
(* Properties.                                                             *)
(***************************************************************************)
\* Every variable has its type.
TypeOK ==
  /\ map \in [Blocks -> Nodes \cup {Null}]
  /\ dirty \in [Nodes -> BOOLEAN]
  /\ index \in [Nodes -> Blocks]
  /\ block \in [Nodes -> Vals]
  /\ links \in [prev : [Ends -> Ends \cup {Null}], next : [Ends -> Ends \cup {Null}]]
  /\ free \in Seq(Nodes)
  /\ disk \in [Blocks -> Vals]
  /\ bitmap \subseteq Blocks
  /\ written \subseteq bitmap
  /\ out \in {<< >>} \cup (Blocks \X (Vals \cup {Fail}))

\* l is one list from HeadNode to TailNode through exactly the nodes of S: prev and
\* next are inverse of each other, and no subset of S is closed under next.
IsList(l, S) ==
  /\ \A n \in S \cup {HeadNode} : l.next[n] \in S \cup {TailNode} /\ l.prev[l.next[n]] = n
  /\ \A n \in S \cup {TailNode} : l.prev[n] \in S \cup {HeadNode} /\ l.next[l.prev[n]] = n
  /\ \A T \in SUBSET S : T # {} => \E n \in T : l.next[n] \notin T

\* The recency list holds exactly the nodes of map_, each once, so that the
\* eviction in insert always finds a node in front of tail_, whatever order of
\* get, insert and remove came before.
ListMatchesMap == IsList(links, Linked)

\* Every pool entry is either on free_entries_, once, or in map_ under its own
\* index, once: no entry leaks and none is handed out twice.
PoolPartition ==
  /\ \A i, j \in 1 .. Len(free) : free[i] = free[j] => i = j
  /\ {free[i] : i \in 1 .. Len(free)} = Nodes \ Linked
  /\ \A b \in Cached : index[map[b]] = b

\* A cached block is set in the bitmap, so alloc_block never inserts an index
\* that is cached and the assertion node->block_ == block of insert holds.
CachedAreAllocated == Cached \subseteq bitmap

\* A clean cached block that was written is the same on the disk: evicting it
\* without a write-back loses nothing.
CleanMatchesDisk ==
  \A b \in Cached \cap written : dirty[map[b]] \/ block[map[b]] = disk[b]

\* What the block layer holds for block b.
Content(b) == IF map[b] # Null THEN block[map[b]] ELSE disk[b]

\* The cache in front of the disk is a plain store: a read returns the last
\* value written since the block was allocated, across hits, misses,
\* evictions, flushes and remounts.
Store == INSTANCE BlockStore
           WITH alloc <- bitmap, val <- [b \in written |-> Content(b)]
ImplementsBlockStore == Store!Spec
=============================================================================
