------------------------------ MODULE BlockAccess ------------------------------
(***************************************************************************)
(* Threads that read, write and extend files at the same time: the locks a *)
(* call takes (_big_lock, FileStatus::rwlock, inode_rwlock_, the mutex of  *)
(* alloc_block and m_ of get_block), the two looks get_block takes at the  *)
(* block cache, and the Block pointers that get_block copies through under *)
(* its lock and callers use after it has released it.                      *)
(*                                                                         *)
(* The cache is the LRU sequence that BlockCache is shown to implement; a  *)
(* call of it is one step here, and the copy that follows is another.  A   *)
(* behaviour ends where the cache deletes a Block that a thread still has  *)
(* to use: what the code does then is undefined.  Every file is long       *)
(* enough for an indirect block, so that each access reads a pointer       *)
(* first.                                                                  *)
(***************************************************************************)
EXTENDS Integers, FiniteSets, Sequences, Functions

CONSTANTS Threads,   \* the threads of the FUSE session
          Handles,
          Files,
          Openings,  \* which handles the threads may work on
          FileOf,    \* the file of a handle
          KindsOf,   \* bound: the calls a thread makes
          Shared,    \* whether the threads write to parts of one block
          Size,      \* BLOCK_CACHE_SIZE
          NoBlock,   \* no Block
          MaxCalls   \* bound: calls of a thread

ASSUME OpeningsAssumption == Openings \subseteq [Threads -> Handles]
ASSUME FileOfAssumption == FileOf \in [Handles -> Files]
ASSUME KindsAssumption == KindsOf \in [Threads -> SUBSET {"read", "write", "extend", "getattr"}]
ASSUME SharedAssumption == Shared \in BOOLEAN
ASSUME SizeAssumption == Size \in Nat \ {0}
ASSUME MaxCallsAssumption == MaxCalls \in Nat

\* Blocks: one of directory entries, the indirect block of each file, the block
\* (or the part of the shared block) each thread reads and writes, new ones.
DirBlock == <<"dir", 0>>
PtrBlock(f) == <<"ptr", f>>
DataBlock(t) == IF Shared THEN <<"data", 0>> ELSE <<"data", t>>
NewBlock(k) == <<"new", k>>
MaxNew == MaxCalls * Cardinality(Threads)
Blocks == {DirBlock} \cup {PtrBlock(f) : f \in Files}
          \cup {DataBlock(t) : t \in Threads} \cup {NewBlock(k) : k \in 1 .. MaxNew}

ASSUME NoBlockAssumption == NoBlock \notin Blocks

\* Locks.
BigLock == <<"big", 0>>
RwLock(h) == <<"rwlock", h>>
InodeLock(f) == <<"inode", f>>
AllocLock == <<"alloc", 0>>
MLock == <<"m", 0>>
Locks == {BigLock, AllocLock, MLock} \cup {RwLock(h) : h \in Handles}
         \cup {InodeLock(f) : f \in Files}

VARIABLES on,        \* the handle each thread works on
          pc, kind,  \* where each thread is, and in which call
          todo,      \* the block operations left in its call
          ptr,       \* the Block each thread has got and not used for the last time
          lock,      \* who holds each lock, shared (r) or not (w)
          lru,       \* the cached blocks, the most recently used first
          dirty,     \* the cached blocks marked as dirty
          mem, disk, \* what the blocks hold in memory and on disk
          calls,     \* history: calls made by each thread
          wrote,     \* history: what each thread wrote last to its part
          got,       \* history: what its last read found there
          linked,    \* history: the blocks each file was extended by
          since      \* history: the blocks used since each thread's ptr was

vars == <<on, pc, kind, todo, ptr, lock, lru, dirty, mem, disk, calls, wrote, got, linked, since>>
cache == <<lru, dirty, mem, disk>>
pointers == <<ptr, since>>
history == <<calls, wrote, got, linked>>

File(t) == FileOf[on[t]]

\* A block holds a part for each thread; a pointer block holds links.
Zero == [t \in Threads |-> 0]
Empty(b) == IF b[1] = "ptr" THEN {} ELSE Zero

Init ==
  /\ on \in Openings
  /\ pc = [t \in Threads |-> "idle"]
  /\ kind = [t \in Threads |-> "none"]
  /\ todo = [t \in Threads |-> << >>]
  /\ lock = [l \in Locks |-> [r |-> {}, w |-> {}]]
  /\ lru = << >>
  /\ dirty = {}
  /\ mem = [b \in Blocks |-> Empty(b)]
  /\ disk = [b \in Blocks |-> Empty(b)]
  /\ calls = [t \in Threads |-> 0]
  /\ wrote = Zero
  /\ got = Zero
  /\ linked = [f \in Files |-> {}]
  /\ ptr = [t \in Threads |-> NoBlock]
  /\ since = [t \in Threads |-> {}]

(***************************************************************************)
(* Locks.                                                                  *)
(***************************************************************************)
lock_shared(t, l) == lock[l].w = {} /\ lock' = [lock EXCEPT ![l].r = @ \cup {t}]

lock_unique(t, l) == lock[l] = [r |-> {}, w |-> {}] /\ lock' = [lock EXCEPT ![l].w = {t}]
unlock(t, l) == lock' = [lock EXCEPT ![l] = [r |-> @.r \ {t}, w |-> @.w \ {t}]]
unlock_all(t) == lock' = [l \in Locks |-> [r |-> lock[l].r \ {t}, w |-> lock[l].w \ {t}]]

Goto(t, label) == pc' = [pc EXCEPT ![t] = label]

(***************************************************************************)
(* The block cache: c is a record of lru, dirty, mem and disk.             *)
(***************************************************************************)
Cache == [lru |-> lru, dirty |-> dirty, mem |-> mem, disk |-> disk]

Become(c) == lru' = c.lru /\ dirty' = c.dirty /\ mem' = c.mem /\ disk' = c.disk

Cached(c, b) == b \in Range(c.lru)

\* Fault: a block that is found stays where it is in the list.
Touch_InPlace(c, b) == c

\* get of a block that is cached.
MoveToFront(s, b) ==
  LET i == CHOOSE i \in 1 .. Len(s) : s[i] = b
  IN  <<b>> \o (SubSeq(s, 1, i - 1) \o SubSeq(s, i + 1, Len(s)))
Touch(c, b) == [c EXCEPT !.lru = MoveToFront(@, b)]

Mark(c, b, d) == [c EXCEPT !.dirty = IF d THEN @ \cup {b} ELSE @]

\* insert makes room: the least recently used block is written back if dirty.
Evict(c) ==
  LET b == c.lru[Len(c.lru)]
  IN  [lru |-> SubSeq(c.lru, 1, Len(c.lru) - 1), dirty |-> c.dirty \ {b}, mem |-> c.mem,
       disk |-> IF b \in c.dirty THEN [c.disk EXCEPT ![b] = c.mem[b]] ELSE c.disk]

\* insert of block b with content v.
Insert(c, b, v, d) ==
  LET e == IF Len(c.lru) = Size THEN Evict(c) ELSE c
  IN  Mark([lru |-> <<b>> \o e.lru, dirty |-> e.dirty, mem |-> [e.mem EXCEPT ![b] = v],
            disk |-> e.disk], b, d)

\* A thread uses block b, which leaves the threads with the Blocks p.
Used(b, p) ==
  /\ ptr' = p
  /\ since' = [t \in Threads |-> IF p[t] \in {b, NoBlock} THEN {} ELSE since[t] \cup {b}]

\* Thread t has used its Block for the last time.
Dropped(t) ==
  /\ ptr' = [ptr EXCEPT ![t] = NoBlock]
  /\ since' = [since EXCEPT ![t] = {}]

\* The Block that t has still to use is deleted.
Deleted(t) == ptr[t] # NoBlock /\ ~Cached(Cache, ptr[t])
Undefined == \E t \in Threads : Deleted(t)

\* Thread t is at a step that it can take.
At(t, label) == pc[t] = label /\ ~Undefined

(***************************************************************************)
(* Operations of a call on blocks: get_block (w: with dirty), the use of   *)
(* the pointer it returned, the parts of alloc_block.                      *)
(***************************************************************************)
Op(name, b, w) == [op |-> name, b |-> b, w |-> w]

\* Seek to a block through the indirect block, and get it.
Through(t, b, w) ==
  <<Op("get", PtrBlock(File(t)), FALSE), Op("use", PtrBlock(File(t)), FALSE), Op("get", b, w)>>

Done(t) == todo' = [todo EXCEPT ![t] = Tail(@)]
Current(t) == Head(todo[t])

\* A call of fuse_read, fuse_write or fuse_getattr begins.
Call(t, k) ==
  /\ At(t, "idle")
  /\ calls[t] < MaxCalls
  /\ calls' = [calls EXCEPT ![t] = @ + 1]
  /\ kind' = [kind EXCEPT ![t] = k]
  /\ Goto(t, "big")
  /\ UNCHANGED <<on, todo, pointers, lock, cache, wrote, got, linked>>

\* Reads and writes share _big_lock, every other handler has it alone and looks
\* a path up in the blocks of a directory.
LockBig(t) ==
  /\ At(t, "big")
  /\ \/ /\ kind[t] # "getattr"
        /\ lock_shared(t, BigLock)
        /\ Goto(t, "rwlock")
        /\ UNCHANGED todo
     \/ /\ kind[t] = "getattr"
        /\ lock_unique(t, BigLock)
        /\ Goto(t, "run")
        /\ todo' = [todo EXCEPT ![t] = <<Op("get", DirBlock, FALSE), Op("use", DirBlock, FALSE)>>]
  /\ UNCHANGED <<on, kind, pointers, cache, history>>

LockStatus(t) ==
  /\ At(t, "rwlock")
  /\ lock_unique(t, RwLock(on[t]))
  /\ Goto(t, "inode")
  /\ UNCHANGED <<on, kind, todo, pointers, cache, history>>

\* inode_rwlock_ is taken shared; a write finds under it whether it extends.
LockInode(t) ==
  /\ At(t, "inode")
  /\ lock_shared(t, InodeLock(File(t)))
  /\ IF kind[t] = "extend" THEN Goto(t, "upgrade") /\ UNCHANGED todo
     ELSE /\ Goto(t, "run")
          /\ todo' = [todo EXCEPT ![t] = Through(t, DataBlock(t), kind[t] = "write")]
  /\ UNCHANGED <<on, kind, pointers, cache, history>>

\* Fault: the shared lock is kept while waiting for the other.
UnlockShared_Keeps(t) ==
  /\ At(t, "upgrade")
  /\ Goto(t, "inode_unique")
  /\ UNCHANGED <<on, kind, todo, lock, pointers, cache, history>>

UnlockShared(t) ==
  /\ At(t, "upgrade")
  /\ unlock(t, InodeLock(File(t)))
  /\ Goto(t, "inode_unique")
  /\ UNCHANGED <<on, kind, todo, pointers, cache, history>>

\* Fault: the lock is taken shared.
LockInodeUnique_Shared(t) ==
  /\ At(t, "inode_unique")
  /\ lock_shared(t, InodeLock(File(t)))
  /\ Goto(t, "alloc")
  /\ UNCHANGED <<on, kind, todo, pointers, cache, history>>

LockInodeUnique(t) ==
  /\ At(t, "inode_unique")
  /\ lock_unique(t, InodeLock(File(t)))
  /\ Goto(t, "alloc")
  /\ UNCHANGED <<on, kind, todo, pointers, cache, history>>

\* alloc_block for the inode: the first free block, clean in the cache, inserted
\* without m_; then the indirect block is read to store the link.
LockAlloc(t) ==
  /\ At(t, "alloc")
  /\ lock_unique(t, AllocLock)
  /\ Goto(t, "insert")
  /\ UNCHANGED <<on, kind, todo, pointers, cache, history>>

Allocated == UNION {linked[f] : f \in Files}

AllocInsert(t) ==
  /\ At(t, "insert")
  /\ \E k \in 1 .. MaxNew :
       LET b == NewBlock(k)
           p == PtrBlock(File(t))
       IN  /\ b \notin Allocated /\ \A j \in 1 .. k - 1 : NewBlock(j) \in Allocated
           /\ Become(Insert(Cache, b, Zero, FALSE))
           /\ Used(b, ptr)
           /\ linked' = [linked EXCEPT ![File(t)] = @ \cup {b}]
           /\ todo' = [todo EXCEPT ![t] = <<Op("get", p, FALSE), Op("link", p, FALSE), Op("modify", p, FALSE)>>
                                          \o Through(t, b, TRUE)]
  /\ Goto(t, "run")
  /\ UNCHANGED <<on, kind, lock, calls, wrote, got>>

(***************************************************************************)
(* get_block.                                                              *)
(***************************************************************************)
GetShared(t) ==
  /\ At(t, "run")
  /\ todo[t] # << >>
  /\ Current(t).op = "get"
  /\ lock_shared(t, MLock)
  /\ Goto(t, "probe")
  /\ UNCHANGED <<on, kind, todo, pointers, cache, history>>

\* The cache has given t the Block of its get.
Got(t, c) ==
  /\ Become(c)
  /\ Used(Current(t).b, [ptr EXCEPT ![t] = Current(t).b])
  /\ Goto(t, "copy")
  /\ UNCHANGED <<on, kind, todo, lock, history>>

Hit(t) ==
  /\ At(t, "probe")
  /\ Cached(Cache, Current(t).b)
  /\ Got(t, Mark(Touch(Cache, Current(t).b), Current(t).b, Current(t).w))

Miss(t) ==
  /\ At(t, "probe")
  /\ ~Cached(Cache, Current(t).b)
  /\ unlock(t, MLock)
  /\ Goto(t, "miss")
  /\ UNCHANGED <<on, kind, todo, pointers, cache, history>>

GetUnique(t) ==
  /\ At(t, "miss")
  /\ lock_unique(t, MLock)
  /\ Goto(t, "fill")
  /\ UNCHANGED <<on, kind, todo, pointers, cache, history>>

\* Fault: the block is inserted clean.
Fill_Clean(t) ==
  /\ At(t, "fill")
  /\ Got(t, IF Cached(Cache, Current(t).b) THEN Touch(Cache, Current(t).b)
            ELSE Insert(Cache, Current(t).b, disk[Current(t).b], FALSE))

\* Fault: no second look.
Fill_OneLook(t) ==
  /\ At(t, "fill")
  /\ Got(t, Insert(Cache, Current(t).b, disk[Current(t).b], Current(t).w))

\* The second look, without dirty, or the block from disk.
Fill(t) ==
  /\ At(t, "fill")
  /\ Got(t, IF Cached(Cache, Current(t).b) THEN Touch(Cache, Current(t).b)
            ELSE Insert(Cache, Current(t).b, disk[Current(t).b], Current(t).w))

\* Whether the caller of get_block goes on with the Block.
Kept(t) == Len(todo[t]) > 1 /\ todo[t][2].op # "get"

\* The copy under m_, in for a write, out for a read.
Copy(t) ==
  /\ At(t, "copy")
  /\ mem' = IF Current(t).w THEN [mem EXCEPT ![Current(t).b] = [@ EXCEPT ![t] = calls[t]]] ELSE mem
  /\ wrote' = IF Current(t).w /\ Current(t).b = DataBlock(t)
              THEN [wrote EXCEPT ![t] = calls[t]] ELSE wrote
  /\ got' = IF Current(t).b = DataBlock(t) THEN [got EXCEPT ![t] = mem'[Current(t).b][t]] ELSE got
  /\ Done(t)
  /\ IF Kept(t) THEN UNCHANGED pointers ELSE Dropped(t)
  /\ unlock(t, MLock)
  /\ Goto(t, "run")
  /\ UNCHANGED <<on, kind, lru, dirty, disk, calls, linked>>

(***************************************************************************)
(* A pointer from get_block is used with no lock of the cache held.        *)
(***************************************************************************)
UsePointer(t) ==
  /\ At(t, "run")
  /\ todo[t] # << >>
  /\ Current(t).op = "use"
  /\ Done(t)
  /\ Dropped(t)
  /\ UNCHANGED <<on, pc, kind, lock, cache, history>>

\* alloc_block stores the link, then marks the indirect block and returns.
StoreLink(t) ==
  /\ At(t, "run")
  /\ todo[t] # << >>
  /\ Current(t).op = "link"
  /\ mem' = [mem EXCEPT ![Current(t).b] = @ \cup linked[File(t)]]
  /\ Done(t)
  /\ UNCHANGED <<on, pc, kind, pointers, lock, lru, dirty, disk, history>>

\* Fault: the indirect block is not marked.
Modify_Not(t) ==
  /\ At(t, "run")
  /\ todo[t] # << >>
  /\ Current(t).op = "modify"
  /\ Done(t)
  /\ Dropped(t)
  /\ unlock(t, AllocLock)
  /\ UNCHANGED <<on, pc, kind, cache, history>>

Modify(t) ==
  /\ At(t, "run")
  /\ todo[t] # << >>
  /\ Current(t).op = "modify"
  /\ dirty' = dirty \cup ({Current(t).b} \cap Range(lru))
  /\ Done(t)
  /\ Dropped(t)
  /\ unlock(t, AllocLock)
  /\ UNCHANGED <<on, pc, kind, lru, mem, disk, history>>

Return(t) ==
  /\ At(t, "run")
  /\ todo[t] = << >>
  /\ unlock_all(t)
  /\ Goto(t, "idle")
  /\ kind' = [kind EXCEPT ![t] = "none"]
  /\ UNCHANGED <<on, todo, pointers, cache, history>>

Step(t) ==
  \/ LockBig(t) \/ LockStatus(t) \/ LockInode(t) \/ UnlockShared(t) \/ LockInodeUnique(t)
  \/ LockAlloc(t) \/ AllocInsert(t) \/ GetShared(t) \/ Hit(t) \/ Miss(t) \/ GetUnique(t)
  \/ Fill(t) \/ Copy(t) \/ UsePointer(t) \/ StoreLink(t) \/ Modify(t) \/ Return(t)

Next == \E t \in Threads : Step(t) \/ \E k \in KindsOf[t] : Call(t, k)

\* A thread that can go on does; nothing is said of when a lock is given to it,
\* nor of when the kernel sends a request.
Fairness == \A t \in Threads : WF_vars(Step(t))

Spec == Init /\ [][Next]_vars /\ Fairness

(***************************************************************************)
(* Properties.                                                             *)
(***************************************************************************)
\* Every variable has its type.
TypeOK ==
  /\ on \in Openings
  /\ pc \in [Threads -> {"idle", "big", "rwlock", "inode", "upgrade", "inode_unique", "alloc",
                         "insert", "run", "probe", "miss", "fill", "copy"}]
  /\ \A t \in Threads : kind[t] \in KindsOf[t] \cup {"none"}
  /\ \A t \in Threads : todo[t] \in Seq([op : {"get", "use", "link", "modify"}, b : Blocks, w : BOOLEAN])
  /\ lock \in [Locks -> [r : SUBSET Threads, w : SUBSET Threads]]
  /\ lru \in Seq(Blocks)
  /\ dirty \subseteq Range(lru)
  /\ calls \in [Threads -> 0 .. MaxCalls]
  /\ ptr \in [Threads -> Blocks \cup {NoBlock}]
  /\ since \in [Threads -> SUBSET Blocks]

\* In a call, past the locks.
Running(t) == pc[t] \in {"run", "probe", "miss", "fill", "copy"}
Extending(t) == kind[t] = "extend" /\ (Running(t) \/ pc[t] \in {"alloc", "insert"})

\* While a call extends a file, through whichever handle, no other call reads,
\* writes or extends that file; a handler that has _big_lock alone runs when
\* no other call is past it; and the block from disk is inserted when no other
\* thread is in get_block under m_.
CallsExclude ==
  \A t, u \in Threads : t # u =>
    /\ Extending(t) /\ (Running(u) \/ Extending(u)) => FileOf[on[t]] # FileOf[on[u]]
    /\ kind[t] = "getattr" /\ Running(t) => pc[u] \in {"idle", "big"}
    /\ pc[t] = "fill" => pc[u] \notin {"probe", "fill", "copy"}

\* get_block never caches a block twice, though it looks under a lock that it
\* gives up before it inserts, and alloc_block inserts without that lock; the
\* cache keeps to its size.
CachedOnce == IsInjective(lru) /\ Len(lru) <= Size

\* "get_block...memcpy(blk->get()) is not atomic (but we can assume this when
\* the number of threads is small, and cache is big although)"
\* (src/operation/operation.cpp): a Block that get_block returned is deleted
\* before its last use only if as many other blocks as the cache holds have
\* been used in between.
PointersOutlast == \A t \in Threads : Deleted(t) => Cardinality(since[t]) >= Size

\* A thread finds in its part of the file what it wrote last, whatever other
\* threads make the cache evict and reload between.
ReadsOwnWrites == \A t \in Threads : got[t] = wrote[t]

\* A link that alloc_block has stored in the indirect block of a file is not
\* lost when the block leaves the cache: outside of a call that extends the file
\* the links in the cache, or else on disk, are all that were made.
LinksSurvive ==
  \A f \in Files : lock[InodeLock(f)].w = {} =>
    linked[f] = IF PtrBlock(f) \in Range(lru) THEN mem[PtrBlock(f)] ELSE disk[PtrBlock(f)]

\* Every call of a thread returns: the locks are taken in an order, and the
\* shared inode_rwlock_ is given up before it is asked for alone.
CallsReturn == \A t \in Threads : pc[t] # "idle" ~> (pc[t] = "idle" \/ Undefined)
=============================================================================
