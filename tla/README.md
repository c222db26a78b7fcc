# NaiveFS in TLA+

NaiveFS is a user-space file system (FUSE, C++17) with an ext2-like disk format.
This directory holds TLA+ modules that model its parts, TLC configurations that
check them on small instances, and TLAPS proofs of what the block cache, the
open files, the directory tree, the locks and the disk layout guarantee for every
instance.
`PROJECT.json` maps every definition to the lines it models and lists the runs,
hazards, findings and theorems.

    tlc -config BlockCache.cfg MCBlockCacheLRU    # a run
    tlapm OpenFilesProofs.tla                     # proofs

## 1. The system

| Part | Source | State | Operations |
|---|---|---|---|
| FUSE handlers | `src/operation/*.cpp` | `_big_lock`, `fs`, `opm` | create, open, release, read, write, fsync, link, unlink, rename, mkdir, rmdir, symlink, readlink, chmod, chown, utimens, getattr, readdir, init, destroy |
| Open files | `include/operation.h`, `operation.cpp` | `OpManager::st_`; per inode an `InodeCache` (copy of the inode, `cnts_`); per handle a `FileStatus` (cursor with indirect block numbers) | `get_cache`, `rel_cache`, `commit`, `copy`, `seek`, `next_block`, `write`, `copy_to_buf` |
| File system | `src/filesystem.cpp` | inode table, directories, block maps of inodes | `inode_create/lookup/link/unlink/delete`, `alloc_inode/block`, `free_inode/block`, `get_block`, `visit_inode_blocks`, `flush` |
| Block cache | `src/cache.cpp`, `include/cache.h` | `map_`, recency list, pool, dirty flags | `insert`, `get`, `remove`, `modify`, `flush` |
| Dentry cache | same files | nodes in rings below their parent | `insert`, `lookup`, `remove` |
| Block groups | `src/block.cpp`, `include/block.h` | bitmaps, descriptors, super block | `alloc_*`, `free_*`, `get_*`, `flush` |
| Utilities | `src/utils` | the disk's file descriptor | bitmap search, path splitting, disk reads and writes, logging |

How they interact: a handler takes `_big_lock` (exclusively, except read and
write), looks a path up through the dentry cache, and changes inodes and
directory blocks through the file system, which reaches the disk only through
the block cache and the block groups. A file that is open has a second copy of
its inode in its `InodeCache`; the two are reconciled by `commit`. Reads and
writes of several threads run side by side: each holds the `rwlock` of its
handle, the `inode_rwlock_` of its file (shared, or alone to extend the file),
and inside `get_block` and `alloc_block` a static mutex of that function.

What makes it hard:

* two copies of one inode, of which links are changed in one and sizes in the other;
* handlers made of several file system calls, any of which may fail, without undo;
* a cache with manual pointers and another whose removal depends on the order of
  earlier lookups;
* block positions computed by different formulas when allocating, visiting and
  seeking, and cursors that keep part of a position from one call to the next;
* read and write running concurrently inside the cache, under per-function
  static mutexes, with looks that are repeated after a lock was given up;
* persistence only at eviction, flush and unmount, in several writes;
* the number of block groups derived from counts of something else.

What each part has to guarantee: the block layer returns the last value written;
the recency list and the pool never lose a node; an entry names an allocated
inode and link counts are numbers of entries; a failed call changes nothing; an
open file is not deleted and its size not lost; the dentry cache agrees with the
directories; a visit finds what was allocated, and no block has two owners; a
read or write accesses the blocks of its file; calls that must not meet do not,
and every call returns; groups lie apart on disk and what was flushed stays.

## 2. The modules

| Module | Models | One action is |
|---|---|---|
| `BlockCache` | `BlockCache` at pointer level and `get_block`, `alloc_block`, `free_block`, `flush` and remounting on top of it | a call of one of these |
| `BlockStore` | abstract: a store without a cache | a read, write, allocation, free |
| `LRU`, `MCBlockCacheLRU` | abstract: the replacement policy, and the mapping of the list to it | a use or drop of a block |
| `BlockAccess`, `MCBlockAccess` | threads in read, write and an exclusive handler; all locks; `get_block` and `alloc_block` on a shared cache | one lock operation, one call of the cache, one copy |
| `OpenFiles` | `OpManager`, `InodeCache` and the handlers that use them, regular files of one directory | a handler |
| `FileIO` | `FileStatus`: cursor, `seek`, `next_block`, `copy_to_buf`, `write` | a read; a write; the two halves of a write that extends the file |
| `FileBlocks`, `MCFileBlocks` | `i_block` and its indirect blocks | an append, a delete, an eviction |
| `Namespace`, `MCNamespace` | the directory tree and the handlers that change it | a handler |
| `DentryCache`, `MCDentryCache` | `DentryCache` at pointer level, driven by the calls of the handlers | a handler |
| `BlockGroups` | super block, descriptors, bitmaps, inode tables, mount, flush, crash | an allocation, free or get; one disk write of a mount or flush |
| `BlockCacheProofs`, `OpenFilesProofs`, `NamespaceProofs` | the proofs about the module of that name | |
| `BlockAccessProofs`, `BlockAccessDataProofs` | the proofs about `BlockAccess`: locks, list and lifetime of blocks; what the blocks hold | |
| `BlockGroupsProofs`, `BlockGroupsAllocProofs`, `BlockGroupsCrashProofs` | the proofs about `BlockGroups`: layout and the inductive invariant; allocation and freeing; mount, flush and crash, and the theorems | |

Correspondence of state.

* `BlockCache`: `map`, `dirty`, `index`, `block`, `links`, `free` are the members of
  the class and of its nodes, `bitmap` is the group's block bitmap, `disk` the
  disk; `written` and `out` are histories for the refinement.
* `BlockAccess`: `lock` holds for each mutex its readers and its writer, `pc` and
  `todo` say where a thread is and which block operations its call has left,
  `lru`, `dirty`, `mem` and `disk` are the cache as `LRU` describes it, `ptr` is the
  `Block*` a thread has got and has still to copy through or to use. `wrote`,
  `got`, `linked` and `since` (the blocks used since `ptr` was got) are histories.
  Get and copy of `get_block` are two steps, as `alloc_block` inserts without its
  lock. When a block is deleted that a thread has still to use (`Undefined`), the
  behaviour ends: what the code does from there on is undefined. A block has one part for each thread, so that
  threads can write to disjoint bytes of one block.
* `OpenFiles`: `fs.table` is the inode table, `copy` and `cnts` the `InodeCache`s,
  `fd` the handles.
* `FileIO`: `cur[h]` is the cursor (`block_id_in_file_`, `block_id_`,
  `indirect_block_`, `cache_update_flag_`), `size` is `i_size` of the shared copy,
  `pending` a write that has given up `inode_rwlock_` and waits for it alone;
  `data` is the history of blocks allocated, against which accesses are judged.
* `FileBlocks`: `fs.ptr` holds the pointer blocks as cached, `disk` as on disk,
  `data` is the history of allocations.
* `Namespace`: `fs` holds bitmap, types, link counts and live entries. A handler
  is a composition of operators that return a result and a new state; `Then`
  stops at the first error and keeps the state reached, as the code does.
* `DentryCache`: `heap` is the set of nodes, `tree` what the directories on disk say.
* `BlockGroups`: `sb` is the super block in memory with the descriptors and the
  length of `desc_table_`, `loaded` and `bits` are `block_groups_`, `disk` is what
  was written, `todo` the blocks that a flush (`job`: of a mount, an fsync or the
  unmount) has still to write: for each group the two bitmaps and the blocks of the
  inode table, one by one; `used` and `synced` are histories of what was handed out
  and of what a complete flush covered, `torn` of a crash that left super block
  and bitmaps of different moments on disk.

Data is abstracted: a block is one value, a size a small number, a name a model
value, a path a sequence of names or a directory with a name. Times, modes,
owners and logging are left out.

Operators whose comment starts with "Fault:" are wrong variants of the definition
that follows them. Each replaces its definition to confirm that a property
notices the mistake; no specification uses them.

How the modules fit together. `FileIO` is composed with `FileBlocks`: it grows
file and directory by the `AllocBlock` of that module (`Map == INSTANCE
FileBlocks`) and re-checks `VisitFindsData` on the result. The others meet at
interfaces. `BlockAccess` takes the cache as the sequence that `BlockCache` is
shown to implement (`LRU`). `FileBlocks` uses of the cache only what `BlockStore`
promises, and lets a block that was not marked dirty be lost at any eviction.
`OpenFiles` and `Namespace` split the handlers by what they touch: open copies in
one directory, or the whole tree without open files. `DentryCache` takes the tree
from `Namespace` as given. `BlockCache` and `FileBlocks` allocate in one group, as
`BlockGroups` justifies (`BitsAreUsed`).

Assumptions about the environment (marked external in the map): the kernel
resolves and locks the directories of a path before it calls, links no
directories, and renames no directory below itself; libfuse hides a file that is
open under a name instead of removing that name; `std::shared_mutex` excludes as
documented; a crash loses memory and leaves on disk every block written so far.
`_big_lock` is what makes one handler one action.

## 3. The runs

| Run | Bounds | States | Shows |
|---|---|---|---|
| `block_cache` | 2 nodes, 3 blocks, 2 values | 76,952 | the pointer structure stays intact; nothing is lost by an eviction; it implements `BlockStore`, and the list is the order of use (`LRU`) |
| `block_access` | 2 threads with 2 calls each, on one handle, two handles or two files; 3 blocks cached | 249,498 | exclusion, no block cached twice, how long a returned block lives, no write and no link lost before one is deleted in use, every call returns |
| `open_files` | 3 inodes, 3 names, 2 handles, size up to 2 | 44,496 | link counts, reference counts and sizes stay right while the links of open files do not change |
| `file_io` | 2 handles, one appending, blocks of 2 bytes, 1 direct slot, 3 pointers to a block, a file of up to 16 bytes, a directory of up to 40 blocks | 89,329 | accesses go to the right blocks, transfers are complete, cursors are fresh, extensions set the right size, allocation and visit agree over all levels |
| `file_blocks_reuse` | 1 direct slot, 2 pointers, 10 blocks, two files of up to 5 | 256,986 | no sharing and no lost pointer with deletes and evictions at any moment |
| `namespace` | 4 inodes, 2 names, up to renaming | 18,709 | link counts are entries, directories form a tree, nothing dangles or leaks, and failures that change the tree are of four kinds |
| `dentry_cache` | 2 directories, one of them with files, 2 file names, 4 inodes | 9,928 | rings stay rings and agree with the directories |
| `block_groups` | 3 groups of 5 blocks and 2 inodes, one free, any number of crashes and remounts with one group | 649,186 | bits are what was handed out, groups lie apart, synced state survives crashes; groups are numbered without gap and counts match until a crash tears them apart |

and four runs in which TLC finds a promise of the code's own documentation
broken (section 5).

Why the bounds are enough.

* Two nodes and three blocks force evictions of clean and dirty blocks in every
  order, and a list of two nodes has a first, a last and an only element; the
  proofs cover every size.
* Two threads meet in every pair of calls on every pair of locks; with two calls
  each, one can evict, reload or extend between the two of the other. Three
  blocks are so few that one thread can evict what the other is about to use:
  states in which a block is deleted in use are reached, after exactly three
  other blocks, and `PointersOutlast` is checked at its border. The code counts on
  this not to happen (`operation.cpp:200`: "we can assume this when the number of
  threads is small, and cache is big although"); nothing in it sees to that, and
  with any size of the cache enough calls of other threads reach it.
* Two handles and three names give a second opener, a second link and a rename
  over either.
* The offsets 0, 5 and 13 with lengths 3 and 4 reach direct, indirect and double
  indirect blocks, start inside and at the end of blocks, cross one or two
  borders and both borders of levels; the directory of 40 blocks is filled
  through 1 + 3 + 9 + 27 blocks of all four levels, so each formula is evaluated
  on both sides of each border. `file_blocks_reuse` reaches the double indirect
  level, and its 10 blocks leave room for the second file to take what the first
  has freed.
* With four inodes and two names the tree has depth three, a file with two
  names, and a directory to replace. Rings of up to four nodes in the root and
  two below a directory show removal at the head, in the middle and of the only
  node.
* Three groups are enough for one to be created for want of blocks and one for
  want of inodes, in either order, and for one in the middle; one free makes a
  hole in a full group; a crash may come between any two writes of a format, a
  mount and a flush, once or several times. What is left out (`AnyRemount = FALSE`):
  unmounting or crashing with more than one group (`Remountable`), and creating
  a group after a crash has left counts that are not those of the bitmaps
  (`Fresh`). Section 5 says what happens there.

Guards that bound a model: `MaxSize`, `MaxBlocks`, `NBlocks`, `MaxDir`, `MaxMixed`
(sizes; allocation happens when there is room, since the error path of a full disk
is not modelled), `MaxCalls`, `MaxGroups`, `MaxFrees`, `Deep` (the directories
files are put in), `NInodes` (create is not called on a full group). Constants
that switch on calls: `Calls`, `RelinkOpen`, `RenameDown`, `Holes`, `Shared`,
`AnyRemount`. Passing runs leave out the calls that break the property by one of
the findings of section 5 (`replace_full_dir`, a rename of a directory over one
that has entries; relinking an open file, renaming a file into a directory next to
it, writes that start at a block border past the end, two threads in one block,
remounts with several groups, new groups after a crash that left counts wrong). `file_blocks_reuse` and
the `block_access` runs do not check deadlock: they may stop when the bound on
blocks or calls is reached, or when a block is deleted in use. In `block_access` that every call returns is checked
as `CallsReturn` instead (a call returns, or a block in use is deleted). The MC modules leave out of the state what cannot
matter: which heap node holds an entry in `dentry_cache`, what leaked pointer
blocks hold in `file_blocks_reuse`, and which of two names is which in
`namespace`.

Every module states its types as `TypeOK`. `block_cache` checks it; of the others
it is an invariant too and can be added to any configuration, but no run spends
itself on it.

Fairness is assumed in `block_access` only: `WF_vars(Step(t))` for every thread,
that is, the operating system runs a thread that can go on. Nothing is assumed
of the order in which a mutex is handed out: as a thread makes a bounded number
of calls, no thread can be overtaken for ever. In the code a writer waiting for a
`std::shared_mutex` might be, by an endless stream of readers; whether it is,
depends on the library. That the kernel sends requests is not assumed.

## 4. What is proved

| Module | Theorems | For every | Assuming |
|---|---|---|---|
| `BlockCacheProofs` | `TypeCorrect`, `ListSafe`, `PoolSafe`, `AllocNeverCached`, `EvictionLosesNothing`, `Refinement` | cache size, number of blocks above zero, set of contents | `Zero` is a content, `Fail` is not |
| `OpenFilesProofs` | `LinkCounts`, `EntriesAllocated`, `ReferenceCounts`, `OpenNeverFreed`, `NoLostSize` | number of inodes, finite sets of names and handles, bound on sizes | fewer than 2^16 names; the links of open files do not change (`~RelinkOpen`, without which finding 1 shows them false) |
| `NamespaceProofs` | `TreeEntriesAllocated`, `TreeLinkCounts`, `TreeReclaimed`, `TreeConnected`, `TreeFailures` | number of inodes, finite set of names | inodes times names below 2^16; no rename replaces a directory that has entries (`"replace_full_dir" \notin Calls`; section 5 shows `NoDanglingEntry` false with it) |
| `BlockAccessProofs` | `LocksHeld`, `Exclusion`, `BlocksHeld`, `OneCopy`, `PointerLifetime` | set of threads, handles and files, cache size, number of calls | |
| `BlockAccessDataProofs` | `LinksKept` | as above | |
| | `OwnWrites` | as above | threads do not write to one block (`~Shared`, without which finding 4 shows it false) |
| `BlockGroupsProofs` | `BitsInRange`, `LayoutApart` | number and size of groups, `AnyRemount` included | inodes of a group fill whole blocks; group offsets fit into 32 bits; widths of the counts |
| `BlockGroupsCrashProofs` | `GroupsInvariant`, `AllocatedOnce`, `CountsExact`, `FlushedSurvives`, `NumberedUntilTorn` | number and size of groups, number of frees | as above; `~AnyRemount`: it goes down with one group only, and creates none after a crash that left counts and bitmaps apart (section 5 shows them false without it); `CountsAssumption`: what `s_blocks_count` leaves out is less than a group |

**Block cache.** The inductive invariant `CacheInv` is the conjunction of the five
invariants of the run: they lean on each other. Evicting takes `tail_->prev_`,
which is a cached node only because the list matches the map and the pool is
empty only when all nodes are linked; `alloc_block` inserts without looking,
which is right only because cached blocks are allocated; and a block that was
just allocated is clean and differs from the disk, so `CleanMatchesDisk` speaks
of written blocks and needs these to be allocated. That a list is one chain, and
not a chain and a cycle, is stated without induction: every non-empty set of
linked nodes has a member whose `next_` is outside it (`IsList`). `DetachIsList`
and `AttachIsList` show that the primitives preserve it, the `...Core` lemmas lift
this to the methods of the cache, `NextInv` to the actions. `StepSimulation` shows
step by step that an action is a step or a stutter of the store, using `CacheInv`
where a block leaves memory.

**Open files.** `LinksAreEntries` is not inductive: a commit writes the copy back,
so the copy of an open inode must have the links of the table (`CopiesMatch`); a
copy may be dropped only with the last handle (`CountsAreHandles`); and a rename over a name frees an inode that
no handle is on only because a handle and its name denote the same file
(`HandleNamesFile`, stated in the proof module). `OpenInv` is the conjunction of these with the consistency of
the file system itself (`FsOK`). `UnlinkOK`, `LinkOK`, `CreateOK` and `CommitOK` show
what each call does to `FsOK`, by counting entries as cardinalities that change
by one; one lemma for each handler combines them. `NoLostSize` is an action
property shown from the same invariant.

**Directory tree.** The inductive invariant `TreeOK` is about a state of the file
system, not about the variables, because a handler passes through several such
states: `LinkOK`, `UnlinkOK` and `CreateOK` show that one FileSystem call leads from
a good state to a good state, so a handler does wherever it stops. Unlinking
frees the right inode only because link counts are entries; what it frees is one
inode only because a directory has no entries when it is removed (`DeletedOne`);
and a directory goes with its entry because it has a single one. The tree is
stated without induction: every set of directories below the root has a member
with its entry outside the set. `RenameKeeps` shows for `TreeFailures` that once the target of a
rename has been removed neither of the two remaining calls can fail, unless the
target was a directory: then the next call, `inode_link`, always does
(`filesystem.cpp:383`), which is one of the four kinds of failure that
`FailureChangesNothing` names.
`RenameExchangeKeeps` shows that the fourth call of every exchange fails.

**Locks.** `LockInv` says that a lock held alone is held by one thread and no
reader, and which locks a thread holds at each point of its call. `Exclusion`
follows: two threads at points that must not meet would both hold a lock that
one of them holds alone.

**The shared cache.** `BlocksInv` says that a cached block is cached once, is
allocated or belongs to a file from the start, that the cache is no larger than its
size, and what a call may still have to do at each point. `OneCopy` rests on the
second look of `get_block`, which is under the lock that it inserts under: whatever
was cached since the first look, a block is inserted only when it is not there.
An `alloc_block` inserts without a look,
which is right because a new block is not yet allocated and hence not cached.
For `OwnWrites`, `OwnInv` says where the last write of each thread is: in the
cached copy, marked if it differs from the disk, or on disk. For `LinksKept`,
`LinkInv` says the same of the links `alloc_block` stores in an indirect block, up
to the links of a call that is still under way. Both speak of behaviours up to
the first deletion of a block in use, where the model ends; `PointerLifetime` says
how far away that is. Its invariant `AgeInv` is that the blocks in front of `ptr` in
the list are among those used since it was got: the block leaves the list at the
end, when it has all others in front of it.

**Layout.** Bits in memory and on disk belong to their group (`BitsInv`, with every
way a bitmap travels between the two), and a place on disk is a group's start
plus a remainder smaller than the group's size, so places of different groups
differ; the starts do not wrap because of `OffsetsAssumption`. `LayoutApart` is
about groups, bitmaps and super block. It does not say that the data of a group
are apart from its own inode table, because they are not (`TablesApart`, section 5).

**Block groups.** `GroupsInv` has a part for each of: what is handed out is what the
bitmaps mark (`UsedInv`); the root stays allocated (`RootInv`); what was synced is on
disk (`SyncInv`); what a flush has written so far, piece by piece, agrees with
memory (`FlushInv`); the s_free_ counts mirror the others (`MirrorInv`); the counts are those of the bitmaps (`CountInv`); and what a mount will find
(`DiskInv`). They need each other: a new group gets the number computed from the
counts, and if that were the number of an existing group its bitmap would be
replaced and its indices handed out again. That number is right because the counts
are exact, all groups are full when one is created, and fewer blocks than one
group go uncounted (`CountsAssumption`). Counts are cardinalities of unions over
groups; that these are sums, group by group, is shown by induction over the
number of groups, stated as: the set of numbers for which it fails has no least
element. `CountInv`
and with it `CountsExact` and `NumberedUntilTorn` hold until a crash leaves counts
and bitmaps of different moments (`torn`): in a flush of an fsync or unmount, or
after the constructor has created the root and before the first flush, since the
constructor writes the group and not the super block. `DiskInv` says why no other
crash does: the flush of a mount that finds its root writes what is there
already. `AllocatedOnce` and `FlushedSurvives` hold after torn crashes too, as they
do not depend on counts while no group is created.

Only model-checked: `DentryCache`, `FileBlocks`, `FileIO`, the LRU refinement,
and all that `TypeOK` says of the other modules. Out of the prover's
reach: `CallsReturn` (liveness under fairness), and what `Descend`, `Rest` or
a walk over the list compute for every input (induction over data; modules with
RECURSIVE operators).

## 5. Findings

1. `open_files_relink`: `commit` overwrites the link count in the inode table
   with the copy taken at open. A link made in between is forgotten, and a
   rename later frees an inode that still has a name.
2. `dentry_cache_rename`: renaming a file into a directory next to it leaves a
   pointer to the freed cache node.
3. `file_io_holes`: a write that starts at a block border past the end of the
   file allocates one block too few and writes to block 0 instead.
4. `block_access_lost_write`: the second look of `get_block` drops `dirty`. If
   another thread has read the block in between, the write is lost when the
   block is evicted.

Broken promises that the models reproduce and that have no configuration of
their own; each is found by adding the property to `Namespace.cfg` with the call
named in `Calls`:

* `ExchangeSwaps` (with "exchange"): `RENAME_EXCHANGE` always fails in its fourth
  call and leaves both names on one file and the other file under `/<a`
  (`meta.cpp:98`; `operation.h:387` promises an atomic exchange).
* `DeletedAtZeroLinks` (with "symlink"): `inode_delete` refuses symbolic links, so
  unlinking one reports ENOENT, removes the entry and leaks the inode
  (`filesystem.cpp:287`; `filesystem.h:75`).
* `NoDanglingEntry` (with "replace_full_dir"): renaming a directory over another
  deletes the contents of the latter regardless of their other links, then fails
  (`filesystem.cpp:296`). Over an empty one it deletes that and fails too: this is
  in the run, as one of the four kinds of `FailureChangesNothing`.

And in `BlockGroups.cfg`:

* `TablesApart` added: data block 0 of a group lies on the last block of its inode
  table, because `data_block_offset` lacks the `+ 1` of `inode_block_offset`
  (`block.cpp:175-182`; `common.h:29` has "1024 inode table blocks, 4096 * 8 data
  blocks" one after the other). `GroupsApart` does not speak of the two, and
  `SyncedIsDurable` not of the table entries in that block (`Shares`).
* with `AnyRemount = TRUE`, TLC finds `CountsMatchBits`, `GroupsNumbered`,
  `BitsAreUsed` and `SyncedIsDurable` violated. Only group 0 is loaded after a
  mount, so allocation with several groups does not see the others and creates a
  group under a number computed from the counts. Counts that a crash left wrong
  give a wrong number with one group too: format, create the root, crash before
  the first flush, and mount again. The super block on disk then takes
  the root off the free inodes of group 0 once and not twice, so that its inodes
  are handed out to the last one; `s_inodes_count` is `INODES_PER_GROUP` + 1 when
  a group is created for the next, and `num_block_groups` makes it number 2
  (`GroupsNumbered` without its condition `~torn` shows it).

Seen while modelling, without a run: the blocks of a deleted directory and all
indirect blocks are never freed; `truncate` does nothing; `inode_lookup` does not
follow symbolic links; the branch of `alloc_block` that starts a new double block
of the triple level marks the DIND instead of the TIND block
(`filesystem.cpp:750`) and `seek` uses the second index for the third
(`operation.cpp:89`), which no file can reach, since `i_size` has 32 bits;
`DentryCache::max_size_` is not enforced; the root is taken off the free inodes of
group 0 twice (`CountsMatchBits` says so); `s_free_blocks_count` and
`s_free_inodes_count` are never set by format, wrap below zero at the first
allocation and are read by nobody (`filesystem.cpp:585`, `:619`; `CountsMatchBits`
says what they hold); in a build with assertions `alloc_block` reads `*block` before
any group has set it (`filesystem.cpp:634`), which does nothing or ends the process; `fsync` writes of the data only the block whose number
equals the inode's; `disk_write` keeps the result of `lseek` in an int and so
writes nothing from 2 GiB on (`disk.cpp:44`).

## 6. Not modelled

* **Data races inside the block cache**: `get` relinks the list under a shared
  lock and `alloc_block` inserts without `m_`. A call of the cache is one step in
  `BlockAccess`; what a torn list does is undefined, and no property would hold.
  Nor is what happens after a block was deleted that a thread still uses.
  For the same reason a disk write, `lseek` and `write` on a shared descriptor, is
  one step.
* **What a hole contains, data blocks in a crash**: `FileIO` follows blocks, not
  bytes, and `BlockGroups` what the bitmaps and tables hold. `fsync` makes no
  promise about data that could be checked.
* **Handles open at a forced unmount**: `fuse_destroy` does not commit them.
* **Full disk**: error returns of `alloc_block`; the code says "We assume disk space
  will not drain out" (`filesystem.cpp:808`).
* **Directory blocks**: the records in a block are appended, blanked and never
  moved; a directory is a set of entries or a list of blocks. readdir's output.
* **Permission checks**: pure predicates; they count as succeeding, except in
  `fuse_mkdir`, which checks after it has created.
* **Text**: paths as strings, targets of symbolic links, logging, command line.
