-------------------------------- MODULE FileIO --------------------------------
(***************************************************************************)
(* Reads and writes of an open file (src/operation/operation.cpp): the     *)
(* cursor of a FileStatus with its indirect block numbers, the size in the *)
(* shared InodeCache, and a write that releases inode_rwlock_ between      *)
(* finding that it has to extend the file and extending it.  Block map and *)
(* allocation are those of FileBlocks; beside the file, a directory takes  *)
(* blocks.  What a block holds is left out: the properties are about which *)
(* block an access goes to.                                                *)
(***************************************************************************)
EXTENDS Integers, FiniteSets, Sequences

CONSTANTS File,     \* the file that is open
          Dir,      \* the directory
          Handles,  \* the FileStatus objects of the file
          Appends,  \* the handles opened with O_APPEND
          ND,       \* EXT2_NDIR_BLOCKS
          K,        \* BLOCK_SIZE / 4, the pointers in a block
          BS,       \* BLOCK_SIZE
          NBlocks,  \* bound: blocks of the disk
          MaxSize,  \* bound: size of the file
          MaxDir,   \* bound: blocks of the directory
          MaxMixed, \* bound: blocks of the directory when the file is written
          Offs,     \* bound: offsets of a read or write
          Lens,     \* bound: lengths of a read or write
          Holes     \* whether a write may start at a block border past the end

ASSUME BSAssumption == BS \in Nat \ {0, 1}
ASSUME HandlesAssumption == Appends \subseteq Handles
ASSUME LensAssumption == Offs \subseteq Nat /\ Lens \subseteq Nat \ {0}
ASSUME HolesAssumption == Holes \in BOOLEAN
\* i_size has 32 bits, which ends a file before the triple indirect blocks.
ASSUME SizeAssumption == MaxSize \in 1 .. BS * (ND + K + K * K)

VARIABLES fs,       \* block bitmap, inodes and pointer blocks, as in FileBlocks
          size,     \* i_size of the InodeCache
          cur,      \* the cursor of each handle
          pending,  \* a write between the two locks of inode_rwlock_
          data,     \* history: the blocks allocated for file and directory
          own,      \* history: every access was to the right block of the file
          full      \* history: every call transferred all it had to

vars == <<fs, size, cur, pending, data, own, full>>

Map == INSTANCE FileBlocks WITH Files <- {File, Dir}, MaxBlocks <- MaxDir,
                                Calls <- {}, disk <- fs.ptr

Min2(a, b) == IF a < b THEN a ELSE b
Max2(a, b) == IF a > b THEN a ELSE b

IBLOCK_11 == ND - 1
IBLOCK_12 == K + IBLOCK_11
IBLOCK_13 == K * K + IBLOCK_12

(***************************************************************************)
(* The cursor: pos is block_id_in_file_, blk is block_id_, ind the numbers *)
(* of indirect_block_ and flag is cache_update_flag_; ok is whether the    *)
(* last seek succeeded.                                                    *)
(***************************************************************************)
NewCursor == [pos |-> 0, blk |-> 0, ind |-> <<0, 0>>, flag |-> TRUE, ok |-> TRUE]

i_block(s, slot) == s.ino[File].i_block[slot]

\* The slot of i_block, and the indices in the pointer blocks from there, that
\* lead to block k of the file: first_id and second_id.
Root(k) == IF k <= IBLOCK_12 THEN ND + 1 ELSE ND + 2

Ids(k) ==
  IF k <= IBLOCK_11 THEN << >>
  ELSE IF k <= IBLOCK_12 THEN <<k - IBLOCK_11 - 1>>
  ELSE <<(k - IBLOCK_12 - 1) \div K, (k - IBLOCK_12 - 1) % K>>

\* IndirectBlockPtr::seek of pointer block j: its entry ids[j] is the next
\* pointer block or, on the last level, the block of the file.
Load(s, c, ids, j) ==
  IF c.ind[j] \notin s.used THEN [c EXCEPT !.ok = FALSE]
  ELSE IF j = Len(ids) THEN [c EXCEPT !.blk = s.ptr[c.ind[j]][ids[j] + 1]]
  ELSE [c EXCEPT !.ind[j + 1] = s.ptr[c.ind[j]][ids[j] + 1]]

RECURSIVE Descend(_, _, _, _)
Descend(s, c, ids, j) ==
  IF j > Len(ids) \/ ~c.ok THEN c ELSE Descend(s, Load(s, c, ids, j), ids, j + 1)

\* From the inode, or from the pointer block of level j that the cursor has.
FromRoot(s, c, k) ==
  IF k <= IBLOCK_11 THEN [c EXCEPT !.blk = i_block(s, k + 1)]
  ELSE Descend(s, [c EXCEPT !.ind[1] = i_block(s, Root(k))], Ids(k), 1)

Moved(c, k) == [c EXCEPT !.pos = k, !.ok = TRUE]

bf_seek(s, c, k) == FromRoot(s, Moved(c, k), k)

\* Fault: the pointer blocks are kept when the first index changes.
seek_KeepsLevel(s, c, k) ==
  IF k <= IBLOCK_12 \/ c.pos <= IBLOCK_12 THEN bf_seek(s, c, k)
  ELSE Descend(s, Moved(c, k), Ids(k), 2)

\* seek: up to the first indirect block by bf_seek, whose error it drops; from
\* there on it keeps the pointer blocks that old and new position share.  The
\* old position may be below the region, and its indices then wrap to numbers
\* that no position has.
seek(s, c, k) ==
  IF k <= IBLOCK_12 THEN [bf_seek(s, c, k) EXCEPT !.ok = TRUE]
  ELSE IF c.pos <= IBLOCK_12 \/ Ids(k)[1] # Ids(c.pos)[1] THEN bf_seek(s, c, k)
  ELSE IF Ids(k) = Ids(c.pos) THEN Moved(c, k)
  ELSE Descend(s, Moved(c, k), Ids(k), 2)

\* Block k is the first below another slot of i_block, or a direct one.
NewSlot(k) == k <= IBLOCK_11 \/ k \in {IBLOCK_11 + 1, IBLOCK_12 + 1}

\* next_block reads the pointer blocks again from the level whose index moves.
next_block(s, c) ==
  LET k == c.pos + 1
  IN  IF NewSlot(k) THEN FromRoot(s, Moved(c, k), k)
      ELSE Descend(s, Moved(c, k), Ids(k), IF Ids(k)[Len(Ids(k))] = 0 THEN 1 ELSE Len(Ids(k)))

\* _upd_cache
upd_cache(s, c) == IF c.flag THEN bf_seek(s, [c EXCEPT !.flag = FALSE], c.pos) ELSE c

(***************************************************************************)
(* A transfer: file system, size, allocated blocks, cursor, and the bytes  *)
(* left from offset off on; err after an early return with an error.       *)
(***************************************************************************)
Transfer(c, off, len) ==
  [s |-> fs, size |-> size, d |-> data[File], c |-> c, off |-> off, left |-> len,
   own |-> own, err |-> ~c.ok]

\* get_block of the block under the cursor, with n bytes copied.
Chunk(t, n) ==
  IF t.err \/ ~t.c.ok \/ t.c.blk \notin t.s.used THEN [t EXCEPT !.err = TRUE]
  ELSE [t EXCEPT !.off = @ + n, !.left = @ - n,
                 !.own = @ /\ t.off \div BS < Len(t.d) /\ t.d[t.off \div BS + 1] = t.c.blk]

First(t) == Chunk([t EXCEPT !.c = seek(t.s, t.c, t.off \div BS)], Min2(t.left, BS - (t.off % BS)))

\* Fault: the rest of a call ends with its second block.
Rest_OneBlock(t) ==
  IF t.err \/ t.left = 0 \/ t.off >= t.size THEN t
  ELSE Chunk([t EXCEPT !.c = next_block(t.s, t.c)], Min2(t.left, Min2(t.size - t.off, BS)))

\* The loop of copy_to_buf, and of a write inside the file.
RECURSIVE Rest(_)
Rest(t) ==
  IF t.err \/ t.left = 0 \/ t.off >= t.size THEN t
  ELSE Rest(Chunk([t EXCEPT !.c = next_block(t.s, t.c)],
                  Min2(t.left, Min2(t.size - t.off, BS))))

\* alloc_block for the inode.
Grow(t) == [t EXCEPT !.s = Map!AllocBlock(t.s, File), !.d = Append(@, Map!FirstFree(t.s))]

\* The blocks between the end of the file and off, and a block for the end of
\* the file if it is at a border.
RECURSIVE Pad(_)
Pad(t) ==
  IF t.size + BS - (t.size % BS) < t.off
  THEN Pad([Grow(t) EXCEPT !.size = @ + BS - (@ % BS)])
  ELSE IF t.size % BS = 0 THEN Grow(t) ELSE t

Sized(t) == IF t.err THEN t ELSE [t EXCEPT !.size = Max2(@, t.off)]

\* Fault: the loop of a write takes the blocks to be there.
RECURSIVE RestExtend_NoGrow(_)
RestExtend_NoGrow(t) ==
  IF t.err \/ t.left = 0 THEN t
  ELSE RestExtend_NoGrow(Sized(Chunk([t EXCEPT !.c = next_block(t.s, t.c)], Min2(t.left, BS))))

\* The loop of a write that extends the file.
RECURSIVE RestExtend(_)
RestExtend(t) ==
  IF t.err \/ t.left = 0 THEN t
  ELSE LET g == IF t.off >= t.size THEN Grow(t) ELSE t
       IN  RestExtend(Sized(Chunk([g EXCEPT !.c = next_block(g.s, g.c)], Min2(t.left, BS))))

Done(t, complete) ==
  /\ fs' = t.s
  /\ size' = t.size
  /\ data' = [data EXCEPT ![File] = t.d]
  /\ own' = t.own
  /\ full' = (full /\ complete)

(***************************************************************************)
(* Actions.  A call holds _big_lock shared and the rwlock of its handle    *)
(* throughout, so a handle with a pending write takes no other call.       *)
(***************************************************************************)
None == << >>
Idle(h) == pending[h] = None

Init ==
  /\ fs = [used |-> {}, ino |-> [f \in {File, Dir} |-> Map!NewInode],
           ptr |-> [b \in Map!Blocks |-> Map!NoPointers], dirty |-> {}]
  /\ size = 0
  /\ cur = [h \in Handles |-> NewCursor]
  /\ pending = [h \in Handles |-> None]
  /\ data = [f \in {File, Dir} |-> << >>]
  /\ own = TRUE
  /\ full = TRUE

\* copy_to_buf, under inode_rwlock_ shared.  At or past the end nothing happens.
Copied(h, t) ==
  /\ Done(t, ~t.err /\ (t.left = 0 \/ t.off >= size))
  /\ cur' = [cur EXCEPT ![h] = t.c]

copy_to_buf(h, off, len) ==
  /\ Idle(h)
  /\ \/ off >= size /\ UNCHANGED <<fs, size, data, own, full, cur>>
     \/ off < size /\ Copied(h, Rest(First(Transfer(upd_cache(fs, cur[h]), off, len))))
  /\ UNCHANGED pending

\* A write inside the file, under inode_rwlock_ shared.
WriteInside(h, off, len) ==
  /\ Idle(h)
  /\ h \notin Appends
  /\ off + len <= size
  /\ Copied(h, Rest(First(Transfer(upd_cache(fs, cur[h]), off, len))))
  /\ UNCHANGED pending

From(h) == IF h \in Appends THEN size ELSE pending[h].off

\* A write that finds it has to extend the file: it has looked at the update
\* flag and released inode_rwlock_.
WriteBegin(h, len) == \E off \in IF h \in Appends THEN {size} ELSE Offs :
  /\ Idle(h)
  /\ off + len \in size + 1 .. MaxSize
  /\ Holes \/ off <= size \/ off % BS # 0
  /\ Len(data[Dir]) <= MaxMixed
  /\ cur' = [cur EXCEPT ![h] = upd_cache(fs, @)]
  /\ pending' = [pending EXCEPT ![h] = IF cur'[h].ok THEN [off |-> off, len |-> len] ELSE None]
  /\ full' = (full /\ cur'[h].ok)
  /\ UNCHANGED <<fs, size, data, own>>

\* Fault: only the handle that writes is told.
Extended_OwnFlag(h, t) ==
  /\ Done(t, ~t.err)
  /\ cur' = [cur EXCEPT ![h] = [t.c EXCEPT !.flag = @ \/ ~t.err]]

\* It goes on under inode_rwlock_ exclusive, with the size read again, and at
\* its end raises the update flag of all handles (upd_all).
Extended(h, t) ==
  /\ Done(t, ~t.err)
  /\ cur' = [g \in Handles |-> [(IF g = h THEN t.c ELSE cur[g])
                                EXCEPT !.flag = @ \/ ~t.err]]

\* Fault: the offset of an append is the one found before.
WriteExtend_OldEnd(h) ==
  /\ ~Idle(h)
  /\ Extended(h, RestExtend(Sized(First(
       Pad(Transfer(cur[h], pending[h].off, pending[h].len))))))
  /\ pending' = [pending EXCEPT ![h] = None]

WriteExtend(h) ==
  /\ ~Idle(h)
  /\ From(h) + pending[h].len <= MaxSize
  /\ Extended(h, RestExtend(Sized(First(
       Pad(Transfer(cur[h], From(h), pending[h].len))))))
  /\ pending' = [pending EXCEPT ![h] = None]

\* dentry_create allocates a block for the directory.
DirGrow ==
  /\ Len(data[Dir]) < IF size = 0 /\ \A h \in Handles : Idle(h) THEN MaxDir ELSE MaxMixed
  /\ fs' = Map!AllocBlock(fs, Dir)
  /\ data' = [data EXCEPT ![Dir] = Append(@, Map!FirstFree(fs))]
  /\ UNCHANGED <<size, cur, pending, own, full>>

Next ==
  \/ \E h \in Handles :
       \/ WriteExtend(h)
       \/ \E off \in Offs, len \in Lens : copy_to_buf(h, off, len) \/ WriteInside(h, off, len)
       \/ \E len \in Lens : WriteBegin(h, len)
  \/ DirGrow

Spec == Init /\ [][Next]_vars

(***************************************************************************)
(* Properties.                                                             *)
(***************************************************************************)
Cursors == [pos : 0 .. MaxSize \div BS, blk : Map!Blocks, ind : Map!Blocks \X Map!Blocks,
            flag : BOOLEAN, ok : BOOLEAN]

\* Every variable has its type.
TypeOK ==
  /\ fs.used \subseteq Map!Blocks
  /\ size \in 0 .. MaxSize
  /\ cur \in [Handles -> Cursors]
  /\ pending \in [Handles -> {None} \cup [off : 0 .. MaxSize, len : Lens]]
  /\ \A f \in {File, Dir} : data[f] \in Seq(Map!Blocks)
  /\ own \in BOOLEAN
  /\ full \in BOOLEAN

\* Every block that copy_to_buf and write access is the block that alloc_block
\* gave to that position of this file: the cursor, moved by seek and next_block
\* with the pointer blocks it kept from earlier calls, agrees with where
\* alloc_block put the pointers, while another handle extends the file and the
\* directory takes blocks in between.
AccessesOwnBlocks == own

\* A read returns all of what was asked for that the file has, a write all of
\* it, and neither fails.
TransfersComplete == full

\* Every byte of the file has a block, after writes that start past its end,
\* end at a block border or meet the extension of another handle.
BlocksCoverSize == size <= BS * Len(data[File])

\* A cursor that need not be updated is on the block of its position: a handle
\* that looked at its flag before another one extended the file gets the flag
\* again from upd_all.
CursorsFresh ==
  \A h \in Handles : ~cur[h].flag /\ cur[h].pos < Len(data[File]) =>
    cur[h].blk = data[File][cur[h].pos + 1]

\* alloc_block and visit_inode_blocks agree on the pointers of the file and of a
\* directory that grows to its triple indirect blocks.
VisitFindsData == Map!VisitFindsData

\* A write that extends the file sets its size to the end of what it wrote, or
\* leaves it if another handle went further; an append is after all that was
\* written before it got the lock, though it had looked at the size before.
ExtendSetsSize ==
  [][\A h \in Handles : ~Idle(h) /\ pending'[h] = None =>
       size' = Max2(size, From(h) + pending[h].len)]_vars
=============================================================================
