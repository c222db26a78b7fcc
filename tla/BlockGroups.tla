------------------------------ MODULE BlockGroups ------------------------------
(***************************************************************************)
(* Super block, group descriptors and bitmaps (src/block.cpp and the       *)
(* allocation in src/filesystem.cpp): block groups are created when the    *)
(* loaded ones are full, loaded when they are first used, and their number *)
(* is computed from the counts of the super block.  They reach the disk by *)
(* a flush, super block first, then the bitmaps and the blocks of the      *)
(* inode table of one group after the other, and a crash may come between  *)
(* any two writes.  What data blocks hold is not modelled.                 *)
(***************************************************************************)
EXTENDS Integers, FiniteSets

CONSTANTS BlocksPerGroup,  \* BLOCKS_PER_GROUP
          InodesPerGroup,  \* INODES_PER_GROUP
          InodesPerBlock,  \* INODES_PER_BLOCK
          Wrap,            \* 2^32 / BLOCK_SIZE: the bg_ offsets are 32-bit
          Word, Short,     \* 2^32 and 2^16, the widths of s_ and bg_free_ counts
          MaxGroups,       \* bound: block groups
          MaxFrees,        \* bound: calls of free_block and free_inode
          AnyRemount       \* FALSE: bound, see Remountable and Fresh

ASSUME BlocksPerGroupAssumption == BlocksPerGroup \in Nat \ {0}
ASSUME InodesPerGroupAssumption == InodesPerGroup \in Nat \ {0, 1}
ASSUME InodesPerBlockAssumption ==
  InodesPerBlock \in 1 .. InodesPerGroup /\ InodesPerGroup % InodesPerBlock = 0
ASSUME WidthAssumption ==
  /\ Short \in Nat /\ Short > BlocksPerGroup /\ Short > InodesPerGroup
  /\ Word \in Nat /\ Word > (MaxGroups + 1) * (BlocksPerGroup + InodesPerGroup + 4)
ASSUME BoundsAssumption == MaxFrees \in Nat /\ AnyRemount \in BOOLEAN

InodeTable == InodesPerGroup \div InodesPerBlock       \* NUM_INODE_TABLE_BLOCKS
TotalPerGroup == BlocksPerGroup + InodeTable + 2       \* TOTAL_BLOCKS_PER_GROUP

\* The number computed from the counts for a new group is that of the full
\* ones as long as the blocks that s_blocks_count leaves out are fewer than a
\* group, and the offsets of its bitmaps fit into 32 bits: in the code, both
\* hold for 32 groups.
ASSUME MaxGroupsAssumption == MaxGroups \in Nat \ {0}
ASSUME CountsAssumption == InodeTable >= 2 /\ MaxGroups * (InodeTable + 2) < TotalPerGroup + 4
ASSUME OffsetsAssumption == Wrap \in Nat /\ (MaxGroups - 1) * TotalPerGroup + 2 < Wrap

Groups == 0 .. MaxGroups - 1
Kinds == {"block", "inode"}
Parts == Kinds \cup {"table"}
Bits == [k \in Kinds |-> IF k = "block" THEN BlocksPerGroup ELSE InodesPerGroup]
\* s_blocks_per_group and s_inodes_per_group.
Stride == [k \in Kinds |-> IF k = "block" THEN TotalPerGroup ELSE InodesPerGroup]
ROOT_INODE == 0

VARIABLES phase,   \* "down", "super" (mounting), "up", or flushing
          todo,    \* the parts of groups a flush has still to write
          job,     \* what that flush is for: "mount", "sync", "unmount" or "none"
          sb,      \* in memory: count, the used blocks and inodes; sfree, the
                   \* s_free_ counts; free, the descriptors; ndesc, how many of
                   \* them desc_table_ holds
          loaded,  \* block_groups_
          bits,    \* the bitmaps of the loaded groups; "table" is the set of
                   \* inodes whose entry in the inode table is initialised
          disk,    \* super block and parts of groups on disk
          used,    \* history: the blocks and inodes handed out
          synced,  \* history: those of the last complete flush, not freed since
          torn,    \* history: a crash left counts and bitmaps of different moments
          frees    \* the calls that freed something

vars == <<phase, todo, job, sb, loaded, bits, disk, used, synced, torn, frees>>
memory == <<sb, loaded, bits>>

Max2(a, b) == IF a > b THEN a ELSE b
CeilDiv(a, b) == ((a + b - 1) % Word) \div b

NoBits == [p \in Parts |-> {}]
None == [k \in Kinds |-> {}]
NewDesc == [k \in Kinds |-> Bits[k]]

\* Fault: only the blocks are counted.
num_block_groups_Blocks(s) == Max2(CeilDiv(s.count["block"], Stride["block"]), 1)

num_block_groups(s) ==
  Max2(Max2(CeilDiv(s.count["block"], Stride["block"]),
            CeilDiv(s.count["inode"], Stride["inode"])), 1)

(***************************************************************************)
(* Where the parts of group g are on disk, in blocks.                      *)
(***************************************************************************)
\* Fault: a group takes no more than its data blocks.
bg_inode_bitmap_NoTable(g) == (g * BlocksPerGroup + 1) % Wrap

bg_inode_bitmap(g) == (g * TotalPerGroup + 1) % Wrap
bg_block_bitmap(g) == (bg_inode_bitmap(g) + 1) % Wrap
inode_block_offset(g, b) == bg_block_bitmap(g) + b + 1
data_block_offset(g, i) == bg_block_bitmap(g) + InodeTable + i

(***************************************************************************)
(* m is a record of the state in memory: sb, loaded and bits.              *)
(***************************************************************************)
Memory == [sb |-> sb, loaded |-> loaded, bits |-> bits]
Become(m) == sb' = m.sb /\ loaded' = m.loaded /\ bits' = m.bits

\* The BlockGroup of group g is created from disk at its first use.
Load(m, g) ==
  IF g \in m.loaded THEN m
  ELSE [m EXCEPT !.loaded = @ \cup {g}, !.bits[g] = disk.bits[g]]

\* Without it get_group_desc returns null, and the constructor of BlockGroup
\* asserts that it does not.
HasDesc(g) == g \in loaded \/ g < sb.ndesc

\* BitmapBlock::alloc_new finds the first free bit.
Searched(k) == 0 .. Bits[k] - 1
Full(m, g, k) == Searched(k) \subseteq m.bits[g][k]
FirstBit(m, g, k) == CHOOSE i \in Searched(k) :
                       i \notin m.bits[g][k] /\ \A j \in 0 .. i - 1 : j \in m.bits[g][k]

Marked(b, k, i) ==
  [b EXCEPT ![k] = @ \cup {i}, !["table"] = IF k = "inode" THEN @ \cup {i} ELSE @]

Set(m, g, k, i) == [m EXCEPT !.bits[g] = Marked(@, k, i)]

\* Fault: the free count of the descriptor stays.
TakeBit_NoCount(m, g, k) == Set(m, g, k, FirstBit(m, g, k))

\* BlockGroup::alloc_block and alloc_inode; the latter initialises the inode.
TakeBit(m, g, k) == [Set(m, g, k, FirstBit(m, g, k)) EXCEPT !.sb.free[g][k] = (@ - 1) % Short]

\* The groups that alloc_block and alloc_inode try, in order of their number.
Candidates(m, k) == {g \in m.loaded : m.sb.free[g][k] # 0 /\ ~Full(m, g, k)}

\* alloc_block_group: descriptor and bitmaps of a new group, empty.
alloc_block_group(m) ==
  LET g == num_block_groups(m.sb)
  IN  [m EXCEPT !.sb.free[g] = NewDesc, !.sb.ndesc = @ + 1,
                !.loaded = @ \cup {g}, !.bits[g] = NoBits]

\* s_blocks_count or s_inodes_count, and the s_free_ count beside it.
Counted(m, k, n) ==
  [m EXCEPT !.sb.count[k] = (@ + n) % Word, !.sb.sfree[k] = (@ - n) % Word]

\* The result of alloc_block or alloc_inode in group g.
Handed(m, g, k) ==
  /\ Become(TakeBit(m, g, k))
  /\ used' = [used EXCEPT ![k] = @ \cup {g * Stride[k] + FirstBit(m, g, k)}]

\* Bound: no group past the last one, nor, unless AnyRemount, one numbered by
\* counts that a crash left wrong.
Fresh(g) == g \in Groups /\ (AnyRemount \/ ~torn)

\* alloc_block and alloc_inode.  (In a build with assertions alloc_block reads
\* *block, which no group has set, before it creates one: what that can do is
\* nothing, or Crash before this step.)
Alloc(k) ==
  LET m == Counted(Memory, k, 1)
      fit == Candidates(m, k)
  IN  /\ phase = "up"
      /\ IF fit # {} THEN Handed(m, CHOOSE g \in fit : \A h \in fit : g <= h, k)
         ELSE /\ Fresh(num_block_groups(m.sb))
              /\ Handed(alloc_block_group(m), num_block_groups(m.sb), k)
      /\ UNCHANGED <<phase, todo, job, disk, synced, torn, frees>>

\* Fault: the group of a block is found with the size of its bitmap.
GroupOf_ByBitmap(k, i) == i \div Bits[k]

GroupOf(k, i) == i \div Stride[k]

\* free_block and free_inode of something in use.
Free(k, i) ==
  LET g == GroupOf(k, i)
      m == Load(Counted(Memory, k, -1), g)
  IN  /\ phase = "up"
      /\ frees < MaxFrees
      /\ frees' = frees + 1
      /\ k = "inode" => i # ROOT_INODE
      /\ HasDesc(g)
      /\ Become(IF i % Stride[k] \in m.bits[g][k]
                THEN [m EXCEPT !.bits[g][k] = @ \ {i % Stride[k]}, !.sb.free[g][k] = (@ + 1) % Short]
                ELSE m)
      /\ used' = [used EXCEPT ![k] = @ \ {i}]
      /\ synced' = [synced EXCEPT ![k] = @ \ {i}]
      /\ UNCHANGED <<phase, todo, job, disk, torn>>

\* get_block and get_inode load the group of what they get.
Get(k, i) ==
  /\ phase = "up"
  /\ HasDesc(GroupOf(k, i))
  /\ Become(Load(Memory, GroupOf(k, i)))
  /\ UNCHANGED <<phase, todo, job, disk, used, synced, torn, frees>>

(***************************************************************************)
(* Mount: init_super_block formats a disk that has no file system, leaving *)
(* the s_free_ counts as they are, and writes the super block; the         *)
(* constructor of FileSystem loads group 0, creates the root if it has     *)
(* none, and flushes the group, but not the super block.                   *)
(***************************************************************************)
Formatted == [count |-> [k \in Kinds |-> IF k = "block" THEN 3 ELSE 1],
              free |-> [g \in Groups |-> [NewDesc EXCEPT !["inode"] = @ - 1]]]

MountSuper ==
  LET s == IF disk.normal THEN [count |-> disk.count, free |-> disk.free] ELSE Formatted
  IN  /\ phase = "down"
      /\ phase' = "super"
      /\ sb' = [count |-> s.count, sfree |-> disk.sfree, free |-> s.free,
                ndesc |-> IF disk.normal THEN num_block_groups(s) ELSE 1]
      /\ disk' = [disk EXCEPT !.normal = TRUE, !.count = s.count, !.free = s.free]
      /\ UNCHANGED <<todo, job, loaded, bits, used, synced, torn, frees>>

\* What BlockGroup::flush writes, in this order: the block bitmap (0), the inode
\* bitmap (1) and the blocks of the inode table (2 and more; one that is not in
\* memory is not written, and is the same on disk).
Pieces == 0 .. InodeTable + 1

MountGroup ==
  LET m == Load(Memory, 0)
  IN  /\ phase = "super"
      /\ phase' = "flush"
      /\ job' = "mount"
      /\ todo' = {0} \X Pieces
      /\ Become(IF ROOT_INODE \in m.bits[0]["inode"] THEN m ELSE TakeBit(m, 0, "inode"))
      /\ used' = [used EXCEPT !["inode"] = @ \cup {ROOT_INODE}]
      /\ UNCHANGED <<disk, synced, torn, frees>>

(***************************************************************************)
(* flush: by fuse_fsync, or by the destructor of FileSystem at unmount.    *)
(***************************************************************************)
\* Bound: unless AnyRemount, the file system goes down only with one group.
Remountable == AnyRemount \/ sb.ndesc = 1

FlushSuper(j) ==
  /\ phase = "up"
  /\ j = "unmount" => Remountable
  /\ phase' = "flush"
  /\ job' = j
  /\ disk' = [disk EXCEPT !.count = sb.count, !.sfree = sb.sfree, !.free = sb.free]
  /\ todo' = loaded \X Pieces
  /\ UNCHANGED <<memory, used, synced, torn, frees>>

Earlier(x, y) == x[1] < y[1] \/ (x[1] = y[1] /\ x[2] < y[2])
IsNext(x) == \A y \in todo : x = y \/ Earlier(x, y)

\* The inodes in block b of the inode table.
InBlock(S, b) == {i \in S : i \div InodesPerBlock = b}

\* Piece j of group g is written: old is what the disk has of the group.
Written(old, new, j) ==
  CASE j = 0 -> [old EXCEPT !["block"] = new["block"]]
    [] j = 1 -> [old EXCEPT !["inode"] = new["inode"]]
    [] OTHER -> [old EXCEPT !["table"] = (@ \ InBlock(@, j - 2)) \cup InBlock(new["table"], j - 2)]

\* Fault: the inode table is not written.
FlushPiece_NoTable(g, j) ==
  /\ phase = "flush"
  /\ <<g, j>> \in todo /\ IsNext(<<g, j>>)
  /\ disk' = IF j > 1 THEN disk ELSE [disk EXCEPT !.bits[g] = Written(@, bits[g], j)]
  /\ todo' = todo \ {<<g, j>>}
  /\ UNCHANGED <<phase, job, memory, used, synced, torn, frees>>

\* BlockGroup::flush of one group after the other.
FlushPiece(g, j) ==
  /\ phase = "flush"
  /\ <<g, j>> \in todo /\ IsNext(<<g, j>>)
  /\ disk' = [disk EXCEPT !.bits[g] = Written(@, bits[g], j)]
  /\ todo' = todo \ {<<g, j>>}
  /\ UNCHANGED <<phase, job, memory, used, synced, torn, frees>>

Unloaded == loaded' = {} /\ bits' = [g \in Groups |-> NoBits]

\* Of the inodes in use, one that is marked only because a crash came between
\* bitmap and table has no entry to lose.
Initialised == {i \in used["inode"] : i % Stride["inode"] \in bits[i \div Stride["inode"]]["table"]}

FlushDone ==
  /\ phase = "flush"
  /\ todo = {}
  /\ synced' = [used EXCEPT !["inode"] = Initialised]
  /\ IF job = "unmount" THEN phase' = "down" /\ Unloaded
     ELSE phase' = "up" /\ UNCHANGED <<loaded, bits>>
  /\ job' = "none"
  /\ UNCHANGED <<todo, sb, disk, used, torn, frees>>

\* What the bitmaps on disk say is in use.
OnDisk(k) == UNION {{g * Stride[k] + i : i \in disk.bits[g][k]} : g \in Groups}

\* The super block on disk is still the one of init_super_block, which has the
\* root in its counts before the constructor takes it off again.
NeverFlushed == disk.free[0]["inode"] = InodesPerGroup - 1

\* The super block on disk is of another moment than the bitmaps there: in a
\* flush, and from the creation of the root to the first flush.  (The flush of
\* a mount writes what is on disk already, but for a new root.)
Behind == \/ phase = "flush" /\ job # "mount"
          \/ phase \in {"flush", "up"} /\ NeverFlushed

Crash ==
  /\ phase # "down"
  /\ Remountable
  /\ phase' = "down"
  /\ todo' = {}
  /\ job' = "none"
  /\ Unloaded
  /\ torn' = (torn \/ Behind)
  /\ used' = [k \in Kinds |-> OnDisk(k)]
  /\ UNCHANGED <<sb, disk, synced, frees>>

Init ==
  /\ phase = "down"
  /\ todo = {}
  /\ job = "none"
  /\ sb = [count |-> [k \in Kinds |-> 0], sfree |-> [k \in Kinds |-> 0],
           free |-> [g \in Groups |-> NewDesc], ndesc |-> 0]
  /\ loaded = {}
  /\ bits = [g \in Groups |-> NoBits]
  /\ disk = [normal |-> FALSE, count |-> [k \in Kinds |-> 0], sfree |-> [k \in Kinds |-> 0],
             free |-> [g \in Groups |-> NewDesc], bits |-> [g \in Groups |-> NoBits]]
  /\ used = None
  /\ synced = None
  /\ torn = FALSE
  /\ frees = 0

Next ==
  \/ \E k \in Kinds : Alloc(k)
  \/ \E k \in Kinds : \E i \in used[k] : Free(k, i) \/ Get(k, i)
  \/ MountSuper \/ MountGroup
  \/ \E j \in {"sync", "unmount"} : FlushSuper(j)
  \/ \E g \in Groups, j \in Pieces : FlushPiece(g, j)
  \/ FlushDone \/ Crash

Spec == Init /\ [][Next]_vars

(***************************************************************************)
(* Properties.                                                             *)
(***************************************************************************)
Indices(k) == 0 .. MaxGroups * Stride[k] - 1

\* Every variable has its type.
TypeOK ==
  /\ phase \in {"down", "super", "up", "flush"}
  /\ todo \subseteq Groups \X Pieces
  /\ job \in {"none", "mount", "sync", "unmount"}
  /\ sb.ndesc \in 0 .. MaxGroups
  /\ \A k \in Kinds : sb.count[k] \in 0 .. Word - 1 /\ sb.sfree[k] \in 0 .. Word - 1
  /\ \A g \in Groups, k \in Kinds : sb.free[g][k] \in 0 .. Short - 1
  /\ loaded \subseteq Groups
  /\ frees \in 0 .. MaxFrees
  /\ \A g \in Groups, k \in Kinds : bits[g][k] \subseteq 0 .. Bits[k] - 1
  /\ \A k \in Kinds : used[k] \subseteq Indices(k) /\ synced[k] \subseteq used[k]

InUse(k) == UNION {{g * Stride[k] + i : i \in bits[g][k]} : g \in loaded}

\* The bits set in the groups are the indices that alloc_block and alloc_inode
\* returned and that were not freed: no index is handed out twice, and none is
\* lost, however the groups were created.
BitsAreUsed == phase \in {"up", "flush"} => \A k \in Kinds : InUse(k) = used[k]

\* alloc_block_group numbers the groups without gap, so that the descriptor of
\* a group is at its place in desc_table_, unless a crash left counts that are
\* not those of the bitmaps.
GroupsNumbered ==
  phase \in {"up", "flush"} /\ ~torn => loaded = 0 .. sb.ndesc - 1

\* The counts of blocks and inodes in super block and descriptors are those of
\* the bitmaps, unless a crash left them apart: in a flush, or after the root
\* was created and before the first flush.  The root is taken off the free
\* inodes of group 0 twice (init_super_block and the constructor of FileSystem).
\* The s_free_ counts of the super block only mirror the changes of the others:
\* formatting leaves them 0, so that they wrap around at the first allocation.
CountsMatchBits ==
  phase \in {"up", "flush"} =>
    /\ \A k \in Kinds : (sb.count[k] + sb.sfree[k]) % Word = Formatted.count[k]
    /\ ~torn =>
         /\ sb.count["block"] = 3 + Cardinality(used["block"])
         /\ sb.count["inode"] = Cardinality(used["inode"])
         /\ \A g \in loaded, k \in Kinds :
              sb.free[g][k] = Bits[k] - Cardinality(bits[g][k])
                              - (IF g = 0 /\ k = "inode" THEN 1 ELSE 0)

\* The inodes in the last block of an inode table share it with data block 0 of
\* the group (see TablesApart), and are overwritten with it.
Shares(i) == (i % InodesPerGroup) \div InodesPerBlock = InodeTable - 1

\* What was in use when a flush completed, the one of a mount included, is
\* marked in the bitmaps on disk until it is freed, and its inodes are
\* initialised in the table there: after a crash at any point, in a later flush
\* too.  Nothing is said of the entry of an inode that shares its block.
SyncedIsDurable ==
  /\ \A k \in Kinds : synced[k] \subseteq OnDisk(k)
  /\ \A i \in synced["inode"] : ~Shares(i) =>
       i % InodesPerGroup \in disk.bits[i \div InodesPerGroup]["table"]

Tables(g) == {inode_block_offset(g, i \div InodesPerBlock) : i \in bits[g]["table"]}
Data(g) == {data_block_offset(g, i) : i \in bits[g]["block"]}
Bitmaps(g) == {bg_inode_bitmap(g), bg_block_bitmap(g)}

\* Nothing in use lies on the super block, on a bitmap or in another group,
\* though the offsets of the bitmaps are cut to 32 bits.
GroupsApart ==
  \A g \in loaded :
    /\ 0 \notin Bitmaps(g) \cup Tables(g) \cup Data(g)
    /\ bg_inode_bitmap(g) # bg_block_bitmap(g)
    /\ Bitmaps(g) \cap (Tables(g) \cup Data(g)) = {}
    /\ \A h \in loaded \ {g} :
         (Bitmaps(g) \cup Tables(g) \cup Data(g)) \cap (Bitmaps(h) \cup Tables(h) \cup Data(h)) = {}

\* "1 inode bitmap, 1 block bitmap, 1024 inode table blocks, 4096 * 8 data
\* blocks" (include/common.h): the inode table ends before the data begin.  It
\* does not: data_block_offset lacks the + 1 of inode_block_offset.
TablesApart == \A g \in loaded : Tables(g) \cap Data(g) = {}
=============================================================================
