------------------------------ MODULE FileBlocks ------------------------------
(***************************************************************************)
(* The blocks of a file: i_block with its direct, indirect, double and     *)
(* triple indirect blocks as FileSystem::alloc_block(inode) extends it,    *)
(* visit_inode_blocks walks it and inode_delete frees it                   *)
(* (src/filesystem.cpp).  Pointer blocks live in the block cache: they are *)
(* written back when evicted only if modify() has marked them.  BlockCache *)
(* models the cache itself; here an eviction may happen between any two    *)
(* calls.  The content of data blocks is left out.                         *)
(***************************************************************************)
EXTENDS Integers, FiniteSets, SequencesExt

CONSTANTS Files,
          ND,         \* EXT2_NDIR_BLOCKS, 12 in the code
          K,          \* NUM_INDIRECT_BLOCKS, 1024 in the code
          NBlocks,    \* bound: blocks of the disk
          MaxBlocks,  \* bound: data blocks of a file
          Calls       \* which of "delete" and "evict" happen

ASSUME NDAssumption == ND \in Nat \ {0}
ASSUME KAssumption == K \in Nat \ {0, 1}
ASSUME BoundsAssumption == NBlocks \in Nat /\ MaxBlocks \in Nat
ASSUME CallsAssumption == Calls \subseteq {"delete", "evict"}

Blocks == 0 .. NBlocks - 1
IND == ND + 1          \* EXT2_IND_BLOCK, EXT2_DIND_BLOCK and EXT2_TIND_BLOCK,
DIND == ND + 2         \* counting the slots of i_block from 1
TIND == ND + 3
Slots == 1 .. TIND
MaxInd == K
MaxDind == K * K

NoPointers == [k \in 1 .. K |-> 0]
NewInode == [n |-> 0, i_block |-> [s \in Slots |-> 0]]

VARIABLES fs,    \* used: the block bitmap; ino: inodes by file (n is num_aligned_blocks);
                 \* ptr: pointer blocks in memory; dirty: those marked by modify()
          disk,  \* pointer blocks on disk
          data   \* history: the data blocks allocated for each file, in order

vars == <<fs, disk, data>>

(***************************************************************************)
(* alloc_block.                                                            *)
(***************************************************************************)
FirstFree(s) == CHOOSE b \in Blocks : b \notin s.used /\ \A c \in 0 .. b - 1 : c \in s.used

\* Fault: the bit of the new block is not set.
Take_BitClear(s) == [s EXCEPT !.ptr[FirstFree(s)] = NoPointers]

\* alloc_block(block, index): a zeroed block, clean in the cache.
Take(s) ==
  LET b == FirstFree(s)
  IN  [s EXCEPT !.used = @ \cup {b}, !.ptr[b] = NoPointers, !.dirty = @ \ {b}]

\* Take a block as a pointer block of f for the given slot of its i_block.
TakeSlot(s, f, slot) == [Take(s) EXCEPT !.ino[f].i_block[slot] = FirstFree(s)]

\* Store a pointer and mark a block as modified.
Put(s, b, k, p) == [s EXCEPT !.ptr[b][k + 1] = p]
Modify(s, b) == [s EXCEPT !.dirty = @ \cup {b}]

\* Fault: the indirect block is not marked.
AllocInd_NotModified(s, f, b) ==
  LET n == s.ino[f].n
      s1 == IF n = ND THEN TakeSlot(s, f, IND) ELSE s
  IN  Put(s1, s1.ino[f].i_block[IND], n - ND, b)

AllocInd(s, f, b) ==
  LET n == s.ino[f].n
      s1 == IF n = ND THEN TakeSlot(s, f, IND) ELSE s
      root == s1.ino[f].i_block[IND]
  IN  Modify(Put(s1, root, n - ND, b), root)

\* Fault: a double indirect block starts one pointer late.
AllocDind_OffByOne(s, f, b) ==
  LET n == s.ino[f].n
      s1 == IF n = ND + MaxInd THEN TakeSlot(s, f, DIND) ELSE s
      root == s1.ino[f].i_block[DIND]
      q == (n - ND) \div K
      new == FirstFree(s1)
  IN  Modify(Put(Modify(Put(Take(s1), root, q, new), root), new, 0, b), new)

AllocDind(s, f, b) ==
  LET n == s.ino[f].n
      s1 == IF n = ND + MaxInd THEN TakeSlot(s, f, DIND) ELSE s
      root == s1.ino[f].i_block[DIND]
      q == (n - ND - 1) \div K
      r == (n - ND - MaxInd) % K
      new == FirstFree(s1)
      old == s1.ptr[root][q]
  IN  IF r = 0
      THEN Modify(Put(Modify(Put(Take(s1), root, q, new), root), new, 0, b), new)
      ELSE Modify(Put(s1, old, r, b), old)

\* The branch for a full triple block marks the DIND block, not the TIND block.
AllocTind(s, f, b) ==
  LET n == s.ino[f].n
      s1 == IF n = ND + MaxInd + MaxDind THEN TakeSlot(s, f, TIND) ELSE s
      root == s1.ino[f].i_block[TIND]
      q == (n - ND - MaxInd - 1) \div MaxDind
      r == (n - ND - MaxInd - MaxDind) % MaxDind
      dnew == FirstFree(s1)
      s2 == Take(s1)
      tnew2 == FirstFree(s2)
      s3 == Modify(Put(Take(s2), root, q, dnew), s2.ino[f].i_block[DIND])
      s4 == Modify(Put(s3, dnew, 0, tnew2), dnew)
      dold == s1.ptr[root][q]
      dq == (r + MaxInd - 1) \div MaxInd
      dr == r % MaxInd
      tnew == FirstFree(s1)
      told == s1.ptr[dold][dq]
  IN  IF r = 0 THEN Modify(Put(s4, tnew2, 0, b), tnew2)
      ELSE IF dr = 0
      THEN Modify(Put(Modify(Put(Take(s1), dold, dq, tnew), dold), tnew, 0, b), tnew)
      ELSE Modify(Put(s1, told, dr, b), told)

AllocBlock(s, f) ==
  LET n == s.ino[f].n
      b == FirstFree(s)
      s1 == Take(s)
      s2 == IF n < ND THEN [s1 EXCEPT !.ino[f].i_block[n + 1] = b]
            ELSE IF n < ND + MaxInd THEN AllocInd(s1, f, b)
            ELSE IF n < ND + MaxInd + MaxDind THEN AllocDind(s1, f, b)
            ELSE AllocTind(s1, f, b)
  IN  [s2 EXCEPT !.ino[f].n = n + 1]

(***************************************************************************)
(* visit_inode_blocks, with a visitor that never stops: the data blocks in *)
(* the order of the visit.  curr_num is the length of what was visited.    *)
(***************************************************************************)
MinOf(a, b) == IF a < b THEN a ELSE b
CeilDiv(a, b) == (a + b - 1) \div b

\* visit_indirect_blocks: the first num pointers of block b.
VisitIndirect(s, b, num) == SubSeq(s.ptr[b], 1, MinOf(num, K))

Visit(s, f) ==
  LET n == s.ino[f].n
      i_block == s.ino[f].i_block
      IndirectVisitor(acc, b) == acc \o VisitIndirect(s, b, n - Len(acc))
      DoubleVisitor(acc, b) ==
        FoldLeft(IndirectVisitor, acc, VisitIndirect(s, b, n - Len(acc)))
      v0 == SubSeq(i_block, 1, MinOf(n, ND))
      v1 == IF n = Len(v0) THEN v0 ELSE IndirectVisitor(v0, i_block[IND])
      v2 == IF n = Len(v1) THEN v1
            ELSE FoldLeft(IndirectVisitor, v1,
                          VisitIndirect(s, i_block[DIND], CeilDiv(n - Len(v1), K)))
  IN  IF n = Len(v2) THEN v2
      ELSE FoldLeft(DoubleVisitor, v2,
                    VisitIndirect(s, i_block[TIND], CeilDiv(n - Len(v2), MaxDind)))

(***************************************************************************)
(* Actions.                                                                *)
(***************************************************************************)
Init ==
  /\ fs = [used |-> {}, ino |-> [f \in Files |-> NewInode],
           ptr |-> [b \in Blocks |-> NoPointers], dirty |-> {}]
  /\ disk = [b \in Blocks |-> NoPointers]
  /\ data = [f \in Files |-> << >>]

\* Bound: an append happens when there are blocks for it and for the pointer
\* blocks it may need, one for each level of indirection.
Needed(n) ==
  1 + Cardinality({level \in {ND, ND + MaxInd, ND + MaxInd + MaxDind} : n >= level})

\* A write past the last block of f.
Append1(f) ==
  /\ fs.ino[f].n < MaxBlocks
  /\ Cardinality(Blocks \ fs.used) >= Needed(fs.ino[f].n)
  /\ fs' = AllocBlock(fs, f)
  /\ data' = [data EXCEPT ![f] = Append(@, FirstFree(fs))]
  /\ UNCHANGED disk

\* inode_delete of a regular file frees the blocks it visits and removes them
\* from the cache; the inode is zeroed when it is allocated again.
Delete(f) ==
  /\ "delete" \in Calls
  /\ fs.ino[f].n > 0
  /\ fs' = [fs EXCEPT !.used = @ \ ToSet(Visit(fs, f)),
                      !.dirty = @ \ ToSet(Visit(fs, f)),
                      !.ino[f] = NewInode]
  /\ data' = [data EXCEPT ![f] = << >>]
  /\ UNCHANGED disk

DataBlocks == UNION {ToSet(data[f]) : f \in Files}

\* The cache evicts block b, and reads it again at its next use.
Evict(b) ==
  /\ "evict" \in Calls
  /\ b \in fs.used \ DataBlocks
  /\ disk' = IF b \in fs.dirty THEN [disk EXCEPT ![b] = fs.ptr[b]] ELSE disk
  /\ fs' = [fs EXCEPT !.ptr[b] = disk'[b], !.dirty = @ \ {b}]
  /\ UNCHANGED data

Next ==
  \/ \E f \in Files : Append1(f) \/ Delete(f)
  \/ \E b \in Blocks : Evict(b)

Spec == Init /\ [][Next]_vars

(***************************************************************************)
(* Properties.                                                             *)
(***************************************************************************)
\* Every variable has its type.
TypeOK ==
  /\ fs \in [used : SUBSET Blocks,
             ino : [Files -> [n : 0 .. MaxBlocks, i_block : [Slots -> Blocks]]],
             ptr : [Blocks -> [1 .. K -> Blocks]],
             dirty : SUBSET Blocks]
  /\ disk \in [Blocks -> [1 .. K -> Blocks]]
  /\ \A f \in Files : data[f] \in Seq(Blocks)

\* The arithmetic by which alloc_block stores a pointer and the one by which
\* visit_inode_blocks finds it agree at every size of a file, over the borders
\* between direct, indirect, double and triple indirect blocks, and no pointer
\* is lost when the block that holds it leaves the cache: a visit meets the
\* blocks allocated for the file, in their order.
VisitFindsData == \A f \in Files : Visit(fs, f) = data[f]

\* No block belongs to two files or twice to one, and the blocks of a file stay
\* allocated until it is deleted, whatever was freed and reused before.
NoSharing ==
  /\ \A f \in Files : IsInjective(data[f]) /\ ToSet(data[f]) \subseteq fs.used
  /\ \A f, g \in Files : f # g => ToSet(data[f]) \cap ToSet(data[g]) = {}
=============================================================================
