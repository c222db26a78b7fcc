----------------------- MODULE BlockGroupsCrashProofs -----------------------
(***************************************************************************)
(* What is allocated stays marked, and what a complete flush covered       *)
(* survives every later crash, for every number and size of block groups,  *)
(* as long as the file system goes down with one group, and none is added  *)
(* after a crash that left counts and bitmaps apart (~AnyRemount).         *)
(***************************************************************************)
EXTENDS BlockGroupsAllocProofs

\* The provers a step is given to in turn, with their time in seconds.
USE ZenonT(3), SMTT(40), ZenonT(60)

(***************************************************************************)
(* Mount.                                                                  *)
(***************************************************************************)
LEMMA FormattedType ==
  /\ Formatted.count \in CountType /\ Formatted.free \in FreeType
  /\ Formatted.count["block"] = 3 /\ Formatted.count["inode"] = 1
  /\ Formatted.free[0]["block"] = BlocksPerGroup /\ Formatted.free[0]["inode"] = InodesPerGroup - 1
<1>1. Word \in Nat /\ 3 < Word
  <2>1. 1 \in 1 .. MaxGroups /\ "block" \in Kinds
    BY MaxGroupsAssumption DEF Kinds
  <2>2. 0 \in Nat /\ 0 <= 1 * Bits["block"] + 1
    BY <2>1, BitsFit
  <2> QED  BY <2>1, <2>2, CountFits
<1>2. Formatted.count \in CountType /\ Formatted.count["block"] = 3 /\ Formatted.count["inode"] = 1
  BY <1>1 DEF Formatted, CountType, Kinds
<1> DEFINE d == [NewDesc EXCEPT !["inode"] = @ - 1]
<1>3. /\ d \in [Kinds -> 0 .. Short - 1]
      /\ d["block"] = BlocksPerGroup /\ d["inode"] = InodesPerGroup - 1
  <2>1. NewDesc["block"] = BlocksPerGroup /\ NewDesc["inode"] = InodesPerGroup
    BY NewDescType, KindFacts DEF Kinds
  <2>2. InodesPerGroup - 1 \in 0 .. Short - 1
    BY WidthAssumption, InodesPerGroupAssumption
  <2> QED  BY <2>1, <2>2, NewDescType DEF Kinds
<1>4. Formatted.free = [g \in Groups |-> d] /\ 0 \in Groups
  BY MaxGroupsAssumption DEF Formatted, Groups
<1> HIDE DEF d
<1>5. Formatted.free \in FreeType /\ Formatted.free[0] = d
  BY <1>3, <1>4 DEF FreeType
<1> QED  BY <1>2, <1>3, <1>5

WithCounts(d, c, e, f) == [d EXCEPT !.count = c, !.sfree = e, !.free = f]
WithSuper(d, n, c, f) == [d EXCEPT !.normal = n, !.count = c, !.free = f]

LEMMA DiskCounts ==
  ASSUME NEW d, DiskOK(d), NEW c, NEW e, NEW f
  PROVE  WithCounts(d, c, e, f)
         = [normal |-> d.normal, count |-> c, sfree |-> e, free |-> f, bits |-> d.bits]
<1> DEFINE d1 == [d EXCEPT !.count = c]
           d2 == [d1 EXCEPT !.sfree = e]
<1>1. WithCounts(d, c, e, f) = [d2 EXCEPT !.free = f]
  BY DEF WithCounts
<1>2. d1 = [normal |-> d.normal, count |-> c, sfree |-> d.sfree, free |-> d.free, bits |-> d.bits]
  BY DEF DiskOK
<1> HIDE DEF d1
<1>3. d2 = [normal |-> d.normal, count |-> c, sfree |-> e, free |-> d.free, bits |-> d.bits]
  BY <1>2
<1> HIDE DEF d2
<1> QED  BY <1>1, <1>3

LEMMA DiskSuper ==
  ASSUME NEW d, DiskOK(d), NEW n, NEW c, NEW f
  PROVE  WithSuper(d, n, c, f)
         = [normal |-> n, count |-> c, sfree |-> d.sfree, free |-> f, bits |-> d.bits]
<1> DEFINE d1 == [d EXCEPT !.normal = n]
           d2 == [d1 EXCEPT !.count = c]
<1>1. WithSuper(d, n, c, f) = [d2 EXCEPT !.free = f]
  BY DEF WithSuper
<1>2. d1 = [normal |-> n, count |-> d.count, sfree |-> d.sfree, free |-> d.free, bits |-> d.bits]
  BY DEF DiskOK
<1> HIDE DEF d1
<1>3. d2 = [normal |-> n, count |-> c, sfree |-> d.sfree, free |-> d.free, bits |-> d.bits]
  BY <1>2
<1> HIDE DEF d2
<1> QED  BY <1>1, <1>3

\* A new file system has its counts and no s_free_ counts.
LEMMA FormattedMirrors == Mirrors(Formatted.count, [k \in Kinds |-> 0])
<1> SUFFICES ASSUME NEW k \in Kinds
             PROVE  (Formatted.count[k] + 0) % Word = Formatted.count[k]
  BY DEF Mirrors
<1>1. PICK x \in 0 .. Word - 1 : x = Formatted.count[k]
  BY FormattedType DEF CountType
<1>2. x + 0 = x /\ x % Word = x
  BY WordPositive
<1> QED  BY <1>1, <1>2

LEMMA MountSuperGroups == BitsInv /\ GroupsInv /\ MountSuper => GroupsInv'
<1> SUFFICES ASSUME BitsInv, GroupsInv, MountSuper PROVE GroupsInv'
  OBVIOUS
<1>1. TypeInv /\ MirrorInv /\ UsedInv /\ RootInv /\ SyncInv /\ DiskInv
  BY DEF GroupsInv
<1>2. PICK s : s = IF disk.normal THEN [count |-> disk.count, free |-> disk.free] ELSE Formatted
  OBVIOUS
<1>3. /\ phase = "down" /\ phase' = "super" /\ ~Live /\ ~Live'
      /\ UNCHANGED <<todo, job, loaded, bits, used, synced, torn, frees>>
  BY DEF MountSuper, Live
<1>4. sb' = [count |-> s.count, sfree |-> disk.sfree, free |-> s.free,
             ndesc |-> IF disk.normal THEN num_block_groups(s) ELSE 1]
  BY <1>2 DEF MountSuper
<1>5. /\ disk'.normal = TRUE /\ disk'.count = s.count /\ disk'.free = s.free
      /\ disk'.sfree = disk.sfree /\ disk'.bits = disk.bits
  <2>1. disk' = WithSuper(disk, TRUE, s.count, s.free)
    BY <1>2 DEF MountSuper, WithSuper
  <2>2. DiskOK(disk)
    BY DEF BitsInv
  <2>3. disk' = [normal |-> TRUE, count |-> s.count, sfree |-> disk.sfree, free |-> s.free, bits |-> disk.bits]
    BY <2>1, <2>2, DiskSuper
  <2> QED  BY <2>3
<1>6. s.count \in CountType /\ s.free \in FreeType
  BY <1>1, <1>2, FormattedType DEF TypeInv
<1>7. TypeInv' /\ MirrorInv'
  <2>1. /\ sb'.count = s.count /\ sb'.sfree = disk.sfree /\ sb'.free = s.free
        /\ sb' = [count |-> sb'.count, sfree |-> sb'.sfree, free |-> sb'.free, ndesc |-> sb'.ndesc]
    BY <1>4
  <2>2. TypeInv'
    BY <1>1, <1>3, <1>5, <1>6, <2>1 DEF TypeInv
  <2>3. Mirrors(s.count, disk.sfree)
    BY <1>1, <1>2, FormattedMirrors DEF MirrorInv
  <2> QED  BY <1>5, <2>1, <2>2, <2>3 DEF MirrorInv
<1>8. UsedInv'
  BY <1>1, <1>3, <1>5 DEF UsedInv
<1>9. RootInv' /\ SyncInv'
  BY <1>1, <1>3, <1>5 DEF RootInv, SyncInv
<1>10. FlushInv' /\ CountInv'
  BY <1>3 DEF FlushInv, CountInv
<1>11. ASSUME ~torn
       PROVE  /\ BlocksMatch'
              /\ (InodesMatch' /\ ROOT_INODE \in disk'.bits[0]["inode"]) \/ (InodesFresh' /\ disk'.bits[0]["inode"] = {})
              /\ sb'.ndesc = 1
  <2>0. 0 \in Groups /\ disk.bits \in GroupBits
    BY MaxGroupsAssumption DEF Groups, BitsInv, DiskOK
  <2>1. CASE disk.normal
    <3>1. s.count = disk.count /\ s.free = disk.free /\ sb'.ndesc = num_block_groups(s)
      BY <1>2, <1>4, <2>1
    <3>2. BlocksMatch /\ ((InodesMatch /\ ROOT_INODE \in disk.bits[0]["inode"]) \/ (InodesFresh /\ disk.bits[0]["inode"] = {}))
      BY <1>1, <1>3, <1>11, <2>1 DEF DiskInv
    <3>3. PICK x \in 0 .. BlocksPerGroup : x = Cardinality(disk.bits[0]["block"])
      BY <2>0, GroupCard, KindFacts DEF Kinds
    <3>4. s.count["block"] = 3 + x
      BY <3>1, <3>2, <3>3 DEF BlocksMatch
    <3>5. s.count["inode"] \in 0 .. InodesPerGroup
      <4>1. Cardinality(disk.bits[0]["inode"]) \in 0 .. InodesPerGroup
        BY <2>0, GroupCard, KindFacts DEF Kinds
      <4>2. 1 \in 0 .. InodesPerGroup
        BY InodesPerGroupAssumption
      <4> QED  BY <3>1, <3>2, <4>1, <4>2 DEF InodesMatch, InodesFresh
    <3>6. num_block_groups(s) = 1
      BY <3>4, <3>5, OneGroup
    <3> QED  BY <1>5, <3>1, <3>2, <3>6 DEF BlocksMatch, InodesMatch, InodesFresh
  <2>2. CASE ~disk.normal
    <3>1. s = Formatted /\ sb'.ndesc = 1
      BY <1>2, <1>4, <2>2
    <3>2. disk.bits[0]["block"] = {} /\ disk.bits[0]["inode"] = {}
      BY <1>1, <2>2, NoBitsOK DEF UsedInv, Kinds
    <3>3. FreeOf(disk.bits, 0, "block") = BlocksPerGroup
      <4>1. Cardinality(disk.bits[0]["block"]) = 0
        BY <3>2, FS_EmptySet
      <4>2. Bits["block"] = BlocksPerGroup
        BY KindFacts DEF Kinds
      <4> QED  BY <4>1, <4>2, BlocksPerGroupAssumption DEF FreeOf
    <3>4. Cardinality(disk.bits[0]["block"]) = 0
      BY <3>2, FS_EmptySet
    <3>5. BlocksMatch'
      BY <1>5, <3>1, <3>3, <3>4, FormattedType DEF BlocksMatch
    <3>6. InodesFresh'
      BY <1>5, <3>1, FormattedType DEF InodesFresh
    <3> QED  BY <1>5, <3>1, <3>2, <3>5, <3>6
  <2> QED  BY <2>1, <2>2
<1>12. DiskInv'
  <2>1. sb'.count = disk'.count /\ sb'.free = disk'.free
    BY <1>4, <1>5
  <2> QED  BY <1>3, <1>11, <2>1 DEF DiskInv, Mounting
<1> QED  BY <1>7, <1>8, <1>9, <1>10, <1>12 DEF GroupsInv

\* The root is found on disk, or created as inode 0 of group 0.
MountedAs(b) ==
  /\ loaded' = {0}
  /\ bits' \in GroupBits /\ bits'[0] = b
  /\ used' = SetKind(used, "inode", used["inode"] \cup {ROOT_INODE})
  /\ todo' = {0} \X Pieces
  /\ phase = "super" /\ phase' = "flush" /\ job' = "mount"
  /\ UNCHANGED <<disk, synced, torn, frees>>

RootFound ==
  /\ ROOT_INODE \in disk.bits[0]["inode"]
  /\ MountedAs(disk.bits[0])
  /\ sb' = sb

RootCreated ==
  /\ ROOT_INODE \notin disk.bits[0]["inode"]
  /\ MountedAs(Marked(disk.bits[0], "inode", ROOT_INODE))
  /\ SbOK(sb') /\ sb'.count = sb.count /\ sb'.sfree = sb.sfree /\ sb'.ndesc = sb.ndesc
  /\ sb'.free = SetFree(sb.free, 0, "inode", (sb.free[0]["inode"] - 1) % Short)

LEMMA MountGroupEffect ==
  ASSUME BitsInv, BitsInv', GroupsInv, MountGroup
  PROVE  RootFound \/ RootCreated
<1>1. /\ phase = "super" /\ phase' = "flush" /\ job' = "mount" /\ todo' = {0} \X Pieces
      /\ ~Live /\ loaded = {} /\ 0 \in Groups /\ "inode" \in Kinds
      /\ UNCHANGED <<disk, synced, torn, frees>>
  BY MaxGroupsAssumption DEF MountGroup, Live, GroupsInv, UsedInv, Kinds, Groups
<1>2. DiskOK(disk) /\ disk.bits \in GroupBits /\ bits \in GroupBits /\ bits' \in GroupBits
  BY DEF BitsInv, DiskOK
<1>3. PICK m : m = Load(Memory, 0)
  OBVIOUS
<1>4. m.sb = sb /\ m.loaded = {0} /\ m.bits = SetBits(bits, 0, disk.bits[0]) /\ MemOK(m)
  <2> DEFINE b == SetBits(bits, 0, disk.bits[0])
             m1 == [Memory EXCEPT !.loaded = {0}]
  <2>1. m = [m1 EXCEPT !.bits = [m1.bits EXCEPT ![0] = disk.bits[0]]]
    BY <1>1, <1>3 DEF Load, Memory
  <2>2. m1 = [sb |-> sb, loaded |-> {0}, bits |-> bits]
    BY DEF Memory
  <2> HIDE DEF m1
  <2>3. m = [m1 EXCEPT !.bits = b]
    BY <2>1, <2>2 DEF SetBits
  <2> HIDE DEF b
  <2>4. m = [sb |-> sb, loaded |-> {0}, bits |-> b]
    BY <2>2, <2>3
  <2>5. MemOK(m)
    BY <1>2, <1>1, <1>3, MemoryOK, LoadOK
  <2> QED  BY <2>4, <2>5 DEF b
<1>5. m.bits[0] = disk.bits[0]
  BY <1>1, <1>2, <1>4 DEF SetBits, GroupBits
<1>6. PICK r : r = IF ROOT_INODE \in m.bits[0]["inode"] THEN m ELSE TakeBit(m, 0, "inode")
  OBVIOUS
<1>7. /\ sb' = r.sb /\ loaded' = r.loaded /\ bits' = r.bits
      /\ used' = SetKind(used, "inode", used["inode"] \cup {ROOT_INODE})
  BY <1>3, <1>6 DEF MountGroup, Become, SetKind
<1>9. CASE ROOT_INODE \in disk.bits[0]["inode"]
  <2>1. sb' = sb /\ loaded' = {0} /\ bits'[0] = disk.bits[0]
    BY <1>4, <1>5, <1>6, <1>7, <1>9
  <2> QED  BY <1>1, <1>2, <1>7, <1>9, <2>1 DEF RootFound, MountedAs
<1>10. CASE ROOT_INODE \notin disk.bits[0]["inode"]
  <2>1. SbOK(m.sb)
    BY <1>4, MemorySb DEF Memory
  <2>2. ~Full(m, 0, "inode")
    <3>1. 0 \in Searched("inode")
      BY <1>1, KindFacts
    <3> QED  BY <1>5, <1>10, <3>1 DEF Full, ROOT_INODE
  <2>3. FirstBit(m, 0, "inode") = ROOT_INODE
    BY <1>1, <1>4, <1>5, <1>10, <2>2, FirstBitFree DEF ROOT_INODE
  <2>4. r = TakeBit(m, 0, "inode")
    BY <1>5, <1>6, <1>10
  <2>5. /\ r.loaded = m.loaded
        /\ r.bits = SetBits(m.bits, 0, Marked(m.bits[0], "inode", ROOT_INODE))
        /\ r.sb.count = m.sb.count /\ r.sb.sfree = m.sb.sfree /\ r.sb.ndesc = m.sb.ndesc
        /\ r.sb.free = SetFree(m.sb.free, 0, "inode", (m.sb.free[0]["inode"] - 1) % Short)
        /\ SbOK(r.sb)
    <3>1. MemOK(m)
      BY <1>4
    <3> QED  BY <1>1, <2>1, <2>2, <2>3, <2>4, <3>1, TakeEffect
  <2>6. bits'[0] = Marked(disk.bits[0], "inode", ROOT_INODE)
    BY <1>1, <1>4, <1>5, <1>7, <2>5 DEF SetBits, MemOK, GroupBits
  <2>7. /\ SbOK(sb') /\ sb'.count = sb.count /\ sb'.sfree = sb.sfree /\ sb'.ndesc = sb.ndesc /\ loaded' = {0}
        /\ sb'.free = SetFree(sb.free, 0, "inode", (sb.free[0]["inode"] - 1) % Short)
    BY <1>4, <1>7, <2>5
  <2> QED  BY <1>1, <1>2, <1>7, <1>10, <2>6, <2>7 DEF RootCreated, MountedAs
<1> QED  BY <1>9, <1>10

\* The block of the inode table that has inode i is one of the pieces.
LEMMA TablePiece ==
  ASSUME NEW i \in 0 .. InodesPerGroup - 1
  PROVE  2 + (i \div InodesPerBlock) \in Pieces /\ i \div InodesPerBlock \in Nat
<1>1. PICK q \in 0 .. InodeTable - 1 : q = i \div InodesPerBlock
  BY TableBlock
<1> QED  BY <1>1, Sizes DEF Pieces

LEMMA Mounted ==
  ASSUME BitsInv, BitsInv', GroupsInv, NEW b, MountedAs(b),
         b["block"] = disk.bits[0]["block"],
         b["inode"] = disk.bits[0]["inode"] \cup {ROOT_INODE},
         disk.bits[0]["table"] \subseteq b["table"]
  PROVE  /\ UsedInv' /\ RootInv' /\ SyncInv' /\ FlushInv'
         /\ used'["block"] = b["block"] /\ used'["inode"] = b["inode"]
<1>1. /\ phase = "super" /\ phase' = "flush" /\ job' = "mount" /\ ~Live /\ Live' /\ Mounting'
      /\ loaded' = {0} /\ bits'[0] = b /\ todo' = {0} \X Pieces
      /\ disk' = disk /\ torn' = torn /\ synced' = synced
  BY DEF MountedAs, Live, Mounting
<1>2. UsedInv /\ SyncInv
  BY DEF GroupsInv
<1>3. /\ used = [l \in Kinds |-> used[l]]
      /\ used' = SetKind(used, "inode", used["inode"] \cup {ROOT_INODE})
  BY DEF BitsInv, UsedOK, MountedAs
<1>4. 0 \in Groups /\ {0} \in SUBSET Groups /\ Groups \in SUBSET Groups /\ 0 \in {0}
  BY MaxGroupsAssumption DEF Groups
<1>5. disk.bits \in GroupBits /\ bits' \in GroupBits
  BY DEF BitsInv, DiskOK
<1>6. \A g \in Groups \ {0} : disk.bits[g] = NoBits
  BY <1>1, <1>2 DEF UsedInv
<1>7. \A k \in Kinds : used[k] = disk.bits[0][k]
  <2> SUFFICES ASSUME NEW k \in Kinds PROVE used[k] = disk.bits[0][k]
    OBVIOUS
  <2>1. used[k] = Marks(disk.bits, Groups, k)
    BY <1>1, <1>2 DEF UsedInv
  <2>2. \A g \in Groups \ {0} : disk.bits[g][k] = {}
    BY <1>6, NoBitsOK
  <2> QED  BY <1>4, <1>5, <2>1, <2>2, MarksOne
<1>8. \A k \in Kinds : Marks(bits', {0}, k) = b[k]
  BY <1>1, <1>4, <1>5, MarksOne
<1>9. /\ used'["block"] = b["block"] /\ used'["inode"] = b["inode"]
      /\ \A k \in Kinds : used'[k] = b[k] /\ used[k] \subseteq used'[k]
  BY <1>3, <1>7 DEF SetKind, Kinds
<1>10. UsedInv'
  <2>1. \A k \in Kinds : used'[k] = Marks(bits', loaded', k)
    BY <1>1, <1>8, <1>9
  <2>2. \A g \in Groups \ loaded' : disk'.bits[g] = NoBits
    BY <1>1, <1>6
  <2> QED  BY <1>1, <1>2, <2>1, <2>2 DEF UsedInv
<1>11. RootInv'
  BY <1>1 DEF RootInv
<1>12. SyncInv'
  <2>1. \A k \in Kinds : synced'[k] \subseteq used'[k]
    BY <1>1, <1>2, <1>9 DEF SyncInv
  <2>2. \A k \in Kinds : synced'[k] \subseteq Marks(disk'.bits, Groups, k)
    BY <1>1, <1>2 DEF SyncInv
  <2>3. ASSUME NEW x \in synced["inode"]
        PROVE  GroupOf("inode", x) = 0 /\ BitOf("inode", x) \in b["table"]
    <3>1. x \in Marks(bits', {0}, "inode")
      BY <1>1, <1>8, <1>9, <2>1, <2>3 DEF Kinds
    <3>2. GroupOf("inode", x) = 0
      BY <3>1 DEF Marks
    <3> QED  BY <1>2, <2>3, <3>2 DEF SyncInv
  <2>4. \A x \in synced["inode"] : BitOf("inode", x) \in disk.bits[GroupOf("inode", x)]["table"]
    BY <1>2 DEF SyncInv
  <2> QED  BY <1>1, <2>1, <2>2, <2>3, <2>4 DEF SyncInv
<1>13. FlushInv'
  <2>1. \A j \in Pieces : <<0, j>> \in todo'
    BY <1>1
  <2>2. 0 \in Pieces /\ 1 \in Pieces
    BY Sizes DEF Pieces
  <2>3. \A i \in 0 .. InodesPerGroup - 1 : 2 + (i \div InodesPerBlock) \in Pieces
    BY TablePiece
  <2>4. Flushed(todo', 0, bits'[0], disk'.bits[0])
    BY <2>1, <2>2, <2>3 DEF Flushed
  <2> QED  BY <1>1, <2>4 DEF FlushInv
<1> QED  BY <1>9, <1>10, <1>11, <1>12, <1>13

LEMMA MountGroupGroups ==
  ASSUME BitsInv, BitsInv', GroupsInv, MountGroup
  PROVE  GroupsInv'
<1>1. RootFound \/ RootCreated
  BY MountGroupEffect
<1>2. TypeInv /\ MirrorInv /\ UsedInv /\ DiskInv
  BY DEF GroupsInv
<1>3. 0 \in Groups /\ "inode" \in Kinds /\ "block" \in Kinds /\ disk.bits \in GroupBits /\ disk.bits[0] \in PartBits
  BY MaxGroupsAssumption DEF Groups, Kinds, BitsInv, DiskOK, GroupBits
<1>4. Bits["block"] = BlocksPerGroup /\ Bits["inode"] = InodesPerGroup
  BY KindFacts DEF Kinds
<1>5. ~torn => /\ sb.ndesc = 1 /\ sb.count = disk.count /\ sb.free = disk.free
               /\ BlocksMatch
               /\ \/ InodesMatch /\ ROOT_INODE \in disk.bits[0]["inode"]
                  \/ InodesFresh /\ disk.bits[0]["inode"] = {}
  <2>1. phase = "super" /\ ~Live /\ disk.normal
    BY <1>1, <1>2 DEF RootFound, RootCreated, MountedAs, Live, UsedInv
  <2> QED  BY <1>2, <2>1 DEF DiskInv
<1>6. CASE RootFound
  <2>1. PICK b : b = disk.bits[0]
    OBVIOUS
  <2>2. /\ MountedAs(b) /\ b["block"] = disk.bits[0]["block"]
        /\ b["inode"] = disk.bits[0]["inode"] \cup {ROOT_INODE}
        /\ disk.bits[0]["table"] \subseteq b["table"]
    BY <1>6, <2>1 DEF RootFound
  <2>3. /\ UsedInv' /\ RootInv' /\ SyncInv' /\ FlushInv'
        /\ used'["block"] = b["block"] /\ used'["inode"] = b["inode"]
    BY <2>2, Mounted
  <2>4. /\ sb' = sb /\ Live' /\ phase' = "flush" /\ job' = "mount" /\ loaded' = {0} /\ torn' = torn
        /\ phase # "down" /\ disk' = disk /\ synced' = synced /\ bits'[0] = b
    BY <1>6, <2>1 DEF RootFound, MountedAs, Live
  <2>5. TypeInv'
    BY <1>2, <2>4 DEF TypeInv
  <2>6. MirrorInv'
    BY <1>2, <2>4 DEF MirrorInv
  <2>7. ASSUME ~torn
        PROVE  BlocksMatch /\ InodesMatch /\ sb.count = disk.count /\ sb.free = disk.free /\ sb.ndesc = 1
    BY <1>5, <1>6, <2>7 DEF RootFound
  <2>8. CountInv'
    <3> SUFFICES ASSUME ~torn
                 PROVE  /\ sb.ndesc \in 1 .. MaxGroups
                        /\ {0} = 0 .. sb.ndesc - 1
                        /\ sb.count["block"] = 3 + Cardinality(b["block"])
                        /\ sb.count["inode"] = Cardinality(b["inode"])
                        /\ \A k \in Kinds : sb.free[0][k] = FreeOf(bits', 0, k)
      BY <2>3, <2>4 DEF CountInv
    <3>1. sb.ndesc \in 1 .. MaxGroups /\ {0} = 0 .. sb.ndesc - 1
      BY <2>7, MaxGroupsAssumption
    <3>2. \A k \in Kinds : FreeOf(bits', 0, k) = FreeOf(disk.bits, 0, k)
      BY <2>1, <2>4 DEF FreeOf
    <3> QED  BY <2>1, <2>7, <3>1, <3>2 DEF BlocksMatch, InodesMatch, Kinds
  <2>9. DiskInv'
    <3>1. ~torn => BlocksMatch' /\ InodesMatch'
      BY <2>4, <2>7 DEF BlocksMatch, InodesMatch
    <3> QED  BY <2>1, <2>4, <3>1 DEF DiskInv
  <2> QED  BY <2>3, <2>5, <2>6, <2>8, <2>9 DEF GroupsInv
<1>7. CASE RootCreated
  <2>1. PICK b : b = Marked(disk.bits[0], "inode", ROOT_INODE)
    OBVIOUS
  <2>2. \A p \in Parts : b[p] = disk.bits[0][p] \cup (IF p = "inode" \/ p = "table" THEN {ROOT_INODE} ELSE {})
    BY <1>3, <2>1, MarkedParts
  <2>3. /\ MountedAs(b) /\ b["block"] = disk.bits[0]["block"]
        /\ b["inode"] = disk.bits[0]["inode"] \cup {ROOT_INODE}
        /\ disk.bits[0]["table"] \subseteq b["table"]
    BY <1>7, <2>1, <2>2 DEF RootCreated, Parts, Kinds
  <2>4. /\ UsedInv' /\ RootInv' /\ SyncInv' /\ FlushInv'
        /\ used'["block"] = b["block"] /\ used'["inode"] = b["inode"]
    BY <2>3, Mounted
  <2>5. /\ SbOK(sb') /\ sb'.count = sb.count /\ sb'.sfree = sb.sfree /\ sb'.ndesc = sb.ndesc
        /\ sb'.free = SetFree(sb.free, 0, "inode", (sb.free[0]["inode"] - 1) % Short)
        /\ Live' /\ phase' = "flush" /\ job' = "mount" /\ loaded' = {0} /\ torn' = torn
        /\ phase # "down" /\ disk' = disk /\ synced' = synced /\ bits'[0] = b
    BY <1>7, <2>1 DEF RootCreated, MountedAs, Live
  <2>6. TypeInv'
    BY <1>2, <2>5 DEF TypeInv, SbOK
  <2>7. MirrorInv'
    BY <1>2, <2>5 DEF MirrorInv
  <2>8. ASSUME ~torn
        PROVE  /\ BlocksMatch /\ InodesFresh /\ b["inode"] = {ROOT_INODE}
               /\ sb.count = disk.count /\ sb.free = disk.free /\ sb.ndesc = 1
    BY <1>5, <1>7, <2>3, <2>8 DEF RootCreated
  <2>9. CountInv'
    <3> SUFFICES ASSUME ~torn
                 PROVE  /\ sb.ndesc \in 1 .. MaxGroups
                        /\ {0} = 0 .. sb.ndesc - 1
                        /\ sb.count["block"] = 3 + Cardinality(b["block"])
                        /\ sb.count["inode"] = Cardinality(b["inode"])
                        /\ sb'.free[0]["block"] = FreeOf(bits', 0, "block")
                        /\ sb'.free[0]["inode"] = FreeOf(bits', 0, "inode")
      BY <2>4, <2>5 DEF CountInv, Kinds
    <3>1. sb.ndesc \in 1 .. MaxGroups /\ {0} = 0 .. sb.ndesc - 1
      BY <2>8, MaxGroupsAssumption
    <3>2. sb.count["block"] = 3 + Cardinality(b["block"])
      BY <2>3, <2>8 DEF BlocksMatch
    <3>3. Cardinality(b["inode"]) = 1
      BY <2>8, FS_Singleton
    <3>4. sb.count["inode"] = 1
      BY <2>8 DEF InodesFresh
    <3>5. /\ sb'.free[0]["block"] = sb.free[0]["block"]
          /\ sb'.free[0]["inode"] = (sb.free[0]["inode"] - 1) % Short
      <4>1. sb.free \in FreeType
        BY <1>2 DEF TypeInv
      <4> QED  BY <1>3, <2>5, <4>1 DEF SetFree, FreeType
    <3>6. sb'.free[0]["block"] = FreeOf(bits', 0, "block")
      BY <2>3, <2>5, <2>8, <3>5 DEF BlocksMatch, FreeOf
    <3>7. sb'.free[0]["inode"] = InodesPerGroup - 1 - 1
      <4>1. sb.free[0]["inode"] = InodesPerGroup - 1
        BY <2>8 DEF InodesFresh
      <4>2. PICK z \in Nat : z = InodesPerGroup - 1 - 1 /\ z < Short
        BY InodesPerGroupAssumption, WidthAssumption
      <4>3. z % Short = z
        BY <4>2, WidthAssumption
      <4> QED  BY <3>5, <4>1, <4>2, <4>3
    <3>8. FreeOf(bits', 0, "inode") = InodesPerGroup - 1 - 1
      BY <1>4, <2>5, <3>3 DEF FreeOf
    <3> QED  BY <3>1, <3>2, <3>3, <3>4, <3>6, <3>7, <3>8
  <2>10. DiskInv'
    <3>1. ~torn => NeverFlushed'
      BY <2>5, <2>8 DEF InodesFresh, NeverFlushed
    <3> QED  BY <2>5, <3>1 DEF DiskInv
  <2> QED  BY <2>4, <2>6, <2>7, <2>9, <2>10 DEF GroupsInv
<1> QED  BY <1>1, <1>6, <1>7

(***************************************************************************)
(* Flush.                                                                  *)
(***************************************************************************)
LEMMA FlushSuperGroups ==
  ASSUME BitsInv, GroupsInv, ~AnyRemount, NEW j \in {"sync", "unmount"}, FlushSuper(j)
  PROVE  GroupsInv'
<1>1. TypeInv /\ MirrorInv /\ UsedInv /\ RootInv /\ SyncInv /\ CountInv
  BY DEF GroupsInv
<1>2. /\ phase = "up" /\ Live /\ Live' /\ ~Mounting /\ ~Mounting' /\ phase' = "flush"
      /\ job' = j /\ (j = "unmount" => sb.ndesc = 1)
      /\ todo' = loaded \X Pieces
      /\ sb' = sb /\ loaded' = loaded /\ bits' = bits
      /\ UNCHANGED <<used, synced, torn, frees>>
  BY DEF FlushSuper, Live, memory, Remountable, Mounting
<1>3. /\ disk'.normal = disk.normal /\ disk'.count = sb.count /\ disk'.sfree = sb.sfree
      /\ disk'.free = sb.free /\ disk'.bits = disk.bits
  <2>1. disk' = WithCounts(disk, sb.count, sb.sfree, sb.free)
    BY DEF FlushSuper, WithCounts
  <2>2. DiskOK(disk)
    BY DEF BitsInv
  <2>3. disk' = [normal |-> disk.normal, count |-> sb.count, sfree |-> sb.sfree, free |-> sb.free, bits |-> disk.bits]
    BY <2>1, <2>2, DiskCounts
  <2> QED  BY <2>3
<1>4. TypeInv' /\ MirrorInv'
  <2>1. TypeInv'
    BY <1>1, <1>2, <1>3 DEF TypeInv
  <2>2. disk.normal /\ Mirrors(sb.count, sb.sfree)
    BY <1>1, <1>2 DEF UsedInv, MirrorInv
  <2> QED  BY <1>2, <1>3, <2>1, <2>2 DEF MirrorInv
<1>5. UsedInv'
  BY <1>1, <1>2, <1>3 DEF UsedInv
<1>6. RootInv' /\ SyncInv'
  BY <1>1, <1>2, <1>3 DEF RootInv, SyncInv
<1>7. FlushInv'
  <2>1. ASSUME NEW g \in loaded PROVE Flushed(todo', g, bits'[g], disk'.bits[g])
    <3>1. \A p \in Pieces : <<g, p>> \in todo'
      BY <1>2
    <3>2. 0 \in Pieces /\ 1 \in Pieces
      BY Sizes DEF Pieces
    <3>3. \A i \in 0 .. InodesPerGroup - 1 : 2 + (i \div InodesPerBlock) \in Pieces
      BY TablePiece
    <3> QED  BY <3>1, <3>2, <3>3 DEF Flushed
  <2> QED  BY <1>2, <1>3, <2>1 DEF FlushInv
<1>8. CountInv'
  BY <1>1, <1>2 DEF CountInv
<1>9. DiskInv'
  BY <1>2 DEF DiskInv
<1> QED  BY <1>4, <1>5, <1>6, <1>7, <1>8, <1>9 DEF GroupsInv

\* A piece is written: every bit of it is then the one in memory, every other
\* bit the one that was on disk.
LEMMA WrittenBits ==
  ASSUME NEW b \in PartBits, NEW d \in PartBits, NEW j \in Pieces, NEW c, c = Written(b, d, j)
  PROVE  /\ c["block"] = IF j = 0 THEN d["block"] ELSE b["block"]
         /\ c["inode"] = IF j = 1 THEN d["inode"] ELSE b["inode"]
         /\ \A i : i \in c["table"] <=> IF j \notin {0, 1} /\ i \div InodesPerBlock = j - 2
                                       THEN i \in d["table"] ELSE i \in b["table"]
<1>0. b \in [Parts -> SUBSET Nat] /\ "block" \in Parts /\ "inode" \in Parts /\ "table" \in Parts
  BY DEF PartBits, Parts, Kinds
<1>1. CASE j = 0
  <2>1. c = [b EXCEPT !["block"] = d["block"]]
    BY <1>1 DEF Written
  <2> QED  BY <1>0, <1>1, <2>1
<1>2. CASE j = 1
  <2>1. c = [b EXCEPT !["inode"] = d["inode"]]
    BY <1>2 DEF Written
  <2> QED  BY <1>0, <1>2, <2>1
<1>3. CASE j \notin {0, 1}
  <2>1. PICK X : /\ X = (b["table"] \ InBlock(b["table"], j - 2)) \cup InBlock(d["table"], j - 2)
                 /\ c = [b EXCEPT !["table"] = X]
    BY <1>3 DEF Written
  <2>2. c["block"] = b["block"] /\ c["inode"] = b["inode"] /\ c["table"] = X
    BY <1>0, <2>1
  <2>3. \A i : i \in X <=> IF i \div InodesPerBlock = j - 2 THEN i \in d["table"] ELSE i \in b["table"]
    BY <2>1 DEF InBlock
  <2> QED  BY <1>3, <2>2, <2>3
<1> QED  BY <1>1, <1>2, <1>3

\* Writing what is there changes nothing.
LEMMA WrittenSame ==
  ASSUME NEW b \in PartBits, NEW j \in Pieces
  PROVE  Written(b, b, j) = b
<1>1. PICK c : c = Written(b, b, j)
  OBVIOUS
<1>2. c \in PartBits
  BY <1>1, WrittenOK
<1>3. /\ c["block"] = b["block"] /\ c["inode"] = b["inode"]
      /\ \A i : i \in c["table"] <=> i \in b["table"]
  BY <1>1, WrittenBits
<1>4. c["table"] = b["table"]
  BY <1>3
<1>5. c = b
  BY <1>2, <1>3, <1>4 DEF PartBits, Parts, Kinds
<1> QED  BY <1>1, <1>5

\* The group is then written as far as the rest of the pieces says.
LEMMA WrittenFlushed ==
  ASSUME NEW b \in PartBits, NEW d \in PartBits, NEW j \in Pieces, NEW c, c = Written(b, d, j),
         NEW T, NEW g, Flushed(T, g, d, b)
  PROVE  Flushed(T \ {<<g, j>>}, g, d, c)
<1>1. /\ c["block"] = IF j = 0 THEN d["block"] ELSE b["block"]
      /\ c["inode"] = IF j = 1 THEN d["inode"] ELSE b["inode"]
      /\ \A i : i \in c["table"] <=> IF j \notin {0, 1} /\ i \div InodesPerBlock = j - 2
                                    THEN i \in d["table"] ELSE i \in b["table"]
  BY WrittenBits
<1>2. <<g, 0>> \notin T \ {<<g, j>>} => c["block"] = d["block"]
  BY <1>1 DEF Flushed
<1>3. <<g, 1>> \notin T \ {<<g, j>>} => c["inode"] = d["inode"]
  BY <1>1 DEF Flushed
<1>4. ASSUME NEW i \in 0 .. InodesPerGroup - 1, <<g, 2 + (i \div InodesPerBlock)>> \notin T \ {<<g, j>>}
      PROVE  i \in c["table"] <=> i \in d["table"]
  <2>1. PICK q \in Nat : q = i \div InodesPerBlock
    BY TablePiece
  <2>2. CASE j = 2 + q
    <3>1. j \notin {0, 1} /\ q = j - 2
      BY <2>2
    <3> QED  BY <1>1, <2>1, <3>1
  <2>3. CASE j # 2 + q
    <3>1. <<g, 2 + q>> \notin T
      BY <1>4, <2>1, <2>3
    <3>2. i \in b["table"] <=> i \in d["table"]
      BY <2>1, <3>1 DEF Flushed
    <3> QED  BY <1>1, <3>2
  <2> QED  BY <2>2, <2>3
<1> QED  BY <1>2, <1>3, <1>4 DEF Flushed

LEMMA FlushPieceGroups ==
  ASSUME BitsInv, GroupsInv, NEW g \in Groups, NEW j \in Pieces, FlushPiece(g, j)
  PROVE  GroupsInv'
<1>1. TypeInv /\ MirrorInv /\ UsedInv /\ RootInv /\ SyncInv /\ FlushInv /\ CountInv /\ DiskInv
  BY DEF GroupsInv
<1>2. /\ phase = "flush" /\ phase' = "flush" /\ Live /\ Live'
      /\ sb' = sb /\ loaded' = loaded /\ bits' = bits
      /\ <<g, j>> \in todo /\ todo' = todo \ {<<g, j>>}
      /\ UNCHANGED <<job, used, synced, torn, frees>>
  BY DEF FlushPiece, Live, memory
<1>3. todo \subseteq loaded \X Pieces /\ loaded \subseteq Groups /\ g \in loaded
  BY <1>1, <1>2 DEF FlushInv, BitsInv
<1>4. PICK b, d : b = disk.bits[g] /\ d = bits[g]
  OBVIOUS
<1>5. b \in PartBits /\ d \in PartBits
  BY <1>4 DEF BitsInv, DiskOK, GroupBits
<1>6. PICK c : c = Written(b, d, j)
  OBVIOUS
<1>7. /\ disk'.normal = disk.normal /\ disk'.count = disk.count /\ disk'.sfree = disk.sfree
      /\ disk'.free = disk.free /\ disk'.bits[g] = c
      /\ \A h \in Groups \ {g} : disk'.bits[h] = disk.bits[h]
  <2> DEFINE e == [disk.bits EXCEPT ![g] = c]
  <2>1. disk' = [disk EXCEPT !.bits = e]
    BY <1>4, <1>6 DEF FlushPiece
  <2>2. e[g] = c /\ \A h \in Groups \ {g} : e[h] = disk.bits[h]
    BY DEF BitsInv, DiskOK, GroupBits
  <2> HIDE DEF e
  <2>3. disk' = [normal |-> disk.normal, count |-> disk.count, sfree |-> disk.sfree, free |-> disk.free, bits |-> e]
    BY <2>1 DEF BitsInv, DiskOK
  <2> QED  BY <2>2, <2>3
<1>8. \A p \in Parts : \A i : i \in b[p] /\ i \in d[p] => i \in c[p]
  <2>1. /\ c["block"] = IF j = 0 THEN d["block"] ELSE b["block"]
        /\ c["inode"] = IF j = 1 THEN d["inode"] ELSE b["inode"]
        /\ \A i : i \in c["table"] <=> IF j \notin {0, 1} /\ i \div InodesPerBlock = j - 2
                                      THEN i \in d["table"] ELSE i \in b["table"]
    BY <1>5, <1>6, WrittenBits
  <2> QED  BY <2>1 DEF Parts, Kinds
<1>9. ASSUME NEW h \in loaded, NEW p \in Parts, NEW i, i \in disk.bits[h][p], i \in bits[h][p]
      PROVE  i \in disk'.bits[h][p]
  <2>1. CASE h = g
    BY <1>4, <1>7, <1>8, <1>9, <2>1
  <2>2. CASE h # g
    BY <1>3, <1>7, <1>9, <2>2
  <2> QED  BY <2>1, <2>2
<1>10. TypeInv' /\ MirrorInv'
  <2>1. TypeInv'
    BY <1>1, <1>2, <1>7 DEF TypeInv
  <2> QED  BY <1>1, <1>2, <1>7, <2>1 DEF MirrorInv
<1>11. UsedInv'
  <2>1. \A h \in Groups \ loaded' : disk'.bits[h] = NoBits
    BY <1>1, <1>2, <1>3, <1>7 DEF UsedInv
  <2> QED  BY <1>1, <1>2, <1>7, <2>1 DEF UsedInv
<1>12. RootInv'
  <2>1. 0 \in loaded /\ "inode" \in Parts /\ (Mounting' <=> Mounting)
    BY <1>1, <1>2 DEF UsedInv, Parts, Kinds, Mounting
  <2> QED  BY <1>1, <1>2, <1>9, <2>1 DEF RootInv
<1>13. SyncInv'
  <2>1. ASSUME NEW k \in Kinds, NEW x \in synced[k]
        PROVE  x \in Marks(disk'.bits, Groups, k)
    <3>1. x \in used[k] /\ x \in Marks(disk.bits, Groups, k)
      BY <1>1, <2>1 DEF SyncInv
    <3>2. /\ x \in Indices(k) /\ GroupOf(k, x) \in loaded /\ GroupOf(k, x) \in Groups
          /\ BitOf(k, x) \in bits[GroupOf(k, x)][k]
      BY <1>2, <3>1, UsedLoaded
    <3>3. BitOf(k, x) \in disk.bits[GroupOf(k, x)][k] /\ k \in Parts
      BY <3>1, KindFacts DEF Marks
    <3>4. BitOf(k, x) \in disk'.bits[GroupOf(k, x)][k]
      BY <1>9, <3>2, <3>3
    <3> QED  BY <3>2, <3>4 DEF Marks
  <2>2. ASSUME NEW x \in synced["inode"]
        PROVE  BitOf("inode", x) \in disk'.bits[GroupOf("inode", x)]["table"]
    <3>1. x \in used["inode"] /\ "inode" \in Kinds /\ "table" \in Parts
      BY <1>1, <2>2 DEF SyncInv, Kinds, Parts
    <3>2. GroupOf("inode", x) \in loaded
      BY <1>2, <3>1, UsedLoaded
    <3>3. /\ BitOf("inode", x) \in disk.bits[GroupOf("inode", x)]["table"]
          /\ BitOf("inode", x) \in bits[GroupOf("inode", x)]["table"]
      BY <1>1, <1>2, <2>2 DEF SyncInv
    <3> QED  BY <1>9, <3>1, <3>2, <3>3
  <2> QED  BY <1>1, <1>2, <2>1, <2>2 DEF SyncInv
<1>14. FlushInv'
  <2>1. todo' \subseteq loaded' \X Pieces
    BY <1>2, <1>3
  <2>2. ASSUME NEW h \in loaded PROVE Flushed(todo', h, bits[h], disk'.bits[h])
    <3>1. Flushed(todo, h, bits[h], disk.bits[h])
      BY <1>1, <1>2 DEF FlushInv
    <3>2. CASE h = g
      BY <1>2, <1>4, <1>5, <1>6, <1>7, <3>1, <3>2, WrittenFlushed
    <3>3. CASE h # g
      <4>1. disk'.bits[h] = disk.bits[h] /\ \A p : <<h, p>> \notin todo' => <<h, p>> \notin todo
        BY <1>2, <1>3, <1>7, <3>3
      <4> QED  BY <3>1, <4>1 DEF Flushed
    <3> QED  BY <3>2, <3>3
  <2> QED  BY <1>1, <1>2, <1>7, <2>1, <2>2 DEF FlushInv
<1>15. CountInv'
  BY <1>1, <1>2 DEF CountInv
<1>16. DiskInv'
  <2> SUFFICES ASSUME ~torn, Mounting, ~NeverFlushed
               PROVE  /\ sb.ndesc = 1 => BlocksMatch' /\ InodesMatch'
                      /\ disk'.bits[0] = bits[0]
    BY <1>2, <1>7 DEF DiskInv, Mounting, NeverFlushed
  <2>1. disk.bits[0] = bits[0] /\ (sb.ndesc = 1 => BlocksMatch /\ InodesMatch)
    BY <1>1 DEF DiskInv
  <2>2. g = 0
    BY <1>1, <1>3 DEF FlushInv, Mounting
  <2>3. c = b
    BY <1>4, <1>5, <1>6, <2>1, <2>2, WrittenSame
  <2>4. disk'.bits[0] = disk.bits[0]
    BY <1>4, <1>7, <2>2, <2>3
  <2>5. (BlocksMatch => BlocksMatch') /\ (InodesMatch => InodesMatch')
    BY <1>7, <2>4 DEF BlocksMatch, InodesMatch, FreeOf
  <2> QED  BY <2>1, <2>4, <2>5
<1> QED  BY <1>10, <1>11, <1>12, <1>13, <1>14, <1>15, <1>16 DEF GroupsInv

\* After the last piece the disk has the bitmaps and tables of memory.
LEMMA FlushedBits ==
  ASSUME BitsInv, GroupsInv, phase = "flush", todo = {}
  PROVE  /\ \A g \in loaded : disk.bits[g] = bits[g]
         /\ \A k \in Kinds : used[k] = Marks(disk.bits, Groups, k)
<1>1. UsedInv /\ FlushInv /\ Live
  BY DEF GroupsInv, Live
<1>2. loaded \subseteq Groups /\ bits \in GroupBits /\ disk.bits \in GroupBits
  BY DEF BitsInv, DiskOK
<1>3. \A g \in loaded : disk.bits[g] = bits[g]
  <2> SUFFICES ASSUME NEW g \in loaded PROVE disk.bits[g] = bits[g]
    OBVIOUS
  <2>1. bits[g] \in [Parts -> SUBSET Nat] /\ disk.bits[g] \in [Parts -> SUBSET Nat]
    BY <1>2 DEF GroupBits, PartBits
  <2>2. Flushed({}, g, bits[g], disk.bits[g])
    BY <1>1 DEF FlushInv
  <2>3. bits[g]["table"] \subseteq 0 .. InodesPerGroup - 1 /\ disk.bits[g]["table"] \subseteq 0 .. InodesPerGroup - 1
    BY <1>2 DEF GroupBits, PartBits
  <2>4. /\ disk.bits[g]["block"] = bits[g]["block"] /\ disk.bits[g]["inode"] = bits[g]["inode"]
        /\ \A i \in 0 .. InodesPerGroup - 1 : i \in disk.bits[g]["table"] <=> i \in bits[g]["table"]
    BY <2>2 DEF Flushed
  <2>5. disk.bits[g]["table"] = bits[g]["table"]
    BY <2>3, <2>4
  <2>6. \A p \in Parts : disk.bits[g][p] = bits[g][p]
    BY <2>4, <2>5 DEF Parts, Kinds
  <2> QED  BY <2>1, <2>6
<1>4. ASSUME NEW k \in Kinds PROVE used[k] = Marks(disk.bits, Groups, k)
  <2>1. used[k] = Marks(bits, loaded, k)
    BY <1>1 DEF UsedInv
  <2>2. \A x \in Indices(k) :
          GroupOf(k, x) \in loaded /\ BitOf(k, x) \in bits[GroupOf(k, x)][k]
          <=> GroupOf(k, x) \in Groups /\ BitOf(k, x) \in disk.bits[GroupOf(k, x)][k]
    <3> SUFFICES ASSUME NEW x \in Indices(k)
                 PROVE  GroupOf(k, x) \in loaded /\ BitOf(k, x) \in bits[GroupOf(k, x)][k]
                        <=> GroupOf(k, x) \in Groups /\ BitOf(k, x) \in disk.bits[GroupOf(k, x)][k]
      OBVIOUS
    <3>1. GroupOf(k, x) \in Groups
      BY IndexSplit
    <3>2. CASE GroupOf(k, x) \in loaded
      BY <1>3, <3>1, <3>2
    <3>3. CASE GroupOf(k, x) \notin loaded
      <4>1. disk.bits[GroupOf(k, x)][k] = {}
        BY <1>1, <3>1, <3>3, NoBitsOK DEF UsedInv
      <4> QED  BY <3>3, <4>1
    <3> QED  BY <3>2, <3>3
  <2> QED  BY <2>1, <2>2 DEF Marks
<1> QED  BY <1>3, <1>4

LEMMA FlushDoneGroups ==
  ASSUME BitsInv, GroupsInv, FlushDone
  PROVE  GroupsInv'
<1>1. TypeInv /\ MirrorInv /\ UsedInv /\ RootInv /\ SyncInv /\ FlushInv /\ CountInv /\ DiskInv
  BY DEF GroupsInv
<1>2. /\ phase = "flush" /\ Live /\ todo = {} /\ job' = "none"
      /\ sb' = sb /\ disk' = disk /\ used' = used /\ torn' = torn /\ todo' = {}
      /\ synced' = [used EXCEPT !["inode"] = Initialised]
  BY DEF FlushDone, Live
<1>3. \/ job = "unmount" /\ phase' = "down" /\ ~Live' /\ loaded' = {}
      \/ job # "unmount" /\ phase' = "up" /\ Live' /\ loaded' = loaded /\ bits' = bits
  BY DEF FlushDone, Unloaded, Live
<1>4. /\ \A g \in loaded : disk.bits[g] = bits[g]
      /\ \A k \in Kinds : used[k] = Marks(disk.bits, Groups, k)
  BY <1>2, FlushedBits
<1>5. used = [k \in Kinds |-> used[k]]
  BY DEF BitsInv, UsedOK
<1>6. /\ synced' = [k \in Kinds |-> synced'[k]] /\ \A k \in Kinds : synced'[k] \subseteq used[k]
      /\ synced'["inode"] = Initialised
  BY <1>2, <1>5 DEF Initialised, Kinds
<1>7. TypeInv' /\ MirrorInv'
  <2>1. TypeInv'
    BY <1>1, <1>2, <1>3, <1>6 DEF TypeInv
  <2> QED  BY <1>1, <1>2, <2>1 DEF MirrorInv
<1>8. UsedInv'
  <2>1. CASE job = "unmount" /\ ~Live'
    <3>1. loaded = {0}
      BY <1>1, <1>2, <2>1 DEF FlushInv, UsedInv
    <3> QED  BY <1>1, <1>2, <1>3, <1>4, <2>1, <3>1 DEF UsedInv
  <2>2. CASE Live' /\ loaded' = loaded /\ bits' = bits
    BY <1>1, <1>2, <2>2 DEF UsedInv
  <2> QED  BY <1>3, <2>1, <2>2
<1>9. RootInv' /\ ROOT_INODE \in disk.bits[0]["inode"]
  <2>1. 0 \in loaded /\ ROOT_INODE \in bits[0]["inode"]
    BY <1>1, <1>2 DEF UsedInv, RootInv
  <2>2. ROOT_INODE \in disk.bits[0]["inode"]
    BY <1>4, <2>1
  <2> QED  BY <1>2, <1>3, <2>1, <2>2 DEF RootInv
<1>10. SyncInv'
  <2>1. ASSUME NEW x \in Initialised
        PROVE  /\ BitOf("inode", x) \in bits[GroupOf("inode", x)]["table"]
               /\ BitOf("inode", x) \in disk.bits[GroupOf("inode", x)]["table"]
    <3>1. /\ x \in used["inode"] /\ "inode" \in Kinds
          /\ BitOf("inode", x) \in bits[GroupOf("inode", x)]["table"]
      BY <2>1 DEF Initialised, BitOf, GroupOf, Kinds
    <3>2. GroupOf("inode", x) \in loaded
      BY <1>2, <3>1, UsedLoaded
    <3> QED  BY <1>4, <3>1, <3>2
  <2> QED  BY <1>2, <1>3, <1>4, <1>6, <2>1 DEF SyncInv
<1>11. FlushInv'
  BY <1>3 DEF FlushInv
<1>12. CountInv'
  BY <1>1, <1>2, <1>3 DEF CountInv
<1>13. ASSUME ~torn, sb.ndesc = 1, job # "mount"
       PROVE  BlocksMatch /\ InodesMatch
  <2>1. /\ loaded = {0} /\ disk.count = sb.count /\ disk.free = sb.free
        /\ sb.count["block"] = 3 + Cardinality(used["block"])
        /\ sb.count["inode"] = Cardinality(used["inode"])
        /\ \A k \in Kinds : sb.free[0][k] = FreeOf(bits, 0, k)
    BY <1>1, <1>2, <1>13 DEF UsedInv, FlushInv, CountInv
  <2>2. 0 \in Groups /\ {0} \in SUBSET Groups /\ 0 \in {0} /\ bits \in GroupBits
    BY MaxGroupsAssumption DEF Groups, BitsInv
  <2>3. \A k \in Kinds : used[k] = bits[0][k]
    <3> SUFFICES ASSUME NEW k \in Kinds PROVE used[k] = bits[0][k]
      OBVIOUS
    <3>1. used[k] = Marks(bits, {0}, k)
      BY <1>1, <1>2, <2>1 DEF UsedInv
    <3> QED  BY <2>2, <3>1, MarksOne
  <2>4. disk.bits[0] = bits[0]
    BY <1>4, <2>1
  <2>5. \A k \in Kinds : FreeOf(disk.bits, 0, k) = FreeOf(bits, 0, k)
    BY <2>4 DEF FreeOf
  <2> QED  BY <2>1, <2>3, <2>4, <2>5 DEF BlocksMatch, InodesMatch, Kinds
<1>14. DiskInv'
  <2>1. job = "unmount" => sb.ndesc = 1
    BY <1>1, <1>2 DEF FlushInv
  <2>2. ASSUME ~torn, sb.ndesc = 1, job # "mount" \/ ~NeverFlushed
        PROVE  BlocksMatch' /\ InodesMatch'
    <3>1. CASE job # "mount"
      BY <1>2, <1>13, <2>2, <3>1 DEF BlocksMatch, InodesMatch
    <3>2. CASE job = "mount"
      <4>1. BlocksMatch /\ InodesMatch
        BY <1>1, <1>2, <2>2, <3>2 DEF DiskInv, Mounting
      <4> QED  BY <1>2, <4>1 DEF BlocksMatch, InodesMatch
    <3> QED  BY <3>1, <3>2
  <2>3. ROOT_INODE \in disk'.bits[0]["inode"] /\ ~Mounting' /\ phase' # "super" /\ (NeverFlushed' <=> NeverFlushed)
    BY <1>2, <1>3, <1>9 DEF Mounting, NeverFlushed
  <2>4. CASE job = "unmount"
    BY <1>2, <1>3, <2>1, <2>2, <2>3, <2>4 DEF DiskInv
  <2>5. CASE job # "unmount"
    BY <1>2, <1>3, <2>2, <2>3, <2>5 DEF DiskInv
  <2> QED  BY <2>4, <2>5
<1> QED  BY <1>7, <1>8, <1>9, <1>10, <1>11, <1>12, <1>14 DEF GroupsInv

(***************************************************************************)
(* Crash.                                                                  *)
(***************************************************************************)
LEMMA CrashGroups ==
  ASSUME BitsInv, GroupsInv, ~AnyRemount, Crash
  PROVE  GroupsInv'
<1>1. TypeInv /\ MirrorInv /\ UsedInv /\ RootInv /\ SyncInv /\ CountInv /\ DiskInv
  BY DEF GroupsInv
<1>2. /\ phase # "down" /\ phase' = "down" /\ ~Live' /\ job' = "none" /\ loaded' = {}
      /\ torn' = (torn \/ Behind)
      /\ sb' = sb /\ disk' = disk /\ synced' = synced
      /\ used' = [k \in Kinds |-> OnDisk(k)]
      /\ sb.ndesc = 1
  BY DEF Crash, Live, Unloaded, Remountable
<1>3. \A k \in Kinds : used'[k] = Marks(disk.bits, Groups, k)
  <2>1. disk.bits \in GroupBits /\ Groups \in SUBSET Groups
    BY DEF BitsInv, DiskOK
  <2>2. \A k \in Kinds : OnDisk(k) = Marks(disk.bits, Groups, k)
    BY <2>1, MarksUnion DEF OnDisk
  <2> QED  BY <1>2, <2>2
<1>4. TypeInv' /\ MirrorInv'
  <2>1. torn' \in BOOLEAN
    BY <1>1, <1>2 DEF TypeInv
  <2>2. TypeInv'
    BY <1>1, <1>2, <2>1 DEF TypeInv
  <2> QED  BY <1>1, <1>2, <2>2 DEF MirrorInv
<1>5. UsedInv'
  <2>1. \A g \in Groups \ {0} : disk.bits[g] = NoBits
    BY <1>1, <1>2 DEF UsedInv
  <2>2. disk.normal
    BY <1>1, <1>2 DEF UsedInv
  <2> QED  BY <1>2, <1>3, <2>1, <2>2 DEF UsedInv
<1>6. RootInv'
  BY <1>1, <1>2 DEF RootInv
<1>7. SyncInv'
  BY <1>1, <1>2, <1>3 DEF SyncInv
<1>8. FlushInv' /\ CountInv'
  BY <1>2 DEF FlushInv, CountInv
<1>9. ASSUME ~torn, ~Behind
      PROVE  /\ BlocksMatch
             /\ \/ InodesMatch /\ ROOT_INODE \in disk.bits[0]["inode"]
                \/ InodesFresh /\ disk.bits[0]["inode"] = {}
  <2>1. CASE phase = "super"
    <3>1. ~Live /\ disk.normal
      BY <1>1, <2>1 DEF UsedInv, Live
    <3> QED  BY <1>1, <1>9, <3>1 DEF DiskInv
  <2>2. CASE phase \in {"up", "flush"}
    <3>1. sb.ndesc = 1 /\ Live /\ ~NeverFlushed /\ (phase = "up" \/ Mounting)
      BY <1>2, <1>9, <2>2 DEF Behind, Mounting, Live
    <3>2. BlocksMatch /\ InodesMatch /\ (Mounting => disk.bits[0] = bits[0])
      BY <1>1, <1>9, <3>1 DEF DiskInv
    <3>3. ROOT_INODE \in disk.bits[0]["inode"]
      BY <1>1, <3>1, <3>2 DEF RootInv
    <3> QED  BY <3>2, <3>3
  <2>3. phase \in {"down", "super", "up", "flush"} /\ phase # "down"
    BY <1>1, <1>2 DEF TypeInv
  <2> QED  BY <1>9, <2>1, <2>2, <2>3
<1>10. DiskInv'
  <2>1. disk' = disk /\ ~Live' /\ phase' = "down"
    BY <1>2
  <2>2. ~torn' => ~torn /\ ~Behind
    BY <1>2
  <2>3. (BlocksMatch' <=> BlocksMatch) /\ (InodesMatch' <=> InodesMatch) /\ (InodesFresh' <=> InodesFresh)
    BY <2>1 DEF BlocksMatch, InodesMatch, InodesFresh
  <2> QED  BY <1>9, <2>1, <2>2, <2>3 DEF DiskInv, Mounting
<1> QED  BY <1>4, <1>5, <1>6, <1>7, <1>8, <1>10 DEF GroupsInv

(***************************************************************************)
(* The theorems.                                                           *)
(***************************************************************************)
LEMMA InitGroups == Init => GroupsInv
<1> SUFFICES ASSUME Init PROVE GroupsInv
  OBVIOUS
<1>1. BitsInv
  BY InitBits
<1>2. /\ phase = "down" /\ ~Live /\ torn = FALSE /\ job = "none" /\ loaded = {}
      /\ disk.normal = FALSE /\ disk.bits = [g \in Groups |-> NoBits] /\ 0 \in Groups
      /\ used = None /\ synced = None
  BY MaxGroupsAssumption DEF Init, Live, Groups
<1>3. TypeInv /\ MirrorInv
  <2>1. [k \in Kinds |-> 0] \in CountType
    BY WordPositive DEF CountType
  <2>2. [g \in Groups |-> NewDesc] \in FreeType
    BY NewDescType DEF FreeType
  <2>3. None = [k \in Kinds |-> None[k]]
    BY DEF None
  <2>4. /\ sb.count = [k \in Kinds |-> 0] /\ sb.sfree = [k \in Kinds |-> 0]
        /\ sb.free = [g \in Groups |-> NewDesc]
        /\ sb = [count |-> sb.count, sfree |-> sb.sfree, free |-> sb.free, ndesc |-> sb.ndesc]
        /\ disk.count = [k \in Kinds |-> 0] /\ disk.sfree = [k \in Kinds |-> 0]
        /\ disk.free = [g \in Groups |-> NewDesc]
    BY DEF Init
  <2>5. TypeInv
    BY <1>2, <2>1, <2>2, <2>3, <2>4 DEF TypeInv
  <2> QED  BY <1>2, <2>4, <2>5 DEF MirrorInv
<1>4. \A k \in Kinds : Marks(disk.bits, Groups, k) = {} /\ used[k] = {} /\ synced[k] = {}
  <2>1. \A g \in Groups, k \in Kinds : disk.bits[g][k] = {}
    BY <1>2, NoBitsOK
  <2>2. \A k \in Kinds : Marks(disk.bits, Groups, k) = {}
    BY <2>1 DEF Marks
  <2> QED  BY <1>2, <2>2 DEF None
<1>5. UsedInv
  BY <1>2, <1>4 DEF UsedInv
<1>6. RootInv
  BY <1>2, NoBitsOK DEF RootInv, Kinds
<1>7. SyncInv
  BY <1>4 DEF SyncInv, Kinds
<1>8. FlushInv /\ CountInv /\ DiskInv
  BY <1>2 DEF FlushInv, CountInv, DiskInv, Mounting
<1> QED  BY <1>3, <1>5, <1>6, <1>7, <1>8 DEF GroupsInv

LEMMA NextGroups ==
  ASSUME ~AnyRemount, BitsInv, GroupsInv, [Next]_vars
  PROVE  GroupsInv'
<1>0. BitsInv'
  BY NextBits
<1>1. CASE \E k \in Kinds : Alloc(k)
  BY <1>0, <1>1, AllocTaken, TakenInv
<1>2. ASSUME NEW k \in Kinds, NEW i \in used[k], Free(k, i) PROVE GroupsInv'
  BY <1>2, FreeCleared, ClearedInv
<1>3. ASSUME NEW k \in Kinds, NEW i \in used[k], Get(k, i) PROVE GroupsInv'
  BY <1>3, GetSame, SameInv
<1>4. CASE MountSuper
  BY <1>4, MountSuperGroups
<1>5. CASE MountGroup
  BY <1>0, <1>5, MountGroupGroups
<1>6. CASE \E j \in {"sync", "unmount"} : FlushSuper(j)
  BY <1>6, FlushSuperGroups
<1>7. CASE \E g \in Groups, j \in Pieces : FlushPiece(g, j)
  BY <1>7, FlushPieceGroups
<1>8. CASE FlushDone
  BY <1>8, FlushDoneGroups
<1>9. CASE Crash
  BY <1>9, CrashGroups
<1>10. CASE UNCHANGED vars
  BY <1>10, SameInv
<1> QED  BY <1>1, <1>2, <1>3, <1>4, <1>5, <1>6, <1>7, <1>8, <1>9, <1>10 DEF Next

\* However the calls, the writes of mounts and flushes, and the crashes come,
\* bitmaps, counts, history and disk agree as GroupsInv says, while the file
\* system goes down only with one group, and no group is created once a crash
\* has left counts and bitmaps apart (~AnyRemount).
THEOREM GroupsInvariant ==
  ASSUME ~AnyRemount
  PROVE  Spec => []GroupsInv
<1>1. Init => BitsInv /\ GroupsInv
  BY InitBits, InitGroups
<1>2. (BitsInv /\ GroupsInv) /\ [Next]_vars => (BitsInv /\ GroupsInv)'
  BY NextBits, NextGroups
<1> QED  BY <1>1, <1>2, PTL DEF Spec

\* alloc_block and alloc_inode hand out no index twice, and lose none: what the
\* loaded groups mark is what was handed out and not freed, for every number
\* and size of groups, after every crash with one group: in a flush, in the
\* flush of a mount, and before the first flush too.
THEOREM AllocatedOnce ==
  ASSUME ~AnyRemount
  PROVE  Spec => []BitsAreUsed
<1>1. BitsInv /\ GroupsInv => BitsAreUsed
  <2> SUFFICES ASSUME BitsInv, GroupsInv, phase \in {"up", "flush"}, NEW k \in Kinds
               PROVE  InUse(k) = used[k]
    BY DEF BitsAreUsed
  <2>1. bits \in GroupBits /\ loaded \in SUBSET Groups
    BY DEF BitsInv
  <2>2. InUse(k) = Marks(bits, loaded, k)
    BY <2>1, MarksUnion DEF InUse
  <2> QED  BY <2>2 DEF GroupsInv, UsedInv, Live
<1> QED  BY <1>1, BitsInRange, GroupsInvariant, PTL

\* The counts of blocks and inodes in use, and the free counts of descriptors,
\* that num_block_groups and the search of alloc_block and alloc_inode rest on
\* are those of the bitmaps, until a crash in a flush, or after the creation of
\* the root and before the first flush.  The s_free_ counts of the super block
\* mirror the changes of the other counts in 32 bits, whatever happens.
THEOREM CountsExact ==
  ASSUME ~AnyRemount
  PROVE  Spec => []CountsMatchBits
<1>1. GroupsInv => CountsMatchBits
  <2> SUFFICES ASSUME GroupsInv, Live PROVE CountsMatchBits
    BY DEF CountsMatchBits, Live
  <2>1. \A k \in Kinds : (sb.count[k] + sb.sfree[k]) % Word = Formatted.count[k]
    BY DEF GroupsInv, MirrorInv, Mirrors, Live
  <2>2. ~torn => /\ sb.count["block"] = 3 + Cardinality(used["block"])
                 /\ sb.count["inode"] = Cardinality(used["inode"])
                 /\ \A g \in loaded, k \in Kinds :
                      sb.free[g][k] = Bits[k] - Cardinality(bits[g][k])
                                      - (IF g = 0 /\ k = "inode" THEN 1 ELSE 0)
    BY DEF GroupsInv, CountInv, FreeOf
  <2> QED  BY <2>1, <2>2 DEF CountsMatchBits
<1> QED  BY <1>1, GroupsInvariant, PTL

\* What was in use when a flush completed, that of a mount included, is marked
\* on disk until it is freed, and its inodes are initialised there (but for
\* those that share their block with data): a crash between any two writes of
\* a later flush or mount does not undo it.
THEOREM FlushedSurvives ==
  ASSUME ~AnyRemount
  PROVE  Spec => []SyncedIsDurable
<1>1. BitsInv /\ GroupsInv => SyncedIsDurable
  <2> SUFFICES ASSUME BitsInv, GroupsInv PROVE SyncedIsDurable
    OBVIOUS
  <2>1. disk.bits \in GroupBits /\ Groups \in SUBSET Groups
    BY DEF BitsInv, DiskOK
  <2>2. \A k \in Kinds : synced[k] \subseteq OnDisk(k)
    <3>1. \A k \in Kinds : OnDisk(k) = Marks(disk.bits, Groups, k)
      BY <2>1, MarksUnion DEF OnDisk
    <3> QED  BY <3>1 DEF GroupsInv, SyncInv
  <2>3. \A i \in synced["inode"] : i % InodesPerGroup \in disk.bits[i \div InodesPerGroup]["table"]
    <3>1. Stride["inode"] = InodesPerGroup
      BY DEF Stride, Kinds
    <3>2. \A i \in synced["inode"] : i % Stride["inode"] \in disk.bits[i \div Stride["inode"]]["table"]
      BY DEF GroupsInv, SyncInv, BitOf, GroupOf
    <3> QED  BY <3>1, <3>2
  <2> QED  BY <2>2, <2>3 DEF SyncedIsDurable
<1> QED  BY <1>1, BitsInRange, GroupsInvariant, PTL

\* The number that num_block_groups computes for a new group is that of the
\* groups there are, so that none is created over another, until a crash in a
\* flush, or before the first flush of a new file system, leaves counts that
\* are not those of the bitmaps.
THEOREM NumberedUntilTorn ==
  ASSUME ~AnyRemount
  PROVE  Spec => []GroupsNumbered
<1>1. GroupsInv => GroupsNumbered
  BY DEF GroupsInv, CountInv, GroupsNumbered, Live
<1> QED  BY <1>1, GroupsInvariant, PTL
==============================================================================
