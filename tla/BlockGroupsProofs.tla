--------------------------- MODULE BlockGroupsProofs ---------------------------
(***************************************************************************)
(* Block groups are apart on disk (GroupsApart) for every number and size  *)
(* of groups whose offsets fit into 32 bits; and the facts                 *)
(* about counts that BlockGroupsAllocProofs rests on: the invariant that   *)
(* relates bitmaps, counts, history and disk, how many indices the bitmaps *)
(* of n groups can mark, and the number of groups that num_block_groups    *)
(* computes from the counts.                                               *)
(***************************************************************************)
EXTENDS BlockGroups, FiniteSetTheorems, WellFoundedInduction, TLAPS

\* The provers a step is given to in turn, with their time in seconds.
USE ZenonT(3), SMTT(40), ZenonT(60)

(***************************************************************************)
(* Arithmetic of the layout.                                               *)
(***************************************************************************)
LEMMA Least ==
  ASSUME NEW S \in SUBSET Nat, S # {}
  PROVE  \E n \in S : \A m \in S : n <= m
<1>1. PICK n \in S : \A m \in S : ~(<<m, n>> \in OpToRel(<, Nat))
  BY WFMin, NatLessThanWellFounded
<1>2. \A m \in S : ~(m < n)
  BY <1>1 DEF OpToRel
<1> QED  BY <1>2

LEMMA DivMod ==
  ASSUME NEW a \in Nat, NEW b \in Nat \ {0}
  PROVE  a \div b \in Nat /\ a % b \in 0 .. b - 1 /\ a = b * (a \div b) + (a % b)
OBVIOUS
LEMMA ProductLess ==
  ASSUME NEW a \in Nat, NEW b \in Nat, NEW c \in Nat, c * a < c * b
  PROVE  a < b
<1>1. CASE b <= a
  <2>1. c * b <= c * a
    BY <1>1
  <2> QED  BY <2>1
<1> QED  BY <1>1

LEMMA GroupStep ==
  ASSUME NEW g \in Nat, NEW h \in Nat, g < h, NEW c \in Nat
  PROVE  g * c + c <= h * c
<1>1. PICK d \in Nat : h = g + 1 + d
  <2>1. h - g - 1 \in Nat /\ h = g + 1 + (h - g - 1)
    OBVIOUS
  <2> QED  BY <2>1
<1>2. h * c = g * c + c + d * c /\ d * c \in Nat /\ g * c \in Nat
  BY <1>1
<1> QED  BY <1>2

LEMMA Sizes ==
  /\ InodeTable \in Nat \ {0} /\ TotalPerGroup \in Nat \ {0}
  /\ TotalPerGroup = BlocksPerGroup + InodeTable + 2
  /\ InodesPerGroup = InodesPerBlock * InodeTable
<1>1. InodeTable \in Nat /\ InodesPerGroup = InodesPerBlock * InodeTable
  <2>1. InodesPerGroup \in Nat /\ InodesPerBlock \in Nat \ {0} /\ InodesPerGroup % InodesPerBlock = 0
    BY InodesPerGroupAssumption, InodesPerBlockAssumption
  <2>2. InodeTable = InodesPerGroup \div InodesPerBlock
    BY DEF InodeTable
  <2>3. /\ InodeTable \in Nat
        /\ InodesPerGroup = InodesPerBlock * InodeTable + (InodesPerGroup % InodesPerBlock)
    BY <2>1, <2>2, DivMod
  <2>4. InodesPerBlock * InodeTable \in Nat
    BY <2>1, <2>3
  <2> QED  BY <2>1, <2>3, <2>4
<1>2. InodeTable # 0
  BY <1>1, InodesPerGroupAssumption, InodesPerBlockAssumption
<1> QED  BY <1>1, <1>2, BlocksPerGroupAssumption DEF TotalPerGroup

(***************************************************************************)
(* The bitmaps and the inode table of a group, in memory and on disk, mark *)
(* nothing past their end.                                                 *)
(***************************************************************************)
PartBits == {b \in [Parts -> SUBSET Nat] : /\ b["block"] \subseteq 0 .. BlocksPerGroup - 1
                                           /\ b["inode"] \subseteq 0 .. InodesPerGroup - 1
                                           /\ b["table"] \subseteq 0 .. InodesPerGroup - 1}

GroupBits == [Groups -> PartBits]

DiskOK(d) ==
  /\ d = [normal |-> d.normal, count |-> d.count, sfree |-> d.sfree, free |-> d.free, bits |-> d.bits]
  /\ d.bits \in GroupBits

UsedOK(u) == u = [k \in Kinds |-> u[k]] /\ \A k \in Kinds : u[k] \subseteq Indices(k)

BitsInv == loaded \subseteq Groups /\ bits \in GroupBits /\ DiskOK(disk) /\ UsedOK(used)

MemOK(m) ==
  /\ m = [sb |-> m.sb, loaded |-> m.loaded, bits |-> m.bits]
  /\ m.loaded \subseteq Groups
  /\ m.bits \in GroupBits

LEMMA KindFacts ==
  ASSUME NEW k \in Kinds
  PROVE  /\ k \in Parts /\ "table" \in Parts /\ k # "table"
         /\ Bits[k] \in Nat \ {0} /\ Stride[k] \in Nat \ {0}
         /\ Bits["block"] = BlocksPerGroup /\ Bits["inode"] = InodesPerGroup
         /\ Searched(k) = 0 .. Bits[k] - 1
BY Sizes, BlocksPerGroupAssumption, InodesPerGroupAssumption DEF Kinds, Parts, Bits, Stride, Searched

LEMMA GroupOfIn ==
  ASSUME NEW k \in Kinds, NEW i \in Indices(k)
  PROVE  GroupOf(k, i) \in Groups
<1>1. PICK c \in Nat \ {0} : c = Stride[k]
  BY KindFacts
<1>2. i \in Nat /\ i < c * MaxGroups /\ MaxGroups \in Nat
  <2>1. MaxGroups * c \in Nat /\ MaxGroups * c = c * MaxGroups
    BY <1>1, MaxGroupsAssumption
  <2>2. i \in 0 .. MaxGroups * c - 1
    BY <1>1 DEF Indices
  <2> QED  BY <2>1, <2>2, MaxGroupsAssumption
<1>3. PICK q \in Nat : q = i \div c
  BY <1>1, <1>2, DivMod
<1>4. PICK r \in Nat : i = c * q + r
  <2>1. i % c \in 0 .. c - 1 /\ i = c * q + (i % c)
    BY <1>1, <1>2, <1>3, DivMod
  <2> QED  BY <1>1, <2>1
<1>5. c * q \in Nat /\ c * q < c * MaxGroups
  BY <1>1, <1>2, <1>4
<1>6. q < MaxGroups
  BY <1>1, <1>2, <1>5, ProductLess
<1> QED  BY <1>1, <1>2, <1>3, <1>6 DEF GroupOf, Groups

LEMMA MemoryOK == BitsInv => MemOK(Memory)
BY DEF BitsInv, MemOK, Memory

LEMMA NoBitsOK == NoBits \in PartBits /\ \A k \in Kinds : NoBits[k] = {}
BY DEF NoBits, PartBits, Parts, Kinds

(***************************************************************************)
(* The inductive invariant.                                                *)
(***************************************************************************)
Live == phase \in {"up", "flush"}

\* The bit of an index in the bitmap of its group, and the index of a bit.
BitOf(k, x) == x % Stride[k]
IndexOf(k, g, i) == g * Stride[k] + i

\* The indices marked in bitmaps b of the groups L.
Marks(b, L, k) == {x \in Indices(k) : GroupOf(k, x) \in L /\ BitOf(k, x) \in b[GroupOf(k, x)][k]}

CountType == [Kinds -> 0 .. Word - 1]
FreeType == [Groups -> [Kinds -> 0 .. Short - 1]]

TypeInv ==
  /\ phase \in {"down", "super", "up", "flush"}
  /\ torn \in BOOLEAN /\ job \in {"none", "mount", "sync", "unmount"}
  /\ sb = [count |-> sb.count, sfree |-> sb.sfree, free |-> sb.free, ndesc |-> sb.ndesc]
  /\ sb.count \in CountType /\ sb.sfree \in CountType /\ sb.free \in FreeType
  /\ disk.normal \in BOOLEAN /\ disk.count \in CountType /\ disk.sfree \in CountType /\ disk.free \in FreeType
  /\ synced = [k \in Kinds |-> synced[k]]

\* The s_free_ counts f change as the counts c do, the other way.
Mirrors(c, f) == \A k \in Kinds : (c[k] + f[k]) % Word = Formatted.count[k]

MirrorInv ==
  /\ phase # "down" => Mirrors(sb.count, sb.sfree)
  /\ disk.normal => Mirrors(disk.count, disk.sfree)
  /\ ~disk.normal => disk.sfree = [k \in Kinds |-> 0]

\* The history of indices in use is that of the bitmaps, in memory or on disk.
UsedInv ==
  /\ Live => /\ 0 \in loaded
             /\ disk.normal
             /\ \A k \in Kinds : used[k] = Marks(bits, loaded, k)
             /\ \A g \in Groups \ loaded : disk.bits[g] = NoBits
             /\ torn \/ sb.ndesc = 1 => loaded = {0}
  /\ ~Live => /\ loaded = {}
              /\ \A k \in Kinds : used[k] = Marks(disk.bits, Groups, k)
              /\ \A g \in Groups \ {0} : disk.bits[g] = NoBits
  /\ ~disk.normal => phase = "down" /\ disk.bits[0] = NoBits /\ ~torn

\* The root is marked, and on disk too once the mount is over.
Mounting == phase = "flush" /\ job = "mount"
RootInv ==
  Live => /\ ROOT_INODE \in bits[0]["inode"]
          /\ ~Mounting => ROOT_INODE \in disk.bits[0]["inode"]

SyncInv ==
  /\ \A k \in Kinds : synced[k] \subseteq used[k]
  /\ \A k \in Kinds : synced[k] \subseteq Marks(disk.bits, Groups, k)
  /\ \A i \in synced["inode"] :
       /\ BitOf("inode", i) \in disk.bits[GroupOf("inode", i)]["table"]
       /\ Live => BitOf("inode", i) \in bits[GroupOf("inode", i)]["table"]

\* What a flush has written of bits b is on disk as d, when T is still to do.
Flushed(T, g, b, d) ==
  /\ <<g, 0>> \notin T => d["block"] = b["block"]
  /\ <<g, 1>> \notin T => d["inode"] = b["inode"]
  /\ \A i \in 0 .. InodesPerGroup - 1 :
       <<g, 2 + (i \div InodesPerBlock)>> \notin T => (i \in d["table"] <=> i \in b["table"])

FlushInv ==
  phase = "flush" =>
    /\ todo \subseteq loaded \X Pieces
    /\ \A g \in loaded : Flushed(todo, g, bits[g], disk.bits[g])
    /\ job = "unmount" => sb.ndesc = 1
    /\ job = "mount" => loaded = {0}
    /\ job # "mount" => disk.count = sb.count /\ disk.free = sb.free

FreeOf(b, g, k) == Bits[k] - Cardinality(b[g][k]) - (IF g = 0 /\ k = "inode" THEN 1 ELSE 0)

\* The counts in memory.
CountInv ==
  Live /\ ~torn =>
    /\ sb.ndesc \in 1 .. MaxGroups
    /\ loaded = 0 .. sb.ndesc - 1
    /\ sb.count["block"] = 3 + Cardinality(used["block"])
    /\ sb.count["inode"] = Cardinality(used["inode"])
    /\ \A g \in loaded, k \in Kinds : sb.free[g][k] = FreeOf(bits, g, k)

\* The counts on disk, with one group.  Those of the inodes do not count the
\* root until the first flush after it was created.
BlocksMatch ==
  /\ disk.count["block"] = 3 + Cardinality(disk.bits[0]["block"])
  /\ disk.free[0]["block"] = FreeOf(disk.bits, 0, "block")
InodesMatch ==
  /\ disk.count["inode"] = Cardinality(disk.bits[0]["inode"])
  /\ disk.free[0]["inode"] = FreeOf(disk.bits, 0, "inode")
InodesFresh ==
  /\ disk.count["inode"] = 1
  /\ disk.free[0]["inode"] = InodesPerGroup - 1

\* With a super block that was flushed before, the flush of a mount writes what
\* is on disk.
DiskInv ==
  ~torn =>
    /\ ~Live /\ disk.normal =>
         /\ BlocksMatch
         /\ \/ InodesMatch /\ ROOT_INODE \in disk.bits[0]["inode"]
            \/ InodesFresh /\ disk.bits[0]["inode"] = {}
    /\ phase = "super" => sb.ndesc = 1 /\ sb.count = disk.count /\ sb.free = disk.free
    /\ (phase = "up" \/ Mounting) /\ sb.ndesc = 1 /\ ~NeverFlushed => BlocksMatch /\ InodesMatch
    /\ Mounting /\ ~NeverFlushed => disk.bits[0] = bits[0]

GroupsInv == TypeInv /\ MirrorInv /\ UsedInv /\ RootInv /\ SyncInv /\ FlushInv /\ CountInv /\ DiskInv

(***************************************************************************)
(* Indices of blocks and inodes.                                           *)
(***************************************************************************)
LEMMA BitsFit ==
  ASSUME NEW k \in Kinds
  PROVE  Bits[k] \in Nat \ {0} /\ Stride[k] \in Nat \ {0} /\ Bits[k] <= Stride[k]
<1>1. Bits[k] <= Stride[k]
  BY Sizes, BlocksPerGroupAssumption, InodesPerGroupAssumption DEF Kinds, Bits, Stride
<1> QED  BY <1>1, KindFacts

\* Quotient and remainder are unique.
LEMMA Unique ==
  ASSUME NEW c \in Nat \ {0}, NEW g \in Nat, NEW h \in Nat,
         NEW i \in 0 .. c - 1, NEW j \in 0 .. c - 1, g * c + i = h * c + j
  PROVE  g = h /\ i = j
<1>1. g * c \in Nat /\ h * c \in Nat
  OBVIOUS
<1>2. CASE g < h
  <2>1. g * c + c <= h * c
    BY <1>2, GroupStep
  <2> QED  BY <1>1, <2>1
<1>3. CASE h < g
  <2>1. h * c + c <= g * c
    BY <1>3, GroupStep
  <2> QED  BY <1>1, <2>1
<1>4. CASE g = h
  BY <1>1, <1>4
<1> QED  BY <1>2, <1>3, <1>4

LEMMA IndexSplit ==
  ASSUME NEW k \in Kinds, NEW x \in Indices(k)
  PROVE  /\ x \in Nat
         /\ GroupOf(k, x) \in Groups /\ GroupOf(k, x) \in Nat
         /\ BitOf(k, x) \in 0 .. Stride[k] - 1
         /\ x = IndexOf(k, GroupOf(k, x), BitOf(k, x))
<1>1. PICK c \in Nat \ {0} : c = Stride[k]
  BY BitsFit
<1>2. x \in Nat
  <2>1. MaxGroups * c \in Nat
    BY <1>1, MaxGroupsAssumption
  <2> QED  BY <1>1, <2>1 DEF Indices
<1>3. PICK q \in Nat : q = x \div c
  BY <1>1, <1>2, DivMod
<1>4. PICK r \in 0 .. c - 1 : r = x % c
  BY <1>1, <1>2, DivMod
<1>5. x = q * c + r
  <2>1. x = c * q + r
    BY <1>1, <1>2, <1>3, <1>4, DivMod
  <2>2. c * q = q * c
    BY <1>1
  <2> QED  BY <2>1, <2>2
<1>6. GroupOf(k, x) = q /\ BitOf(k, x) = r
  BY <1>1, <1>3, <1>4 DEF GroupOf, BitOf
<1>7. GroupOf(k, x) \in Groups
  BY GroupOfIn
<1> QED  BY <1>1, <1>2, <1>5, <1>6, <1>7 DEF IndexOf

LEMMA IndexJoin ==
  ASSUME NEW k \in Kinds, NEW g \in Groups, NEW i \in 0 .. Stride[k] - 1
  PROVE  /\ IndexOf(k, g, i) \in Indices(k)
         /\ GroupOf(k, IndexOf(k, g, i)) = g
         /\ BitOf(k, IndexOf(k, g, i)) = i
<1>1. PICK c \in Nat \ {0} : c = Stride[k]
  BY BitsFit
<1>2. g \in Nat /\ g < MaxGroups /\ MaxGroups \in Nat
  BY MaxGroupsAssumption DEF Groups
<1>3. g * c \in Nat /\ MaxGroups * c \in Nat /\ g * c + c <= MaxGroups * c
  BY <1>1, <1>2, GroupStep
<1>4. PICK x \in Nat : x = IndexOf(k, g, i) /\ x = g * c + i
  BY <1>1, <1>3 DEF IndexOf
<1>5. x \in Indices(k)
  BY <1>1, <1>3, <1>4 DEF Indices
<1>6. PICK q \in Nat : q = GroupOf(k, x)
  BY <1>5, IndexSplit
<1>7. PICK r \in 0 .. c - 1 : r = BitOf(k, x)
  BY <1>1, <1>5, IndexSplit
<1>8. x = q * c + r
  BY <1>1, <1>5, <1>6, <1>7, IndexSplit DEF IndexOf
<1>9. q = g /\ r = i
  BY <1>1, <1>2, <1>4, <1>8, Unique
<1> QED  BY <1>4, <1>5, <1>6, <1>7, <1>9

LEMMA BitsBound ==
  ASSUME NEW b \in GroupBits, NEW g \in Groups, NEW k \in Kinds
  PROVE  b[g][k] \subseteq 0 .. Bits[k] - 1 /\ b[g][k] \subseteq 0 .. Stride[k] - 1
<1>1. b[g][k] \subseteq 0 .. Bits[k] - 1
  BY KindFacts DEF GroupBits, PartBits, Kinds, Bits
<1> QED  BY <1>1, BitsFit

\* The sets of the properties are those of the invariant.
LEMMA MarksUnion ==
  ASSUME NEW b \in GroupBits, NEW L \in SUBSET Groups, NEW k \in Kinds
  PROVE  UNION {{g * Stride[k] + i : i \in b[g][k]} : g \in L} = Marks(b, L, k)
<1> DEFINE U == UNION {{IndexOf(k, g, i) : i \in b[g][k]} : g \in L}
<1>1. UNION {{g * Stride[k] + i : i \in b[g][k]} : g \in L} = U
  BY DEF IndexOf
<1>2. ASSUME NEW g \in L, NEW i \in b[g][k]
      PROVE  IndexOf(k, g, i) \in Marks(b, L, k)
  <2>1. g \in Groups /\ i \in 0 .. Stride[k] - 1
    BY BitsBound
  <2> QED  BY <2>1, IndexJoin DEF Marks
<1>3. ASSUME NEW x \in Marks(b, L, k)
      PROVE  \E g \in L : \E i \in b[g][k] : x = IndexOf(k, g, i)
  BY IndexSplit DEF Marks
<1>4. U = Marks(b, L, k)
  BY <1>2, <1>3
<1> QED  BY <1>1, <1>4

LEMMA SameIndex ==
  ASSUME NEW k \in Kinds, NEW g \in Groups, NEW i \in 0 .. Stride[k] - 1, NEW x \in Indices(k)
  PROVE  GroupOf(k, x) = g /\ BitOf(k, x) = i <=> x = IndexOf(k, g, i)
BY IndexJoin, IndexSplit

\* Marking one more bit, or clearing one.
LEMMA MarksAdd ==
  ASSUME NEW k \in Kinds, NEW b, NEW L, NEW c, NEW M,
         NEW g \in Groups, NEW i \in 0 .. Stride[k] - 1,
         \A x \in Indices(k) :
           GroupOf(k, x) \in M /\ BitOf(k, x) \in c[GroupOf(k, x)][k]
           <=> \/ GroupOf(k, x) \in L /\ BitOf(k, x) \in b[GroupOf(k, x)][k]
               \/ GroupOf(k, x) = g /\ BitOf(k, x) = i
  PROVE  Marks(c, M, k) = Marks(b, L, k) \cup {IndexOf(k, g, i)}
<1>1. IndexOf(k, g, i) \in Indices(k)
  BY IndexJoin
<1>2. \A x \in Indices(k) : x \in Marks(c, M, k) <=> x \in Marks(b, L, k) \/ x = IndexOf(k, g, i)
  BY SameIndex DEF Marks
<1> QED  BY <1>1, <1>2 DEF Marks

LEMMA MarksRemove ==
  ASSUME NEW k \in Kinds, NEW b, NEW L, NEW c, NEW M,
         NEW g \in Groups, NEW i \in 0 .. Stride[k] - 1,
         \A x \in Indices(k) :
           GroupOf(k, x) \in M /\ BitOf(k, x) \in c[GroupOf(k, x)][k]
           <=> /\ GroupOf(k, x) \in L /\ BitOf(k, x) \in b[GroupOf(k, x)][k]
               /\ ~(GroupOf(k, x) = g /\ BitOf(k, x) = i)
  PROVE  Marks(c, M, k) = Marks(b, L, k) \ {IndexOf(k, g, i)}
<1>1. \A x \in Indices(k) : x \in Marks(c, M, k) <=> x \in Marks(b, L, k) /\ x # IndexOf(k, g, i)
  BY SameIndex DEF Marks
<1> QED  BY <1>1 DEF Marks

\* With nothing outside group 0, an index is its bit.
LEMMA MarksOne ==
  ASSUME NEW b \in GroupBits, NEW L \in SUBSET Groups, 0 \in L, NEW k \in Kinds,
         \A g \in L \ {0} : b[g][k] = {}
  PROVE  Marks(b, L, k) = b[0][k]
<1>1. 0 \in Groups /\ b[0][k] \subseteq 0 .. Stride[k] - 1
  BY BitsBound
<1>2. \A i \in 0 .. Stride[k] - 1 : IndexOf(k, 0, i) = i
  <2>1. Stride[k] \in Nat /\ 0 * Stride[k] = 0
    BY BitsFit
  <2> QED  BY <2>1 DEF IndexOf
<1>3. ASSUME NEW i \in b[0][k] PROVE i \in Marks(b, L, k)
  BY <1>1, <1>2, IndexJoin DEF Marks
<1>4. ASSUME NEW x \in Marks(b, L, k) PROVE x \in b[0][k]
  <2>1. x \in Indices(k) /\ GroupOf(k, x) \in L /\ BitOf(k, x) \in b[GroupOf(k, x)][k]
    BY DEF Marks
  <2>2. GroupOf(k, x) = 0
    BY <2>1
  <2>3. x = BitOf(k, x)
    BY <1>2, <2>1, <2>2, IndexSplit
  <2> QED  BY <2>1, <2>2, <2>3
<1> QED  BY <1>3, <1>4

(***************************************************************************)
(* The number of indices marked in n groups.                               *)
(***************************************************************************)
Slots(n, k) == (0 .. n - 1) \X (0 .. Bits[k] - 1)
Pairs(b, n, k) == {y \in Slots(n, k) : y[2] \in b[y[1]][k]}

LEMMA UpTo ==
  ASSUME NEW n \in Nat
  PROVE  IsFiniteSet(0 .. n - 1) /\ Cardinality(0 .. n - 1) = n
<1>1. 0 \in Int /\ n - 1 \in Int
  OBVIOUS
<1>2. /\ IsFiniteSet(0 .. n - 1)
      /\ Cardinality(0 .. n - 1) = IF 0 > n - 1 THEN 0 ELSE n - 1 - 0 + 1
  BY <1>1, FS_Interval
<1> QED  BY <1>2

LEMMA SlotsCard ==
  ASSUME NEW n \in Nat, NEW k \in Kinds
  PROVE  IsFiniteSet(Slots(n, k)) /\ Cardinality(Slots(n, k)) = n * Bits[k]
<1>1. PICK c \in Nat : c = Bits[k]
  BY BitsFit
<1>2. IsFiniteSet(0 .. n - 1) /\ Cardinality(0 .. n - 1) = n
  BY UpTo
<1>3. IsFiniteSet(0 .. c - 1) /\ Cardinality(0 .. c - 1) = c
  BY UpTo
<1>4. /\ IsFiniteSet((0 .. n - 1) \X (0 .. c - 1))
      /\ Cardinality((0 .. n - 1) \X (0 .. c - 1)) = n * c
  <2>1. PICK X, Y : X = 0 .. n - 1 /\ Y = 0 .. c - 1
    OBVIOUS
  <2>2. IsFiniteSet(X \X Y) /\ Cardinality(X \X Y) = Cardinality(X) * Cardinality(Y)
    BY <1>2, <1>3, <2>1, FS_Product
  <2>3. Cardinality(X) = n /\ Cardinality(Y) = c
    BY <1>2, <1>3, <2>1
  <2> QED  BY <2>1, <2>2, <2>3
<1> QED  BY <1>1, <1>4 DEF Slots

LEMMA MarksCard ==
  ASSUME NEW b \in GroupBits, NEW n \in 1 .. MaxGroups, NEW k \in Kinds
  PROVE  /\ IsFiniteSet(Marks(b, 0 .. n - 1, k))
         /\ IsFiniteSet(Pairs(b, n, k))
         /\ Cardinality(Marks(b, 0 .. n - 1, k)) = Cardinality(Pairs(b, n, k))
<1> DEFINE L == 0 .. n - 1
           P == Pairs(b, n, k)
           M == Marks(b, L, k)
           f == [y \in P |-> IndexOf(k, y[1], y[2])]
<1>1. IsFiniteSet(P)
  <2>1. n \in Nat
    BY MaxGroupsAssumption
  <2>2. P \in SUBSET Slots(n, k)
    BY DEF Pairs
  <2> QED  BY <2>1, <2>2, SlotsCard, FS_Subset
<1>2. L \subseteq Groups
  BY MaxGroupsAssumption DEF Groups
<1>3. ASSUME NEW y \in P
      PROVE  /\ y[1] \in L /\ y[1] \in Groups /\ y[2] \in b[y[1]][k] /\ y[2] \in 0 .. Stride[k] - 1
             /\ y = <<y[1], y[2]>>
             /\ IndexOf(k, y[1], y[2]) \in M
  <2>1. y[1] \in L /\ y[1] \in Groups /\ y[2] \in b[y[1]][k] /\ y = <<y[1], y[2]>>
    BY <1>2 DEF Pairs, Slots
  <2>2. y[2] \in 0 .. Stride[k] - 1
    BY <2>1, BitsBound
  <2> QED  BY <2>1, <2>2, IndexJoin DEF Marks
<1>4. f \in [P -> M]
  BY <1>3
<1>5. ASSUME NEW y \in P, NEW z \in P, f[y] = f[z]
      PROVE  y = z
  <2>1. IndexOf(k, y[1], y[2]) = IndexOf(k, z[1], z[2])
    BY <1>5
  <2>2. y[1] = z[1] /\ y[2] = z[2]
    BY <1>3, <2>1, IndexJoin
  <2> QED  BY <1>3, <2>2
<1>6. ASSUME NEW x \in M
      PROVE  \E y \in P : f[y] = x
  <2>1. x \in Indices(k) /\ GroupOf(k, x) \in L /\ BitOf(k, x) \in b[GroupOf(k, x)][k]
    BY DEF Marks
  <2>2. x = IndexOf(k, GroupOf(k, x), BitOf(k, x)) /\ BitOf(k, x) \in 0 .. Bits[k] - 1
    BY <1>2, <2>1, IndexSplit, BitsBound
  <2>3. <<GroupOf(k, x), BitOf(k, x)>> \in P
    BY <2>1, <2>2 DEF Pairs, Slots
  <2>4. f[<<GroupOf(k, x), BitOf(k, x)>>] = x
    BY <2>2, <2>3
  <2> QED  BY <2>3, <2>4
<1> HIDE DEF f
<1>7. ExistsBijection(P, M)
  <2>1. f \in Bijection(P, M)
    BY <1>4, <1>5, <1>6 DEF Bijection, Injection, IsInjective, Surjection
  <2> QED  BY <2>1 DEF ExistsBijection
<1> QED  BY <1>1, <1>7, FS_Bijection

\* A bitmap that misses d bits of a kind.
LEMMA GroupCard ==
  ASSUME NEW b \in GroupBits, NEW g \in Groups, NEW k \in Kinds
  PROVE  /\ IsFiniteSet(b[g][k])
         /\ Cardinality(b[g][k]) \in 0 .. Bits[k]
         /\ Cardinality(b[g][k]) = Bits[k] => b[g][k] = 0 .. Bits[k] - 1
         /\ Cardinality(b[g][k]) = Bits[k] - 1 =>
              \E e \in 0 .. Bits[k] - 1 : b[g][k] = (0 .. Bits[k] - 1) \ {e}
<1> DEFINE B == b[g][k]
           A == 0 .. Bits[k] - 1
<1>1. Bits[k] \in Nat \ {0}
  BY BitsFit
<1>2. IsFiniteSet(A) /\ Cardinality(A) = Bits[k]
  BY <1>1, UpTo
<1>3. B \in SUBSET A
  BY BitsBound
<1> HIDE DEF A, B
<1>4. IsFiniteSet(B) /\ Cardinality(B) <= Cardinality(A) /\ (Cardinality(A) = Cardinality(B) => A = B)
  BY <1>2, <1>3, FS_Subset
<1>5. Cardinality(B) \in Nat
  BY <1>4, FS_CardinalityType
<1>6. ASSUME Cardinality(B) = Bits[k] - 1
      PROVE  \E e \in A : B = A \ {e}
  <2>1. A \cap B = B
    BY <1>3
  <2>2. IsFiniteSet(A \ B) /\ Cardinality(A \ B) = Cardinality(A) - Cardinality(B)
    BY <1>2, <2>1, FS_Difference
  <2>4. Cardinality(A \ B) = 1
    BY <1>1, <1>2, <1>6, <2>2
  <2>3. PICK e : A \ B = {e}
    BY <2>2, <2>4, FS_Singleton
  <2> QED  BY <1>3, <2>3
<1> QED  BY <1>1, <1>2, <1>4, <1>5, <1>6 DEF A, B

\* At most all slots are marked, and one fewer if one of group 0 is free.
LEMMA MarksBound ==
  ASSUME NEW b \in GroupBits, NEW n \in 1 .. MaxGroups, NEW k \in Kinds
  PROVE  /\ Cardinality(Marks(b, 0 .. n - 1, k)) \in Nat
         /\ n * Bits[k] \in Nat
         /\ Cardinality(Marks(b, 0 .. n - 1, k)) <= n * Bits[k]
         /\ Cardinality(b[0][k]) <= Bits[k] - 1 =>
              Cardinality(Marks(b, 0 .. n - 1, k)) <= n * Bits[k] - 1
         /\ (\A g \in 0 .. n - 1 : b[g][k] = 0 .. Bits[k] - 1) =>
              Cardinality(Marks(b, 0 .. n - 1, k)) = n * Bits[k]
         /\ /\ Cardinality(b[0][k]) = Bits[k] - 1
            /\ \A g \in 1 .. n - 1 : b[g][k] = 0 .. Bits[k] - 1
            => Cardinality(Marks(b, 0 .. n - 1, k)) = n * Bits[k] - 1
<1> DEFINE S == Slots(n, k)
           P == Pairs(b, n, k)
<1>1. n \in Nat /\ 0 \in 0 .. n - 1 /\ 0 \in Groups /\ 0 .. n - 1 \subseteq Groups
  BY MaxGroupsAssumption DEF Groups
<1>2. IsFiniteSet(S) /\ Cardinality(S) = n * Bits[k]
  BY <1>1, SlotsCard
<1>3. P \in SUBSET S
  BY DEF Pairs
<1>4. /\ IsFiniteSet(P) /\ Cardinality(P) \in Nat /\ Cardinality(S) \in Nat
      /\ Cardinality(P) <= Cardinality(S) /\ (Cardinality(S) = Cardinality(P) => S = P)
  BY <1>2, <1>3, FS_Subset, FS_CardinalityType
<1>5. Cardinality(Marks(b, 0 .. n - 1, k)) = Cardinality(P)
  BY MarksCard
<1>6. Bits[k] \in Nat \ {0} /\ Cardinality(0 .. Bits[k] - 1) = Bits[k]
  BY BitsFit, UpTo
<1>7. ASSUME Cardinality(b[0][k]) <= Bits[k] - 1
      PROVE  Cardinality(P) <= Cardinality(S) - 1
  <2>1. b[0][k] # 0 .. Bits[k] - 1
    BY <1>1, <1>6, <1>7, GroupCard
  <2>2. PICK e \in 0 .. Bits[k] - 1 : e \notin b[0][k]
    BY <1>1, <2>1, BitsBound
  <2>3. <<0, e>> \in S /\ <<0, e>> \notin P
    BY <1>1, <2>2 DEF Pairs, Slots
  <2> QED  BY <1>4, <2>3
<1>8. ASSUME \A g \in 0 .. n - 1 : b[g][k] = 0 .. Bits[k] - 1
      PROVE  P = S
  BY <1>8 DEF Pairs, Slots
<1>9. ASSUME Cardinality(b[0][k]) = Bits[k] - 1,
             \A g \in 1 .. n - 1 : b[g][k] = 0 .. Bits[k] - 1
      PROVE  Cardinality(P) = Cardinality(S) - 1
  <2>1. PICK e \in 0 .. Bits[k] - 1 : b[0][k] = (0 .. Bits[k] - 1) \ {e}
    BY <1>1, <1>9, GroupCard
  <2>2. <<0, e>> \in S
    BY <1>1, <2>1 DEF Slots
  <2>3. ASSUME NEW y \in S PROVE y \in P <=> y # <<0, e>>
    <3>1. y[1] \in 0 .. n - 1 /\ y[2] \in 0 .. Bits[k] - 1 /\ y = <<y[1], y[2]>>
      BY DEF Slots
    <3>2. CASE y[1] = 0
      BY <2>1, <3>1, <3>2 DEF Pairs
    <3>3. CASE y[1] # 0
      <4>1. y[1] \in 1 .. n - 1
        BY <1>1, <3>1, <3>3
      <4>2. b[y[1]][k] = 0 .. Bits[k] - 1
        BY <1>9, <4>1
      <4>3. y \in P
        BY <3>1, <4>2 DEF Pairs
      <4>4. y # <<0, e>>
        BY <3>3
      <4> QED  BY <4>3, <4>4
    <3> QED  BY <3>2, <3>3
  <2>4. P = S \ {<<0, e>>}
    BY <1>3, <2>3
  <2> QED  BY <1>2, <2>2, <2>4, FS_RemoveElement
<1> HIDE DEF S, P
<1> QED  BY <1>2, <1>4, <1>5, <1>7, <1>8, <1>9

(***************************************************************************)
(* num_block_groups.                                                       *)
(***************************************************************************)
LEMMA ProductMono ==
  ASSUME NEW a \in Nat, NEW b \in Nat, a <= b, NEW c \in Nat, NEW d \in Nat, c <= d
  PROVE  a * c \in Nat /\ b * d \in Nat /\ a * c <= b * d
<1>1. PICK x \in Nat : b = a + x
  <2>1. b - a \in Nat /\ b = a + (b - a)
    OBVIOUS
  <2> QED  BY <2>1
<1>2. PICK y \in Nat : d = c + y
  <2>1. d - c \in Nat /\ d = c + (d - c)
    OBVIOUS
  <2> QED  BY <2>1
<1>3. b * d = a * c + a * y + x * c + x * y
  BY <1>1, <1>2
<1>4. a * c \in Nat /\ a * y \in Nat /\ x * c \in Nat /\ x * y \in Nat
  BY <1>1, <1>2
<1> QED  BY <1>3, <1>4

LEMMA CeilBounds ==
  ASSUME NEW a \in Nat, NEW b \in Nat \ {0}, a + b - 1 < Word, NEW n \in Nat \ {0}
  PROVE  /\ CeilDiv(a, b) \in Nat
         /\ a <= n * b => CeilDiv(a, b) <= n
         /\ (n - 1) * b < a => n <= CeilDiv(a, b)
<1>1. PICK x \in Nat : x = a + b - 1
  OBVIOUS
<1>2. x % Word = x
  BY <1>1, WidthAssumption
<1>3. PICK q \in Nat : q = x \div b
  BY <1>1, DivMod
<1>4. CeilDiv(a, b) = q
  BY <1>1, <1>2, <1>3 DEF CeilDiv
<1>5. PICK r \in 0 .. b - 1 : x = b * q + r
  <2>1. x % b \in 0 .. b - 1 /\ x = b * q + (x % b)
    BY <1>1, <1>3, DivMod
  <2> QED  BY <2>1
<1>6. b * q \in Nat /\ n * b \in Nat /\ b * n = n * b /\ b * (n + 1) = n * b + b
      /\ (n - 1) * b = n * b - b /\ b * (q + 1) = b * q + b
  BY <1>3
<1>7. ASSUME a <= n * b PROVE q <= n
  <2>1. b * q < b * (n + 1)
    BY <1>1, <1>5, <1>6, <1>7
  <2>2. q < n + 1
    BY <1>3, <2>1, ProductLess
  <2> QED  BY <1>3, <2>2
<1>8. ASSUME (n - 1) * b < a PROVE n <= q
  <2>1. b * n < b * (q + 1)
    BY <1>1, <1>5, <1>6, <1>8
  <2>2. n < q + 1
    BY <1>3, <2>1, ProductLess
  <2> QED  BY <1>3, <2>2
<1> QED  BY <1>4, <1>7, <1>8

LEMMA WordBound ==
  ASSUME NEW n \in 1 .. MaxGroups
  PROVE  /\ n \in Nat \ {0}
         /\ n * TotalPerGroup \in Nat /\ n * TotalPerGroup + TotalPerGroup < Word
         /\ n * InodesPerGroup \in Nat /\ n * InodesPerGroup + InodesPerGroup < Word
         /\ Word \in Nat
<1>1. n \in Nat \ {0} /\ n <= MaxGroups /\ MaxGroups \in Nat
  BY MaxGroupsAssumption
<1>2. PICK w \in Nat : w = BlocksPerGroup + InodesPerGroup + 4
  BY BlocksPerGroupAssumption, InodesPerGroupAssumption
<1>3. InodeTable <= InodesPerGroup
  <2>1. 1 <= InodesPerBlock /\ InodesPerBlock \in Nat /\ InodeTable \in Nat
    BY InodesPerBlockAssumption, InodesPerGroupAssumption, Sizes
  <2>2. 1 * InodeTable <= InodesPerBlock * InodeTable
    BY <2>1, ProductMono
  <2> QED  BY <2>1, <2>2, Sizes
<1>4. PICK t \in Nat : t = TotalPerGroup /\ t <= w
  BY <1>2, <1>3, Sizes, BlocksPerGroupAssumption, InodesPerGroupAssumption
<1>5. PICK i \in Nat : i = InodesPerGroup /\ i <= w
  BY <1>2, BlocksPerGroupAssumption, InodesPerGroupAssumption
<1>6. (MaxGroups + 1) * w < Word /\ Word \in Nat
  BY <1>2, WidthAssumption
<1>7. (n + 1) * t <= (MaxGroups + 1) * w /\ (n + 1) * i <= (MaxGroups + 1) * w
  BY <1>1, <1>2, <1>4, <1>5, ProductMono
<1>8. (n + 1) * t = n * t + t /\ (n + 1) * i = n * i + i /\ n * t \in Nat /\ n * i \in Nat
      /\ (MaxGroups + 1) * w \in Nat
  BY <1>1, <1>2, <1>4, <1>5
<1>9. n * t + t < Word /\ n * i + i < Word
  BY <1>4, <1>5, <1>6, <1>7, <1>8
<1> QED  BY <1>1, <1>4, <1>5, <1>6, <1>8, <1>9

LEMMA GroupNumber ==
  ASSUME NEW s, NEW n \in 1 .. MaxGroups,
         s.count["block"] \in Nat, s.count["block"] <= n * TotalPerGroup,
         s.count["inode"] \in Nat, s.count["inode"] <= n * InodesPerGroup,
         \/ n = 1
         \/ (n - 1) * TotalPerGroup < s.count["block"]
         \/ (n - 1) * InodesPerGroup < s.count["inode"]
  PROVE  num_block_groups(s) = n
<1>1. PICK t \in Nat \ {0} : t = TotalPerGroup
  BY Sizes
<1>2. PICK i \in Nat \ {0} : i = InodesPerGroup
  BY InodesPerGroupAssumption
<1>3. PICK x \in Nat : x = s.count["block"]
  OBVIOUS
<1>4. PICK y \in Nat : y = s.count["inode"]
  OBVIOUS
<1>5. n \in Nat \ {0} /\ n * t \in Nat /\ n * t + t < Word /\ n * i \in Nat /\ n * i + i < Word /\ Word \in Nat
  BY <1>1, <1>2, WordBound
<1>6. x + t - 1 < Word /\ y + i - 1 < Word
  BY <1>1, <1>2, <1>3, <1>4, <1>5
<1>7. PICK c \in Nat : /\ c = CeilDiv(x, t) /\ c <= n
                       /\ (n - 1) * t < x => n <= c
  BY <1>1, <1>3, <1>5, <1>6, CeilBounds
<1>8. PICK d \in Nat : /\ d = CeilDiv(y, i) /\ d <= n
                       /\ (n - 1) * i < y => n <= d
  BY <1>2, <1>4, <1>5, <1>6, CeilBounds
<1>9. num_block_groups(s) = Max2(Max2(c, d), 1)
  BY <1>1, <1>2, <1>3, <1>4, <1>7, <1>8 DEF num_block_groups, Stride, Kinds
<1>10. n = 1 \/ n <= c \/ n <= d
  BY <1>1, <1>2, <1>3, <1>4, <1>7, <1>8
<1> QED  BY <1>5, <1>7, <1>8, <1>9, <1>10 DEF Max2

\* One group: the counts of the super block stay below those of a second one.
LEMMA OneGroup ==
  ASSUME NEW s, NEW x \in 0 .. BlocksPerGroup, s.count["block"] = 3 + x,
         s.count["inode"] \in 0 .. InodesPerGroup
  PROVE  num_block_groups(s) = 1
<1>1. 1 \in 1 .. MaxGroups
  BY MaxGroupsAssumption
<1>2. 1 * TotalPerGroup = TotalPerGroup /\ 1 * InodesPerGroup = InodesPerGroup
  BY Sizes, InodesPerGroupAssumption
<1>3. s.count["block"] \in Nat /\ s.count["block"] <= TotalPerGroup
  BY Sizes, BlocksPerGroupAssumption
<1>4. s.count["inode"] \in Nat /\ s.count["inode"] <= InodesPerGroup
  BY InodesPerGroupAssumption
<1> QED  BY <1>1, <1>2, <1>3, <1>4, GroupNumber

\* All n groups are full for blocks, or all for inodes: the new group is n.
LEMMA NextGroup ==
  ASSUME NEW s, NEW n \in 1 .. MaxGroups, NEW x \in Nat, NEW y \in Nat,
         s.count["block"] = 3 + x, s.count["inode"] = y,
         \/ x = n * BlocksPerGroup + 1 /\ y <= n * InodesPerGroup - 1
         \/ x <= n * BlocksPerGroup /\ y = n * InodesPerGroup
  PROVE  num_block_groups(s) = n
<1>b. PICK b \in Nat \ {0} : b = BlocksPerGroup
  BY BlocksPerGroupAssumption
<1>t. PICK t \in Nat : t = InodeTable + 2
  BY Sizes
<1>i. PICK i \in Nat \ {0} : i = InodesPerGroup
  BY InodesPerGroupAssumption
<1>1. b = BlocksPerGroup /\ t = InodeTable + 2 /\ i = InodesPerGroup
  BY <1>b, <1>t, <1>i
<1>2. TotalPerGroup = b + t /\ t >= 4 /\ n \in Nat \ {0} /\ MaxGroups \in Nat
  BY <1>1, Sizes, CountsAssumption, MaxGroupsAssumption
<1>3. /\ n * (b + t) = n * b + n * t /\ n * b \in Nat /\ n * t \in Nat /\ n * i \in Nat
      /\ (n - 1) * (b + t) = n * b - b + n * t - t
      /\ (n - 1) * i = n * i - i
  BY <1>1, <1>2
<1>4. t <= n * t
  <2>1. 1 * t <= n * t
    BY <1>1, <1>2, ProductMono
  <2> QED  BY <1>1, <2>1
<1>5. n * t - t < b + 4
  <2>1. n * t <= MaxGroups * t
    BY <1>1, <1>2, ProductMono
  <2>2. MaxGroups * t < b + t + 4 /\ MaxGroups * t \in Nat
    BY <1>1, <1>2, CountsAssumption
  <2> QED  BY <1>1, <1>3, <2>1, <2>2
<1>6. 3 + x <= n * (b + t) /\ y <= n * i
  BY <1>1, <1>2, <1>3, <1>4
<1>7. (n - 1) * (b + t) < 3 + x \/ (n - 1) * i < y
  BY <1>1, <1>2, <1>3, <1>5
<1>8. s.count["block"] \in Nat /\ s.count["inode"] \in Nat
  OBVIOUS
<1> QED  BY <1>1, <1>2, <1>6, <1>7, <1>8, GroupNumber

(***************************************************************************)
(* Offsets on disk.                                                        *)
(***************************************************************************)
LEMMA ModExact ==
  ASSUME NEW x \in Nat, x < Wrap
  PROVE  x % Wrap = x
BY OffsetsAssumption

\* The block of an inode is one of the inode table.
LEMMA TableBlock ==
  ASSUME NEW i \in 0 .. InodesPerGroup - 1
  PROVE  i \div InodesPerBlock \in 0 .. InodeTable - 1
<1>1. i \in Nat /\ InodesPerBlock \in Nat \ {0} /\ InodesPerGroup \in Nat
  BY InodesPerGroupAssumption, InodesPerBlockAssumption
<1>2. PICK q \in Nat : q = i \div InodesPerBlock
  BY <1>1, DivMod
<1>3. PICK r \in Nat : i = InodesPerBlock * q + r
  <2>1. /\ i % InodesPerBlock \in 0 .. InodesPerBlock - 1
        /\ i = InodesPerBlock * q + (i % InodesPerBlock)
    BY <1>1, <1>2, DivMod
  <2> QED  BY <1>1, <2>1
<1>4. InodesPerBlock * q \in Nat /\ InodesPerBlock * q <= i
  BY <1>1, <1>3
<1>5. InodesPerBlock * q < InodesPerBlock * InodeTable
  BY <1>1, <1>4, Sizes
<1>6. q < InodeTable
  BY <1>1, <1>5, Sizes, ProductLess
<1> QED  BY <1>2, <1>6, Sizes

\* No offset of a group wraps.
LEMMA Offsets ==
  ASSUME NEW g \in Groups
  PROVE  /\ g * TotalPerGroup \in Nat
         /\ bg_inode_bitmap(g) = g * TotalPerGroup + 1
         /\ bg_block_bitmap(g) = g * TotalPerGroup + 2
<1>1. g \in Nat /\ MaxGroups - 1 \in Nat /\ g <= MaxGroups - 1 /\ TotalPerGroup \in Nat
  BY MaxGroupsAssumption, Sizes DEF Groups
<1>2. g * TotalPerGroup \in Nat /\ (MaxGroups - 1) * TotalPerGroup \in Nat
  BY <1>1
<1>3. g * TotalPerGroup <= (MaxGroups - 1) * TotalPerGroup
  <2>1. CASE g = MaxGroups - 1
    BY <1>2, <2>1
  <2>2. CASE g < MaxGroups - 1
    <3>1. g * TotalPerGroup + TotalPerGroup <= (MaxGroups - 1) * TotalPerGroup
      BY <1>1, <2>2, GroupStep
    <3> QED  BY <1>1, <1>2, <3>1
  <2> QED  BY <1>1, <2>1, <2>2
<1>4. PICK x \in Nat : x = g * TotalPerGroup
  BY <1>2
<1>5. x + 2 < Wrap
  BY <1>2, <1>3, <1>4, OffsetsAssumption
<1>6. bg_inode_bitmap(g) = x + 1
  BY <1>4, <1>5, ModExact, OffsetsAssumption DEF bg_inode_bitmap
<1>7. bg_block_bitmap(g) = x + 2
  BY <1>5, <1>6, ModExact, OffsetsAssumption DEF bg_block_bitmap
<1> QED  BY <1>4, <1>6, <1>7

(***************************************************************************)
(* While no bitmap marks anything past its end (BitsInv, the inductive     *)
(* invariant), the groups are apart.                                       *)
(***************************************************************************)
\* All of group g lies between its first block and that of the next group.
LEMMA Places ==
  ASSUME BitsInv, NEW g \in Groups, NEW o \in Nat, o = g * TotalPerGroup
  PROVE  /\ Bitmaps(g) = {o + 1, o + 2}
         /\ bg_inode_bitmap(g) = o + 1 /\ bg_block_bitmap(g) = o + 2
         /\ Tables(g) \subseteq o + 3 .. o + 2 + InodeTable
         /\ Data(g) \subseteq o + 2 + InodeTable .. o + TotalPerGroup - 1
<1>1. bg_inode_bitmap(g) = o + 1 /\ bg_block_bitmap(g) = o + 2
  BY Offsets
<1>2. bits[g]["table"] \subseteq 0 .. InodesPerGroup - 1 /\ bits[g]["block"] \subseteq 0 .. BlocksPerGroup - 1
  BY DEF BitsInv, GroupBits, PartBits
<1>3. Tables(g) \subseteq o + 3 .. o + 2 + InodeTable
  <2> SUFFICES ASSUME NEW i \in bits[g]["table"]
               PROVE  inode_block_offset(g, i \div InodesPerBlock) \in o + 3 .. o + 2 + InodeTable
    BY DEF Tables
  <2>1. PICK q \in 0 .. InodeTable - 1 : q = i \div InodesPerBlock
    BY <1>2, TableBlock
  <2> QED  BY <1>1, <2>1, Sizes DEF inode_block_offset
<1>4. Data(g) \subseteq o + 2 + InodeTable .. o + TotalPerGroup - 1
  <2> SUFFICES ASSUME NEW i \in bits[g]["block"]
               PROVE  data_block_offset(g, i) \in o + 2 + InodeTable .. o + TotalPerGroup - 1
    BY DEF Data
  <2>1. i \in 0 .. BlocksPerGroup - 1
    BY <1>2
  <2> QED  BY <1>1, <2>1, Sizes, BlocksPerGroupAssumption DEF data_block_offset
<1> QED  BY <1>1, <1>3, <1>4 DEF Bitmaps

\* Everything of a group lies in its own range of the disk.
LEMMA InRange ==
  ASSUME BitsInv, NEW g \in Groups, NEW x \in Bitmaps(g) \cup Tables(g) \cup Data(g)
  PROVE  /\ x \in Nat /\ g * TotalPerGroup \in Nat
         /\ g * TotalPerGroup < x /\ x < g * TotalPerGroup + TotalPerGroup
<1>1. PICK o \in Nat : o = g * TotalPerGroup
  BY Offsets
<1>2. /\ Bitmaps(g) = {o + 1, o + 2}
      /\ Tables(g) \subseteq o + 3 .. o + 2 + InodeTable
      /\ Data(g) \subseteq o + 2 + InodeTable .. o + TotalPerGroup - 1
  BY <1>1, Places
<1>3. x \in Nat /\ o < x /\ x < o + TotalPerGroup
  BY <1>2, Sizes, BlocksPerGroupAssumption
<1> QED  BY <1>1, <1>3

LEMMA BitsInvApart == BitsInv => GroupsApart
<1> SUFFICES ASSUME BitsInv, NEW g \in loaded
             PROVE  /\ 0 \notin Bitmaps(g) \cup Tables(g) \cup Data(g)
                    /\ bg_inode_bitmap(g) # bg_block_bitmap(g)
                    /\ Bitmaps(g) \cap (Tables(g) \cup Data(g)) = {}
                    /\ \A h \in loaded \ {g} : (Bitmaps(g) \cup Tables(g) \cup Data(g))
                                               \cap (Bitmaps(h) \cup Tables(h) \cup Data(h)) = {}
  BY DEF GroupsApart
<1>1. g \in Groups /\ loaded \subseteq Groups
  BY DEF BitsInv
<1>2. PICK o \in Nat : o = g * TotalPerGroup
  BY <1>1, Offsets
<1>3. /\ Bitmaps(g) = {o + 1, o + 2}
      /\ bg_inode_bitmap(g) = o + 1 /\ bg_block_bitmap(g) = o + 2
      /\ Tables(g) \subseteq o + 3 .. o + 2 + InodeTable
      /\ Data(g) \subseteq o + 2 + InodeTable .. o + TotalPerGroup - 1
  BY <1>1, <1>2, Places
<1>4. 0 \notin Bitmaps(g) \cup Tables(g) \cup Data(g) /\ bg_inode_bitmap(g) # bg_block_bitmap(g)
  BY <1>3, Sizes
<1>5. Bitmaps(g) \cap (Tables(g) \cup Data(g)) = {}
  BY <1>3, Sizes
<1>6. ASSUME NEW h \in loaded \ {g}
      PROVE  (Bitmaps(g) \cup Tables(g) \cup Data(g))
             \cap (Bitmaps(h) \cup Tables(h) \cup Data(h)) = {}
  <2> SUFFICES ASSUME NEW x \in Bitmaps(g) \cup Tables(g) \cup Data(g),
                      x \in Bitmaps(h) \cup Tables(h) \cup Data(h)
               PROVE  FALSE
    OBVIOUS
  <2>1. h \in Groups /\ g \in Nat /\ h \in Nat /\ TotalPerGroup \in Nat
    BY <1>1, MaxGroupsAssumption, Sizes DEF Groups
  <2>2. /\ x \in Nat /\ g * TotalPerGroup \in Nat
        /\ g * TotalPerGroup < x /\ x < g * TotalPerGroup + TotalPerGroup
    BY <1>1, InRange
  <2>3. /\ h * TotalPerGroup \in Nat
        /\ h * TotalPerGroup < x /\ x < h * TotalPerGroup + TotalPerGroup
    BY <2>1, InRange
  <2>4. CASE g < h
    <3>1. g * TotalPerGroup + TotalPerGroup <= h * TotalPerGroup
      BY <2>1, <2>4, GroupStep
    <3> QED  BY <2>1, <2>2, <2>3, <3>1
  <2>5. CASE h < g
    <3>1. h * TotalPerGroup + TotalPerGroup <= g * TotalPerGroup
      BY <2>1, <2>5, GroupStep
    <3> QED  BY <2>1, <2>2, <2>3, <3>1
  <2> QED  BY <2>1, <2>4, <2>5
<1> QED  BY <1>4, <1>5, <1>6

(***************************************************************************)
(* The operations on the state in memory keep it.                          *)
(***************************************************************************)
LEMMA BecomeInv ==
  ASSUME NEW m, MemOK(m), Become(m), DiskOK(disk'), UsedOK(used')
  PROVE  BitsInv'
BY DEF MemOK, Become, BitsInv, DiskOK, UsedOK

\* One more index in use, or fewer of them.
LEMMA UsedMore ==
  ASSUME UsedOK(used), NEW k \in Kinds, NEW x \in Indices(k),
         used' = [used EXCEPT ![k] = @ \cup {x}]
  PROVE  UsedOK(used')
<1>1. \A q \in Kinds : used'[q] = IF q = k THEN used[q] \cup {x} ELSE used[q]
  BY DEF UsedOK
<1>2. used' = [q \in Kinds |-> used'[q]]
  BY DEF UsedOK
<1> QED  BY <1>1, <1>2 DEF UsedOK

LEMMA UsedLess ==
  ASSUME UsedOK(used), NEW k \in Kinds, NEW x, used' = [used EXCEPT ![k] = @ \ {x}]
  PROVE  UsedOK(used')
<1>1. \A q \in Kinds : used'[q] \subseteq used[q]
  BY DEF UsedOK
<1>2. used' = [q \in Kinds |-> used'[q]]
  BY DEF UsedOK
<1> QED  BY <1>1, <1>2 DEF UsedOK

LEMMA CountedOK ==
  ASSUME NEW m, MemOK(m), NEW k, NEW n, NEW r, r = Counted(m, k, n)
  PROVE  MemOK(r) /\ r.bits = m.bits
<1>1. r = [m EXCEPT !.sb = r.sb]
  BY DEF MemOK, Counted
<1> QED  BY <1>1 DEF MemOK

LEMMA LoadOK ==
  ASSUME NEW m, MemOK(m), DiskOK(disk), NEW g \in Groups, NEW r, r = Load(m, g)
  PROVE  MemOK(r)
<1>1. CASE g \in m.loaded
  BY <1>1 DEF Load
<1>2. CASE g \notin m.loaded
  <2>1. r = [m EXCEPT !.loaded = m.loaded \cup {g}, !.bits = [m.bits EXCEPT ![g] = disk.bits[g]]]
    BY <1>2 DEF Load, MemOK
  <2>2. /\ r.loaded = m.loaded \cup {g} /\ r.bits = [m.bits EXCEPT ![g] = disk.bits[g]]
        /\ r = [sb |-> r.sb, loaded |-> r.loaded, bits |-> r.bits]
    BY <2>1 DEF MemOK
  <2> QED  BY <2>2 DEF MemOK, DiskOK, GroupBits
<1> QED  BY <1>1, <1>2

LEMMA NewGroupOK ==
  ASSUME NEW m, MemOK(m), NEW g \in Groups, g = num_block_groups(m.sb),
         NEW r, r = alloc_block_group(m)
  PROVE  MemOK(r) /\ r.bits[g] = NoBits
<1>1. r = [m EXCEPT !.sb = r.sb, !.loaded = m.loaded \cup {g}, !.bits = [m.bits EXCEPT ![g] = NoBits]]
  BY DEF alloc_block_group, MemOK
<1>2. /\ r.loaded = m.loaded \cup {g} /\ r.bits = [m.bits EXCEPT ![g] = NoBits]
      /\ r = [sb |-> r.sb, loaded |-> r.loaded, bits |-> r.bits]
  BY <1>1 DEF MemOK
<1> QED  BY <1>2, NoBitsOK DEF MemOK, GroupBits

\* alloc_new finds a bit of the bitmap, if one is free.
LEMMA FirstBitIn ==
  ASSUME NEW m, MemOK(m), NEW g \in Groups, NEW k \in Kinds, ~Full(m, g, k)
  PROVE  FirstBit(m, g, k) \in 0 .. Bits[k] - 1
<1> DEFINE S == {i \in 0 .. Bits[k] - 1 : i \notin m.bits[g][k]}
<1>1. Searched(k) = 0 .. Bits[k] - 1 /\ Bits[k] \in Nat
  BY KindFacts
<1>2. S \in SUBSET Nat /\ S # {}
  BY <1>1 DEF Full
<1>3. PICK i \in S : \A j \in S : i <= j
  BY <1>2, Least
<1>4. i \in Searched(k) /\ i \notin m.bits[g][k] /\ \A j \in 0 .. i - 1 : j \in m.bits[g][k]
  BY <1>1, <1>3
<1> QED  BY <1>1, <1>4 DEF FirstBit

LEMMA MarkedOK ==
  ASSUME NEW b \in PartBits, NEW k \in Kinds, NEW i \in 0 .. Bits[k] - 1,
         NEW c, c = Marked(b, k, i)
  PROVE  c \in PartBits
<1>1. CASE k = "block"
  BY <1>1, KindFacts DEF Marked, PartBits, Kinds, Parts
<1>2. CASE k = "inode"
  BY <1>2, KindFacts DEF Marked, PartBits, Kinds, Parts
<1> QED  BY <1>1, <1>2 DEF Kinds

\* One part is replaced by bits of the same part.
LEMMA PartOK ==
  ASSUME NEW b \in PartBits, NEW d \in PartBits, NEW p, NEW X \in SUBSET d[p],
         NEW c, c = [b EXCEPT ![p] = X]
  PROVE  c \in PartBits
<1>1. b \in [Parts -> SUBSET Nat] /\ d \in [Parts -> SUBSET Nat]
  BY DEF PartBits
<1>2. c \in [Parts -> SUBSET Nat]
  <2>1. CASE p \in Parts
    BY <1>1, <2>1
  <2>2. CASE p \notin Parts
    BY <1>1, <2>2
  <2> QED  BY <2>1, <2>2
<1>3. \A q \in Parts : c[q] \subseteq b[q] \/ c[q] \subseteq d[q]
  BY <1>1
<1> QED  BY <1>2, <1>3 DEF PartBits, Parts, Kinds

LEMMA SetOK ==
  ASSUME NEW m, MemOK(m), NEW g \in Groups, NEW k \in Kinds, NEW i \in 0 .. Bits[k] - 1,
         NEW r, r = Set(m, g, k, i)
  PROVE  MemOK(r)
<1>1. PICK c : c = Marked(m.bits[g], k, i)
  OBVIOUS
<1>2. c \in PartBits
  BY <1>1, MarkedOK DEF MemOK, GroupBits
<1>3. r = [m EXCEPT !.bits = [m.bits EXCEPT ![g] = c]]
  BY <1>1 DEF Set, MemOK
<1>4. r.loaded = m.loaded /\ r.bits = [m.bits EXCEPT ![g] = c]
      /\ r = [sb |-> r.sb, loaded |-> r.loaded, bits |-> r.bits]
  BY <1>3 DEF MemOK
<1> QED  BY <1>2, <1>4 DEF MemOK, GroupBits

LEMMA TakeBitOK ==
  ASSUME NEW m, MemOK(m), NEW g \in Groups, NEW k \in Kinds, ~Full(m, g, k),
         NEW r, r = TakeBit(m, g, k)
  PROVE  MemOK(r)
<1>1. PICK s : s = Set(m, g, k, FirstBit(m, g, k))
  OBVIOUS
<1>2. MemOK(s)
  BY <1>1, FirstBitIn, SetOK
<1>3. r = [s EXCEPT !.sb = r.sb]
  BY <1>1, <1>2 DEF TakeBit, MemOK
<1> QED  BY <1>2, <1>3 DEF MemOK

(***************************************************************************)
(* The actions.                                                            *)
(***************************************************************************)
LEMMA HandedUsed ==
  ASSUME UsedOK(used), NEW m, MemOK(m), NEW g \in Groups, NEW k \in Kinds, ~Full(m, g, k),
         Handed(m, g, k)
  PROVE  UsedOK(used')
<1>1. PICK i \in 0 .. Stride[k] - 1 : i = FirstBit(m, g, k)
  BY FirstBitIn, BitsFit
<1>2. PICK x \in Indices(k) : x = g * Stride[k] + i
  BY <1>1, IndexJoin DEF IndexOf
<1>3. used' = [used EXCEPT ![k] = @ \cup {x}]
  BY <1>1, <1>2 DEF Handed
<1> QED  BY <1>3, UsedMore

LEMMA AllocInv ==
  ASSUME BitsInv, NEW k \in Kinds, Alloc(k)
  PROVE  BitsInv'
<1>1. PICK m : m = Counted(Memory, k, 1)
  OBVIOUS
<1>2. MemOK(m) /\ DiskOK(disk')
  BY <1>1, MemoryOK, CountedOK DEF Alloc, BitsInv
<1>3. \/ \E g \in Candidates(m, k) : Handed(m, g, k)
      \/ /\ Fresh(num_block_groups(m.sb))
         /\ Handed(alloc_block_group(m), num_block_groups(m.sb), k)
  <2> DEFINE fit == Candidates(m, k)
  <2>1. \/ fit # {} /\ Handed(m, CHOOSE g \in fit : \A h \in fit : g <= h, k)
        \/ /\ Fresh(num_block_groups(m.sb))
           /\ Handed(alloc_block_group(m), num_block_groups(m.sb), k)
    BY <1>1 DEF Alloc
  <2>2. fit # {} => (CHOOSE g \in fit : \A h \in fit : g <= h) \in fit
    <3>1. fit \in SUBSET Nat
      BY <1>2, MaxGroupsAssumption DEF Candidates, MemOK, Groups
    <3> HIDE DEF fit
    <3> QED  BY <3>1, Least
  <2> QED  BY <2>1, <2>2
<1>4. CASE \E g \in Candidates(m, k) : Handed(m, g, k)
  <2>1. PICK g \in Candidates(m, k) : Handed(m, g, k)
    BY <1>4
  <2>2. g \in Groups /\ ~Full(m, g, k)
    BY <1>2 DEF Candidates, MemOK
  <2>3. PICK r : r = TakeBit(m, g, k)
    OBVIOUS
  <2>4. MemOK(r) /\ Become(r)
    BY <1>2, <2>1, <2>2, <2>3, TakeBitOK DEF Handed
  <2>5. UsedOK(used')
    BY <1>2, <2>1, <2>2, HandedUsed DEF BitsInv
  <2> QED  BY <1>2, <2>4, <2>5, BecomeInv
<1>5. CASE /\ Fresh(num_block_groups(m.sb))
           /\ Handed(alloc_block_group(m), num_block_groups(m.sb), k)
  <2>1. PICK g \in Groups : g = num_block_groups(m.sb)
    BY <1>5 DEF Fresh
  <2>2. PICK n : n = alloc_block_group(m)
    OBVIOUS
  <2>3. MemOK(n) /\ n.bits[g] = NoBits
    BY <1>2, <2>1, <2>2, NewGroupOK
  <2>4. ~Full(n, g, k)
    <3>1. n.bits[g][k] = {} /\ 0 \in Searched(k)
      BY <2>3, NoBitsOK, KindFacts
    <3> QED  BY <3>1 DEF Full
  <2>5. PICK r : r = TakeBit(n, g, k)
    OBVIOUS
  <2>6. MemOK(r) /\ Become(r)
    BY <1>5, <2>1, <2>2, <2>3, <2>4, <2>5, TakeBitOK DEF Handed
  <2>7. UsedOK(used')
    BY <1>5, <2>1, <2>2, <2>3, <2>4, HandedUsed DEF BitsInv
  <2> QED  BY <1>2, <2>6, <2>7, BecomeInv
<1> QED  BY <1>3, <1>4, <1>5

LEMMA FreeInv ==
  ASSUME BitsInv, NEW k \in Kinds, NEW i \in used[k], Free(k, i)
  PROVE  BitsInv'
<1>i. i \in Indices(k)
  BY DEF BitsInv, UsedOK
<1>1. PICK g \in Groups : g = GroupOf(k, i)
  BY <1>i, GroupOfIn
<1>2. PICK m : m = Load(Counted(Memory, k, -1), g)
  OBVIOUS
<1>3. MemOK(m) /\ DiskOK(disk')
  <2>1. MemOK(Counted(Memory, k, -1))
    BY MemoryOK, CountedOK
  <2> QED  BY <1>2, <2>1, LoadOK DEF Free, BitsInv
<1>4. PICK r : r = [m EXCEPT !.bits[g][k] = @ \ {i % Stride[k]}, !.sb.free[g][k] = (@ + 1) % Short]
  OBVIOUS
<1>5. Become(m) \/ Become(r)
  BY <1>1, <1>2, <1>4 DEF Free
<1>6. MemOK(r)
  <2>1. PICK c : c = [m.bits[g] EXCEPT ![k] = m.bits[g][k] \ {i % Stride[k]}]
    OBVIOUS
  <2>2. c \in PartBits
    <3>1. m.bits[g] \in PartBits
      BY <1>3 DEF MemOK, GroupBits
    <3> QED  BY <2>1, <3>1, PartOK
  <2>3. r = [m EXCEPT !.bits = [m.bits EXCEPT ![g] = c], !.sb = r.sb]
    BY <1>3, <1>4, <2>1 DEF MemOK
  <2>4. r.loaded = m.loaded /\ r.bits = [m.bits EXCEPT ![g] = c]
        /\ r = [sb |-> r.sb, loaded |-> r.loaded, bits |-> r.bits]
    BY <1>3, <2>3 DEF MemOK
  <2> QED  BY <1>3, <2>2, <2>4 DEF MemOK, GroupBits
<1>7. UsedOK(used')
  <2>1. UsedOK(used) /\ used' = [used EXCEPT ![k] = @ \ {i}]
    BY DEF Free, BitsInv
  <2> QED  BY <2>1, UsedLess
<1> QED  BY <1>3, <1>5, <1>6, <1>7, BecomeInv

LEMMA GetInv ==
  ASSUME BitsInv, NEW k \in Kinds, NEW i \in used[k], Get(k, i)
  PROVE  BitsInv'
<1>i. i \in Indices(k)
  BY DEF BitsInv, UsedOK
<1>1. PICK m : m = Load(Memory, GroupOf(k, i))
  OBVIOUS
<1>2. MemOK(m) /\ Become(m) /\ DiskOK(disk') /\ UsedOK(used')
  BY <1>i, <1>1, GroupOfIn, MemoryOK, LoadOK DEF Get, BitsInv
<1> QED  BY <1>2, BecomeInv

LEMMA MountSuperInv == BitsInv /\ MountSuper => BitsInv'
<1> SUFFICES ASSUME BitsInv, MountSuper PROVE BitsInv'
  OBVIOUS
<1>1. \E s : disk' = [disk EXCEPT !.normal = TRUE, !.count = s.count, !.free = s.free]
  BY DEF MountSuper
<1>2. DiskOK(disk')
  BY <1>1 DEF BitsInv, DiskOK
<1> QED  BY <1>2 DEF MountSuper, BitsInv, DiskOK, UsedOK

LEMMA MountGroupInv == BitsInv /\ MountGroup => BitsInv'
<1> SUFFICES ASSUME BitsInv, MountGroup PROVE BitsInv'
  OBVIOUS
<1>1. 0 \in Groups /\ "inode" \in Kinds
  BY MaxGroupsAssumption DEF Groups, Kinds
<1>2. PICK m : m = Load(Memory, 0)
  OBVIOUS
<1>3. MemOK(m)
  BY <1>1, <1>2, MemoryOK, LoadOK DEF BitsInv
<1>4. PICK r : r = IF ROOT_INODE \in m.bits[0]["inode"] THEN m ELSE TakeBit(m, 0, "inode")
  OBVIOUS
<1>5. MemOK(r)
  <2>1. CASE ROOT_INODE \notin m.bits[0]["inode"]
    <3>1. ~Full(m, 0, "inode")
      BY <1>1, <2>1, KindFacts DEF Full, ROOT_INODE
    <3> QED  BY <1>1, <1>3, <1>4, <2>1, <3>1, TakeBitOK
  <2> QED  BY <1>3, <1>4, <2>1
<1>6. Become(r) /\ DiskOK(disk')
  BY <1>2, <1>4 DEF MountGroup, BitsInv
<1>7. UsedOK(used')
  <2>1. ROOT_INODE \in Indices("inode")
    <3>1. MaxGroups * InodesPerGroup \in Nat \ {0}
      BY MaxGroupsAssumption, InodesPerGroupAssumption
    <3> QED  BY <3>1 DEF Indices, ROOT_INODE, Stride, Kinds
  <2>2. used' = [used EXCEPT !["inode"] = @ \cup {ROOT_INODE}] /\ UsedOK(used)
    BY DEF MountGroup, BitsInv
  <2> QED  BY <1>1, <2>1, <2>2, UsedMore
<1> QED  BY <1>5, <1>6, <1>7, BecomeInv

\* What is written of a group has come from the disk or from memory.
LEMMA WrittenOK ==
  ASSUME NEW b \in PartBits, NEW d \in PartBits, NEW j, NEW c, c = Written(b, d, j)
  PROVE  c \in PartBits
<1>1. CASE j = 0
  BY <1>1, PartOK DEF Written
<1>2. CASE j = 1
  BY <1>2, PartOK DEF Written
<1>3. CASE j # 0 /\ j # 1
  <2>1. PICK X : /\ X = (b["table"] \ InBlock(b["table"], j - 2)) \cup InBlock(d["table"], j - 2)
                 /\ c = [b EXCEPT !["table"] = X]
    BY <1>3 DEF Written
  <2>2. X \subseteq b["table"] \cup d["table"]
    BY <2>1 DEF InBlock
  <2>3. X \subseteq 0 .. InodesPerGroup - 1
    BY <2>2 DEF PartBits
  <2>4. c \in [Parts -> SUBSET Nat]
    <3>1. X \in SUBSET Nat
      BY <2>3, InodesPerGroupAssumption
    <3> QED  BY <2>1, <3>1 DEF PartBits
  <2>5. c["table"] = X /\ c["block"] = b["block"] /\ c["inode"] = b["inode"]
    BY <2>1 DEF PartBits, Parts, Kinds
  <2> QED  BY <2>3, <2>4, <2>5 DEF PartBits
<1> QED  BY <1>1, <1>2, <1>3

LEMMA FlushPieceInv ==
  ASSUME BitsInv, NEW g \in Groups, NEW j, FlushPiece(g, j)
  PROVE  BitsInv'
<1>1. PICK b, d : b = disk.bits[g] /\ d = bits[g]
  OBVIOUS
<1>2. b \in PartBits /\ d \in PartBits
  BY <1>1 DEF BitsInv, DiskOK, GroupBits
<1>3. PICK c : c = Written(b, d, j)
  OBVIOUS
<1>4. c \in PartBits
  BY <1>2, <1>3, WrittenOK
<1>5. disk' = [disk EXCEPT !.bits = [disk.bits EXCEPT ![g] = c]] /\ UNCHANGED <<memory, used>>
  BY <1>1, <1>3 DEF FlushPiece, BitsInv, DiskOK
<1>6. DiskOK(disk')
  BY <1>4, <1>5 DEF BitsInv, DiskOK, GroupBits
<1> QED  BY <1>5, <1>6 DEF BitsInv, DiskOK, UsedOK, memory

LEMMA InitBits == Init => BitsInv
<1> SUFFICES ASSUME Init PROVE BitsInv
  OBVIOUS
<1>1. loaded \subseteq Groups /\ bits \in GroupBits /\ DiskOK(disk)
  BY NoBitsOK DEF Init, DiskOK, GroupBits
<1>2. UsedOK(used)
  BY DEF Init, UsedOK, None
<1> QED  BY <1>1, <1>2 DEF BitsInv

LEMMA UnloadedBits == Unloaded => loaded' = {} /\ bits' \in GroupBits
BY NoBitsOK DEF Unloaded, GroupBits

LEMMA NextBits == BitsInv /\ [Next]_vars => BitsInv'
<1> SUFFICES ASSUME BitsInv, [Next]_vars PROVE BitsInv'
  OBVIOUS
<1>1. CASE \E k \in Kinds : Alloc(k)
  BY <1>1, AllocInv
<1>2. CASE \E k \in Kinds : \E i \in used[k] : Free(k, i) \/ Get(k, i)
  BY <1>2, FreeInv, GetInv
<1>3. CASE MountSuper \/ MountGroup \/ \E g \in Groups, j \in Pieces : FlushPiece(g, j)
  BY <1>3, MountSuperInv, MountGroupInv, FlushPieceInv
<1>4. CASE \E j \in {"sync", "unmount"} : FlushSuper(j)
  <2>1. /\ disk' = [disk EXCEPT !.count = sb.count, !.sfree = sb.sfree, !.free = sb.free]
        /\ UNCHANGED <<memory, used>>
    BY <1>4 DEF FlushSuper
  <2>2. DiskOK(disk')
    BY <2>1 DEF BitsInv, DiskOK
  <2> QED  BY <2>1, <2>2 DEF BitsInv, DiskOK, UsedOK, memory
<1>5. CASE FlushDone
  <2>1. UNCHANGED <<disk, used>> /\ (Unloaded \/ UNCHANGED <<loaded, bits>>)
    BY <1>5 DEF FlushDone
  <2> QED  BY <2>1, UnloadedBits DEF BitsInv, DiskOK, UsedOK
<1>6. CASE Crash
  <2>1. UNCHANGED disk /\ Unloaded /\ used' = [k \in Kinds |-> OnDisk(k)]
    BY <1>6 DEF Crash
  <2>2. \A k \in Kinds : OnDisk(k) = Marks(disk.bits, Groups, k)
    BY MarksUnion DEF OnDisk, BitsInv, DiskOK
  <2>3. UsedOK(used')
    BY <2>1, <2>2 DEF UsedOK, Marks
  <2> QED  BY <2>1, <2>3, UnloadedBits DEF BitsInv, DiskOK
<1>7. CASE UNCHANGED vars
  BY <1>7 DEF vars, BitsInv, DiskOK, UsedOK
<1> QED  BY <1>1, <1>2, <1>3, <1>4, <1>5, <1>6, <1>7 DEF Next

(***************************************************************************)
(* The theorems.                                                           *)
(***************************************************************************)
\* No bitmap and no inode table marks anything past its end, in memory or on
\* disk, and no index in use is past the last group, whatever is allocated,
\* flushed, lost in a crash and mounted again.
THEOREM BitsInRange == Spec => []BitsInv
BY InitBits, NextBits, PTL DEF Spec

\* On disk, nothing that groups use lies on the super block or on a bitmap, and
\* no two groups meet.  It does not say that the data of a group are apart from
\* its own inode table: data_block_offset puts data block 0 on the table's last
\* block (TablesApart, which is false).
THEOREM LayoutApart == Spec => []GroupsApart
BY BitsInRange, BitsInvApart, PTL
=============================================================================
