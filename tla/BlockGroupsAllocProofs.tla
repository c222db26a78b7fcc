----------------------- MODULE BlockGroupsAllocProofs -----------------------
(***************************************************************************)
(* alloc_block, alloc_inode, free_block and free_inode keep the invariant  *)
(* of BlockGroups (GroupsInv).                                             *)
(***************************************************************************)
EXTENDS BlockGroupsProofs

\* The provers a step is given to in turn, with their time in seconds.
USE ZenonT(3), SMTT(40), ZenonT(60)

(***************************************************************************)
(* The operations in memory, component by component.                       *)
(***************************************************************************)
SbOK(s) == /\ s = [count |-> s.count, sfree |-> s.sfree, free |-> s.free, ndesc |-> s.ndesc]
           /\ s.count \in CountType /\ s.sfree \in CountType /\ s.free \in FreeType

SetFree(f, g, k, x) == [f EXCEPT ![g] = [f[g] EXCEPT ![k] = x]]
SetBits(b, g, c) == [b EXCEPT ![g] = c]
SetKind(u, k, x) == [u EXCEPT ![k] = x]

LEMMA FirstBitFree ==
  ASSUME NEW m, MemOK(m), NEW g \in Groups, NEW k \in Kinds, ~Full(m, g, k)
  PROVE  /\ FirstBit(m, g, k) \in 0 .. Bits[k] - 1
         /\ FirstBit(m, g, k) \notin m.bits[g][k]
         /\ 0 \notin m.bits[g][k] => FirstBit(m, g, k) = 0
<1> DEFINE S == {i \in 0 .. Bits[k] - 1 : i \notin m.bits[g][k]}
<1>1. Searched(k) = 0 .. Bits[k] - 1 /\ Bits[k] \in Nat
  BY KindFacts
<1>2. S \in SUBSET Nat /\ S # {}
  BY <1>1 DEF Full
<1>3. PICK i \in S : \A j \in S : i <= j
  BY <1>2, Least
<1>4. i \in Searched(k) /\ i \notin m.bits[g][k] /\ \A j \in 0 .. i - 1 : j \in m.bits[g][k]
  BY <1>1, <1>3
<1>5. /\ FirstBit(m, g, k) \in Searched(k) /\ FirstBit(m, g, k) \notin m.bits[g][k]
      /\ \A j \in 0 .. FirstBit(m, g, k) - 1 : j \in m.bits[g][k]
  BY <1>4 DEF FirstBit
<1> QED  BY <1>1, <1>5

LEMMA WordPositive == Word \in Nat \ {0}
<1>1. 1 \in 1 .. MaxGroups
  BY MaxGroupsAssumption
<1> QED  BY <1>1, WordBound, Sizes

LEMMA SetCount ==
  ASSUME NEW c \in CountType, NEW k \in Kinds, NEW n \in Int
  PROVE  SetKind(c, k, (c[k] + n) % Word) \in CountType
<1>1. c[k] \in Nat
  BY WordPositive DEF CountType
<1>2. PICK x \in Int : x = c[k] + n
  BY <1>1
<1>3. x % Word \in 0 .. Word - 1
  BY <1>2, WordPositive
<1> QED  BY <1>2, <1>3 DEF CountType, SetKind

LEMMA CountedEffect ==
  ASSUME NEW m, MemOK(m), SbOK(m.sb), NEW k \in Kinds, NEW n \in Int
  PROVE  /\ MemOK(Counted(m, k, n)) /\ SbOK(Counted(m, k, n).sb)
         /\ Counted(m, k, n).loaded = m.loaded /\ Counted(m, k, n).bits = m.bits
         /\ Counted(m, k, n).sb.free = m.sb.free /\ Counted(m, k, n).sb.ndesc = m.sb.ndesc
         /\ Counted(m, k, n).sb.count = SetKind(m.sb.count, k, (m.sb.count[k] + n) % Word)
         /\ Counted(m, k, n).sb.sfree = SetKind(m.sb.sfree, k, (m.sb.sfree[k] - n) % Word)
<1> DEFINE c == SetKind(m.sb.count, k, (m.sb.count[k] + n) % Word)
           d == SetKind(m.sb.sfree, k, (m.sb.sfree[k] - n) % Word)
           s1 == [m.sb EXCEPT !.count = c]
           s == [s1 EXCEPT !.sfree = d]
           m1 == [m EXCEPT !.sb = s1]
<1>1. Counted(m, k, n)
      = [m1 EXCEPT !.sb = [m1.sb EXCEPT !.sfree = [m1.sb.sfree EXCEPT ![k] = (m1.sb.sfree[k] - n) % Word]]]
  BY DEF Counted, SetKind
<1>2. c \in CountType
  BY SetCount DEF SbOK
<1>3. d \in CountType
  <2>1. PICK x \in Int : x = -n
    OBVIOUS
  <2>2. m.sb.sfree \in CountType /\ m.sb.sfree[k] \in Int
    BY WordPositive DEF SbOK, CountType
  <2>3. d = SetKind(m.sb.sfree, k, (m.sb.sfree[k] + x) % Word)
    BY <2>1, <2>2
  <2> HIDE DEF d
  <2> QED  BY <2>1, <2>2, <2>3, SetCount
<1> HIDE DEF c
<1>4. s1 = [count |-> c, sfree |-> m.sb.sfree, free |-> m.sb.free, ndesc |-> m.sb.ndesc]
  BY DEF SbOK
<1> HIDE DEF s1
<1>5. m1 = [sb |-> s1, loaded |-> m.loaded, bits |-> m.bits]
  BY DEF MemOK
<1> HIDE DEF m1
<1>6. Counted(m, k, n) = [m1 EXCEPT !.sb = s]
  BY <1>1, <1>4, <1>5 DEF SetKind
<1> HIDE DEF d
<1>7. s = [count |-> c, sfree |-> d, free |-> m.sb.free, ndesc |-> m.sb.ndesc]
  BY <1>4
<1> HIDE DEF s
<1>8. Counted(m, k, n) = [sb |-> s, loaded |-> m.loaded, bits |-> m.bits]
  BY <1>5, <1>6
<1>9. SbOK(s)
  BY <1>2, <1>3, <1>7 DEF SbOK
<1>10. MemOK(Counted(m, k, n))
  BY <1>8 DEF MemOK
<1> QED  BY <1>7, <1>8, <1>9, <1>10 DEF c, d

LEMMA TakeEffect ==
  ASSUME NEW m, MemOK(m), SbOK(m.sb), NEW g \in Groups, NEW k \in Kinds, ~Full(m, g, k),
         NEW i, i = FirstBit(m, g, k), NEW r, r = TakeBit(m, g, k)
  PROVE  /\ r.loaded = m.loaded
         /\ r.bits = SetBits(m.bits, g, Marked(m.bits[g], k, i))
         /\ r.sb.count = m.sb.count /\ r.sb.sfree = m.sb.sfree /\ r.sb.ndesc = m.sb.ndesc
         /\ r.sb.free = SetFree(m.sb.free, g, k, (m.sb.free[g][k] - 1) % Short)
         /\ SbOK(r.sb)
<1> DEFINE c == Marked(m.bits[g], k, i)
           b == SetBits(m.bits, g, c)
           x == (m.sb.free[g][k] - 1) % Short
           f == SetFree(m.sb.free, g, k, x)
           t == Set(m, g, k, i)
<1>1. t = [m EXCEPT !.bits = b]
  BY DEF Set, MemOK, SetBits
<1> HIDE DEF b
<1>2. t = [sb |-> m.sb, loaded |-> m.loaded, bits |-> b]
  BY <1>1 DEF MemOK
<1>3. x \in 0 .. Short - 1
  <2>1. Short \in Nat \ {0}
    BY WidthAssumption, BlocksPerGroupAssumption
  <2>2. m.sb.free[g][k] \in 0 .. Short - 1
    BY DEF SbOK, FreeType
  <2>3. PICK y \in Int : y = m.sb.free[g][k] - 1
    BY <2>1, <2>2
  <2>4. y % Short \in 0 .. Short - 1
    BY <2>1, <2>3
  <2> QED  BY <2>3, <2>4
<1>4. f \in FreeType
  BY <1>3 DEF SbOK, FreeType, SetFree
<1>5. r = [t EXCEPT !.sb = [t.sb EXCEPT !.free = [t.sb.free EXCEPT ![g] = [t.sb.free[g] EXCEPT ![k] = (t.sb.free[g][k] - 1) % Short]]]]
  BY <1>2 DEF TakeBit, SbOK
<1> HIDE DEF t
<1>6. r = [t EXCEPT !.sb = [m.sb EXCEPT !.free = f]]
  BY <1>2, <1>5 DEF SetFree
<1> HIDE DEF f
<1>7. [m.sb EXCEPT !.free = f] = [count |-> m.sb.count, sfree |-> m.sb.sfree, free |-> f, ndesc |-> m.sb.ndesc]
  BY DEF SbOK
<1>8. r = [sb |-> [count |-> m.sb.count, sfree |-> m.sb.sfree, free |-> f, ndesc |-> m.sb.ndesc], loaded |-> m.loaded, bits |-> b]
  BY <1>2, <1>6, <1>7
<1>9. SbOK(r.sb)
  BY <1>4, <1>8 DEF SbOK
<1> QED  BY <1>8, <1>9 DEF b, f

LEMMA NewDescType == NewDesc \in [Kinds -> 0 .. Short - 1] /\ \A k \in Kinds : NewDesc[k] = Bits[k]
<1>1. \A k \in Kinds : Bits[k] \in 0 .. Short - 1
  BY WidthAssumption, BlocksPerGroupAssumption, InodesPerGroupAssumption DEF Kinds, Bits
<1> QED  BY <1>1 DEF NewDesc

LEMMA NewGroupEffect ==
  ASSUME NEW m, MemOK(m), SbOK(m.sb), m.sb.ndesc \in Nat,
         NEW g \in Groups, g = num_block_groups(m.sb), NEW r, r = alloc_block_group(m)
  PROVE  /\ MemOK(r) /\ SbOK(r.sb)
         /\ r.loaded = m.loaded \cup {g}
         /\ r.bits = SetBits(m.bits, g, NoBits)
         /\ r.sb.count = m.sb.count /\ r.sb.sfree = m.sb.sfree /\ r.sb.ndesc = m.sb.ndesc + 1
         /\ r.sb.free = [m.sb.free EXCEPT ![g] = NewDesc]
<1> DEFINE f == [m.sb.free EXCEPT ![g] = NewDesc]
           b == SetBits(m.bits, g, NoBits)
           L == m.loaded \cup {g}
           s1 == [m.sb EXCEPT !.free = f]
           s == [s1 EXCEPT !.ndesc = m.sb.ndesc + 1]
           m1 == [m EXCEPT !.sb = s1]
           m2 == [m1 EXCEPT !.sb = [m1.sb EXCEPT !.ndesc = m.sb.ndesc + 1]]
           m3 == [m2 EXCEPT !.loaded = L]
<1>1. r = [m3 EXCEPT !.bits = [m3.bits EXCEPT ![g] = NoBits]]
  BY DEF alloc_block_group
<1>2. f \in FreeType
  BY NewDescType DEF SbOK, FreeType
<1>3. b \in GroupBits
  BY NoBitsOK DEF MemOK, GroupBits, SetBits
<1> HIDE DEF f, b
<1>d. s1 = [count |-> m.sb.count, sfree |-> m.sb.sfree, free |-> f, ndesc |-> m.sb.ndesc]
  BY DEF SbOK
<1> HIDE DEF s1, L
<1>4. s = [count |-> m.sb.count, sfree |-> m.sb.sfree, free |-> f, ndesc |-> m.sb.ndesc + 1]
  BY <1>d
<1>a. m1 = [sb |-> s1, loaded |-> m.loaded, bits |-> m.bits]
  BY DEF MemOK
<1> HIDE DEF m1
<1>b. m2 = [sb |-> s, loaded |-> m.loaded, bits |-> m.bits]
  BY <1>a
<1> HIDE DEF s, m2
<1>c. m3 = [sb |-> s, loaded |-> L, bits |-> m.bits]
  BY <1>b
<1> HIDE DEF m3
<1>5. r = [sb |-> s, loaded |-> L, bits |-> b]
  BY <1>1, <1>c DEF b, SetBits
<1>6. SbOK(s)
  BY <1>2, <1>4 DEF SbOK
<1>7. MemOK(r)
  BY <1>3, <1>5 DEF MemOK, L
<1> QED  BY <1>4, <1>5, <1>6, <1>7 DEF f, b, L

(***************************************************************************)
(* What alloc_block and alloc_inode do.                                    *)
(***************************************************************************)
\* The counts say how many blocks and inodes are in use.
LEMMA UsedBound ==
  ASSUME BitsInv, GroupsInv, Live, ~torn
  PROVE  /\ sb.ndesc \in 1 .. MaxGroups /\ sb.ndesc \in Nat \ {0}
         /\ loaded = 0 .. sb.ndesc - 1 /\ 0 \in loaded /\ loaded \subseteq Groups
         /\ \A k \in Kinds :
              /\ used[k] = Marks(bits, 0 .. sb.ndesc - 1, k)
              /\ Cardinality(used[k]) \in Nat /\ sb.ndesc * Bits[k] \in Nat
              /\ Cardinality(used[k]) <= sb.ndesc * Bits[k]
         /\ Cardinality(bits[0]["inode"]) <= InodesPerGroup - 1
         /\ Cardinality(used["inode"]) <= sb.ndesc * InodesPerGroup - 1
<1>1. sb.ndesc \in 1 .. MaxGroups /\ loaded = 0 .. sb.ndesc - 1
  BY DEF GroupsInv, CountInv
<1>2. sb.ndesc \in Nat \ {0} /\ 0 \in loaded /\ loaded \subseteq Groups
  BY <1>1, MaxGroupsAssumption DEF BitsInv
<1>3. \A k \in Kinds : used[k] = Marks(bits, 0 .. sb.ndesc - 1, k)
  BY <1>1 DEF GroupsInv, UsedInv
<1>4. bits \in GroupBits
  BY DEF BitsInv
<1>5. ASSUME NEW k \in Kinds
      PROVE  /\ Cardinality(used[k]) \in Nat /\ sb.ndesc * Bits[k] \in Nat
             /\ Cardinality(used[k]) <= sb.ndesc * Bits[k]
  BY <1>1, <1>3, <1>4, MarksBound
<1>6. Cardinality(bits[0]["inode"]) <= InodesPerGroup - 1
  <2>1. 0 \in Groups /\ "inode" \in Kinds
    BY <1>2 DEF Kinds
  <2>2. sb.free[0]["inode"] = InodesPerGroup - Cardinality(bits[0]["inode"]) - 1
    BY <1>2, <2>1, KindFacts DEF GroupsInv, CountInv, FreeOf
  <2>3. sb.free[0]["inode"] \in 0 .. Short - 1
    BY <2>1 DEF GroupsInv, TypeInv, FreeType
  <2>4. Cardinality(bits[0]["inode"]) \in Nat
    BY <1>4, <2>1, GroupCard, BitsFit
  <2> QED  BY <2>2, <2>3, <2>4, InodesPerGroupAssumption, WidthAssumption
<1>7. Cardinality(used["inode"]) <= sb.ndesc * InodesPerGroup - 1
  <2>1. "inode" \in Kinds /\ Bits["inode"] = InodesPerGroup
    BY DEF Kinds, Bits
  <2> QED  BY <1>1, <1>3, <1>4, <1>6, <2>1, MarksBound
<1> QED  BY <1>1, <1>2, <1>3, <1>5, <1>6, <1>7

\* One more than the counts does not overflow them.
LEMMA CountFits ==
  ASSUME NEW n \in 1 .. MaxGroups, NEW k \in Kinds, NEW x \in Nat, x <= n * Bits[k] + 1
  PROVE  3 + x < Word /\ Word \in Nat
<1>1. PICK t \in Nat : t = TotalPerGroup
  BY Sizes
<1>2. PICK b \in Nat \ {0} : b = BlocksPerGroup
  BY BlocksPerGroupAssumption
<1>3. PICK i \in Nat \ {0} : i = InodesPerGroup
  BY InodesPerGroupAssumption
<1>4. n \in Nat \ {0} /\ n * t \in Nat /\ n * t + t < Word /\ Word \in Nat
  BY <1>1, WordBound
<1>5. t >= 4 /\ b <= t
  BY <1>1, <1>2, Sizes, CountsAssumption
<1>6. CASE k = "block"
  <2>1. n * b <= n * t /\ n * b \in Nat /\ Bits[k] = b
    BY <1>1, <1>2, <1>4, <1>5, <1>6, ProductMono, KindFacts
  <2>2. x <= n * b + 1
    BY <2>1
  <2>3. n * t + 5 <= n * t + t
    BY <1>1, <1>2, <1>4, Sizes, CountsAssumption
  <2> QED  BY <1>4, <2>1, <2>2, <2>3
<1>7. CASE k = "inode"
  <2>1. PICK w \in Nat : w = b + i + 4
    OBVIOUS
  <2>2. (MaxGroups + 1) * w < Word
    BY <1>2, <1>3, <2>1, WidthAssumption
  <2>3. MaxGroups \in Nat /\ n <= MaxGroups
    BY MaxGroupsAssumption
  <2>4. (n + 1) * w <= (MaxGroups + 1) * w /\ (n + 1) * w \in Nat /\ (MaxGroups + 1) * w \in Nat
    BY <1>4, <2>1, <2>3, ProductMono
  <2>5. (n + 1) * w = n * w + w /\ n * w \in Nat
    BY <1>4, <2>1
  <2>6. n * i <= n * w /\ n * i \in Nat
    BY <1>3, <1>4, <2>1, ProductMono
  <2>7. x <= n * i + 1
    BY <1>3, <1>7, KindFacts
  <2> QED  BY <1>2, <1>3, <1>4, <2>1, <2>2, <2>4, <2>5, <2>6, <2>7
<1> QED  BY <1>6, <1>7 DEF Kinds

\* When the groups are full, the next one has the number of the descriptors.
LEMMA FullNumber ==
  ASSUME BitsInv, GroupsInv, Live, ~torn, NEW k \in Kinds,
         \A g \in loaded : sb.free[g][k] = 0 \/ Searched(k) \subseteq bits[g][k],
         NEW s, s.count = SetKind(sb.count, k, (sb.count[k] + 1) % Word)
  PROVE  num_block_groups(s) = sb.ndesc
<1> DEFINE n == sb.ndesc
           x == Cardinality(used["block"])
           y == Cardinality(used["inode"])
<1>1. /\ n \in 1 .. MaxGroups /\ n \in Nat \ {0}
      /\ loaded = 0 .. n - 1 /\ 0 \in loaded /\ loaded \subseteq Groups
      /\ x \in Nat /\ n * BlocksPerGroup \in Nat /\ x <= n * BlocksPerGroup
      /\ y \in Nat /\ n * InodesPerGroup \in Nat /\ y <= n * InodesPerGroup - 1
      /\ used[k] = Marks(bits, 0 .. n - 1, k)
  BY UsedBound, KindFacts DEF Kinds
<1>2. /\ sb.count["block"] = 3 + x /\ sb.count["inode"] = y
      /\ \A g \in loaded : sb.free[g][k] = FreeOf(bits, g, k)
  BY DEF GroupsInv, CountInv
<1>3. bits \in GroupBits
  BY DEF BitsInv
<1>4. sb.count \in [Kinds -> 0 .. Word - 1]
  BY DEF GroupsInv, TypeInv, CountType
<1>5. CASE k = "block"
  <2>1. \A g \in 0 .. n - 1 : bits[g][k] = 0 .. Bits[k] - 1
    <3> SUFFICES ASSUME NEW g \in loaded PROVE bits[g][k] = 0 .. Bits[k] - 1
      BY <1>1
    <3>1. g \in Groups /\ bits[g][k] \subseteq 0 .. Bits[k] - 1
      BY <1>1, <1>3, BitsBound
    <3>2. CASE sb.free[g][k] = 0
      <4>1. 0 = Bits[k] - Cardinality(bits[g][k]) - 0
        BY <1>2, <1>5, <3>2 DEF FreeOf
      <4>2. Cardinality(bits[g][k]) \in 0 .. Bits[k] /\ Bits[k] \in Nat
        BY <1>3, <3>1, GroupCard, BitsFit
      <4>3. Cardinality(bits[g][k]) = Bits[k]
        BY <4>1, <4>2
      <4> QED  BY <1>3, <3>1, <4>3, GroupCard
    <3>3. CASE Searched(k) \subseteq bits[g][k]
      BY <3>1, <3>3, KindFacts
    <3> QED  BY <3>2, <3>3
  <2>0. Bits[k] = BlocksPerGroup
    BY <1>5, KindFacts
  <2>2. x = n * BlocksPerGroup
    BY <1>1, <1>3, <1>5, <2>0, <2>1, MarksBound
  <2>3. 3 + (x + 1) < Word /\ Word \in Nat
    <3>1. PICK z \in Nat : z = x + 1
      BY <1>1
    <3>2. z <= n * Bits[k] + 1
      BY <1>1, <2>0, <3>1
    <3>3. 3 + z < Word /\ Word \in Nat
      BY <1>1, <3>2, CountFits
    <3> QED  BY <3>1, <3>3
  <2>4. (sb.count[k] + 1) % Word = 3 + (x + 1)
    <3>1. sb.count[k] + 1 = 3 + (x + 1)
      BY <1>1, <1>2, <1>5
    <3>2. PICK z \in Nat : z = 3 + (x + 1)
      BY <1>1
    <3>3. z % Word = z
      BY <2>3, <3>2
    <3> QED  BY <3>1, <3>2, <3>3
  <2>5. s.count["block"] = 3 + (x + 1) /\ s.count["inode"] = y
    BY <1>2, <1>4, <1>5, <2>4 DEF SetKind, Kinds
  <2>6. x + 1 \in Nat /\ x + 1 = n * BlocksPerGroup + 1
    BY <1>1, <2>2
  <2> HIDE DEF x, y, n
  <2>7. num_block_groups(s) = n
    BY <1>1, <2>5, <2>6, NextGroup
  <2> QED  BY <2>7 DEF n
<1>6. CASE k = "inode"
  <2>0. 0 \in Groups /\ Bits[k] = InodesPerGroup
    BY <1>1, <1>6, KindFacts
  <2>1. \A g \in 1 .. n - 1 : bits[g][k] = 0 .. Bits[k] - 1
    <3> SUFFICES ASSUME NEW g \in 1 .. n - 1 PROVE bits[g][k] = 0 .. Bits[k] - 1
      OBVIOUS
    <3>1. g \in Groups /\ bits[g][k] \subseteq 0 .. Bits[k] - 1 /\ g \in loaded /\ g # 0
      BY <1>1, <1>3, BitsBound
    <3>2. CASE sb.free[g][k] = 0
      <4>1. 0 = Bits[k] - Cardinality(bits[g][k]) - 0
        BY <1>2, <1>6, <3>1, <3>2 DEF FreeOf
      <4>2. Cardinality(bits[g][k]) \in 0 .. Bits[k] /\ Bits[k] \in Nat
        BY <1>3, <3>1, GroupCard, BitsFit
      <4>3. Cardinality(bits[g][k]) = Bits[k]
        BY <4>1, <4>2
      <4> QED  BY <1>3, <3>1, <4>3, GroupCard
    <3>3. CASE Searched(k) \subseteq bits[g][k]
      BY <3>1, <3>3, KindFacts
    <3> QED  BY <3>1, <3>2, <3>3
  <2>2. Cardinality(bits[0][k]) = Bits[k] - 1
    <3>1. Cardinality(bits[0][k]) \in Nat /\ Cardinality(bits[0][k]) <= Bits[k] - 1 /\ Bits[k] \in Nat
      BY <1>3, <1>6, <2>0, GroupCard, UsedBound, BitsFit
    <3>2. CASE sb.free[0][k] = 0
      <4>1. 0 = Bits[k] - Cardinality(bits[0][k]) - 1
        BY <1>1, <1>2, <1>6, <3>2 DEF FreeOf
      <4> QED  BY <3>1, <4>1
    <3>3. CASE Searched(k) \subseteq bits[0][k]
      <4>1. bits[0][k] = 0 .. Bits[k] - 1
        BY <1>3, <2>0, <3>3, BitsBound, KindFacts
      <4>2. Cardinality(bits[0][k]) = Bits[k]
        BY <3>1, <4>1, UpTo
      <4> QED  BY <3>1, <4>2
    <3> QED  BY <1>1, <3>2, <3>3
  <2>3. y = n * InodesPerGroup - 1
    BY <1>1, <1>3, <1>6, <2>0, <2>1, <2>2, MarksBound
  <2>4. 3 + (y + 1) < Word /\ Word \in Nat
    <3>1. y + 1 \in Nat /\ y + 1 <= n * Bits[k] + 1
      <4>1. PICK z \in Nat : z = n * InodesPerGroup /\ y + 1 = z
        BY <1>1, <2>3
      <4> QED  BY <2>0, <4>1
    <3> HIDE DEF y, n
    <3> QED  BY <1>1, <3>1, CountFits
  <2>5. (sb.count[k] + 1) % Word = y + 1
    <3>1. sb.count[k] + 1 = y + 1
      BY <1>2, <1>6
    <3>2. PICK z \in Nat : z = y + 1
      BY <1>1
    <3>3. z % Word = z
      BY <2>4, <3>2
    <3> QED  BY <3>1, <3>2, <3>3
  <2>6. s.count["block"] = 3 + x /\ s.count["inode"] = y + 1
    BY <1>2, <1>4, <1>6, <2>5 DEF SetKind, Kinds
  <2>7. y + 1 \in Nat /\ y + 1 = n * InodesPerGroup
    BY <1>1, <2>3
  <2> HIDE DEF x, y, n
  <2>8. num_block_groups(s) = n
    BY <1>1, <2>6, <2>7, NextGroup
  <2> QED  BY <2>8 DEF n
<1> QED  BY <1>5, <1>6 DEF Kinds

\* What group g holds before a bit of it is taken; a new group holds nothing.
HeldBits(g, p) == IF g \in loaded THEN bits[g][p] ELSE {}
HeldFree(g, j) == IF g \in loaded THEN sb.free[g][j] ELSE Bits[j]

\* Bit i of group g is taken, in a group that has one free or in a new one.
Taken(k, g, i) ==
  /\ loaded' = loaded \cup {g}
  /\ i \notin HeldBits(g, k)
  /\ g \in loaded => sb.free[g][k] # 0 /\ sb'.ndesc = sb.ndesc
  /\ g \notin loaded => ~torn /\ g = sb.ndesc /\ sb'.ndesc = sb.ndesc + 1
  /\ \A h \in Groups \ {g} : bits'[h] = bits[h] /\ sb'.free[h] = sb.free[h]
  /\ \A p \in Parts :
       bits'[g][p] = HeldBits(g, p) \cup (IF p = k \/ (p = "table" /\ k = "inode") THEN {i} ELSE {})
  /\ \A j \in Kinds \ {k} : sb'.free[g][j] = HeldFree(g, j)
  /\ sb'.free[g][k] = (HeldFree(g, k) - 1) % Short
  /\ sb'.count = SetKind(sb.count, k, (sb.count[k] + 1) % Word)
  /\ sb'.sfree = SetKind(sb.sfree, k, (sb.sfree[k] - 1) % Word)
  /\ SbOK(sb')
  /\ used' = SetKind(used, k, used[k] \cup {IndexOf(k, g, i)})
  /\ phase = "up"
  /\ UNCHANGED <<phase, todo, job, disk, synced, torn, frees>>

LEMMA MarkedParts ==
  ASSUME NEW b \in PartBits, NEW k \in Kinds, NEW i, NEW p \in Parts
  PROVE  Marked(b, k, i)[p] = b[p] \cup (IF p = k \/ (p = "table" /\ k = "inode") THEN {i} ELSE {})
<1>1. CASE k = "block"
  BY <1>1 DEF Marked, PartBits, Kinds, Parts
<1>2. CASE k = "inode"
  BY <1>2 DEF Marked, PartBits, Kinds, Parts
<1> QED  BY <1>1, <1>2 DEF Kinds

LEMMA MemorySb == GroupsInv => SbOK(Memory.sb)
BY DEF GroupsInv, TypeInv, SbOK, Memory

LEMMA AllocTaken ==
  ASSUME BitsInv, GroupsInv, ~AnyRemount, NEW k \in Kinds, Alloc(k)
  PROVE  \E g \in Groups, i \in 0 .. Bits[k] - 1 : Taken(k, g, i)
<1>1. PICK m : m = Counted(Memory, k, 1)
  OBVIOUS
<1>2. /\ MemOK(m) /\ SbOK(m.sb) /\ m.loaded = loaded /\ m.bits = bits
      /\ m.sb.free = sb.free /\ m.sb.ndesc = sb.ndesc
      /\ m.sb.count = SetKind(sb.count, k, (sb.count[k] + 1) % Word)
      /\ m.sb.sfree = SetKind(sb.sfree, k, (sb.sfree[k] - 1) % Word)
  <2>1. Memory.loaded = loaded /\ Memory.bits = bits /\ Memory.sb = sb
    BY DEF Memory
  <2> QED  BY <1>1, <2>1, MemoryOK, MemorySb, CountedEffect
<1>3. \/ \E g \in Candidates(m, k) : Handed(m, g, k)
      \/ /\ Candidates(m, k) = {}
         /\ Fresh(num_block_groups(m.sb))
         /\ Handed(alloc_block_group(m), num_block_groups(m.sb), k)
  <2> DEFINE fit == Candidates(m, k)
  <2>1. \/ fit # {} /\ Handed(m, CHOOSE g \in fit : \A h \in fit : g <= h, k)
        \/ /\ fit = {}
           /\ Fresh(num_block_groups(m.sb))
           /\ Handed(alloc_block_group(m), num_block_groups(m.sb), k)
    BY <1>1 DEF Alloc
  <2>2. fit # {} => (CHOOSE g \in fit : \A h \in fit : g <= h) \in fit
    <3>1. fit \in SUBSET Nat
      BY <1>2, MaxGroupsAssumption DEF Candidates, MemOK, Groups
    <3> HIDE DEF fit
    <3> QED  BY <3>1, Least
  <2> QED  BY <2>1, <2>2
<1>4. phase = "up" /\ UNCHANGED <<phase, todo, job, disk, synced, torn, frees>>
  BY DEF Alloc
<1>5. bits \in GroupBits /\ loaded \subseteq Groups /\ sb.free \in FreeType
  BY DEF BitsInv, GroupsInv, TypeInv
<1>6. CASE \E g \in Candidates(m, k) : Handed(m, g, k)
  <2>1. PICK g \in Candidates(m, k) : Handed(m, g, k)
    BY <1>6
  <2>2. g \in Groups /\ g \in loaded /\ ~Full(m, g, k) /\ sb.free[g][k] # 0
    BY <1>2, <1>5 DEF Candidates
  <2>3. PICK i : i = FirstBit(m, g, k)
    OBVIOUS
  <2>4. i \in 0 .. Bits[k] - 1 /\ i \notin bits[g][k]
    BY <1>2, <2>2, <2>3, FirstBitFree
  <2>5. PICK r : r = TakeBit(m, g, k)
    OBVIOUS
  <2>6. /\ sb' = r.sb /\ loaded' = r.loaded /\ bits' = r.bits
        /\ used' = SetKind(used, k, used[k] \cup {IndexOf(k, g, i)})
    BY <2>1, <2>3, <2>5 DEF Handed, Become, SetKind, IndexOf
  <2>7. /\ loaded' = loaded /\ bits' = SetBits(bits, g, Marked(bits[g], k, i))
        /\ sb'.count = m.sb.count /\ sb'.sfree = m.sb.sfree /\ sb'.ndesc = sb.ndesc
        /\ sb'.free = SetFree(sb.free, g, k, (sb.free[g][k] - 1) % Short)
        /\ SbOK(sb')
    BY <1>2, <2>2, <2>3, <2>5, <2>6, TakeEffect
  <2>8. /\ \A h \in Groups \ {g} : bits'[h] = bits[h]
        /\ bits'[g] = Marked(bits[g], k, i)
    BY <1>5, <2>2, <2>7 DEF SetBits, GroupBits
  <2>9. \A p \in Parts : bits'[g][p] = HeldBits(g, p) \cup (IF p = k \/ (p = "table" /\ k = "inode") THEN {i} ELSE {})
    <3>1. bits[g] \in PartBits
      BY <1>5, <2>2 DEF GroupBits
    <3> QED  BY <2>2, <2>8, <3>1, MarkedParts DEF HeldBits
  <2>10. /\ \A h \in Groups \ {g} : sb'.free[h] = sb.free[h]
         /\ \A j \in Kinds \ {k} : sb'.free[g][j] = HeldFree(g, j)
         /\ sb'.free[g][k] = (HeldFree(g, k) - 1) % Short
    BY <1>5, <2>2, <2>7 DEF SetFree, FreeType, HeldFree
  <2>11. loaded' = loaded \cup {g} /\ i \notin HeldBits(g, k)
    BY <2>2, <2>4, <2>7 DEF HeldBits
  <2>12. Taken(k, g, i)
    BY <1>2, <1>4, <2>2, <2>6, <2>7, <2>8, <2>9, <2>10, <2>11 DEF Taken
  <2> QED  BY <2>2, <2>4, <2>12
<1>7. CASE /\ Candidates(m, k) = {}
           /\ Fresh(num_block_groups(m.sb))
           /\ Handed(alloc_block_group(m), num_block_groups(m.sb), k)
  <2>1. PICK g \in Groups : g = num_block_groups(m.sb)
    BY <1>7 DEF Fresh
  <2>2. ~torn /\ Live
    BY <1>4, <1>7 DEF Fresh, Live
  <2>3. \A h \in loaded : sb.free[h][k] = 0 \/ Searched(k) \subseteq bits[h][k]
    BY <1>2, <1>7 DEF Candidates, Full
  <2>4. g = sb.ndesc
    BY <1>2, <2>1, <2>2, <2>3, FullNumber
  <2>5. g \notin loaded /\ sb.ndesc \in Nat
    BY <2>2, <2>4, UsedBound
  <2>6. PICK n : n = alloc_block_group(m)
    OBVIOUS
  <2>7. /\ MemOK(n) /\ SbOK(n.sb) /\ n.loaded = loaded \cup {g} /\ n.bits = SetBits(bits, g, NoBits)
        /\ n.sb.count = m.sb.count /\ n.sb.sfree = m.sb.sfree /\ n.sb.ndesc = sb.ndesc + 1
        /\ n.sb.free = [sb.free EXCEPT ![g] = NewDesc]
    BY <1>2, <2>1, <2>5, <2>6, NewGroupEffect
  <2>8. /\ n.bits[g] = NoBits /\ \A h \in Groups \ {g} : n.bits[h] = bits[h]
        /\ n.sb.free[g] = NewDesc /\ \A h \in Groups \ {g} : n.sb.free[h] = sb.free[h]
    BY <1>5, <2>7 DEF SetBits, GroupBits, FreeType
  <2>9. ~Full(n, g, k)
    <3>1. n.bits[g][k] = {} /\ 0 \in Searched(k)
      BY <2>8, NoBitsOK, KindFacts
    <3> QED  BY <3>1 DEF Full
  <2>10. PICK i : i = FirstBit(n, g, k)
    OBVIOUS
  <2>11. i \in 0 .. Bits[k] - 1
    BY <2>7, <2>9, <2>10, FirstBitFree
  <2>12. PICK r : r = TakeBit(n, g, k)
    OBVIOUS
  <2>13. /\ sb' = r.sb /\ loaded' = r.loaded /\ bits' = r.bits
         /\ used' = SetKind(used, k, used[k] \cup {IndexOf(k, g, i)})
    BY <1>7, <2>1, <2>6, <2>10, <2>12 DEF Handed, Become, SetKind, IndexOf
  <2>14. /\ loaded' = loaded \cup {g} /\ bits' = SetBits(n.bits, g, Marked(n.bits[g], k, i))
         /\ sb'.count = m.sb.count /\ sb'.sfree = m.sb.sfree /\ sb'.ndesc = sb.ndesc + 1
         /\ sb'.free = SetFree(n.sb.free, g, k, (n.sb.free[g][k] - 1) % Short)
         /\ SbOK(sb')
    <3>1. /\ r.loaded = n.loaded /\ r.bits = SetBits(n.bits, g, Marked(n.bits[g], k, i))
          /\ r.sb.count = n.sb.count /\ r.sb.sfree = n.sb.sfree /\ r.sb.ndesc = n.sb.ndesc
          /\ r.sb.free = SetFree(n.sb.free, g, k, (n.sb.free[g][k] - 1) % Short)
          /\ SbOK(r.sb)
      <4>1. MemOK(n) /\ SbOK(n.sb)
        BY <2>7
      <4> QED  BY <2>9, <2>10, <2>12, <4>1, TakeEffect
    <3> QED  BY <2>7, <2>13, <3>1
  <2>15. /\ \A h \in Groups \ {g} : bits'[h] = bits[h]
         /\ bits'[g] = Marked(NoBits, k, i)
    BY <2>7, <2>8, <2>14 DEF SetBits, GroupBits, MemOK
  <2>16. \A p \in Parts : bits'[g][p] = HeldBits(g, p) \cup (IF p = k \/ (p = "table" /\ k = "inode") THEN {i} ELSE {})
    <3>1. \A p \in Parts : NoBits[p] = {}
      BY DEF NoBits
    <3> QED  BY <2>5, <2>15, <3>1, NoBitsOK, MarkedParts DEF HeldBits
  <2>17. /\ \A h \in Groups \ {g} : sb'.free[h] = sb.free[h]
         /\ \A j \in Kinds \ {k} : sb'.free[g][j] = HeldFree(g, j)
         /\ sb'.free[g][k] = (HeldFree(g, k) - 1) % Short
    <3>1. n.sb.free \in FreeType /\ \A j \in Kinds : n.sb.free[g][j] = HeldFree(g, j)
      BY <2>5, <2>7, <2>8, NewDescType DEF SbOK, HeldFree
    <3> QED  BY <2>8, <2>14, <3>1 DEF SetFree, FreeType
  <2>18. Taken(k, g, i)
    BY <1>2, <1>4, <2>2, <2>4, <2>5, <2>13, <2>14, <2>15, <2>16, <2>17 DEF Taken, HeldBits
  <2> QED  BY <2>11, <2>18
<1> QED  BY <1>3, <1>6, <1>7

LEMMA TakenMarks ==
  ASSUME BitsInv, GroupsInv, NEW k \in Kinds, NEW g \in Groups, NEW i \in 0 .. Bits[k] - 1,
         Taken(k, g, i), NEW j \in Kinds
  PROVE  used'[j] = Marks(bits', loaded', j)
<1>1. used[j] = Marks(bits, loaded, j) /\ used = [l \in Kinds |-> used[l]] /\ loaded \subseteq Groups
  BY DEF GroupsInv, UsedInv, UsedOK, Taken, Live, BitsInv
<1>2. j \in Parts /\ k \in Parts /\ j # "table"
  BY KindFacts
<1>3. i \in 0 .. Stride[k] - 1
  BY BitsFit
<1>4. /\ loaded' = loaded \cup {g}
      /\ \A h \in Groups \ {g} : bits'[h] = bits[h]
      /\ bits'[g][j] = HeldBits(g, j) \cup (IF j = k THEN {i} ELSE {})
  BY <1>2 DEF Taken
<1>5. ASSUME NEW x \in Indices(j)
      PROVE  GroupOf(j, x) \in loaded' /\ BitOf(j, x) \in bits'[GroupOf(j, x)][j]
             <=> \/ GroupOf(j, x) \in loaded /\ BitOf(j, x) \in bits[GroupOf(j, x)][j]
                 \/ j = k /\ GroupOf(j, x) = g /\ BitOf(j, x) = i
  <2>1. GroupOf(j, x) \in Groups
    BY IndexSplit
  <2>2. CASE GroupOf(j, x) = g
    BY <1>4, <2>2 DEF HeldBits
  <2>3. CASE GroupOf(j, x) # g
    BY <1>4, <2>1, <2>3
  <2> QED  BY <2>2, <2>3
<1>6. CASE j = k
  <2>1. Marks(bits', loaded', k) = Marks(bits, loaded, k) \cup {IndexOf(k, g, i)}
    BY <1>3, <1>5, <1>6, MarksAdd
  <2>2. used'[k] = used[k] \cup {IndexOf(k, g, i)}
    BY <1>1 DEF Taken, SetKind
  <2> QED  BY <1>1, <1>6, <2>1, <2>2
<1>7. CASE j # k
  <2>1. Marks(bits', loaded', j) = Marks(bits, loaded, j)
    BY <1>5, <1>7 DEF Marks
  <2>2. used'[j] = used[j]
    BY <1>1, <1>7 DEF Taken, SetKind
  <2> QED  BY <1>1, <2>1, <2>2
<1> QED  BY <1>6, <1>7

\* The sum of a count and its mirror stays when one is added to the one and
\* taken off the other, with either of them wrapping around.
LEMMA WrapAround ==
  ASSUME NEW w \in Nat \ {0}, NEW x \in 0 .. w - 1
  PROVE  x % w = x /\ (x + w) % w = x /\ w % w = 0 /\ (-1) % w = w - 1
<1>1. x % w = x /\ w % w = 0
  OBVIOUS
<1>2. (x + w) % w = x
  <2>1. PICK q \in Nat, r \in 0 .. w - 1 : x + w = w * q + r /\ r = (x + w) % w
    BY DivMod
  <2>2. q * w + r = 1 * w + x
    BY <2>1
  <2> QED  BY <2>1, <2>2, Unique
<1>3. (-1) % w = w - 1
  OBVIOUS
<1> QED  BY <1>1, <1>2, <1>3

LEMMA SumKept ==
  ASSUME NEW w \in Nat \ {0}, NEW a \in 0 .. w - 1, NEW b \in 0 .. w - 1
  PROVE  (((a + 1) % w) + ((b - 1) % w)) % w = (a + b) % w
<1>1. (a + 1) % w = IF a = w - 1 THEN 0 ELSE a + 1
  <2>1. CASE a = w - 1
    <3>1. a + 1 = w
      BY <2>1
    <3> QED  BY <2>1, <3>1, WrapAround
  <2>2. CASE a # w - 1
    <3>1. a + 1 \in 0 .. w - 1
      BY <2>2
    <3> QED  BY <2>2, <3>1, WrapAround
  <2> QED  BY <2>1, <2>2
<1>2. (b - 1) % w = IF b = 0 THEN w - 1 ELSE b - 1
  <2>1. CASE b = 0
    <3>1. b - 1 = -1
      BY <2>1
    <3> QED  BY <2>1, <3>1, WrapAround
  <2>2. CASE b # 0
    <3>1. b - 1 \in 0 .. w - 1
      BY <2>2
    <3> QED  BY <2>2, <3>1, WrapAround
  <2> QED  BY <2>1, <2>2
<1>3. CASE a = w - 1 /\ b = 0
  BY <1>1, <1>2, <1>3
<1>4. CASE a # w - 1 /\ b # 0
  <2>1. (a + 1) + (b - 1) = a + b
    OBVIOUS
  <2> QED  BY <1>1, <1>2, <1>4, <2>1
<1>5. CASE a # w - 1 /\ b = 0
  <2>1. (a + 1) + (w - 1) = a + w /\ a + b = a
    BY <1>5
  <2>2. (a + 1) % w = a + 1 /\ (b - 1) % w = w - 1
    BY <1>1, <1>2, <1>5
  <2>3. (a + w) % w = a /\ a % w = a
    BY WrapAround
  <2> QED  BY <2>1, <2>2, <2>3
<1>6. CASE a = w - 1 /\ b # 0
  <2>1. b - 1 \in 0 .. w - 1 /\ a + b = (b - 1) + w /\ 0 + (b - 1) = b - 1
    BY <1>6
  <2> QED  BY <1>1, <1>2, <1>6, <2>1, WrapAround
<1> QED  BY <1>3, <1>4, <1>5, <1>6

LEMMA MirrorStep ==
  ASSUME NEW c \in CountType, NEW f \in CountType, Mirrors(c, f), NEW k \in Kinds
  PROVE  /\ Mirrors(SetKind(c, k, (c[k] + 1) % Word), SetKind(f, k, (f[k] - 1) % Word))
         /\ Mirrors(SetKind(c, k, (c[k] + (-1)) % Word), SetKind(f, k, (f[k] - (-1)) % Word))
<1>1. PICK w \in Nat \ {0} : w = Word
  BY WordPositive
<1>2. c[k] \in 0 .. w - 1 /\ f[k] \in 0 .. w - 1
  BY <1>1 DEF CountType
<1>3. (((c[k] + 1) % w) + ((f[k] - 1) % w)) % w = (c[k] + f[k]) % w
  BY <1>1, <1>2, SumKept
<1>4. (((c[k] + (-1)) % w) + ((f[k] - (-1)) % w)) % w = (c[k] + f[k]) % w
  <2>1. (((f[k] + 1) % w) + ((c[k] - 1) % w)) % w = (f[k] + c[k]) % w
    BY <1>1, <1>2, SumKept
  <2>2. PICK x \in Int, y \in Int : x = (f[k] + 1) % w /\ y = (c[k] - 1) % w
    BY <1>1, <1>2
  <2>3. (c[k] + (-1)) % w = y /\ (f[k] - (-1)) % w = x
    <3>1. c[k] + (-1) = c[k] - 1 /\ f[k] - (-1) = f[k] + 1
      BY <1>2
    <3> QED  BY <2>2, <3>1
  <2>4. y + x = x + y /\ f[k] + c[k] = c[k] + f[k]
    BY <1>2, <2>2
  <2> QED  BY <2>1, <2>2, <2>3, <2>4
<1>5. ASSUME NEW x, NEW y, (x + y) % w = (c[k] + f[k]) % w
      PROVE  Mirrors(SetKind(c, k, x), SetKind(f, k, y))
  <2> SUFFICES ASSUME NEW j \in Kinds
               PROVE  (SetKind(c, k, x)[j] + SetKind(f, k, y)[j]) % w = Formatted.count[j]
    BY <1>1 DEF Mirrors
  <2>1. (c[j] + f[j]) % w = Formatted.count[j]
    BY <1>1 DEF Mirrors
  <2>2. CASE j = k
    BY <1>5, <2>1, <2>2 DEF SetKind, CountType
  <2>3. CASE j # k
    BY <2>1, <2>3 DEF SetKind, CountType
  <2> QED  BY <2>2, <2>3
<1> QED  BY <1>1, <1>3, <1>4, <1>5

\* Adding an element, or taking one away, changes the cardinality by one.
LEMMA CardAdd ==
  ASSUME NEW S, IsFiniteSet(S), NEW x, x \notin S
  PROVE  /\ Cardinality(S) \in Nat /\ IsFiniteSet(S \cup {x})
         /\ Cardinality(S \cup {x}) = Cardinality(S) + 1
BY FS_AddElement, FS_CardinalityType

LEMMA CardRemove ==
  ASSUME NEW S, IsFiniteSet(S), NEW x \in S
  PROVE  /\ Cardinality(S) \in Nat /\ IsFiniteSet(S \ {x}) /\ Cardinality(S \ {x}) \in Nat
         /\ Cardinality(S \ {x}) = Cardinality(S) - 1
BY FS_RemoveElement, FS_CardinalityType

LEMMA TakenCounts ==
  ASSUME BitsInv, BitsInv', GroupsInv, NEW k \in Kinds, NEW g \in Groups, NEW i \in 0 .. Bits[k] - 1,
         Taken(k, g, i), ~torn
  PROVE  /\ sb'.ndesc \in 1 .. MaxGroups
         /\ loaded' = 0 .. sb'.ndesc - 1
         /\ sb'.count["block"] = 3 + Cardinality(used'["block"])
         /\ sb'.count["inode"] = Cardinality(used'["inode"])
         /\ \A h \in loaded', j \in Kinds : sb'.free[h][j] = FreeOf(bits', h, j)
<1> DEFINE n == sb.ndesc
           N == sb'.ndesc
<1>1. Live /\ bits' \in GroupBits /\ bits \in GroupBits
  BY DEF Taken, Live, BitsInv
<1>2. /\ n \in 1 .. MaxGroups /\ n \in Nat \ {0} /\ loaded = 0 .. n - 1 /\ loaded \subseteq Groups
      /\ used[k] = Marks(bits, 0 .. n - 1, k)
  BY <1>1, UsedBound
<1>3. /\ sb.count["block"] = 3 + Cardinality(used["block"])
      /\ sb.count["inode"] = Cardinality(used["inode"])
      /\ \A h \in loaded, j \in Kinds : sb.free[h][j] = FreeOf(bits, h, j)
  BY <1>1 DEF GroupsInv, CountInv
<1>4. N \in 1 .. MaxGroups /\ loaded' = 0 .. N - 1
  <2>1. CASE g \in loaded
    BY <1>2, <2>1 DEF Taken
  <2>2. CASE g \notin loaded
    <3>1. g = n /\ N = n + 1 /\ loaded' = loaded \cup {g}
      BY <2>2 DEF Taken
    <3> QED  BY <1>2, <3>1, MaxGroupsAssumption DEF Groups
  <2> QED  BY <2>1, <2>2
<1>5. /\ used'[k] = used[k] \cup {IndexOf(k, g, i)}
      /\ \A j \in Kinds \ {k} : used'[j] = used[j]
  <2>1. used = [l \in Kinds |-> used[l]]
    BY DEF BitsInv, UsedOK
  <2> QED  BY <2>1 DEF Taken, SetKind
<1>6. IndexOf(k, g, i) \notin used[k]
  <2>1. GroupOf(k, IndexOf(k, g, i)) = g /\ BitOf(k, IndexOf(k, g, i)) = i
    BY IndexJoin, BitsFit
  <2>2. ~(g \in loaded /\ i \in bits[g][k])
    BY DEF Taken, HeldBits
  <2> QED  BY <1>2, <2>1, <2>2 DEF Marks
<1>7. IsFiniteSet(used[k])
  BY <1>1, <1>2, MarksCard
<1>8. Cardinality(used[k]) \in Nat /\ Cardinality(used'[k]) = Cardinality(used[k]) + 1
  BY <1>5, <1>6, <1>7, CardAdd
<1>9. Cardinality(used'[k]) \in Nat /\ Cardinality(used'[k]) <= N * Bits[k] /\ N * Bits[k] \in Nat
  <2>1. used'[k] = Marks(bits', 0 .. N - 1, k)
    BY <1>4, TakenMarks
  <2> QED  BY <1>1, <1>4, <2>1, MarksBound
<1>10. 3 + Cardinality(used'[k]) < Word /\ Word \in Nat
  <2>1. Cardinality(used'[k]) <= N * Bits[k] + 1
    BY <1>9
  <2> QED  BY <1>4, <1>9, <2>1, CountFits
<1>11. sb'.count = SetKind(sb.count, k, (sb.count[k] + 1) % Word) /\ sb.count \in [Kinds -> 0 .. Word - 1]
  BY DEF Taken, GroupsInv, TypeInv, CountType
<1>12. sb.count[k] + 1 \in Nat /\ sb.count[k] + 1 < Word /\ (sb.count[k] + 1) % Word = sb.count[k] + 1
  <2>1. sb.count[k] + 1 \in Nat /\ sb.count[k] + 1 < Word
    BY <1>3, <1>8, <1>10 DEF Kinds
  <2>2. PICK z \in Nat : z = sb.count[k] + 1
    BY <2>1
  <2>3. z % Word = z
    BY <1>10, <2>1, <2>2
  <2> QED  BY <2>1, <2>2, <2>3
<1>13. /\ sb'.count["block"] = 3 + Cardinality(used'["block"])
       /\ sb'.count["inode"] = Cardinality(used'["inode"])
  <2>1. CASE k = "block"
    <3>1. sb'.count["block"] = sb.count["block"] + 1 /\ sb'.count["inode"] = sb.count["inode"]
      BY <1>11, <1>12, <2>1 DEF SetKind, Kinds
    <3>2. used'["inode"] = used["inode"]
      BY <1>5, <2>1 DEF Kinds
    <3> QED  BY <1>3, <1>8, <2>1, <3>1, <3>2
  <2>2. CASE k = "inode"
    <3>1. sb'.count["inode"] = sb.count["inode"] + 1 /\ sb'.count["block"] = sb.count["block"]
      BY <1>11, <1>12, <2>2 DEF SetKind, Kinds
    <3>2. used'["block"] = used["block"]
      BY <1>5, <2>2 DEF Kinds
    <3> QED  BY <1>3, <1>8, <2>2, <3>1, <3>2
  <2> QED  BY <2>1, <2>2 DEF Kinds
<1>14. ASSUME NEW h \in loaded', NEW j \in Kinds
       PROVE  sb'.free[h][j] = FreeOf(bits', h, j)
  <2>1. h \in Groups /\ loaded' = loaded \cup {g} /\ j \in Parts /\ j # "table"
    BY <1>2, KindFacts DEF Taken
  <2>2. CASE h # g
    <3>1. h \in loaded /\ sb'.free[h] = sb.free[h] /\ bits'[h] = bits[h]
      BY <2>1, <2>2 DEF Taken
    <3> QED  BY <1>3, <3>1 DEF FreeOf
  <2>3. CASE h = g
    <3> DEFINE B == HeldBits(g, j)
               e == IF g = 0 /\ j = "inode" THEN 1 ELSE 0
    <3>1. HeldFree(g, j) = Bits[j] - Cardinality(B) - e /\ IsFiniteSet(B) /\ Cardinality(B) \in 0 .. Bits[j]
      <4>1. CASE g \in loaded
        BY <1>1, <1>3, <4>1, GroupCard DEF HeldBits, HeldFree, FreeOf
      <4>2. CASE g \notin loaded
        <5>1. B = {} /\ HeldFree(g, j) = Bits[j] /\ g # 0
          BY <1>2, <4>2 DEF HeldBits, HeldFree
        <5>2. Bits[j] \in Nat
          BY BitsFit
        <5> QED  BY <5>1, <5>2, FS_EmptySet
      <4> QED  BY <4>1, <4>2
    <3>2. bits'[g][j] = B \cup (IF j = k THEN {i} ELSE {})
      BY <2>1 DEF Taken
    <3>3. Bits[j] \in Nat /\ HeldFree(g, j) \in 0 .. Short - 1 /\ Short \in Nat
      <4>1. sb.free[g][j] \in 0 .. Short - 1 /\ Bits[j] \in Nat \ {0} /\ Short \in Nat
        BY BitsFit, WidthAssumption DEF GroupsInv, TypeInv, FreeType
      <4>2. Bits[j] \in 0 .. Short - 1
        BY NewDescType
      <4> QED  BY <4>1, <4>2 DEF HeldFree
    <3>4. CASE j # k
      <4>1. bits'[g][j] = B /\ sb'.free[g][j] = HeldFree(g, j)
        BY <3>2, <3>4 DEF Taken
      <4> QED  BY <2>3, <3>1, <4>1 DEF FreeOf
    <3>5. CASE j = k
      <4>1. bits'[g][k] = B \cup {i} /\ i \notin B /\ sb'.free[g][k] = (HeldFree(g, k) - 1) % Short
        BY <3>2, <3>5 DEF Taken
      <4>2. Cardinality(B \cup {i}) = Cardinality(B) + 1
        BY <3>1, <4>1, CardAdd
      <4>3. HeldFree(g, k) # 0
        <5>1. CASE g \in loaded
          BY <5>1 DEF Taken, HeldFree
        <5>2. CASE g \notin loaded
          BY <5>2, BitsFit DEF HeldFree
        <5> QED  BY <5>1, <5>2
      <4>4. PICK z \in Nat : z = HeldFree(g, k) - 1 /\ z < Short
        BY <3>3, <3>5, <4>3
      <4>5. z % Short = z
        BY <3>3, <4>4
      <4>6. e \in {0, 1}
        OBVIOUS
      <4> HIDE DEF B, e
      <4>7. sb'.free[g][k] = Bits[k] - Cardinality(bits'[g][k]) - e
        BY <3>1, <3>3, <3>5, <4>1, <4>2, <4>4, <4>5, <4>6
      <4> QED  BY <2>3, <3>5, <4>7 DEF FreeOf, e
    <3> QED  BY <3>4, <3>5
  <2> QED  BY <2>2, <2>3
<1> QED  BY <1>4, <1>13, <1>14

LEMMA TakenInv ==
  ASSUME BitsInv, BitsInv', GroupsInv, NEW k \in Kinds, NEW g \in Groups, NEW i \in 0 .. Bits[k] - 1,
         Taken(k, g, i)
  PROVE  GroupsInv'
<1>1. /\ Live /\ Live' /\ phase = "up" /\ phase' = "up" /\ disk' = disk /\ synced' = synced
      /\ torn' = torn /\ job' = job
  BY DEF Taken, Live
<1>2. TypeInv /\ MirrorInv /\ UsedInv /\ RootInv /\ SyncInv /\ CountInv /\ DiskInv
  BY DEF GroupsInv
<1>3. TypeInv' /\ MirrorInv'
  <2>1. TypeInv'
    BY <1>1, <1>2 DEF TypeInv, Taken, SbOK
  <2>2. Mirrors(sb'.count, sb'.sfree)
    <3>1. Mirrors(sb.count, sb.sfree) /\ sb.count \in CountType /\ sb.sfree \in CountType
      BY <1>1, <1>2 DEF MirrorInv, TypeInv
    <3> QED  BY <3>1, MirrorStep DEF Taken
  <2> QED  BY <1>1, <1>2, <2>1, <2>2 DEF MirrorInv
<1>4. \A h \in loaded, p \in Parts : bits[h][p] \subseteq bits'[h][p]
  <2> SUFFICES ASSUME NEW h \in loaded, NEW p \in Parts PROVE bits[h][p] \subseteq bits'[h][p]
    OBVIOUS
  <2>1. h \in Groups
    BY DEF BitsInv
  <2>2. CASE h = g
    BY <2>2 DEF Taken, HeldBits
  <2>3. CASE h # g
    BY <2>1, <2>3 DEF Taken
  <2> QED  BY <2>2, <2>3
<1>5. loaded' = loaded \cup {g} /\ 0 \in loaded /\ 0 \in loaded'
  <2>1. loaded' = loaded \cup {g}
    BY DEF Taken
  <2>2. 0 \in loaded
    BY <1>1, <1>2 DEF UsedInv
  <2> QED  BY <2>1, <2>2
<1>6. torn' \/ sb'.ndesc = 1 => g \in loaded /\ loaded' = loaded /\ (torn \/ sb.ndesc = 1)
  <2>1. CASE g \in loaded
    BY <1>1, <1>5, <2>1 DEF Taken
  <2>2. CASE g \notin loaded
    <3>1. ~torn /\ sb'.ndesc = sb.ndesc + 1
      BY <2>2 DEF Taken
    <3>2. sb.ndesc \in Nat \ {0}
      BY <1>1, <3>1, UsedBound
    <3> QED  BY <1>1, <3>1, <3>2
  <2> QED  BY <2>1, <2>2
<1>7. UsedInv'
  <2>1. \A j \in Kinds : used'[j] = Marks(bits', loaded', j)
    BY TakenMarks
  <2>2. \A h \in Groups \ loaded' : disk'.bits[h] = NoBits
    BY <1>1, <1>2, <1>5 DEF UsedInv
  <2>3. torn' \/ sb'.ndesc = 1 => loaded' = {0}
    BY <1>1, <1>2, <1>6 DEF UsedInv
  <2> QED  BY <1>1, <1>2, <1>5, <2>1, <2>2, <2>3 DEF UsedInv
<1>8. RootInv'
  <2>1. "inode" \in Parts /\ "table" \in Parts
    BY DEF Parts, Kinds
  <2> QED  BY <1>1, <1>2, <1>4, <1>5, <2>1 DEF RootInv, Mounting
<1>9. SyncInv'
  <2>1. \A j \in Kinds : used[j] \subseteq used'[j]
    <3>1. used = [l \in Kinds |-> used[l]]
      BY DEF BitsInv, UsedOK
    <3> QED  BY <3>1 DEF Taken, SetKind
  <2>2. \A x \in synced["inode"] : BitOf("inode", x) \in bits'[GroupOf("inode", x)]["table"]
    <3> SUFFICES ASSUME NEW x \in synced["inode"]
                 PROVE  BitOf("inode", x) \in bits'[GroupOf("inode", x)]["table"]
      OBVIOUS
    <3>1. x \in Marks(bits, loaded, "inode")
      BY <1>1, <1>2 DEF SyncInv, UsedInv, Kinds
    <3>2. GroupOf("inode", x) \in loaded
      BY <3>1 DEF Marks
    <3>3. BitOf("inode", x) \in bits[GroupOf("inode", x)]["table"]
      BY <1>1, <1>2 DEF SyncInv
    <3> QED  BY <1>4, <3>2, <3>3 DEF Parts
  <2> QED  BY <1>1, <1>2, <2>1, <2>2 DEF SyncInv
<1>10. FlushInv'
  BY <1>1 DEF FlushInv
<1>11. CountInv'
  BY <1>1, TakenCounts DEF CountInv
<1>12. DiskInv'
  <2>1. ~torn' /\ sb'.ndesc = 1 => ~torn /\ sb.ndesc = 1
    BY <1>1, <1>6
  <2> QED  BY <1>1, <1>2, <2>1 DEF DiskInv, BlocksMatch, InodesMatch, InodesFresh, Mounting, NeverFlushed
<1> QED  BY <1>3, <1>7, <1>8, <1>9, <1>10, <1>11, <1>12 DEF GroupsInv

(***************************************************************************)
(* What free_block and free_inode do.                                      *)
(***************************************************************************)
Cleared(k, g, i) ==
  /\ g \in loaded /\ i \in bits[g][k]
  /\ k = "inode" => IndexOf(k, g, i) # ROOT_INODE
  /\ loaded' = loaded
  /\ \A h \in Groups \ {g} : bits'[h] = bits[h] /\ sb'.free[h] = sb.free[h]
  /\ \A p \in Parts : bits'[g][p] = bits[g][p] \ (IF p = k THEN {i} ELSE {})
  /\ \A j \in Kinds \ {k} : sb'.free[g][j] = sb.free[g][j]
  /\ sb'.free[g][k] = (sb.free[g][k] + 1) % Short
  /\ sb'.count = SetKind(sb.count, k, (sb.count[k] + (-1)) % Word)
  /\ sb'.sfree = SetKind(sb.sfree, k, (sb.sfree[k] - (-1)) % Word)
  /\ sb'.ndesc = sb.ndesc
  /\ SbOK(sb')
  /\ used' = SetKind(used, k, used[k] \ {IndexOf(k, g, i)})
  /\ synced' = SetKind(synced, k, synced[k] \ {IndexOf(k, g, i)})
  /\ phase = "up"
  /\ UNCHANGED <<phase, todo, job, disk, torn>>

ClearBit(m, g, k, i) == [m EXCEPT !.bits[g][k] = @ \ {i}, !.sb.free[g][k] = (@ + 1) % Short]

LEMMA ClearEffect ==
  ASSUME NEW m, MemOK(m), SbOK(m.sb), NEW g \in Groups, NEW k \in Kinds, NEW i,
         NEW r, r = ClearBit(m, g, k, i)
  PROVE  /\ r.loaded = m.loaded
         /\ r.bits = SetBits(m.bits, g, SetKind(m.bits[g], k, m.bits[g][k] \ {i}))
         /\ r.sb.count = m.sb.count /\ r.sb.sfree = m.sb.sfree /\ r.sb.ndesc = m.sb.ndesc
         /\ r.sb.free = SetFree(m.sb.free, g, k, (m.sb.free[g][k] + 1) % Short)
         /\ SbOK(r.sb)
<1> DEFINE b == SetBits(m.bits, g, SetKind(m.bits[g], k, m.bits[g][k] \ {i}))
           x == (m.sb.free[g][k] + 1) % Short
           f == SetFree(m.sb.free, g, k, x)
           t == [m EXCEPT !.bits = [m.bits EXCEPT ![g] = [m.bits[g] EXCEPT ![k] = m.bits[g][k] \ {i}]]]
<1>1. r = [t EXCEPT !.sb = [t.sb EXCEPT !.free = [t.sb.free EXCEPT ![g] = [t.sb.free[g] EXCEPT ![k] = (t.sb.free[g][k] + 1) % Short]]]]
  BY DEF ClearBit, MemOK, SbOK
<1>2. t = [m EXCEPT !.bits = b]
  BY DEF SetBits, SetKind
<1> HIDE DEF b
<1>3. t = [sb |-> m.sb, loaded |-> m.loaded, bits |-> b]
  BY <1>2 DEF MemOK
<1>4. x \in 0 .. Short - 1
  <2>1. Short \in Nat \ {0}
    BY WidthAssumption, BlocksPerGroupAssumption
  <2>2. m.sb.free[g][k] \in 0 .. Short - 1
    BY DEF SbOK, FreeType
  <2>3. PICK y \in Int : y = m.sb.free[g][k] + 1
    BY <2>1, <2>2
  <2>4. y % Short \in 0 .. Short - 1
    BY <2>1, <2>3
  <2> QED  BY <2>3, <2>4
<1>5. f \in FreeType
  BY <1>4 DEF SbOK, FreeType, SetFree
<1> HIDE DEF t
<1>6. r = [t EXCEPT !.sb = [m.sb EXCEPT !.free = f]]
  BY <1>1, <1>3 DEF SetFree
<1> HIDE DEF f
<1>7. [m.sb EXCEPT !.free = f] = [count |-> m.sb.count, sfree |-> m.sb.sfree, free |-> f, ndesc |-> m.sb.ndesc]
  BY DEF SbOK
<1>8. r = [sb |-> [count |-> m.sb.count, sfree |-> m.sb.sfree, free |-> f, ndesc |-> m.sb.ndesc], loaded |-> m.loaded, bits |-> b]
  <2>1. PICK q : q = [count |-> m.sb.count, sfree |-> m.sb.sfree, free |-> f, ndesc |-> m.sb.ndesc]
    OBVIOUS
  <2>2. PICK l, v : l = m.loaded /\ v = m.sb
    OBVIOUS
  <2>3. t = [sb |-> v, loaded |-> l, bits |-> b] /\ r = [t EXCEPT !.sb = q]
    BY <1>3, <1>6, <1>7, <2>1, <2>2
  <2>4. r = [sb |-> q, loaded |-> l, bits |-> b]
    BY <2>3
  <2> QED  BY <2>1, <2>2, <2>4
<1>9. SbOK(r.sb)
  BY <1>5, <1>8 DEF SbOK
<1>10. r.loaded = m.loaded /\ r.bits = b /\ r.sb.count = m.sb.count /\ r.sb.sfree = m.sb.sfree /\ r.sb.ndesc = m.sb.ndesc /\ r.sb.free = f
  BY <1>8
<1> QED  BY <1>9, <1>10 DEF b, f

\* The group of what is in use is loaded, and marks it.
LEMMA UsedLoaded ==
  ASSUME BitsInv, GroupsInv, Live, NEW k \in Kinds, NEW x \in used[k]
  PROVE  /\ x \in Indices(k) /\ GroupOf(k, x) \in loaded /\ GroupOf(k, x) \in Groups
         /\ BitOf(k, x) \in bits[GroupOf(k, x)][k]
         /\ x = IndexOf(k, GroupOf(k, x), BitOf(k, x))
<1>1. x \in Marks(bits, loaded, k)
  BY DEF GroupsInv, UsedInv
<1>2. x \in Indices(k) /\ GroupOf(k, x) \in loaded /\ BitOf(k, x) \in bits[GroupOf(k, x)][k]
  BY <1>1 DEF Marks
<1> QED  BY <1>2, IndexSplit

LEMMA FreeCleared ==
  ASSUME BitsInv, GroupsInv, NEW k \in Kinds, NEW x \in used[k], Free(k, x)
  PROVE  \E g \in Groups, i \in 0 .. Bits[k] - 1 : Cleared(k, g, i)
<1>1. phase = "up" /\ Live
  BY DEF Free, Live
<1>2. PICK g \in Groups : g = GroupOf(k, x)
  BY <1>1, UsedLoaded
<1>3. PICK i : i = BitOf(k, x)
  OBVIOUS
<1>4. g \in loaded /\ i \in bits[g][k] /\ x = IndexOf(k, g, i)
  BY <1>1, <1>2, <1>3, UsedLoaded
<1>5. PICK m : m = Counted(Memory, k, -1)
  OBVIOUS
<1>6. /\ MemOK(m) /\ SbOK(m.sb) /\ m.loaded = loaded /\ m.bits = bits
      /\ m.sb.free = sb.free /\ m.sb.ndesc = sb.ndesc
      /\ m.sb.count = SetKind(sb.count, k, (sb.count[k] + (-1)) % Word)
      /\ m.sb.sfree = SetKind(sb.sfree, k, (sb.sfree[k] - (-1)) % Word)
  <2>1. Memory.loaded = loaded /\ Memory.bits = bits /\ Memory.sb = sb
    BY DEF Memory
  <2>2. -1 \in Int
    OBVIOUS
  <2> QED  BY <1>5, <2>1, <2>2, MemoryOK, MemorySb, CountedEffect
<1>7. Load(m, g) = m
  BY <1>4, <1>6 DEF Load
<1>8. PICK r : r = ClearBit(m, g, k, i)
  OBVIOUS
<1>9. sb' = r.sb /\ loaded' = r.loaded /\ bits' = r.bits
  <2>1. Become(IF i \in m.bits[g][k] THEN r ELSE m)
    BY <1>2, <1>3, <1>5, <1>7, <1>8 DEF Free, BitOf, ClearBit
  <2> QED  BY <1>4, <1>6, <2>1 DEF Become
<1>10. /\ r.loaded = m.loaded
       /\ r.bits = SetBits(m.bits, g, SetKind(m.bits[g], k, m.bits[g][k] \ {i}))
       /\ r.sb.count = m.sb.count /\ r.sb.sfree = m.sb.sfree /\ r.sb.ndesc = m.sb.ndesc
       /\ r.sb.free = SetFree(m.sb.free, g, k, (m.sb.free[g][k] + 1) % Short)
       /\ SbOK(r.sb)
  <2>1. MemOK(m) /\ SbOK(m.sb) /\ g \in Groups
    BY <1>6
  <2> QED  BY ONLY <1>8, <2>1, k \in Kinds, ClearEffect
<1>11. bits \in GroupBits /\ bits[g] \in PartBits /\ sb.free \in FreeType /\ i \in 0 .. Bits[k] - 1
  BY <1>4, BitsBound DEF BitsInv, GroupBits, GroupsInv, TypeInv
<1>12. /\ \A h \in Groups \ {g} : bits'[h] = bits[h]
       /\ bits'[g] = SetKind(bits[g], k, bits[g][k] \ {i})
  <2>1. PICK v : v = SetKind(bits[g], k, bits[g][k] \ {i})
    OBVIOUS
  <2>2. bits' = SetBits(bits, g, v)
    BY <1>6, <1>9, <1>10, <2>1
  <2> QED  BY <1>11, <2>1, <2>2 DEF SetBits, GroupBits
<1>13. \A p \in Parts : bits'[g][p] = bits[g][p] \ (IF p = k THEN {i} ELSE {})
  BY <1>11, <1>12 DEF SetKind, PartBits
<1>14. /\ \A h \in Groups \ {g} : sb'.free[h] = sb.free[h]
       /\ \A j \in Kinds \ {k} : sb'.free[g][j] = sb.free[g][j]
       /\ sb'.free[g][k] = (sb.free[g][k] + 1) % Short
  <2>1. PICK v : v = (sb.free[g][k] + 1) % Short
    OBVIOUS
  <2>2. sb'.free = SetFree(sb.free, g, k, v)
    BY <1>6, <1>9, <1>10, <2>1
  <2> QED  BY <1>11, <2>1, <2>2 DEF SetFree, FreeType
<1>15. /\ used' = SetKind(used, k, used[k] \ {x}) /\ synced' = SetKind(synced, k, synced[k] \ {x})
       /\ k = "inode" => x # ROOT_INODE
       /\ UNCHANGED <<phase, todo, job, disk, torn>>
  BY DEF Free, SetKind
<1>16. Cleared(k, g, i)
  BY <1>1, <1>4, <1>6, <1>9, <1>10, <1>12, <1>13, <1>14, <1>15 DEF Cleared
<1> QED  BY <1>11, <1>16

LEMMA ClearedMarks ==
  ASSUME BitsInv, GroupsInv, NEW k \in Kinds, NEW g \in Groups, NEW i \in 0 .. Bits[k] - 1,
         Cleared(k, g, i), NEW j \in Kinds
  PROVE  used'[j] = Marks(bits', loaded', j)
<1>1. used[j] = Marks(bits, loaded, j) /\ used = [l \in Kinds |-> used[l]] /\ loaded \subseteq Groups
  BY DEF GroupsInv, UsedInv, UsedOK, Cleared, Live, BitsInv
<1>2. j \in Parts /\ k \in Parts
  BY KindFacts
<1>3. i \in 0 .. Stride[k] - 1
  BY BitsFit
<1>4. /\ loaded' = loaded
      /\ \A h \in Groups \ {g} : bits'[h] = bits[h]
      /\ bits'[g][j] = bits[g][j] \ (IF j = k THEN {i} ELSE {})
  BY <1>2 DEF Cleared
<1>5. ASSUME NEW x \in Indices(j)
      PROVE  GroupOf(j, x) \in loaded' /\ BitOf(j, x) \in bits'[GroupOf(j, x)][j]
             <=> /\ GroupOf(j, x) \in loaded /\ BitOf(j, x) \in bits[GroupOf(j, x)][j]
                 /\ ~(j = k /\ GroupOf(j, x) = g /\ BitOf(j, x) = i)
  <2>1. GroupOf(j, x) \in Groups
    BY IndexSplit
  <2>2. CASE GroupOf(j, x) = g
    BY <1>4, <2>2
  <2>3. CASE GroupOf(j, x) # g
    BY <1>4, <2>1, <2>3
  <2> QED  BY <2>2, <2>3
<1>6. CASE j = k
  <2>1. Marks(bits', loaded', k) = Marks(bits, loaded, k) \ {IndexOf(k, g, i)}
    BY <1>3, <1>5, <1>6, MarksRemove
  <2>2. used'[k] = used[k] \ {IndexOf(k, g, i)}
    BY <1>1 DEF Cleared, SetKind
  <2> QED  BY <1>1, <1>6, <2>1, <2>2
<1>7. CASE j # k
  <2>1. Marks(bits', loaded', j) = Marks(bits, loaded, j)
    BY <1>5, <1>7 DEF Marks
  <2>2. used'[j] = used[j]
    BY <1>1, <1>7 DEF Cleared, SetKind
  <2> QED  BY <1>1, <2>1, <2>2
<1> QED  BY <1>6, <1>7

LEMMA ClearedCounts ==
  ASSUME BitsInv, GroupsInv, NEW k \in Kinds, NEW g \in Groups, NEW i \in 0 .. Bits[k] - 1,
         Cleared(k, g, i), ~torn
  PROVE  /\ sb'.count["block"] = 3 + Cardinality(used'["block"])
         /\ sb'.count["inode"] = Cardinality(used'["inode"])
         /\ \A h \in loaded, j \in Kinds : sb'.free[h][j] = FreeOf(bits', h, j)
<1> DEFINE n == sb.ndesc
<1>1. Live /\ bits \in GroupBits
  BY DEF Cleared, Live, BitsInv
<1>2. /\ n \in 1 .. MaxGroups /\ loaded = 0 .. n - 1 /\ loaded \subseteq Groups
      /\ used[k] = Marks(bits, 0 .. n - 1, k)
  BY <1>1, UsedBound
<1>3. /\ sb.count["block"] = 3 + Cardinality(used["block"])
      /\ sb.count["inode"] = Cardinality(used["inode"])
      /\ \A h \in loaded, j \in Kinds : sb.free[h][j] = FreeOf(bits, h, j)
  BY <1>1 DEF GroupsInv, CountInv
<1>4. /\ used'[k] = used[k] \ {IndexOf(k, g, i)}
      /\ \A j \in Kinds \ {k} : used'[j] = used[j]
  <2>1. used = [l \in Kinds |-> used[l]]
    BY DEF BitsInv, UsedOK
  <2> QED  BY <2>1 DEF Cleared, SetKind
<1>5. IndexOf(k, g, i) \in used[k]
  <2>1. /\ GroupOf(k, IndexOf(k, g, i)) = g /\ BitOf(k, IndexOf(k, g, i)) = i
        /\ IndexOf(k, g, i) \in Indices(k)
    BY IndexJoin, BitsFit
  <2> QED  BY <1>2, <2>1 DEF Marks, Cleared
<1>6. IsFiniteSet(used[k])
  BY <1>1, <1>2, MarksCard
<1>7. /\ Cardinality(used[k]) \in Nat /\ Cardinality(used'[k]) \in Nat
      /\ Cardinality(used'[k]) = Cardinality(used[k]) - 1
  BY <1>4, <1>5, <1>6, CardRemove
<1>8. sb'.count = SetKind(sb.count, k, (sb.count[k] + (-1)) % Word) /\ sb.count \in [Kinds -> 0 .. Word - 1]
  BY DEF Cleared, GroupsInv, TypeInv, CountType
<1>9. (sb.count[k] + (-1)) % Word = sb.count[k] - 1
  <2>1. PICK z \in Nat : z = sb.count[k] + (-1)
    BY <1>3, <1>7 DEF Kinds
  <2>2. sb.count[k] \in 0 .. Word - 1 /\ Word \in Nat
    BY <1>8, WidthAssumption
  <2>3. z < Word /\ z = sb.count[k] - 1
    BY <2>1, <2>2
  <2>4. z % Word = z
    BY <2>2, <2>3
  <2> QED  BY <2>1, <2>3, <2>4
<1>10. /\ sb'.count["block"] = 3 + Cardinality(used'["block"])
       /\ sb'.count["inode"] = Cardinality(used'["inode"])
  <2>1. CASE k = "block"
    <3>1. sb'.count["block"] = sb.count["block"] - 1 /\ sb'.count["inode"] = sb.count["inode"]
      BY <1>8, <1>9, <2>1 DEF SetKind, Kinds
    <3>2. used'["inode"] = used["inode"]
      BY <1>4, <2>1 DEF Kinds
    <3> QED  BY <1>3, <1>7, <2>1, <3>1, <3>2
  <2>2. CASE k = "inode"
    <3>1. sb'.count["inode"] = sb.count["inode"] - 1 /\ sb'.count["block"] = sb.count["block"]
      BY <1>8, <1>9, <2>2 DEF SetKind, Kinds
    <3>2. used'["block"] = used["block"]
      BY <1>4, <2>2 DEF Kinds
    <3> QED  BY <1>3, <1>7, <2>2, <3>1, <3>2
  <2> QED  BY <2>1, <2>2 DEF Kinds
<1>11. ASSUME NEW h \in loaded, NEW j \in Kinds
       PROVE  sb'.free[h][j] = FreeOf(bits', h, j)
  <2>1. h \in Groups /\ j \in Parts
    BY <1>2, KindFacts
  <2>2. CASE h # g
    <3>1. sb'.free[h] = sb.free[h] /\ bits'[h] = bits[h]
      BY <2>1, <2>2 DEF Cleared
    <3> QED  BY <1>3, <3>1 DEF FreeOf
  <2>3. CASE h = g /\ j # k
    <3>1. sb'.free[g][j] = sb.free[g][j] /\ bits'[g][j] = bits[g][j]
      BY <2>1, <2>3 DEF Cleared
    <3> QED  BY <1>3, <2>3, <3>1 DEF FreeOf
  <2>4. CASE h = g /\ j = k
    <3> DEFINE B == bits[g][k]
               e == IF g = 0 /\ k = "inode" THEN 1 ELSE 0
    <3>1. IsFiniteSet(B) /\ Cardinality(B) \in 0 .. Bits[k] /\ i \in B
      BY <1>1, GroupCard DEF Cleared
    <3>2. bits'[g][k] = B \ {i} /\ sb'.free[g][k] = (sb.free[g][k] + 1) % Short
      BY <2>1, <2>4 DEF Cleared
    <3>3. Cardinality(B) \in Nat /\ Cardinality(B \ {i}) = Cardinality(B) - 1 /\ Cardinality(B \ {i}) \in Nat
      BY <3>1, CardRemove
    <3>4. sb.free[g][k] = Bits[k] - Cardinality(B) - e
      BY <1>3, <2>4 DEF FreeOf
    <3>5. sb.free[g][k] \in 0 .. Short - 1 /\ Bits[k] \in Nat /\ Short \in Nat /\ Bits[k] < Short /\ e \in {0, 1}
      <4>1. Bits[k] \in 0 .. Short - 1
        BY NewDescType
      <4> QED  BY <4>1, BitsFit, WidthAssumption DEF GroupsInv, TypeInv, FreeType
    <3> HIDE DEF B, e
    <3>6. PICK z \in Nat : z = sb.free[g][k] + 1 /\ z < Short
      BY <3>3, <3>4, <3>5
    <3>7. z % Short = z
      BY <3>5, <3>6
    <3>8. sb'.free[g][k] = Bits[k] - Cardinality(bits'[g][k]) - e
      BY <3>2, <3>3, <3>4, <3>5, <3>6, <3>7
    <3> QED  BY <2>4, <3>8 DEF FreeOf, e
  <2> QED  BY <2>2, <2>3, <2>4
<1> QED  BY <1>10, <1>11

LEMMA ClearedInv ==
  ASSUME BitsInv, GroupsInv, NEW k \in Kinds, NEW g \in Groups, NEW i \in 0 .. Bits[k] - 1,
         Cleared(k, g, i)
  PROVE  GroupsInv'
<1>1. /\ Live /\ Live' /\ phase = "up" /\ phase' = "up" /\ disk' = disk /\ loaded' = loaded
      /\ torn' = torn /\ job' = job /\ sb'.ndesc = sb.ndesc
  BY DEF Cleared, Live
<1>2. TypeInv /\ MirrorInv /\ UsedInv /\ RootInv /\ SyncInv /\ CountInv /\ DiskInv
  BY DEF GroupsInv
<1>3. /\ used = [l \in Kinds |-> used[l]] /\ synced = [l \in Kinds |-> synced[l]]
      /\ used' = SetKind(used, k, used[k] \ {IndexOf(k, g, i)})
      /\ synced' = SetKind(synced, k, synced[k] \ {IndexOf(k, g, i)})
  BY <1>2 DEF TypeInv, Cleared, BitsInv, UsedOK
<1>4. TypeInv' /\ MirrorInv'
  <2>1. synced' = [l \in Kinds |-> synced'[l]]
    BY <1>3 DEF SetKind
  <2>2. Mirrors(sb'.count, sb'.sfree)
    <3>1. Mirrors(sb.count, sb.sfree) /\ sb.count \in CountType /\ sb.sfree \in CountType
      BY <1>1, <1>2 DEF MirrorInv, TypeInv
    <3> QED  BY <3>1, MirrorStep DEF Cleared
  <2>3. TypeInv'
    BY <1>1, <1>2, <2>1 DEF TypeInv, Cleared, SbOK
  <2> QED  BY <1>1, <1>2, <2>2, <2>3 DEF MirrorInv
<1>5. UsedInv'
  <2>1. \A j \in Kinds : used'[j] = Marks(bits', loaded', j)
    BY ClearedMarks
  <2> QED  BY <1>1, <1>2, <2>1 DEF UsedInv
<1>6. \A h \in Groups : bits'[h]["table"] = bits[h]["table"]
  <2>1. "table" \in Parts /\ "table" # k
    BY KindFacts
  <2> QED  BY <2>1 DEF Cleared
<1>7. RootInv'
  <2>1. 0 \in Groups
    BY MaxGroupsAssumption DEF Groups
  <2>2. ROOT_INODE \in bits'[0]["inode"]
    <3>1. CASE g # 0
      BY <1>1, <1>2, <2>1, <3>1 DEF RootInv, Cleared
    <3>2. CASE g = 0 /\ k # "inode"
      BY <1>1, <1>2, <3>2 DEF RootInv, Cleared, Parts, Kinds
    <3>3. CASE g = 0 /\ k = "inode"
      <4>1. IndexOf(k, 0, i) = i
        BY BitsFit DEF IndexOf
      <4>2. i # ROOT_INODE
        BY <3>3, <4>1 DEF Cleared
      <4> QED  BY <1>1, <1>2, <3>3, <4>2 DEF RootInv, Cleared, Parts, Kinds
    <3> QED  BY <3>1, <3>2, <3>3
  <2> QED  BY <1>1, <1>2, <2>2 DEF RootInv, Mounting
<1>8. SyncInv'
  <2>1. \A j \in Kinds : synced'[j] \subseteq synced[j] /\ synced'[j] \subseteq used'[j]
    BY <1>2, <1>3 DEF SyncInv, SetKind
  <2>2. \A x \in synced'["inode"] : /\ BitOf("inode", x) \in bits'[GroupOf("inode", x)]["table"]
                                    /\ BitOf("inode", x) \in disk.bits[GroupOf("inode", x)]["table"]
    <3> SUFFICES ASSUME NEW x \in synced["inode"]
                 PROVE  /\ BitOf("inode", x) \in bits'[GroupOf("inode", x)]["table"]
                        /\ BitOf("inode", x) \in disk.bits[GroupOf("inode", x)]["table"]
      BY <2>1 DEF Kinds
    <3>1. "inode" \in Kinds /\ x \in used["inode"]
      BY <1>2 DEF SyncInv, Kinds
    <3>2. GroupOf("inode", x) \in Groups
      BY <1>1, <3>1, UsedLoaded
    <3> QED  BY <1>1, <1>2, <1>6, <3>2 DEF SyncInv
  <2> QED  BY <1>1, <1>2, <2>1, <2>2 DEF SyncInv
<1>9. FlushInv'
  BY <1>1 DEF FlushInv
<1>10. CountInv'
  BY <1>1, <1>2, ClearedCounts DEF CountInv
<1>11. DiskInv'
  BY <1>1, <1>2 DEF DiskInv, BlocksMatch, InodesMatch, InodesFresh, Mounting, NeverFlushed
<1> QED  BY <1>4, <1>5, <1>7, <1>8, <1>9, <1>10, <1>11 DEF GroupsInv

\* get_block and get_inode find their group loaded.
LEMMA GetSame ==
  ASSUME BitsInv, GroupsInv, NEW k \in Kinds, NEW x \in used[k], Get(k, x)
  PROVE  UNCHANGED vars
<1>1. Live
  BY DEF Get, Live
<1>2. GroupOf(k, x) \in loaded
  BY <1>1, UsedLoaded
<1>3. Load(Memory, GroupOf(k, x)) = Memory
  BY <1>2 DEF Load, Memory
<1>4. sb' = sb /\ loaded' = loaded /\ bits' = bits
  BY <1>3 DEF Get, Become, Memory
<1> QED  BY <1>4 DEF Get, vars

LEMMA SameInv == GroupsInv /\ UNCHANGED vars => GroupsInv'
<1> SUFFICES ASSUME GroupsInv, UNCHANGED vars PROVE GroupsInv'
  OBVIOUS
<1> USE DEF GroupsInv, vars
<1>1. TypeInv' /\ MirrorInv'
  BY DEF TypeInv, MirrorInv, Mirrors
<1>2. UsedInv'
  BY DEF UsedInv, Live
<1>3. RootInv' /\ SyncInv'
  BY DEF RootInv, SyncInv, Live, Mounting
<1>4. FlushInv'
  BY DEF FlushInv, Flushed
<1>5. CountInv'
  BY DEF CountInv, Live
<1>6. DiskInv'
  BY DEF DiskInv, Live, BlocksMatch, InodesMatch, InodesFresh, Mounting, NeverFlushed
<1> QED  BY <1>1, <1>2, <1>3, <1>4, <1>5, <1>6
==============================================================================
