---------------------------- MODULE OpenFilesProofs ----------------------------
(***************************************************************************)
(* The invariants of OpenFiles hold for every number of inodes, names and  *)
(* handles, as long as the hard links of an open file do not change.       *)
(***************************************************************************)
EXTENDS OpenFiles, FiniteSetTheorems, TLAPS

\* The provers a step is given to in turn, with their time in seconds.
USE ZenonT(3), SMTT(40), ZenonT(60)

(***************************************************************************)
(* FileSystem: the link count of an allocated inode is the number of its   *)
(* entries, and entries name allocated inodes.                             *)
(***************************************************************************)
FsType == [bitmap : SUBSET Inodes, table : [Inodes -> Meta], dir : [Names -> Inodes \cup {None}]]

EntriesOf(f, i) == {n \in Names : f.dir[n] = i}

FsOK(f) ==
  /\ f \in FsType
  /\ \A n \in Names : f.dir[n] # None => f.dir[n] \in f.bitmap
  /\ \A i \in f.bitmap : f.table[i].links = Cardinality(EntriesOf(f, i))

LEMMA LinkModulusType == LinkModulus \in Nat \ {0, 1}
BY DEF LinkModulus

LEMMA ModSmall ==
  ASSUME NEW x \in 0 .. LinkModulus - 1
  PROVE  x % LinkModulus = x
BY LinkModulusType

LEMMA ModRange ==
  ASSUME NEW x \in Int
  PROVE  x % LinkModulus \in 0 .. LinkModulus - 1
BY LinkModulusType

LEMMA EntriesFinite ==
  ASSUME NEW f, NEW i
  PROVE  /\ IsFiniteSet(EntriesOf(f, i))
         /\ Cardinality(EntriesOf(f, i)) \in 0 .. LinkModulus - 1
<1>1. EntriesOf(f, i) \in SUBSET Names
  BY DEF EntriesOf
<1>2. IsFiniteSet(EntriesOf(f, i)) /\ Cardinality(EntriesOf(f, i)) <= Cardinality(Names)
  BY <1>1, FS_Subset, NamesAssumption
<1>3. Cardinality(EntriesOf(f, i)) \in Nat /\ Cardinality(Names) \in Nat
  BY <1>2, FS_CardinalityType, NamesAssumption
<1> QED  BY <1>2, <1>3, NamesAssumption, LinkModulusType

LEMMA InodesNotNone == \A i \in Inodes : i # None
BY NoneAssumption, NInodesAssumption DEF Inodes

\* inode_unlink drops one entry and one link, and frees the inode with the last.
LEMMA UnlinkOK ==
  ASSUME NEW f, FsOK(f), NEW n \in Names, NEW i \in Inodes, f.dir[n] = i,
         NEW g, g = InodeUnlink(f, n)
  PROVE  /\ FsOK(g)
         /\ g.dir = [f.dir EXCEPT ![n] = None]
         /\ g.bitmap \subseteq f.bitmap
         /\ f.bitmap \ {i} \subseteq g.bitmap
         /\ (\E m \in Names \ {n} : f.dir[m] = i) => i \in g.bitmap
         /\ \A j \in Inodes \ {i} : g.table[j] = f.table[j]
         /\ g.table[i].size = f.table[i].size
         /\ g.table[i].links = f.table[i].links - 1
<1> DEFINE c == f.table[i].links
           l == (c - 1) % LinkModulus
           E == EntriesOf(f, i)
<1>1. f \in FsType /\ i \in f.bitmap /\ f.table[i] \in Meta
  BY InodesNotNone DEF FsOK, FsType
<1>2. c = Cardinality(E) /\ c \in 0 .. LinkModulus - 1
  BY <1>1 DEF FsOK, Meta
<1>3. IsFiniteSet(E) /\ n \in E /\ \A m \in Names \ {n} : f.dir[m] = i => m \in E \ {n}
  BY EntriesFinite DEF EntriesOf
<1> HIDE DEF c, E
<1>4. c # 0
  <2>1. E # {}
    BY <1>3
  <2> QED  BY <1>2, <1>3, <2>1, FS_EmptySet
<1>5. l = c - 1 /\ l \in 0 .. LinkModulus - 1
  <2>1. c - 1 \in 0 .. LinkModulus - 1
    BY <1>2, <1>4, LinkModulusType
  <2> QED  BY <2>1, ModSmall
<1>6. IsFiniteSet(E \ {n}) /\ Cardinality(E \ {n}) = l
  BY <1>2, <1>3, <1>5, FS_RemoveElement
<1>7. (\E m \in Names \ {n} : f.dir[m] = i) => l # 0
  BY <1>3, <1>6, FS_EmptySet
<1>8. g = [f EXCEPT !.dir = [f.dir EXCEPT ![n] = None],
                    !.table = [f.table EXCEPT ![i] = [f.table[i] EXCEPT !.links = l]],
                    !.bitmap = IF l = 0 THEN f.bitmap \ {i} ELSE f.bitmap]
  BY <1>1 DEF InodeUnlink, FsType, c
<1> HIDE DEF l
<1>9. /\ g.dir = [f.dir EXCEPT ![n] = None]
      /\ g.table = [f.table EXCEPT ![i] = [f.table[i] EXCEPT !.links = l]]
      /\ g.bitmap = IF l = 0 THEN f.bitmap \ {i} ELSE f.bitmap
      /\ g = [bitmap |-> g.bitmap, table |-> g.table, dir |-> g.dir]
  BY <1>1, <1>8 DEF FsType
<1>10. /\ g.table \in [Inodes -> Meta]
       /\ \A j \in Inodes \ {i} : g.table[j] = f.table[j]
       /\ g.table[i].size = f.table[i].size
       /\ g.table[i].links = l
  <2>1. f.table \in [Inodes -> Meta]
    BY <1>1 DEF FsType
  <2>2. g.table[i] = [f.table[i] EXCEPT !.links = l] /\ \A j \in Inodes \ {i} : g.table[j] = f.table[j]
    BY <1>9, <2>1
  <2>3. g.table[i] \in Meta /\ g.table[i].size = f.table[i].size /\ g.table[i].links = l
    BY <1>1, <1>5, <2>2 DEF Meta
  <2> QED  BY <1>9, <2>1, <2>2, <2>3
<1>11. /\ g \in FsType
       /\ g.bitmap \subseteq f.bitmap /\ f.bitmap \ {i} \subseteq g.bitmap
       /\ (\E m \in Names \ {n} : f.dir[m] = i) => i \in g.bitmap
  BY <1>1, <1>7, <1>9, <1>10 DEF FsType
<1>12. \A m \in Names : g.dir[m] # None => g.dir[m] \in g.bitmap
  BY <1>1, <1>9, <1>11 DEF FsOK, FsType
<1>13. \A j \in Inodes : EntriesOf(g, j) = EntriesOf(f, j) \ {n}
  BY <1>1, <1>9, InodesNotNone DEF EntriesOf, FsType
<1>14. \A j \in g.bitmap : g.table[j].links = Cardinality(EntriesOf(g, j))
  <2> SUFFICES ASSUME NEW j \in g.bitmap PROVE g.table[j].links = Cardinality(EntriesOf(g, j))
    OBVIOUS
  <2>1. j \in Inodes /\ j \in f.bitmap
    BY <1>1, <1>11 DEF FsType
  <2>2. CASE j = i
    BY <1>6, <1>10, <1>13, <2>1, <2>2 DEF E
  <2>3. CASE j # i
    <3>1. EntriesOf(f, j) \ {n} = EntriesOf(f, j)
      BY <2>3 DEF EntriesOf
    <3> QED  BY <1>10, <1>13, <2>1, <2>3, <3>1 DEF FsOK
  <2> QED  BY <2>2, <2>3
<1> QED  BY <1>5, <1>9, <1>10, <1>11, <1>12, <1>14 DEF FsOK, c

\* inode_link adds one entry and one link.
LEMMA LinkOK ==
  ASSUME NEW f, FsOK(f), NEW n \in Names, NEW m \in Names, NEW i \in Inodes,
         f.dir[n] = i, f.dir[m] = None, NEW g, g = InodeLink(f, n, m)
  PROVE  /\ FsOK(g)
         /\ g.dir = [f.dir EXCEPT ![m] = i]
         /\ g.bitmap = f.bitmap
         /\ \A j \in Inodes \ {i} : g.table[j] = f.table[j]
         /\ g.table[i].size = f.table[i].size
         /\ g.table[i].links = f.table[i].links + 1
<1> DEFINE c == f.table[i].links
           l == (c + 1) % LinkModulus
           E == EntriesOf(f, i)
<1>1. f \in FsType /\ i \in f.bitmap /\ f.table[i] \in Meta
  BY InodesNotNone DEF FsOK, FsType
<1>2. c = Cardinality(E) /\ c \in 0 .. LinkModulus - 1
  BY <1>1 DEF FsOK, Meta
<1>3. IsFiniteSet(E) /\ m \notin E
  BY EntriesFinite, InodesNotNone DEF EntriesOf
<1> HIDE DEF c, E
<1>4. l \in 0 .. LinkModulus - 1
  <2>1. c + 1 \in Int
    BY <1>2, LinkModulusType
  <2> QED  BY <2>1, ModRange
<1>5. g = [f EXCEPT !.dir = [f.dir EXCEPT ![m] = i],
                    !.table = [f.table EXCEPT ![i] = [f.table[i] EXCEPT !.links = l]]]
  BY <1>1 DEF InodeLink, FsType, c
<1>6. Cardinality(E \cup {m}) = c + 1
  BY <1>2, <1>3, FS_AddElement
<1>e. /\ g.dir = [f.dir EXCEPT ![m] = i]
      /\ g.table = [f.table EXCEPT ![i] = [f.table[i] EXCEPT !.links = l]]
      /\ g.bitmap = f.bitmap
      /\ g = [bitmap |-> g.bitmap, table |-> g.table, dir |-> g.dir]
  BY <1>1, <1>5 DEF FsType
<1>7. EntriesOf(g, i) = E \cup {m} /\ \A j \in Inodes \ {i} : EntriesOf(g, j) = EntriesOf(f, j)
  BY <1>1, <1>e, InodesNotNone DEF EntriesOf, FsType, E
<1>8. l = c + 1
  <2>1. Cardinality(EntriesOf(g, i)) \in 0 .. LinkModulus - 1
    BY EntriesFinite
  <2>2. c + 1 \in 0 .. LinkModulus - 1
    BY <1>6, <1>7, <2>1
  <2> QED  BY <2>2, ModSmall
<1> HIDE DEF l
<1>9. /\ g.table \in [Inodes -> Meta]
      /\ \A j \in Inodes \ {i} : g.table[j] = f.table[j]
      /\ g.table[i].size = f.table[i].size
      /\ g.table[i].links = l
  <2>1. f.table \in [Inodes -> Meta]
    BY <1>1 DEF FsType
  <2>2. g.table[i] = [f.table[i] EXCEPT !.links = l] /\ \A j \in Inodes \ {i} : g.table[j] = f.table[j]
    BY <1>e, <2>1
  <2>3. g.table[i] \in Meta /\ g.table[i].size = f.table[i].size /\ g.table[i].links = l
    BY <1>1, <1>4, <2>2 DEF Meta
  <2> QED  BY <1>e, <2>1, <2>2, <2>3
<1>10. g \in FsType /\ \A k \in Names : g.dir[k] # None => g.dir[k] \in g.bitmap
  BY <1>1, <1>9, <1>e DEF FsOK, FsType
<1>11. \A j \in g.bitmap : g.table[j].links = Cardinality(EntriesOf(g, j))
  <2> SUFFICES ASSUME NEW j \in g.bitmap PROVE g.table[j].links = Cardinality(EntriesOf(g, j))
    OBVIOUS
  <2>1. j \in Inodes /\ j \in f.bitmap
    BY <1>1, <1>e DEF FsType
  <2>2. CASE j = i
    BY <1>6, <1>7, <1>8, <1>9, <2>2
  <2>3. CASE j # i
    BY <1>7, <1>9, <2>1, <2>3 DEF FsOK
  <2> QED  BY <2>2, <2>3
<1> QED  BY <1>8, <1>9, <1>10, <1>11, <1>e DEF FsOK, c

(***************************************************************************)
(* The inductive invariant: the file system is consistent, cnts_ counts    *)
(* the handles, a handle's name denotes its inode, and the copy of an open *)
(* inode has the link count of the table.                                  *)
(***************************************************************************)
FdType == [ino : Inodes, name : Names]

OpenType ==
  /\ cnts \in [Inodes -> Nat]
  /\ copy \in [Inodes -> Meta]
  /\ fd \in [Handles -> FdType \cup {None}]

CopiesMatch == \A i \in fs.bitmap : cnts[i] > 0 => copy[i].links = fs.table[i].links

HandleNamesFile == \A h \in Handles : IsOpen(h) => fs.dir[fd[h].name] = fd[h].ino

OpenInv == FsOK(fs) /\ OpenType /\ CountsAreHandles /\ HandleNamesFile /\ CopiesMatch

LEMMA FdNotNone == \A x \in FdType : x # None
BY NoneAssumption DEF FdType

LEMMA HandlesFinite ==
  ASSUME NEW i
  PROVE  /\ IsFiniteSet(OpenHandles(i)) /\ Cardinality(OpenHandles(i)) \in Nat
         /\ Cardinality(OpenHandles(i)) <= Cardinality(Handles)
         /\ Cardinality(OpenHandles(i)) = 0 <=> OpenHandles(i) = {}
<1>1. OpenHandles(i) \in SUBSET Handles
  BY DEF OpenHandles
<1>2. IsFiniteSet(OpenHandles(i)) /\ Cardinality(OpenHandles(i)) <= Cardinality(Handles)
  BY <1>1, FS_Subset, HandlesAssumption
<1> QED  BY <1>2, FS_CardinalityType, FS_EmptySet

\* An inode that some handle has open is counted and allocated.
LEMMA OpenCounted ==
  ASSUME OpenInv, NEW h \in Handles, IsOpen(h)
  PROVE  /\ fd[h] \in FdType /\ fd[h].ino \in Inodes /\ fd[h].name \in Names
         /\ cnts[fd[h].ino] \in Nat \ {0} /\ fd[h].ino \in fs.bitmap
<1>1. fd[h] \in FdType /\ fd[h].ino \in Inodes /\ fd[h].name \in Names
  BY DEF OpenInv, OpenType, IsOpen, FdType
<1>2. h \in OpenHandles(fd[h].ino)
  BY DEF OpenHandles
<1>3. cnts[fd[h].ino] = Cardinality(OpenHandles(fd[h].ino))
  BY <1>1 DEF OpenInv, CountsAreHandles
<1>4. cnts[fd[h].ino] \in Nat \ {0}
  BY <1>2, <1>3, HandlesFinite
<1>5. fs.dir[fd[h].name] = fd[h].ino
  BY DEF OpenInv, HandleNamesFile
<1> QED  BY <1>1, <1>4, <1>5, InodesNotNone DEF OpenInv, FsOK

\* The invariant gives what the runs check.
LEMMA OpenInvImplies ==
  OpenInv => /\ TypeOK /\ NoDanglingEntry /\ LinksAreEntries
             /\ CountsAreHandles /\ OpenStaysAllocated
<1> SUFFICES ASSUME OpenInv
             PROVE  /\ TypeOK /\ NoDanglingEntry /\ LinksAreEntries
                    /\ CountsAreHandles /\ OpenStaysAllocated
  OBVIOUS
<1>1. TypeOK
  <2>1. \A i \in Inodes : cnts[i] \in 0 .. Cardinality(Handles)
    <3> SUFFICES ASSUME NEW i \in Inodes PROVE cnts[i] \in 0 .. Cardinality(Handles)
      OBVIOUS
    <3>1. cnts[i] = Cardinality(OpenHandles(i))
      BY DEF OpenInv, CountsAreHandles
    <3>2. Cardinality(Handles) \in Nat
      BY HandlesAssumption, FS_CardinalityType
    <3> QED  BY <3>1, <3>2, HandlesFinite
  <2>2. cnts \in [Inodes -> 0 .. Cardinality(Handles)]
    BY <2>1 DEF OpenInv, OpenType
  <2> QED  BY <2>2 DEF TypeOK, OpenInv, OpenType, FsOK, FsType, FdType
<1>2. NoDanglingEntry
  BY DEF NoDanglingEntry, OpenInv, FsOK
<1>3. LinksAreEntries
  BY DEF LinksAreEntries, OpenInv, FsOK, CopiesMatch, Entries, EntriesOf
<1>4. OpenStaysAllocated
  BY OpenCounted DEF OpenStaysAllocated
<1> QED  BY <1>1, <1>2, <1>3, <1>4 DEF OpenInv

\* A handle is opened on inode i.
LEMMA CountAdd ==
  ASSUME OpenInv, NEW h \in Handles, ~IsOpen(h), NEW i \in Inodes, NEW n \in Names,
         fd' = [fd EXCEPT ![h] = [ino |-> i, name |-> n]],
         cnts' = [cnts EXCEPT ![i] = @ + 1]
  PROVE  /\ CountsAreHandles' /\ cnts' \in [Inodes -> Nat]
         /\ fd' \in [Handles -> FdType \cup {None}]
<1>1. /\ fd \in [Handles -> FdType \cup {None}] /\ cnts \in [Inodes -> Nat]
      /\ [ino |-> i, name |-> n] \in FdType
  BY DEF OpenInv, OpenType, FdType
<1>2. fd' \in [Handles -> FdType \cup {None}] /\ cnts' \in [Inodes -> Nat]
  BY <1>1
<1>3. fd'[h] # None /\ fd'[h].ino = i /\ \A k \in Handles \ {h} : fd'[k] = fd[k]
  BY <1>1, FdNotNone
<1>4. OpenHandles(i)' = OpenHandles(i) \cup {h} /\ h \notin OpenHandles(i)
  BY <1>3 DEF OpenHandles, IsOpen
<1>5. \A j \in Inodes \ {i} : OpenHandles(j)' = OpenHandles(j)
  BY <1>3 DEF OpenHandles, IsOpen
<1>6. Cardinality(OpenHandles(i) \cup {h}) = Cardinality(OpenHandles(i)) + 1
  BY <1>4, HandlesFinite, FS_AddElement
<1> QED  BY <1>1, <1>2, <1>4, <1>5, <1>6 DEF OpenInv, CountsAreHandles

\* A handle on inode i is closed.
LEMMA CountDrop ==
  ASSUME OpenInv, NEW h \in Handles, IsOpen(h), NEW i \in Inodes, fd[h].ino = i,
         fd' = [fd EXCEPT ![h] = None],
         cnts' = [cnts EXCEPT ![i] = cnts[i] - 1]
  PROVE  /\ CountsAreHandles' /\ cnts' \in [Inodes -> Nat]
         /\ fd' \in [Handles -> FdType \cup {None}]
<1>1. /\ fd \in [Handles -> FdType \cup {None}] /\ cnts \in [Inodes -> Nat]
      /\ cnts[i] \in Nat \ {0}
  BY OpenCounted DEF OpenInv, OpenType
<1>2. fd' \in [Handles -> FdType \cup {None}] /\ cnts' \in [Inodes -> Nat]
  BY <1>1
<1>3. fd'[h] = None /\ \A k \in Handles \ {h} : fd'[k] = fd[k]
  BY <1>1
<1>4. OpenHandles(i)' = OpenHandles(i) \ {h} /\ h \in OpenHandles(i)
  BY <1>3 DEF OpenHandles, IsOpen
<1>5. \A j \in Inodes \ {i} : OpenHandles(j)' = OpenHandles(j)
  BY <1>3 DEF OpenHandles, IsOpen
<1>6. Cardinality(OpenHandles(i) \ {h}) = Cardinality(OpenHandles(i)) - 1
  BY <1>4, HandlesFinite, FS_RemoveElement
<1> QED  BY <1>1, <1>2, <1>4, <1>5, <1>6 DEF OpenInv, CountsAreHandles

\* commit of a copy with the link count of the table.
LEMMA CommitOK ==
  ASSUME NEW f, FsOK(f), NEW i \in Inodes, NEW c \in Meta, NEW g, g = Commit(f, i, c),
         i \in f.bitmap => c.links = f.table[i].links
  PROVE  /\ FsOK(g) /\ g.dir = f.dir /\ g.bitmap = f.bitmap
         /\ \A j \in Inodes \ {i} : g.table[j] = f.table[j]
         /\ i \in f.bitmap => g.table[i] = c
<1>1. f \in FsType
  BY DEF FsOK
<1>2. CASE i \notin f.bitmap
  BY <1>2 DEF Commit
<1>3. CASE i \in f.bitmap
  <2>1. g = [f EXCEPT !.table = [f.table EXCEPT ![i] = c]]
    BY <1>1, <1>3 DEF Commit, FsType
  <2>2. /\ g.dir = f.dir /\ g.bitmap = f.bitmap /\ g.table = [f.table EXCEPT ![i] = c]
        /\ g \in FsType
    BY <1>1, <2>1 DEF FsType
  <2>3. g.table[i] = c /\ \A j \in Inodes \ {i} : g.table[j] = f.table[j]
    BY <1>1, <2>2 DEF FsType
  <2>4. \A j \in g.bitmap : g.table[j].links = f.table[j].links /\ EntriesOf(g, j) = EntriesOf(f, j)
    BY <1>1, <1>3, <2>2, <2>3 DEF FsType, EntriesOf
  <2>5. FsOK(g)
    BY <2>2, <2>4 DEF FsOK
  <2> QED  BY <2>2, <2>3, <2>5
<1> QED  BY <1>2, <1>3

\* A new inode with its first entry.
LEMMA CreateOK ==
  ASSUME NEW f, FsOK(f), NEW n \in Names, NEW i \in Inodes, i \notin f.bitmap,
         f.dir[n] = None, NEW g, g = InodeCreate(f, n, i)
  PROVE  /\ FsOK(g) /\ g.dir = [f.dir EXCEPT ![n] = i] /\ g.bitmap = f.bitmap \cup {i}
         /\ \A j \in Inodes \ {i} : g.table[j] = f.table[j]
         /\ g.table[i] = [links |-> 1, size |-> 0] /\ g.table[i] \in Meta
<1>1. f \in FsType /\ [links |-> 1, size |-> 0] \in Meta
  BY LinkModulusType, MaxSizeAssumption DEF FsOK, Meta
<1>2. g = [f EXCEPT !.bitmap = f.bitmap \cup {i},
                    !.table = [f.table EXCEPT ![i] = [links |-> 1, size |-> 0]],
                    !.dir = [f.dir EXCEPT ![n] = i]]
  BY <1>1 DEF InodeCreate, FsType
<1>3. /\ g.dir = [f.dir EXCEPT ![n] = i] /\ g.bitmap = f.bitmap \cup {i}
      /\ g.table = [f.table EXCEPT ![i] = [links |-> 1, size |-> 0]]
      /\ g = [bitmap |-> g.bitmap, table |-> g.table, dir |-> g.dir]
  BY <1>1, <1>2 DEF FsType
<1>4. /\ g.table[i] = [links |-> 1, size |-> 0]
      /\ \A j \in Inodes \ {i} : g.table[j] = f.table[j]
      /\ g.table \in [Inodes -> Meta]
  BY <1>1, <1>3 DEF FsType
<1>5. g \in FsType
  BY <1>1, <1>3, <1>4 DEF FsType
<1>6. EntriesOf(g, i) = {n} /\ \A j \in Inodes \ {i} : EntriesOf(g, j) = EntriesOf(f, j)
  BY <1>1, <1>3, InodesNotNone DEF EntriesOf, FsOK, FsType
<1>7. \A j \in g.bitmap : g.table[j].links = Cardinality(EntriesOf(g, j))
  <2> SUFFICES ASSUME NEW j \in g.bitmap PROVE g.table[j].links = Cardinality(EntriesOf(g, j))
    OBVIOUS
  <2>1. j \in Inodes
    BY <1>5 DEF FsType
  <2>2. CASE j = i
    <3>1. Cardinality({n}) = 1
      BY FS_Singleton
    <3> QED  BY <1>4, <1>6, <2>2, <3>1
  <2>3. CASE j # i
    BY <1>3, <1>4, <1>6, <2>1, <2>3 DEF FsOK
  <2> QED  BY <2>2, <2>3
<1>8. \A m \in Names : g.dir[m] # None => g.dir[m] \in g.bitmap
  BY <1>1, <1>3 DEF FsOK, FsType
<1> QED  BY <1>1, <1>3, <1>4, <1>5, <1>7, <1>8 DEF FsOK

(***************************************************************************)
(* The handlers keep the invariant and lose no size.                       *)
(***************************************************************************)
SizeStep == \A i \in fs.bitmap : i \in fs'.bitmap => Size(i)' >= Size(i)

LEMMA SizeType == OpenInv => \A i \in Inodes : Size(i) \in Nat
BY MaxSizeAssumption DEF OpenInv, OpenType, FsOK, FsType, Meta, Size, GetCache

LEMMA CreateInv ==
  ASSUME OpenInv, NEW h \in Handles, NEW n \in Names, Create(h, n)
  PROVE  OpenInv' /\ SizeStep
<1>1. PICK i \in Inodes :
        LET f == InodeCreate(fs, n, i)
            c == [GetCache(f, i) EXCEPT !.size = 0]
        IN  /\ FirstFree(i)
            /\ fs' = Commit(f, i, c)
            /\ cnts' = [cnts EXCEPT ![i] = @ + 1]
            /\ copy' = [copy EXCEPT ![i] = c]
            /\ fd' = [fd EXCEPT ![h] = [ino |-> i, name |-> n]]
  BY DEF Create
<1> DEFINE f == InodeCreate(fs, n, i)
           c == [links |-> 1, size |-> 0]
<1>2. /\ ~IsOpen(h) /\ fs.dir[n] = None /\ i \notin fs.bitmap
      /\ FsOK(fs) /\ OpenType
  BY <1>1 DEF Create, FirstFree, OpenInv
<1>3. \A k \in Handles : IsOpen(k) => fd[k].ino # i
  BY <1>2, OpenCounted
<1>4. cnts[i] = 0
  <2>1. OpenHandles(i) = {}
    BY <1>3 DEF OpenHandles
  <2> QED  BY <2>1, HandlesFinite DEF OpenInv, CountsAreHandles
<1>5. /\ FsOK(f) /\ f.dir = [fs.dir EXCEPT ![n] = i] /\ f.bitmap = fs.bitmap \cup {i}
      /\ \A j \in Inodes \ {i} : f.table[j] = fs.table[j]
      /\ f.table[i] = c /\ c \in Meta
  BY <1>2, CreateOK
<1>6. [GetCache(f, i) EXCEPT !.size = 0] = c
  BY <1>4, <1>5 DEF GetCache
<1>7. fs' = Commit(f, i, c) /\ copy' = [copy EXCEPT ![i] = c]
  BY <1>1, <1>6
<1> HIDE DEF f
<1>8. /\ FsOK(fs)' /\ fs'.dir = f.dir /\ fs'.bitmap = f.bitmap
      /\ \A j \in Inodes \ {i} : fs'.table[j] = f.table[j]
      /\ fs'.table[i] = c
  <2>1. FsOK(fs') /\ fs'.dir = f.dir /\ fs'.bitmap = f.bitmap
        /\ (\A j \in Inodes \ {i} : fs'.table[j] = f.table[j])
        /\ (i \in f.bitmap => fs'.table[i] = c)
    BY <1>5, <1>7, CommitOK
  <2> QED  BY <1>5, <2>1 DEF FsOK, FsType, EntriesOf
<1>9. CountsAreHandles' /\ cnts' \in [Inodes -> Nat] /\ fd' \in [Handles -> FdType \cup {None}]
  BY <1>1, <1>2, CountAdd
<1>10. OpenType'
  BY <1>2, <1>5, <1>7, <1>9 DEF OpenType
<1>11. HandleNamesFile'
  <2> SUFFICES ASSUME NEW k \in Handles, IsOpen(k)' PROVE fs'.dir[fd'[k].name] = fd'[k].ino
    BY DEF HandleNamesFile
  <2>1. CASE k = h
    BY <1>1, <1>2, <1>5, <1>8, <2>1 DEF OpenType, FsOK, FsType
  <2>2. CASE k # h
    <3>1. fd'[k] = fd[k] /\ IsOpen(k)
      BY <1>1, <1>2, <2>2 DEF OpenType, IsOpen
    <3>2. fs.dir[fd[k].name] = fd[k].ino /\ fd[k].ino \in Inodes /\ fd[k].name \in Names
      BY <3>1, OpenCounted DEF OpenInv, HandleNamesFile
    <3>3. fd[k].name # n
      BY <1>2, <3>2, InodesNotNone
    <3> QED  BY <1>2, <1>5, <1>8, <3>1, <3>2, <3>3 DEF FsOK, FsType
  <2> QED  BY <2>1, <2>2
<1>12. CopiesMatch'
  <2> SUFFICES ASSUME NEW j \in fs'.bitmap, cnts'[j] > 0 PROVE copy'[j].links = fs'.table[j].links
    BY DEF CopiesMatch
  <2>1. CASE j = i
    BY <1>2, <1>7, <1>8, <2>1 DEF OpenType
  <2>2. CASE j # i
    <3>1. j \in fs.bitmap /\ j \in Inodes
      BY <1>2, <1>5, <1>8, <2>2 DEF FsOK, FsType
    <3>2. cnts'[j] = cnts[j] /\ copy'[j] = copy[j] /\ fs'.table[j] = fs.table[j]
      BY <1>1, <1>2, <1>5, <1>7, <1>8, <2>2, <3>1 DEF OpenType
    <3> QED  BY <3>1, <3>2 DEF OpenInv, CopiesMatch
  <2> QED  BY <2>1, <2>2
<1>13. SizeStep
  <2>1. \A j \in fs.bitmap : j \in Inodes /\ j # i
    BY <1>2 DEF FsOK, FsType
  <2>2. \A j \in fs.bitmap : Size(j)' = Size(j)
    BY <1>1, <1>2, <1>5, <1>7, <1>8, <2>1 DEF Size, GetCache, OpenType
  <2> QED  BY <2>1, <2>2, SizeType DEF SizeStep
<1> QED  BY <1>8, <1>9, <1>10, <1>11, <1>12, <1>13 DEF OpenInv

LEMMA OpenFileInv ==
  ASSUME OpenInv, NEW h \in Handles, NEW n \in Names, Open(h, n)
  PROVE  OpenInv' /\ SizeStep
<1> DEFINE i == fs.dir[n]
<1>1. /\ ~IsOpen(h) /\ i \in Inodes /\ i \in fs.bitmap /\ fs' = fs
      /\ copy' = [copy EXCEPT ![i] = GetCache(fs, i)]
      /\ cnts' = [cnts EXCEPT ![i] = @ + 1]
      /\ fd' = [fd EXCEPT ![h] = [ino |-> i, name |-> n]]
  BY DEF Open, Lookup, OpenInv, FsOK, FsType
<1>2. OpenType /\ fs \in FsType /\ GetCache(fs, i) \in Meta
  BY <1>1 DEF OpenInv, OpenType, FsOK, FsType, GetCache
<1> HIDE DEF i
<1>3. CountsAreHandles' /\ cnts' \in [Inodes -> Nat] /\ fd' \in [Handles -> FdType \cup {None}]
  BY <1>1, CountAdd
<1>4. OpenType' /\ FsOK(fs)'
  <2>1. OpenType'
    BY <1>1, <1>2, <1>3 DEF OpenType
  <2> QED  BY <1>1, <2>1 DEF OpenInv, FsOK, FsType, EntriesOf
<1>5. HandleNamesFile'
  <2> SUFFICES ASSUME NEW k \in Handles, IsOpen(k)' PROVE fs'.dir[fd'[k].name] = fd'[k].ino
    BY DEF HandleNamesFile
  <2>1. CASE k = h
    BY <1>1, <1>2, <2>1 DEF OpenType, i
  <2>2. CASE k # h
    BY <1>1, <1>2, <2>2 DEF OpenInv, HandleNamesFile, OpenType, IsOpen
  <2> QED  BY <2>1, <2>2
<1>6. copy'[i] = GetCache(fs, i) /\ \A j \in Inodes \ {i} : copy'[j] = copy[j] /\ cnts'[j] = cnts[j]
  BY <1>1, <1>2 DEF OpenType
<1>7. CopiesMatch'
  <2> SUFFICES ASSUME NEW j \in fs.bitmap, cnts'[j] > 0 PROVE copy'[j].links = fs.table[j].links
    BY <1>1 DEF CopiesMatch
  <2>1. j \in Inodes /\ cnts[j] \in Nat
    BY <1>2 DEF FsType, OpenType
  <2> QED  BY <1>6, <2>1 DEF OpenInv, CopiesMatch, GetCache
<1>8. SizeStep
  <2>1. \A j \in fs.bitmap : j \in Inodes /\ cnts[j] \in Nat
    BY <1>2 DEF FsType, OpenType
  <2>2. cnts'[i] # 0
    BY <1>1, <1>2 DEF OpenType
  <2>3. \A j \in fs.bitmap : Size(j)' = Size(j)
    BY <1>1, <1>6, <2>1, <2>2 DEF Size, GetCache
  <2> QED  BY <2>1, <2>3, SizeType DEF SizeStep
<1> QED  BY <1>3, <1>4, <1>5, <1>7, <1>8 DEF OpenInv

LEMMA ReleaseInv ==
  ASSUME OpenInv, NEW h \in Handles, Release(h)
  PROVE  OpenInv' /\ SizeStep
<1>i. PICK i \in Inodes : fd[h].ino = i
  BY OpenCounted DEF Release
<1>1. /\ IsOpen(h) /\ i \in fs.bitmap /\ cnts[i] \in Nat \ {0}
      /\ fs' = IF cnts[i] = 1 THEN Commit(fs, i, copy[i]) ELSE fs
      /\ cnts' = [cnts EXCEPT ![i] = cnts[i] - 1]
      /\ copy' = [copy EXCEPT ![i] = IF cnts[i] = 1 THEN NoMeta ELSE copy[i]]
      /\ fd' = [fd EXCEPT ![h] = None]
  BY <1>i, OpenCounted DEF Release, RelCache
<1>2. /\ OpenType /\ FsOK(fs) /\ fs \in FsType /\ copy[i] \in Meta
      /\ copy[i].links = fs.table[i].links
  BY <1>1 DEF OpenInv, OpenType, FsOK, CopiesMatch
<1>3. CountsAreHandles' /\ cnts' \in [Inodes -> Nat] /\ fd' \in [Handles -> FdType \cup {None}]
  BY <1>i, <1>1, CountDrop
<1>4. /\ FsOK(fs') /\ fs'.dir = fs.dir /\ fs'.bitmap = fs.bitmap
      /\ \A j \in Inodes \ {i} : fs'.table[j] = fs.table[j]
      /\ cnts[i] = 1 => fs'.table[i] = copy[i]
      /\ cnts[i] # 1 => fs'.table[i] = fs.table[i]
  <2>1. CASE cnts[i] = 1
    BY <1>1, <1>2, <2>1, CommitOK
  <2>2. CASE cnts[i] # 1
    BY <1>1, <1>2, <2>2
  <2> QED  BY <2>1, <2>2
<1>5. NoMeta \in Meta
  BY LinkModulusType, MaxSizeAssumption DEF NoMeta, Meta
<1>6. FsOK(fs)' /\ OpenType'
  <2>1. OpenType'
    BY <1>1, <1>2, <1>3, <1>5 DEF OpenType
  <2> QED  BY <1>4, <2>1 DEF FsOK, FsType, EntriesOf
<1>7. HandleNamesFile'
  BY <1>1, <1>2, <1>4 DEF OpenInv, HandleNamesFile, OpenType, IsOpen
<1>8. /\ cnts'[i] = cnts[i] - 1 /\ copy'[i] = (IF cnts[i] = 1 THEN NoMeta ELSE copy[i])
      /\ \A j \in Inodes \ {i} : copy'[j] = copy[j] /\ cnts'[j] = cnts[j]
  BY <1>1, <1>2 DEF OpenType
<1>9. CopiesMatch'
  <2> SUFFICES ASSUME NEW j \in fs.bitmap, cnts'[j] > 0 PROVE copy'[j].links = fs'.table[j].links
    BY <1>4 DEF CopiesMatch
  <2>1. j \in Inodes /\ cnts[j] \in Nat
    BY <1>2 DEF FsType, OpenType
  <2>2. CASE j = i
    BY <1>1, <1>2, <1>4, <1>8, <2>1, <2>2
  <2>3. CASE j # i
    BY <1>4, <1>8, <2>1, <2>3 DEF OpenInv, CopiesMatch
  <2> QED  BY <2>2, <2>3
<1>10. SizeStep
  <2>1. \A j \in fs.bitmap : j \in Inodes /\ cnts[j] \in Nat
    BY <1>2 DEF FsType, OpenType
  <2>2. Size(i)' = Size(i)
    BY <1>1, <1>4, <1>8 DEF Size, GetCache
  <2>3. \A j \in fs.bitmap \ {i} : Size(j)' = Size(j)
    BY <1>4, <1>8, <2>1 DEF Size, GetCache
  <2> QED  BY <2>1, <2>2, <2>3, SizeType DEF SizeStep
<1> QED  BY <1>3, <1>6, <1>7, <1>9, <1>10 DEF OpenInv

LEMMA ExtendInv ==
  ASSUME OpenInv, NEW h \in Handles, Extend(h)
  PROVE  OpenInv' /\ SizeStep
<1>i. PICK i \in Inodes : fd[h].ino = i
  BY OpenCounted DEF Extend
<1>1. /\ i \in fs.bitmap /\ cnts[i] \in Nat \ {0} /\ copy[i] \in Meta /\ copy[i].size < MaxSize
      /\ copy' = [copy EXCEPT ![i] = [copy[i] EXCEPT !.size = copy[i].size + 1]]
      /\ fs' = fs /\ cnts' = cnts /\ fd' = fd
  BY <1>i, OpenCounted DEF Extend, OpenInv, OpenType
<1>2. copy \in [Inodes -> Meta] /\ fs \in FsType /\ cnts \in [Inodes -> Nat]
  BY DEF OpenInv, OpenType, FsOK
<1>3. /\ copy'[i].links = copy[i].links /\ copy'[i].size = copy[i].size + 1
      /\ copy' \in [Inodes -> Meta] /\ \A j \in Inodes \ {i} : copy'[j] = copy[j]
  <2> DEFINE c == [copy[i] EXCEPT !.size = copy[i].size + 1]
  <2>1. c \in Meta /\ c.links = copy[i].links /\ c.size = copy[i].size + 1
    BY <1>1, MaxSizeAssumption DEF Meta
  <2> HIDE DEF c
  <2>2. copy' = [copy EXCEPT ![i] = c]
    BY <1>1 DEF c
  <2> QED  BY <1>2, <2>1, <2>2
<1>4. CopiesMatch'
  BY <1>1, <1>2, <1>3 DEF OpenInv, CopiesMatch, FsType
<1>5. OpenInv'
  BY <1>1, <1>3, <1>4 DEF OpenInv, FsOK, FsType, EntriesOf, OpenType, CountsAreHandles,
                          HandleNamesFile, OpenHandles, IsOpen
<1>6. SizeStep
  <2>1. \A j \in fs.bitmap : j \in Inodes
    BY <1>2 DEF FsType
  <2>2. Size(i)' = copy[i].size + 1 /\ Size(i) = copy[i].size
    BY <1>1, <1>3 DEF Size, GetCache
  <2>3. \A j \in fs.bitmap \ {i} : Size(j)' = Size(j)
    BY <1>1, <1>3, <2>1 DEF Size, GetCache
  <2>4. \A j \in fs.bitmap : Size(j) \in Nat
    BY <2>1, SizeType
  <2> QED  BY <1>1, <2>2, <2>3, <2>4 DEF SizeStep
<1> QED  BY <1>5, <1>6

\* A step of FileSystem: the counts and the copies in use stay, every open inode
\* keeps its links, every other inode its size.
LEMMA FsStep ==
  ASSUME OpenInv, FsOK(fs'), cnts' = cnts, copy' \in [Inodes -> Meta],
         \A j \in Inodes : cnts[j] > 0 => copy'[j] = copy[j],
         CountsAreHandles', HandleNamesFile', fd' \in [Handles -> FdType \cup {None}],
         fs'.bitmap \subseteq fs.bitmap,
         \A j \in fs'.bitmap : cnts[j] > 0 => fs'.table[j].links = fs.table[j].links,
         \A j \in fs'.bitmap : cnts[j] = 0 => fs'.table[j].size = fs.table[j].size
  PROVE  OpenInv' /\ SizeStep
<1>1. FsOK(fs)' /\ OpenType'
  BY DEF FsOK, FsType, EntriesOf, OpenInv, OpenType
<1>2. \A j \in fs'.bitmap : j \in Inodes /\ cnts[j] \in Nat
  BY DEF OpenInv, FsOK, FsType, OpenType
<1>3. CopiesMatch'
  BY <1>2 DEF OpenInv, CopiesMatch
<1>4. \A j \in fs'.bitmap : Size(j)' = Size(j)
  BY <1>2 DEF Size, GetCache
<1>5. SizeStep
  BY <1>2, <1>4, SizeType DEF SizeStep
<1> QED  BY <1>1, <1>3, <1>5 DEF OpenInv

LEMMA FsyncInv ==
  ASSUME OpenInv, NEW h \in Handles, Fsync(h)
  PROVE  OpenInv' /\ SizeStep
<1>i. PICK i \in Inodes : fd[h].ino = i
  BY OpenCounted DEF Fsync
<1>1. /\ i \in fs.bitmap /\ cnts[i] \in Nat \ {0} /\ copy[i] \in Meta
      /\ copy[i].links = fs.table[i].links
      /\ fs' = Commit(fs, i, copy[i]) /\ UNCHANGED <<cnts, copy, fd>>
  BY <1>i, OpenCounted DEF Fsync, OpenInv, OpenType, CopiesMatch
<1>2. /\ FsOK(fs') /\ fs'.dir = fs.dir /\ fs'.bitmap = fs.bitmap
      /\ \A j \in Inodes \ {i} : fs'.table[j] = fs.table[j]
      /\ fs'.table[i] = copy[i]
  BY <1>1, CommitOK DEF OpenInv
<1>3. \A j \in fs.bitmap : j \in Inodes
  BY DEF OpenInv, FsOK, FsType
<1>4. CountsAreHandles' /\ HandleNamesFile' /\ fd' \in [Handles -> FdType \cup {None}]
  BY <1>1, <1>2 DEF OpenInv, OpenType, CountsAreHandles, HandleNamesFile, OpenHandles, IsOpen
<1>5. /\ \A j \in fs'.bitmap : cnts[j] > 0 => fs'.table[j].links = fs.table[j].links
      /\ \A j \in fs'.bitmap : cnts[j] = 0 => fs'.table[j].size = fs.table[j].size
  BY <1>1, <1>2, <1>3
<1>6. copy' \in [Inodes -> Meta]
  BY <1>1 DEF OpenInv, OpenType
<1> QED  BY <1>1, <1>2, <1>4, <1>5, <1>6, FsStep

LEMMA SetAttrInv ==
  ASSUME OpenInv, NEW n \in Names, SetAttr(n)
  PROVE  OpenInv' /\ SizeStep
<1>i. PICK i \in Inodes : fs.dir[n] = i /\ i \in fs.bitmap
  BY DEF SetAttr, Lookup, OpenInv, FsOK, FsType
<1>c. PICK c \in Meta : c = GetCache(fs, i)
  BY DEF OpenInv, OpenType, FsOK, FsType, GetCache
<1>f. PICK f : f = Commit(fs, i, c)
  OBVIOUS
<1>1. /\ OpenType /\ FsOK(fs) /\ cnts[i] \in Nat
      /\ c.links = fs.table[i].links
      /\ cnts[i] > 0 => c = copy[i]
      /\ cnts[i] = 0 => c = fs.table[i]
  <2>1. cnts[i] \in Nat
    BY DEF OpenInv, OpenType
  <2> QED  BY <1>i, <1>c, <2>1 DEF OpenInv, CopiesMatch, GetCache
<1>2. /\ fs' = IF cnts[i] + 1 = 1 THEN Commit(f, i, c) ELSE f
      /\ cnts' = [cnts EXCEPT ![i] = (cnts[i] + 1) - 1]
      /\ copy' = [copy EXCEPT ![i] = IF cnts[i] + 1 = 1 THEN NoMeta ELSE c]
      /\ fd' = fd
  <2>1. RelCache(f, i, cnts[i] + 1, c) /\ fd' = fd
    BY <1>i, <1>c, <1>f DEF SetAttr
  <2> QED  BY <2>1 DEF RelCache
<1>3. /\ FsOK(f) /\ f.dir = fs.dir /\ f.bitmap = fs.bitmap
      /\ \A j \in Inodes \ {i} : f.table[j] = fs.table[j]
      /\ f.table[i] = c
  BY <1>i, <1>f, <1>1, CommitOK
<1>4. PICK g : g = Commit(f, i, c)
  OBVIOUS
<1>5. /\ FsOK(g) /\ g.dir = fs.dir /\ g.bitmap = fs.bitmap
      /\ \A j \in Inodes \ {i} : g.table[j] = fs.table[j]
      /\ g.table[i] = c
  BY <1>i, <1>3, <1>4, CommitOK
<1>6. /\ FsOK(fs') /\ fs'.dir = fs.dir /\ fs'.bitmap = fs.bitmap
      /\ \A j \in Inodes \ {i} : fs'.table[j] = fs.table[j]
      /\ fs'.table[i] = c
  BY <1>2, <1>3, <1>4, <1>5
<1>7. cnts' = cnts
  BY <1>1, <1>2 DEF OpenType
<1>8. copy' \in [Inodes -> Meta] /\ \A j \in Inodes : cnts[j] > 0 => copy'[j] = copy[j]
  <2>1. NoMeta \in Meta
    BY LinkModulusType, MaxSizeAssumption DEF NoMeta, Meta
  <2>2. copy' \in [Inodes -> Meta] /\ \A j \in Inodes \ {i} : copy'[j] = copy[j]
    BY <1>1, <1>2, <2>1 DEF OpenType
  <2>3. cnts[i] > 0 => copy'[i] = copy[i]
    BY <1>1, <1>2 DEF OpenType
  <2> QED  BY <2>2, <2>3
<1>9. CountsAreHandles' /\ HandleNamesFile' /\ fd' \in [Handles -> FdType \cup {None}]
  BY <1>1, <1>2, <1>6, <1>7 DEF OpenInv, OpenType, CountsAreHandles, HandleNamesFile, OpenHandles, IsOpen
<1>10. /\ \A j \in fs'.bitmap : cnts[j] > 0 => fs'.table[j].links = fs.table[j].links
       /\ \A j \in fs'.bitmap : cnts[j] = 0 => fs'.table[j].size = fs.table[j].size
  <2>1. \A j \in fs.bitmap : j \in Inodes
    BY <1>1 DEF FsOK, FsType
  <2> QED  BY <1>1, <1>6, <2>1
<1> QED  BY <1>6, <1>7, <1>8, <1>9, <1>10, FsStep

LEMMA LinkInv ==
  ASSUME OpenInv, ~RelinkOpen, NEW n \in Names, NEW m \in Names, Link(n, m)
  PROVE  OpenInv' /\ SizeStep
<1>i. PICK i \in Inodes : fs.dir[n] = i /\ i \in fs.bitmap
  BY DEF Link, Lookup, OpenInv, FsOK, FsType
<1>1. /\ FsOK(fs) /\ fs.dir[m] = None /\ ~(cnts[i] > 0)
      /\ fs' = InodeLink(fs, n, m) /\ UNCHANGED <<cnts, copy, fd>>
  BY <1>i DEF Link, Relinks, OpenInv
<1>2. /\ FsOK(fs') /\ fs'.dir = [fs.dir EXCEPT ![m] = i] /\ fs'.bitmap = fs.bitmap
      /\ \A j \in Inodes \ {i} : fs'.table[j] = fs.table[j]
      /\ fs'.table[i].size = fs.table[i].size
  BY <1>i, <1>1, LinkOK
<1>3. HandleNamesFile'
  <2> SUFFICES ASSUME NEW h \in Handles, IsOpen(h)' PROVE fs'.dir[fd'[h].name] = fd'[h].ino
    BY DEF HandleNamesFile
  <2>1. IsOpen(h) /\ fs.dir[fd[h].name] = fd[h].ino
    BY <1>1 DEF OpenInv, HandleNamesFile, IsOpen
  <2>2. fd[h].name \in Names /\ fd[h].ino # None
    BY <2>1, OpenCounted, InodesNotNone
  <2> QED  BY <1>1, <1>2, <2>1, <2>2 DEF FsOK, FsType
<1>4. CountsAreHandles' /\ fd' \in [Handles -> FdType \cup {None}] /\ copy' \in [Inodes -> Meta]
  BY <1>1 DEF OpenInv, OpenType, CountsAreHandles, OpenHandles, IsOpen
<1>5. \A j \in fs.bitmap : j \in Inodes
  BY <1>1 DEF FsOK, FsType
<1> QED  BY <1>1, <1>2, <1>3, <1>4, <1>5, FsStep

LEMMA UnlinkInv ==
  ASSUME OpenInv, NEW n \in Names, Unlink(n)
  PROVE  OpenInv' /\ SizeStep
<1>i. PICK i \in Inodes : fs.dir[n] = i /\ i \in fs.bitmap
  BY DEF Unlink, Lookup, OpenInv, FsOK, FsType
<1>1. /\ FsOK(fs) /\ ~OpenUnder(n) /\ ~(cnts[i] > 0)
      /\ fs' = InodeUnlink(fs, n) /\ UNCHANGED <<cnts, copy, fd>>
  BY <1>i DEF Unlink, OpenInv, OpenType
<1>2. /\ FsOK(fs') /\ fs'.dir = [fs.dir EXCEPT ![n] = None] /\ fs'.bitmap \subseteq fs.bitmap
      /\ \A j \in Inodes \ {i} : fs'.table[j] = fs.table[j]
      /\ fs'.table[i].size = fs.table[i].size
  <2>1. PICK g : g = InodeUnlink(fs, n)
    OBVIOUS
  <2>2. /\ FsOK(g) /\ g.dir = [fs.dir EXCEPT ![n] = None] /\ g.bitmap \subseteq fs.bitmap
        /\ \A j \in Inodes \ {i} : g.table[j] = fs.table[j]
        /\ g.table[i].size = fs.table[i].size
    BY <1>i, <1>1, <2>1, UnlinkOK
  <2> QED  BY <1>1, <2>1, <2>2
<1>3. HandleNamesFile'
  <2> SUFFICES ASSUME NEW h \in Handles, IsOpen(h)' PROVE fs'.dir[fd'[h].name] = fd'[h].ino
    BY DEF HandleNamesFile
  <2>1. IsOpen(h) /\ fs.dir[fd[h].name] = fd[h].ino
    BY <1>1 DEF OpenInv, HandleNamesFile, IsOpen
  <2>2. fd[h].name \in Names /\ fd[h].name # n
    BY <1>1, <2>1, OpenCounted DEF OpenUnder
  <2> QED  BY <1>1, <1>2, <2>1, <2>2 DEF FsOK, FsType
<1>4. CountsAreHandles' /\ fd' \in [Handles -> FdType \cup {None}] /\ copy' \in [Inodes -> Meta]
  BY <1>1 DEF OpenInv, OpenType, CountsAreHandles, OpenHandles, IsOpen
<1>5. \A j \in fs'.bitmap : j \in Inodes
  BY <1>1, <1>2 DEF FsOK, FsType
<1> QED  BY <1>1, <1>2, <1>3, <1>4, <1>5, FsStep

\* fuse_rename leaves every entry but the two names, every size, and the links
\* of every inode but the one that lost newname.
LEMMA RenameFs ==
  ASSUME NEW F, FsOK(F), NEW n \in Names, NEW m \in Names, n # m,
         NEW i \in Inodes, F.dir[n] = i, F.dir[m] = None,
         NEW k, k = InodeLink(F, n, m), NEW g, g = InodeUnlink(k, n)
  PROVE  /\ FsOK(g) /\ g.dir = [F.dir EXCEPT ![m] = i, ![n] = None]
         /\ g.bitmap \subseteq F.bitmap
         /\ \A j \in Inodes \ {i} : g.table[j] = F.table[j]
         /\ g.table[i].size = F.table[i].size
         /\ g.table[i].links = F.table[i].links
<1>1. /\ FsOK(k) /\ k.dir = [F.dir EXCEPT ![m] = i] /\ k.bitmap = F.bitmap
      /\ \A j \in Inodes \ {i} : k.table[j] = F.table[j]
      /\ k.table[i].size = F.table[i].size
      /\ k.table[i].links = F.table[i].links + 1
  BY LinkOK
<1>2. F.dir \in [Names -> Inodes \cup {None}] /\ F.table[i].links \in Int
  BY LinkModulusType DEF FsOK, FsType, Meta
<1>3. k.dir[n] = i
  BY <1>1, <1>2
<1>4. /\ FsOK(g) /\ g.dir = [k.dir EXCEPT ![n] = None] /\ g.bitmap \subseteq k.bitmap
      /\ \A j \in Inodes \ {i} : g.table[j] = k.table[j]
      /\ g.table[i].size = k.table[i].size
      /\ g.table[i].links = k.table[i].links - 1
  <2>1. FsOK(k)
    BY <1>1
  <2> QED  BY <1>3, <2>1, UnlinkOK
<1>5. g.table[i].links = F.table[i].links
  BY <1>1, <1>2, <1>4
<1> QED  BY <1>1, <1>2, <1>4, <1>5

LEMMA RenameInv ==
  ASSUME OpenInv, ~RelinkOpen, NEW n \in Names, NEW m \in Names, Rename(n, m)
  PROVE  OpenInv' /\ SizeStep
<1> DEFINE f == IF Lookup(fs, m) THEN InodeUnlink(fs, m) ELSE fs
           linked == Lookup(f, n) /\ f.dir[m] = None
<1>1. /\ n # m /\ Lookup(fs, n) /\ ~OpenUnder(m) /\ cnts' = cnts /\ copy' = copy
      /\ Lookup(fs, m) => ~(cnts[fs.dir[m]] > 0)
      /\ fs' = IF linked THEN InodeUnlink(InodeLink(f, n, m), n) ELSE f
      /\ fd' = [h \in Handles |-> IF linked /\ IsOpen(h) /\ fd[h].name = n
                                  THEN [fd[h] EXCEPT !.name = m] ELSE fd[h]]
  BY DEF Rename, Relinks
<1>2. PICK F : F = f
  OBVIOUS
<1>i. PICK i \in Inodes : fs.dir[n] = i /\ i \in fs.bitmap
  BY <1>1 DEF Lookup, OpenInv, FsOK, FsType
<1>3. /\ FsOK(F) /\ F.dir[m] = None /\ F.bitmap \subseteq fs.bitmap
      /\ \A k \in Names \ {m} : F.dir[k] = fs.dir[k]
      /\ \A j \in Inodes : F.table[j].size = fs.table[j].size
      /\ \A j \in Inodes : cnts[j] > 0 => F.table[j].links = fs.table[j].links
  <2>1. FsOK(fs) /\ fs \in FsType
    BY DEF OpenInv, FsOK
  <2>2. CASE ~Lookup(fs, m)
    BY <1>2, <2>1, <2>2 DEF Lookup, FsOK
  <2>3. CASE Lookup(fs, m)
    <3>1. PICK j \in Inodes : fs.dir[m] = j
      BY <2>1, <2>3 DEF Lookup, FsType
    <3>2. F = InodeUnlink(fs, m) /\ ~(cnts[j] > 0)
      BY <1>1, <1>2, <2>3, <3>1
    <3>3. /\ FsOK(F) /\ F.dir = [fs.dir EXCEPT ![m] = None] /\ F.bitmap \subseteq fs.bitmap
          /\ \A k \in Inodes \ {j} : F.table[k] = fs.table[k]
          /\ F.table[j].size = fs.table[j].size
      BY <2>1, <3>1, <3>2, UnlinkOK
    <3> QED  BY <2>1, <3>2, <3>3 DEF FsType
  <2> QED  BY <2>2, <2>3
<1>4. F.dir[n] = i /\ i \in F.bitmap /\ linked
  <2>1. F.dir[n] = i
    BY <1>1, <1>i, <1>3
  <2>2. i \in F.bitmap
    BY <1>3, <2>1, InodesNotNone DEF FsOK
  <2> QED  BY <1>2, <1>3, <2>1, <2>2, InodesNotNone DEF Lookup
<1>5. /\ fs' = InodeUnlink(InodeLink(F, n, m), n)
      /\ fd' = [h \in Handles |-> IF IsOpen(h) /\ fd[h].name = n
                                  THEN [fd[h] EXCEPT !.name = m] ELSE fd[h]]
  BY <1>1, <1>2, <1>4
<1> HIDE DEF f, linked
<1>6. /\ FsOK(fs') /\ fs'.dir = [F.dir EXCEPT ![m] = i, ![n] = None]
      /\ fs'.bitmap \subseteq F.bitmap
      /\ \A j \in Inodes \ {i} : fs'.table[j] = F.table[j]
      /\ fs'.table[i].size = F.table[i].size
      /\ fs'.table[i].links = F.table[i].links
  <2>1. PICK g : g = fs'
    OBVIOUS
  <2>2. PICK k : k = InodeLink(F, n, m)
    OBVIOUS
  <2>k. g = InodeUnlink(k, n)
    BY <1>5, <2>1, <2>2
  <2>3. /\ FsOK(g) /\ g.dir = [F.dir EXCEPT ![m] = i, ![n] = None]
        /\ g.bitmap \subseteq F.bitmap
        /\ \A j \in Inodes \ {i} : g.table[j] = F.table[j]
        /\ g.table[i].size = F.table[i].size
        /\ g.table[i].links = F.table[i].links
    BY <1>1, <1>3, <1>4, <2>2, <2>k, RenameFs
  <2> QED  BY <2>1, <2>3
<1>7. /\ fs'.dir[m] = i
      /\ \A k \in Names \ {n, m} : fs'.dir[k] = fs.dir[k]
  BY <1>1, <1>3, <1>6 DEF FsOK, FsType
<1>8. \A h \in Handles :
        /\ ~IsOpen(h) => fd'[h] = None
        /\ IsOpen(h) => /\ fd'[h] \in FdType /\ fd'[h].ino = fd[h].ino
                        /\ fd'[h].name = IF fd[h].name = n THEN m ELSE fd[h].name
  <2> SUFFICES ASSUME NEW h \in Handles, IsOpen(h)
               PROVE  /\ fd'[h] \in FdType /\ fd'[h].ino = fd[h].ino
                      /\ fd'[h].name = IF fd[h].name = n THEN m ELSE fd[h].name
    BY <1>5 DEF IsOpen
  <2>1. fd[h] \in FdType
    BY OpenCounted
  <2> QED  BY <1>5, <2>1 DEF FdType
<1>9. fd' \in [Handles -> FdType \cup {None}] /\ \A h \in Handles : IsOpen(h)' <=> IsOpen(h)
  BY <1>5, <1>8, FdNotNone DEF IsOpen
<1>10. CountsAreHandles'
  <2>1. \A j \in Inodes : OpenHandles(j)' = OpenHandles(j)
    BY <1>8, <1>9 DEF OpenHandles
  <2> QED  BY <1>1, <2>1 DEF OpenInv, CountsAreHandles
<1>11. HandleNamesFile'
  <2> SUFFICES ASSUME NEW h \in Handles, IsOpen(h) PROVE fs'.dir[fd'[h].name] = fd'[h].ino
    BY <1>9 DEF HandleNamesFile
  <2>1. fs.dir[fd[h].name] = fd[h].ino /\ fd[h].name \in Names /\ fd[h].name # m
    BY <1>1, OpenCounted DEF OpenInv, HandleNamesFile, OpenUnder
  <2>2. fd'[h].ino = fd[h].ino /\ fd'[h].name = IF fd[h].name = n THEN m ELSE fd[h].name
    BY <1>8
  <2> QED  BY <1>i, <1>7, <2>1, <2>2
<1>12. /\ \A j \in Inodes : fs'.table[j].size = fs.table[j].size
       /\ \A j \in Inodes : cnts[j] > 0 => fs'.table[j].links = fs.table[j].links
  BY <1>3, <1>6
<1>13. fs'.bitmap \subseteq fs.bitmap /\ \A j \in fs'.bitmap : j \in Inodes
  BY <1>3, <1>6 DEF FsOK, FsType
<1>14. copy' \in [Inodes -> Meta]
  BY <1>1 DEF OpenInv, OpenType
<1> QED  BY <1>1, <1>6, <1>9, <1>10, <1>11, <1>12, <1>13, <1>14, FsStep

LEMMA InitInv == Init => OpenInv
<1> SUFFICES ASSUME Init PROVE OpenInv
  OBVIOUS
<1>1. NoMeta \in Meta
  BY LinkModulusType, MaxSizeAssumption DEF NoMeta, Meta
<1>2. fs \in FsType /\ fs.bitmap = {} /\ \A n \in Names : fs.dir[n] = None
  BY <1>1 DEF Init, FsType
<1>3. OpenType
  BY <1>1 DEF Init, OpenType
<1>4. \A h \in Handles : ~IsOpen(h)
  BY DEF Init, IsOpen
<1>5. CountsAreHandles
  <2>1. \A i \in Inodes : OpenHandles(i) = {} /\ cnts[i] = 0
    BY <1>4 DEF Init, OpenHandles
  <2> QED  BY <2>1, FS_EmptySet DEF CountsAreHandles
<1> QED  BY <1>2, <1>3, <1>4, <1>5 DEF OpenInv, FsOK, HandleNamesFile, CopiesMatch

LEMMA StutterInv == OpenInv /\ UNCHANGED vars => OpenInv'
BY DEF OpenInv, FsOK, FsType, EntriesOf, OpenType, CountsAreHandles, HandleNamesFile,
       CopiesMatch, OpenHandles, IsOpen, vars

LEMMA NextInv ==
  ASSUME ~RelinkOpen, OpenInv, Next
  PROVE  OpenInv' /\ SizeStep
<1>1. CASE \E h \in Handles : Release(h) \/ Extend(h) \/ Fsync(h)
  BY <1>1, ReleaseInv, ExtendInv, FsyncInv
<1>2. CASE \E h \in Handles, n \in Names : Create(h, n) \/ Open(h, n)
  BY <1>2, CreateInv, OpenFileInv
<1>3. CASE \E n \in Names : SetAttr(n) \/ Unlink(n)
  BY <1>3, SetAttrInv, UnlinkInv
<1>4. CASE \E n, m \in Names : Link(n, m) \/ Rename(n, m)
  BY <1>4, LinkInv, RenameInv
<1> QED  BY <1>1, <1>2, <1>3, <1>4 DEF Next

(***************************************************************************)
(* The theorems.                                                           *)
(***************************************************************************)
\* The inductive invariant holds throughout, whatever the handlers interleave.
THEOREM OpenFilesInvariant ==
  ASSUME ~RelinkOpen PROVE Spec => []OpenInv
<1>1. OpenInv /\ [Next]_vars => OpenInv'
  BY NextInv, StutterInv
<1> QED  BY <1>1, InitInv, PTL DEF Spec

\* i_links_count is the number of entries in the table and in the copy of an
\* open file, so inode_unlink deletes a file with its last name.
THEOREM LinkCounts ==
  ASSUME ~RelinkOpen PROVE Spec => []LinksAreEntries
BY OpenFilesInvariant, OpenInvImplies, PTL

\* No entry names a free inode.
THEOREM EntriesAllocated ==
  ASSUME ~RelinkOpen PROVE Spec => []NoDanglingEntry
BY OpenFilesInvariant, OpenInvImplies, PTL

\* cnts_ is the number of handles on the inode: rel_cache drops no copy in use.
THEOREM ReferenceCounts ==
  ASSUME ~RelinkOpen PROVE Spec => []CountsAreHandles
BY OpenFilesInvariant, OpenInvImplies, PTL

\* No inode is freed under an open handle.
THEOREM OpenNeverFreed ==
  ASSUME ~RelinkOpen PROVE Spec => []OpenStaysAllocated
BY OpenFilesInvariant, OpenInvImplies, PTL

\* The size a handler sees never shrinks while the inode is allocated.
THEOREM NoLostSize ==
  ASSUME ~RelinkOpen PROVE Spec => SizeNeverLost
<1>1. OpenInv /\ [Next]_vars => [SizeStep]_vars
  BY NextInv
<1>2. Spec => []OpenInv /\ [][Next]_vars
  BY OpenFilesInvariant, PTL DEF Spec
<1>3. Spec => [][SizeStep]_vars
  BY <1>1, <1>2, PTL
<1> QED  BY <1>3 DEF SizeNeverLost, SizeStep
=============================================================================
