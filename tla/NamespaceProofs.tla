---------------------------- MODULE NamespaceProofs ----------------------------
(***************************************************************************)
(* The invariants of Namespace hold for every number of inodes and names.  *)
(* FileSystem::inode_create, inode_link and inode_unlink each preserve the *)
(* inductive invariant TreeOK, so a handler made of them does as well,     *)
(* wherever it stops.  A rename replaces no directory that holds entries    *)
(* (inode_delete would free what is below it).                             *)
(***************************************************************************)
EXTENDS Namespace, FiniteSetTheorems, TLAPS

\* The provers a step is given to in turn, with their time in seconds.
USE ZenonT(3), SMTT(40), ZenonT(60)

FsType == [bitmap : SUBSET Inodes,
           type : [Inodes -> {"dir", "reg", "lnk"}],
           links : [Inodes -> 0 .. LinkModulus - 1],
           ents : [Inodes -> [AllNames -> Inodes \cup {None}]]]

DirsIn(s) == {d \in s.bitmap : s.type[d] = "dir"}

EntriesIn(s, i) == {p \in Paths : p.dir \in DirsIn(s) /\ Target(s, p) = i}

\* Every entry names an allocated inode other than the root; an inode has as
\* many links as entries and, unless it is a symbolic link, at least one; the
\* directories form a tree.
TreeOK(s) ==
  /\ s \in FsType
  /\ Root \in DirsIn(s)
  /\ \A p \in Paths :
       p.dir \in DirsIn(s) /\ Target(s, p) # None => Target(s, p) \in s.bitmap \ {Root}
  /\ \A i \in s.bitmap \ {Root} : s.links[i] = Cardinality(EntriesIn(s, i))
  /\ \A i \in s.bitmap \ {Root} : s.type[i] # "lnk" => EntriesIn(s, i) # {}
  /\ \A d \in DirsIn(s) \ {Root} : \E p \in Paths : EntriesIn(s, d) = {p}
  /\ \A D \in SUBSET (DirsIn(s) \ {Root}) :
       D # {} => \E d \in D : \E p \in EntriesIn(s, d) : p.dir \notin D

(***************************************************************************)
(* Numbers, paths and entries.                                             *)
(***************************************************************************)
LEMMA LinkModulusType == LinkModulus \in Nat \ {0, 1}
BY DEF LinkModulus

LEMMA ModSmall ==
  ASSUME NEW x \in 0 .. LinkModulus - 1
  PROVE  x % LinkModulus = x
BY LinkModulusType

LEMMA InodesNotNone == \A i \in Inodes : i # None
BY NoneAssumption, NInodesAssumption DEF Inodes

LEMMA PathParts ==
  /\ \A p \in Paths : p.dir \in Inodes /\ p.name \in AllNames
  /\ \A p, q \in Paths : p.dir = q.dir /\ p.name = q.name => p = q
BY DEF Paths

LEMMA EntriesFinite ==
  ASSUME NEW s, NEW i
  PROVE  /\ IsFiniteSet(EntriesIn(s, i))
         /\ Cardinality(EntriesIn(s, i)) \in 0 .. LinkModulus - 1
<1>1. EntriesIn(s, i) \in SUBSET Paths
  BY DEF EntriesIn
<1>2. IsFiniteSet(EntriesIn(s, i)) /\ Cardinality(EntriesIn(s, i)) <= Cardinality(Paths)
  BY <1>1, FS_Subset, EntriesAssumption
<1>3. Cardinality(EntriesIn(s, i)) \in Nat /\ Cardinality(Paths) \in Nat
  BY <1>2, FS_CardinalityType, EntriesAssumption
<1> QED  BY <1>2, <1>3, EntriesAssumption, LinkModulusType

\* Writing one entry of a directory.
SetEntry(e, p, v) == [e EXCEPT ![p.dir][p.name] = v]

LEMMA SetEntryFacts ==
  ASSUME NEW e \in [Inodes -> [AllNames -> Inodes \cup {None}]],
         NEW p \in Paths, NEW v \in Inodes \cup {None}
  PROVE  /\ SetEntry(e, p, v) \in [Inodes -> [AllNames -> Inodes \cup {None}]]
         /\ SetEntry(e, p, v)[p.dir][p.name] = v
         /\ \A q \in Paths \ {p} : SetEntry(e, p, v)[q.dir][q.name] = e[q.dir][q.name]
<1> DEFINE f == SetEntry(e, p, v)
<1>1. p.dir \in Inodes /\ p.name \in AllNames
  BY PathParts
<1>2. f \in [Inodes -> [AllNames -> Inodes \cup {None}]] /\ f[p.dir][p.name] = v
  BY <1>1 DEF SetEntry
<1>3. ASSUME NEW q \in Paths \ {p}
      PROVE  f[q.dir][q.name] = e[q.dir][q.name]
  <2>1. q.dir \in Inodes /\ q.name \in AllNames /\ (q.dir # p.dir \/ q.name # p.name)
    BY PathParts
  <2> QED  BY <1>1, <2>1 DEF SetEntry
<1> HIDE DEF f
<1> QED  BY <1>2, <1>3 DEF f

\* Writing fields of the file system.
LEMMA SetFields ==
  ASSUME NEW s \in FsType, NEW b, NEW l, NEW e
  PROVE  /\ [[s EXCEPT !.ents = e] EXCEPT !.links = l]
              = [bitmap |-> s.bitmap, type |-> s.type, links |-> l, ents |-> e]
         /\ [s EXCEPT !.bitmap = b]
              = [bitmap |-> b, type |-> s.type, links |-> s.links, ents |-> s.ents]
<1>1. s = [bitmap |-> s.bitmap, type |-> s.type, links |-> s.links, ents |-> s.ents]
  BY DEF FsType
<1>2. [[s EXCEPT !.ents = e] EXCEPT !.links = l]
        = [bitmap |-> s.bitmap, type |-> s.type, links |-> l, ents |-> e]
  <2> DEFINE g == [s EXCEPT !.ents = e]
  <2>1. g = [bitmap |-> s.bitmap, type |-> s.type, links |-> s.links, ents |-> e]
    BY <1>1
  <2> HIDE DEF g
  <2>2. [g EXCEPT !.links = l]
          = [bitmap |-> s.bitmap, type |-> s.type, links |-> l, ents |-> e]
    BY <2>1
  <2> QED  BY <2>2 DEF g
<1>3. [s EXCEPT !.bitmap = b]
        = [bitmap |-> b, type |-> s.type, links |-> s.links, ents |-> s.ents]
  BY <1>1
<1> QED  BY <1>2, <1>3

\* A live entry and its inode.
LEMMA EntryFacts ==
  ASSUME NEW s, TreeOK(s), NEW p \in Paths, p.dir \in DirsIn(s), Target(s, p) # None
  PROVE  /\ Target(s, p) \in s.bitmap \ {Root}
         /\ Target(s, p) \in Inodes
         /\ p \in EntriesIn(s, Target(s, p))
         /\ s.links[Target(s, p)] = Cardinality(EntriesIn(s, Target(s, p)))
         /\ s.links[Target(s, p)] \in 1 .. LinkModulus - 1
<1> DEFINE i == Target(s, p)
<1>1. i \in s.bitmap \ {Root} /\ i \in Inodes /\ p \in EntriesIn(s, i)
  BY DEF TreeOK, FsType, EntriesIn
<1>2. s.links[i] = Cardinality(EntriesIn(s, i))
  BY <1>1 DEF TreeOK
<1>3. Cardinality(EntriesIn(s, i)) # 0
  BY <1>1, EntriesFinite, FS_EmptySet
<1>4. s.links[i] \in 1 .. LinkModulus - 1
  BY <1>2, <1>3, EntriesFinite, LinkModulusType
<1> QED  BY <1>1, <1>2, <1>4

(***************************************************************************)
(* inode_delete of a file or of an empty directory frees that inode alone; *)
(* it refuses a symbolic link.                                             *)
(***************************************************************************)
LEMMA DeletedOne ==
  ASSUME NEW s \in FsType, NEW i \in s.bitmap \ {Root},
         s.type[i] = "dir" => s.ents[i] = NoEntries
  PROVE  Deleted(s, i) = IF s.type[i] = "lnk" THEN {} ELSE {i}
<1> DEFINE Deletable == {j \in s.bitmap \ {Root} : s.type[j] \in {"reg", "dir"}}
           Closed(D) ==
             /\ i \in Deletable => i \in D
             /\ \A k \in D, n \in AllNames :
                  s.type[k] = "dir" /\ s.ents[k][n] \in Deletable => s.ents[k][n] \in D
<1>1. Deleted(s, i) = {j \in Deletable : \A D \in SUBSET Deletable : Closed(D) => j \in D}
  BY DEF Deleted
<1>2. s.type[i] \in {"dir", "reg", "lnk"} /\ Deletable \subseteq Inodes
  BY DEF FsType
<1>3. CASE s.type[i] = "lnk"
  <2>1. i \notin Deletable
    BY <1>3
  <2>2. {} \in SUBSET Deletable /\ Closed({})
    BY <2>1
  <2> HIDE DEF Closed
  <2> QED  BY <1>1, <1>3, <2>2
<1>4. CASE s.type[i] # "lnk"
  <2>1. i \in Deletable
    BY <1>2, <1>4
  <2>2. \A n \in AllNames : s.type[i] = "dir" => s.ents[i][n] \notin Deletable
    BY <1>2, InodesNotNone DEF NoEntries
  <2>3. {i} \in SUBSET Deletable /\ Closed({i})
    BY <2>1, <2>2
  <2>4. \A D \in SUBSET Deletable : Closed(D) => i \in D
    BY <2>1
  <2> HIDE DEF Closed
  <2> QED  BY <1>1, <1>4, <2>1, <2>3, <2>4
<1> QED  BY <1>3, <1>4

(***************************************************************************)
(* inode_unlink.                                                           *)
(***************************************************************************)
\* The state after an entry p has been removed: its inode goes with the last
\* entry, unless it is a symbolic link.
Without(s, p) ==
  LET i == Target(s, p)
  IN  [bitmap |-> IF s.links[i] = 1 /\ s.type[i] # "lnk" THEN s.bitmap \ {i} ELSE s.bitmap,
       type |-> s.type,
       links |-> [s.links EXCEPT ![i] = s.links[i] - 1],
       ents |-> SetEntry(s.ents, p, None)]

\* p is an entry that may be removed: its inode holds no entries itself.
Removable(s, p) ==
  /\ p \in Paths
  /\ p.dir \in DirsIn(s)
  /\ Target(s, p) # None
  /\ s.type[Target(s, p)] = "dir" => s.ents[Target(s, p)] = NoEntries

LEMMA WithoutOK ==
  ASSUME NEW s, TreeOK(s), NEW p, Removable(s, p)
  PROVE  /\ TreeOK(Without(s, p))
         /\ DirsIn(Without(s, p)) = DirsIn(s) \ {Target(s, p)}
         /\ Target(Without(s, p), p) = None
         /\ \A q \in Paths \ {p} : Target(Without(s, p), q) = Target(s, q)
<1> DEFINE i == Target(s, p)
           g == Without(s, p)
           gone == s.links[i] = 1 /\ s.type[i] # "lnk"
           E == EntriesIn(s, i)
<1>p. p \in Paths /\ p.dir \in DirsIn(s) /\ i # None
  BY DEF Removable
<1>1. /\ i \in s.bitmap \ {Root} /\ i \in Inodes /\ p \in E
      /\ s.links[i] = Cardinality(E) /\ s.links[i] \in 1 .. LinkModulus - 1
  BY <1>p, EntryFacts
<1>2. /\ s \in FsType /\ s.bitmap \subseteq Inodes
      /\ s.type \in [Inodes -> {"dir", "reg", "lnk"}]
      /\ s.links \in [Inodes -> 0 .. LinkModulus - 1]
      /\ s.ents \in [Inodes -> [AllNames -> Inodes \cup {None}]]
  BY DEF TreeOK, FsType
<1>3. /\ g.bitmap = IF gone THEN s.bitmap \ {i} ELSE s.bitmap
      /\ g.type = s.type
      /\ g.links = [s.links EXCEPT ![i] = s.links[i] - 1]
      /\ g.ents = SetEntry(s.ents, p, None)
      /\ g = [bitmap |-> g.bitmap, type |-> g.type, links |-> g.links, ents |-> g.ents]
  BY DEF Without
<1> HIDE DEF g
<1>4. /\ g.ents \in [Inodes -> [AllNames -> Inodes \cup {None}]]
      /\ Target(g, p) = None
      /\ \A q \in Paths \ {p} : Target(g, q) = Target(s, q)
  <2>1. None \in Inodes \cup {None} /\ g.ents = SetEntry(s.ents, p, None)
    BY <1>3
  <2>2. /\ g.ents \in [Inodes -> [AllNames -> Inodes \cup {None}]]
        /\ g.ents[p.dir][p.name] = None
        /\ \A q \in Paths \ {p} : g.ents[q.dir][q.name] = s.ents[q.dir][q.name]
    <3>1. s.ents \in [Inodes -> [AllNames -> Inodes \cup {None}]]
      BY <1>2
    <3> QED  BY <1>p, <2>1, <3>1, SetEntryFacts
  <2> QED  BY <2>2 DEF Target
<1>5. s.links[i] - 1 \in 0 .. LinkModulus - 1
  BY <1>1, LinkModulusType
<1>6. g.links \in [Inodes -> 0 .. LinkModulus - 1] /\ g \in FsType
  <2>1. g.links \in [Inodes -> 0 .. LinkModulus - 1]
    BY <1>2, <1>3, <1>5
  <2>2. g.bitmap \in SUBSET Inodes /\ g.type \in [Inodes -> {"dir", "reg", "lnk"}]
    BY <1>2, <1>3
  <2> QED  BY <1>3, <1>4, <2>1, <2>2 DEF FsType
<1>7. /\ DirsIn(g) \subseteq DirsIn(s)
      /\ DirsIn(s) \ {i} \subseteq DirsIn(g)
      /\ i \in DirsIn(g) => i \in DirsIn(s) /\ ~gone
      /\ Root \in DirsIn(g)
  BY <1>1, <1>3 DEF DirsIn, TreeOK
<1>8. IsFiniteSet(E) /\ IsFiniteSet(E \ {p}) /\ Cardinality(E \ {p}) = s.links[i] - 1
  <2>1. IsFiniteSet(E)
    BY EntriesFinite
  <2> QED  BY <1>1, <2>1, FS_RemoveElement
\* A directory has one entry, so it is freed here.
<1>9. i \in DirsIn(s) => gone
  <2> SUFFICES ASSUME i \in DirsIn(s) PROVE gone
    OBVIOUS
  <2>1. PICK q \in Paths : E = {q}
    BY <1>1 DEF TreeOK
  <2>2. E \ {p} = {}
    BY <1>1, <2>1
  <2>3. s.links[i] - 1 = 0
    BY <1>8, <2>2, FS_EmptySet
  <2> QED  BY <1>1, <2>3 DEF DirsIn
\* The entries that disappear with a freed directory: none.
<1>10. \A q \in Paths : q.dir \in DirsIn(s) \ DirsIn(g) => Target(s, q) = None
  <2> SUFFICES ASSUME NEW q \in Paths, q.dir \in DirsIn(s), q.dir \notin DirsIn(g)
               PROVE  Target(s, q) = None
    OBVIOUS
  <2>1. q.dir = i /\ s.ents[i] = NoEntries /\ q.name \in AllNames
    BY <1>7, PathParts DEF Removable, DirsIn
  <2> QED  BY <2>1 DEF Target, NoEntries
<1>11. \A j \in Inodes : EntriesIn(g, j) = EntriesIn(s, j) \ {p}
  <2> SUFFICES ASSUME NEW j \in Inodes, NEW q \in Paths
               PROVE  q \in EntriesIn(g, j) <=> q \in EntriesIn(s, j) /\ q # p
    BY DEF EntriesIn
  <2> QED  BY <1>4, <1>7, <1>10, InodesNotNone DEF EntriesIn
<1>12. \A j \in Inodes \ {i} : EntriesIn(g, j) = EntriesIn(s, j)
  BY <1>11, <1>1 DEF EntriesIn
<1>13. EntriesIn(g, i) = E \ {p}
  BY <1>1, <1>11
<1>14. ASSUME NEW q \in Paths, q.dir \in DirsIn(g), Target(g, q) # None
       PROVE  Target(g, q) \in g.bitmap \ {Root}
  <2>1. q # p /\ q.dir \in DirsIn(s) /\ Target(g, q) = Target(s, q)
    BY <1>4, <1>7, <1>14
  <2>2. Target(s, q) \in s.bitmap \ {Root} /\ q \in EntriesIn(s, Target(s, q))
    BY <1>14, <2>1, EntryFacts
  <2>3. Target(s, q) = i => ~gone
    <3> SUFFICES ASSUME Target(s, q) = i, gone PROVE FALSE
      OBVIOUS
    <3>1. q \in E \ {p}
      BY <2>1, <2>2
    <3>2. Cardinality(E \ {p}) = 0
      BY <1>8
    <3> QED  BY <1>8, <3>1, <3>2, FS_EmptySet
  <2> QED  BY <1>3, <2>1, <2>2, <2>3
<1>15. ASSUME NEW j \in g.bitmap \ {Root}
       PROVE  g.links[j] = Cardinality(EntriesIn(g, j))
  <2>1. j \in Inodes /\ j \in s.bitmap \ {Root}
    BY <1>2, <1>3
  <2>2. CASE j = i
    BY <1>2, <1>3, <1>8, <1>13, <2>1, <2>2
  <2>3. CASE j # i
    <3>1. g.links[j] = s.links[j] /\ s.links[j] = Cardinality(EntriesIn(s, j))
      BY <1>2, <1>3, <2>1, <2>3 DEF TreeOK
    <3> QED  BY <1>12, <2>1, <2>3, <3>1
  <2> QED  BY <2>2, <2>3
<1>16. ASSUME NEW j \in g.bitmap \ {Root}, g.type[j] # "lnk"
       PROVE  EntriesIn(g, j) # {}
  <2>1. j \in Inodes /\ j \in s.bitmap \ {Root} /\ s.type[j] # "lnk"
    BY <1>2, <1>3, <1>16
  <2>2. CASE j = i
    <3>1. s.links[i] # 1
      BY <1>3, <2>1, <2>2
    <3>2. Cardinality(E \ {p}) # 0
      BY <1>1, <1>8, <3>1
    <3> QED  BY <1>8, <1>13, <2>2, <3>2, FS_EmptySet
  <2>3. CASE j # i
    BY <1>12, <2>1, <2>3 DEF TreeOK
  <2> QED  BY <2>2, <2>3
<1>17. DirsIn(g) = DirsIn(s) \ {i} /\ DirsIn(g) \subseteq Inodes
  BY <1>2, <1>7, <1>9 DEF DirsIn
<1>18. \A d \in DirsIn(g) \ {Root} : \E q \in Paths : EntriesIn(g, d) = {q}
  BY <1>12, <1>17 DEF TreeOK
<1>19. ASSUME NEW D \in SUBSET (DirsIn(g) \ {Root}), D # {}
       PROVE  \E d \in D : \E q \in EntriesIn(g, d) : q.dir \notin D
  <2>1. D \in SUBSET (DirsIn(s) \ {Root})
    BY <1>17
  <2>2. PICK d \in D : \E q \in EntriesIn(s, d) : q.dir \notin D
    BY <1>19, <2>1 DEF TreeOK
  <2> QED  BY <1>12, <1>17, <2>2
<1>20. TreeOK(g)
  BY <1>6, <1>7, <1>14, <1>15, <1>16, <1>18, <1>19 DEF TreeOK
<1> QED  BY <1>4, <1>17, <1>20 DEF g

LEMMA UnlinkOK ==
  ASSUME NEW s, TreeOK(s), NEW p, Removable(s, p), NEW r, r = InodeUnlink(s, p)
  PROVE  /\ r.s = Without(s, p)
         /\ r.ok <=> s.links[Target(s, p)] # 1 \/ s.type[Target(s, p)] # "lnk"
         /\ r.ok \in BOOLEAN
         /\ TreeOK(r.s)
<1> DEFINE i == Target(s, p)
           e == SetEntry(s.ents, p, None)
           l == s.links[i] - 1
           h == [bitmap |-> s.bitmap, type |-> s.type,
                 links |-> [s.links EXCEPT ![i] = l], ents |-> e]
<1>p. p \in Paths /\ p.dir \in DirsIn(s) /\ i # None
  BY DEF Removable
<1>1. /\ i \in s.bitmap \ {Root} /\ i \in Inodes /\ s.links[i] \in 1 .. LinkModulus - 1
      /\ s \in FsType
  BY <1>p, EntryFacts DEF TreeOK
<1>2. (s.links[i] - 1) % LinkModulus = l /\ l \in 0 .. LinkModulus - 1
  BY <1>1, ModSmall, LinkModulusType
<1>3. IsDir(s, p.dir)
  BY <1>p DEF IsDir, DirsIn
<1>4. h \in FsType /\ e[p.dir][p.name] = None
  <2>2. e \in [Inodes -> [AllNames -> Inodes \cup {None}]] /\ e[p.dir][p.name] = None
    <3>1. None \in Inodes \cup {None} /\ s.ents \in [Inodes -> [AllNames -> Inodes \cup {None}]]
      BY <1>1 DEF FsType
    <3> QED  BY <1>p, <3>1, SetEntryFacts
  <2>3. [s.links EXCEPT ![i] = l] \in [Inodes -> 0 .. LinkModulus - 1]
    BY <1>1, <1>2 DEF FsType
  <2> QED  BY <1>1, <2>2, <2>3 DEF FsType
<1>5. h.type[i] = "dir" => h.ents[i] = NoEntries
  <2> SUFFICES ASSUME s.type[i] = "dir" PROVE e[i] = NoEntries
    BY <1>4
  <2>1. s.ents[i] = NoEntries
    BY DEF Removable
  <2>2. p.dir # i
    <3>1. p.name \in AllNames
      BY <1>p, PathParts
    <3> QED  BY <1>p, <2>1, <3>1 DEF Target, NoEntries
  <2> QED  BY <1>1, <1>p, <2>1, <2>2, PathParts DEF FsType, SetEntry
<1>6. Deleted(h, i) = IF s.type[i] = "lnk" THEN {} ELSE {i}
  BY <1>1, <1>4, <1>5, DeletedOne
<1>7. r = IF l # 0 THEN Ok(h)
          ELSE IF Deleted(h, i) = {} THEN Failed(h)
          ELSE Ok([h EXCEPT !.bitmap = h.bitmap \ Deleted(h, i)])
  <2> DEFINE g == [s EXCEPT !.ents[p.dir][p.name] = None]
             u == [g EXCEPT !.links[i] = (s.links[i] - 1) % LinkModulus]
  <2>1. r = IF ~IsDir(s, p.dir) \/ i = None THEN Failed(s)
            ELSE IF i \notin s.bitmap THEN Failed(g)
            ELSE IF (s.links[i] - 1) % LinkModulus # 0 THEN Ok(u)
            ELSE IF Deleted(u, i) = {} THEN Failed(u)
            ELSE Ok([u EXCEPT !.bitmap = u.bitmap \ Deleted(u, i)])
    BY DEF InodeUnlink
  <2>2. g = [s EXCEPT !.ents = e] /\ g.links = s.links
    BY <1>1 DEF FsType, SetEntry
  <2> HIDE DEF g
  <2>3. u = [g EXCEPT !.links = [s.links EXCEPT ![i] = l]]
    BY <1>2, <2>2
  <2>4. u = h
    BY <1>1, <2>2, <2>3, SetFields
  <2> HIDE DEF h, u, l
  <2> QED  BY <1>1, <1>2, <1>3, <1>p, <2>1, <2>4
<1>8. r.s = Without(s, p)
  <2>1. CASE l # 0
    BY <1>1, <1>4, <1>7, <2>1 DEF Ok, Without
  <2>2. CASE l = 0 /\ s.type[i] = "lnk"
    BY <1>1, <1>4, <1>6, <1>7, <2>2 DEF Failed, Without
  <2>3. CASE l = 0 /\ s.type[i] # "lnk"
    <3>1. r = Ok([h EXCEPT !.bitmap = s.bitmap \ {i}])
      <4>1. h.bitmap = s.bitmap
        BY <1>4
      <4> HIDE DEF h
      <4> QED  BY <1>6, <1>7, <2>3, <4>1
    <3>2. r.s = [h EXCEPT !.bitmap = s.bitmap \ {i}]
      BY <3>1 DEF Ok
    <3>3. r.s = [bitmap |-> s.bitmap \ {i}, type |-> h.type, links |-> h.links, ents |-> h.ents]
      BY <1>4, <3>2, SetFields
    <3>4. s.links[i] = 1
      BY <1>1, <2>3
    <3>5. Without(s, p) = [bitmap |-> s.bitmap \ {i}, type |-> h.type, links |-> h.links,
                           ents |-> h.ents]
      BY <2>3, <3>4 DEF Without
    <3> QED  BY <3>3, <3>5
  <2> QED  BY <2>1, <2>2, <2>3
<1>9. r.ok \in BOOLEAN /\ (r.ok <=> s.links[i] # 1 \/ s.type[i] # "lnk")
  <2>1. l = 0 <=> s.links[i] = 1
    BY <1>1
  <2> HIDE DEF h, l
  <2> QED  BY <1>6, <1>7, <2>1 DEF Ok, Failed
<1> QED  BY <1>8, <1>9, WithoutOK

(***************************************************************************)
(* inode_link.                                                             *)
(***************************************************************************)
\* The state after inode i has got the entry q.
Linked(s, q, i) ==
  [bitmap |-> s.bitmap,
   type |-> s.type,
   links |-> [s.links EXCEPT ![i] = s.links[i] + 1],
   ents |-> SetEntry(s.ents, q, i)]

\* i is a file and q a free name.
Linkable(s, q, i) ==
  /\ q \in Paths
  /\ q.dir \in DirsIn(s)
  /\ Target(s, q) = None
  /\ i \in s.bitmap \ {Root}
  /\ s.type[i] # "dir"

LEMMA LinkedOK ==
  ASSUME NEW s, TreeOK(s), NEW q, NEW i, Linkable(s, q, i)
  PROVE  /\ TreeOK(Linked(s, q, i))
         /\ s.links[i] + 1 \in 0 .. LinkModulus - 1
         /\ DirsIn(Linked(s, q, i)) = DirsIn(s)
         /\ Target(Linked(s, q, i), q) = i
         /\ \A p \in Paths \ {q} : Target(Linked(s, q, i), p) = Target(s, p)
<1> DEFINE g == Linked(s, q, i)
           E == EntriesIn(s, i)
<1>q. q \in Paths /\ q.dir \in DirsIn(s) /\ Target(s, q) = None
  BY DEF Linkable
<1>1. /\ s \in FsType /\ s.bitmap \subseteq Inodes
      /\ s.type \in [Inodes -> {"dir", "reg", "lnk"}]
      /\ s.links \in [Inodes -> 0 .. LinkModulus - 1]
      /\ s.ents \in [Inodes -> [AllNames -> Inodes \cup {None}]]
  BY DEF TreeOK, FsType
<1>2. i \in s.bitmap \ {Root} /\ i \in Inodes /\ i \notin DirsIn(s) /\ s.links[i] = Cardinality(E)
  BY <1>1 DEF TreeOK, Linkable, DirsIn
<1>3. /\ g.bitmap = s.bitmap
      /\ g.type = s.type
      /\ g.links = [s.links EXCEPT ![i] = s.links[i] + 1]
      /\ g.ents = SetEntry(s.ents, q, i)
      /\ g = [bitmap |-> g.bitmap, type |-> g.type, links |-> g.links, ents |-> g.ents]
  BY DEF Linked
<1> HIDE DEF g
<1>4. /\ g.ents \in [Inodes -> [AllNames -> Inodes \cup {None}]]
      /\ Target(g, q) = i
      /\ \A p \in Paths \ {q} : Target(g, p) = Target(s, p)
  <2>1. i \in Inodes \cup {None} /\ g.ents = SetEntry(s.ents, q, i)
    BY <1>2, <1>3
  <2>2. /\ g.ents \in [Inodes -> [AllNames -> Inodes \cup {None}]]
        /\ g.ents[q.dir][q.name] = i
        /\ \A p \in Paths \ {q} : g.ents[p.dir][p.name] = s.ents[p.dir][p.name]
    <3>1. s.ents \in [Inodes -> [AllNames -> Inodes \cup {None}]]
      BY <1>1
    <3> QED  BY <1>q, <2>1, <3>1, SetEntryFacts
  <2> QED  BY <2>2 DEF Target
<1>5. DirsIn(g) = DirsIn(s) /\ DirsIn(s) \subseteq Inodes
  BY <1>1, <1>3 DEF DirsIn
<1>6. EntriesIn(g, i) = E \cup {q} /\ \A j \in Inodes \ {i} : EntriesIn(g, j) = EntriesIn(s, j)
  <2>1. \A p \in Paths : p \in EntriesIn(g, i) <=> p \in E \/ p = q
    BY <1>4, <1>5, <1>q DEF EntriesIn
  <2>2. EntriesIn(g, i) = E \cup {q}
    BY <2>1, <1>q DEF EntriesIn
  <2>3. ASSUME NEW j \in Inodes \ {i}
        PROVE  EntriesIn(g, j) = EntriesIn(s, j)
    <3>1. \A p \in Paths : p \in EntriesIn(g, j) <=> p \in EntriesIn(s, j)
      BY <1>4, <1>5, <1>q, InodesNotNone DEF EntriesIn
    <3> QED  BY <3>1 DEF EntriesIn
  <2> QED  BY <2>2, <2>3
<1>7. IsFiniteSet(E) /\ Cardinality(E \cup {q}) = s.links[i] + 1
  <2>1. IsFiniteSet(E) /\ q \notin E
    BY <1>2, <1>q, EntriesFinite, InodesNotNone DEF EntriesIn
  <2> QED  BY <1>2, <2>1, FS_AddElement
<1>8. s.links[i] + 1 \in 0 .. LinkModulus - 1
  BY <1>6, <1>7, EntriesFinite
<1>9. g \in FsType
  <2>1. g.links \in [Inodes -> 0 .. LinkModulus - 1]
    BY <1>1, <1>3, <1>8
  <2> QED  BY <1>1, <1>3, <1>4, <2>1 DEF FsType
<1>10. ASSUME NEW p \in Paths, p.dir \in DirsIn(g), Target(g, p) # None
       PROVE  Target(g, p) \in g.bitmap \ {Root}
  <2>1. CASE p = q
    BY <1>2, <1>3, <1>4, <2>1
  <2>2. CASE p # q
    BY <1>3, <1>4, <1>5, <1>10, <2>2 DEF TreeOK
  <2> QED  BY <2>1, <2>2
<1>11. ASSUME NEW j \in g.bitmap \ {Root}
       PROVE  g.links[j] = Cardinality(EntriesIn(g, j)) /\ (g.type[j] # "lnk" => EntriesIn(g, j) # {})
  <2>1. j \in Inodes /\ j \in s.bitmap \ {Root}
    BY <1>1, <1>3
  <2>2. CASE j = i
    BY <1>1, <1>3, <1>6, <1>7, <2>1, <2>2
  <2>3. CASE j # i
    <3>1. g.links[j] = s.links[j] /\ g.type[j] = s.type[j]
      BY <1>1, <1>3, <2>1, <2>3
    <3> QED  BY <1>6, <2>1, <2>3, <3>1 DEF TreeOK
  <2> QED  BY <2>2, <2>3
<1>12. \A d \in DirsIn(g) \ {Root} : \E p \in Paths : EntriesIn(g, d) = {p}
  <2>1. \A d \in DirsIn(s) : EntriesIn(g, d) = EntriesIn(s, d)
    BY <1>2, <1>5, <1>6
  <2> QED  BY <1>5, <2>1 DEF TreeOK
<1>13. ASSUME NEW D \in SUBSET (DirsIn(g) \ {Root}), D # {}
       PROVE  \E d \in D : \E p \in EntriesIn(g, d) : p.dir \notin D
  <2>1. \A d \in DirsIn(s) : EntriesIn(g, d) = EntriesIn(s, d)
    BY <1>2, <1>5, <1>6
  <2>2. D \in SUBSET (DirsIn(s) \ {Root})
    BY <1>5
  <2>3. PICK d \in D : \E p \in EntriesIn(s, d) : p.dir \notin D
    BY <1>13, <2>2 DEF TreeOK
  <2> QED  BY <2>1, <2>2, <2>3
<1>14. Root \in DirsIn(g)
  BY <1>5 DEF TreeOK
<1>15. TreeOK(g)
  BY <1>9, <1>10, <1>11, <1>12, <1>13, <1>14 DEF TreeOK
<1> QED  BY <1>4, <1>5, <1>8, <1>15 DEF g

LEMMA LinkedOthers ==
  ASSUME NEW s, TreeOK(s), NEW q, NEW i, Linkable(s, q, i)
  PROVE  \A p \in Paths \ {q} : Target(Linked(s, q, i), p) = Target(s, p)
BY LinkedOK

\* inode_link links a file under a free name, or fails and changes nothing.
LEMMA LinkOK ==
  ASSUME NEW s, TreeOK(s), NEW p \in Paths, NEW q \in Paths, NEW r, r = InodeLink(s, p, q)
  PROVE  /\ r.ok \in BOOLEAN
         /\ r.ok => Lookup(s, p) /\ Linkable(s, q, Target(s, p)) /\ r.s = Linked(s, q, Target(s, p))
         /\ Lookup(s, p) /\ Linkable(s, q, Target(s, p)) => r.ok
         /\ ~r.ok => r.s = s
         /\ TreeOK(r.s)
<1> DEFINE i == Target(s, p)
           fails == ~Lookup(s, p) \/ IsDir(s, i) \/ ~IsDir(s, q.dir) \/ Target(s, q) # None
<1>1. s \in FsType
  BY DEF TreeOK
<1>2. fails => r = Failed(s)
  BY DEF InodeLink
<1>3. ~fails <=> Lookup(s, p) /\ Linkable(s, q, i)
  <2>1. Lookup(s, p) => p.dir \in DirsIn(s) /\ i # None
    BY DEF Lookup, IsDir, DirsIn, Target
  <2>2. Lookup(s, p) => i \in s.bitmap \ {Root}
    BY <2>1, EntryFacts
  <2> QED  BY <2>2 DEF Linkable, IsDir, DirsIn
<1>4. ~fails => r = Ok(Linked(s, q, i))
  <2> SUFFICES ASSUME ~fails PROVE r = Ok(Linked(s, q, i))
    OBVIOUS
  <2> DEFINE l == (s.links[i] + 1) % LinkModulus
             e == SetEntry(s.ents, q, i)
  <2>1. l = s.links[i] + 1
    BY <1>3, LinkedOK, ModSmall
  <2>2. r = Ok([s EXCEPT !.ents[q.dir][q.name] = i, !.links[i] = l])
    BY DEF InodeLink
  <2>3. [s EXCEPT !.ents[q.dir][q.name] = i, !.links[i] = l]
          = [[s EXCEPT !.ents = e] EXCEPT !.links = [s.links EXCEPT ![i] = l]]
    BY <1>1 DEF FsType, SetEntry
  <2>4. [[s EXCEPT !.ents = e] EXCEPT !.links = [s.links EXCEPT ![i] = l]]
          = [bitmap |-> s.bitmap, type |-> s.type, links |-> [s.links EXCEPT ![i] = l], ents |-> e]
    BY <1>1, SetFields
  <2> HIDE DEF l, e
  <2>5. r = Ok([bitmap |-> s.bitmap, type |-> s.type, links |-> [s.links EXCEPT ![i] = l], ents |-> e])
    BY <2>2, <2>3, <2>4
  <2> QED  BY <2>1, <2>5 DEF Linked, e
<1>5. CASE fails
  <2>1. r.ok = FALSE /\ r.s = s
    BY <1>2, <1>5 DEF Failed
  <2> QED  BY <1>3, <1>5, <2>1
<1>6. CASE ~fails
  <2>1. r.ok = TRUE /\ r.s = Linked(s, q, i)
    BY <1>4, <1>6 DEF Ok
  <2>2. Lookup(s, p) /\ Linkable(s, q, i)
    BY <1>3, <1>6
  <2>3. TreeOK(r.s)
    BY <2>1, <2>2, LinkedOK
  <2> QED  BY <2>1, <2>2, <2>3
<1> QED  BY <1>5, <1>6

(***************************************************************************)
(* inode_create.                                                           *)
(***************************************************************************)
\* The state after the free inode i has been created as p with type t.
Created(s, p, t, i) ==
  [bitmap |-> s.bitmap \cup {i},
   type |-> [s.type EXCEPT ![i] = t],
   links |-> [s.links EXCEPT ![i] = 1],
   ents |-> SetEntry([s.ents EXCEPT ![i] = NoEntries], p, i)]

LEMMA CreatedOK ==
  ASSUME NEW s, TreeOK(s), NEW p \in Paths, p.dir \in DirsIn(s), Target(s, p) = None,
         NEW t \in {"reg", "dir", "lnk"}, NEW i \in Inodes \ s.bitmap
  PROVE  TreeOK(Created(s, p, t, i))
<1> DEFINE g == Created(s, p, t, i)
           e == [s.ents EXCEPT ![i] = NoEntries]
<1>1. /\ s \in FsType /\ s.bitmap \subseteq Inodes
      /\ s.type \in [Inodes -> {"dir", "reg", "lnk"}]
      /\ s.links \in [Inodes -> 0 .. LinkModulus - 1]
      /\ s.ents \in [Inodes -> [AllNames -> Inodes \cup {None}]]
  BY DEF TreeOK, FsType
<1>2. i \notin DirsIn(s) /\ p.dir # i /\ i # Root
  BY DEF DirsIn, TreeOK
<1>3. /\ g.bitmap = s.bitmap \cup {i}
      /\ g.type = [s.type EXCEPT ![i] = t]
      /\ g.links = [s.links EXCEPT ![i] = 1]
      /\ g.ents = SetEntry(e, p, i)
      /\ g = [bitmap |-> g.bitmap, type |-> g.type, links |-> g.links, ents |-> g.ents]
  BY DEF Created
<1> HIDE DEF g
<1>4. /\ e \in [Inodes -> [AllNames -> Inodes \cup {None}]]
      /\ \A q \in Paths : q.dir = i => e[q.dir][q.name] = None
      /\ \A q \in Paths : q.dir # i => e[q.dir][q.name] = s.ents[q.dir][q.name]
  <2>1. NoEntries \in [AllNames -> Inodes \cup {None}]
    BY DEF NoEntries
  <2>2. e \in [Inodes -> [AllNames -> Inodes \cup {None}]]
    BY <1>1, <2>1
  <2>3. \A q \in Paths : q.dir = i => e[q.dir][q.name] = None
    BY <1>1, PathParts DEF NoEntries
  <2>4. \A q \in Paths : q.dir # i => e[q.dir][q.name] = s.ents[q.dir][q.name]
    BY <1>1, PathParts
  <2> QED  BY <2>2, <2>3, <2>4
<1> HIDE DEF e
<1>5. /\ g.ents \in [Inodes -> [AllNames -> Inodes \cup {None}]]
      /\ Target(g, p) = i
      /\ \A q \in Paths : q.dir = i => Target(g, q) = None
      /\ \A q \in Paths \ {p} : q.dir # i => Target(g, q) = Target(s, q)
  <2>1. i \in Inodes \cup {None} /\ g.ents = SetEntry(e, p, i)
    BY <1>3
  <2>2. /\ g.ents \in [Inodes -> [AllNames -> Inodes \cup {None}]]
        /\ g.ents[p.dir][p.name] = i
        /\ \A q \in Paths \ {p} : g.ents[q.dir][q.name] = e[q.dir][q.name]
    BY <1>4, <2>1, SetEntryFacts
  <2> QED  BY <1>2, <1>4, <2>2 DEF Target
<1>6. g \in FsType
  <2>1. g.links \in [Inodes -> 0 .. LinkModulus - 1]
    <3>1. 1 \in 0 .. LinkModulus - 1
      BY LinkModulusType
    <3> QED  BY <1>1, <1>3, <3>1
  <2>2. g.type \in [Inodes -> {"dir", "reg", "lnk"}] /\ g.bitmap \in SUBSET Inodes
    BY <1>1, <1>3
  <2> QED  BY <1>3, <1>5, <2>1, <2>2 DEF FsType
<1>7. /\ DirsIn(g) = IF t = "dir" THEN DirsIn(s) \cup {i} ELSE DirsIn(s)
      /\ DirsIn(g) \subseteq Inodes
  <2>1. \A d \in s.bitmap : g.type[d] = s.type[d]
    BY <1>1, <1>3
  <2>2. g.type[i] = t
    BY <1>1, <1>3
  <2> QED  BY <1>1, <1>3, <2>1, <2>2 DEF DirsIn
<1>8. \A q \in Paths : q.dir \in DirsIn(s) /\ Target(s, q) # None => Target(s, q) \in s.bitmap \ {Root}
  BY DEF TreeOK
<1>9. EntriesIn(g, i) = {p}
  <2>1. \A q \in Paths : q \in EntriesIn(g, i) <=> q = p
    BY <1>2, <1>5, <1>7, <1>8, InodesNotNone DEF EntriesIn
  <2> QED  BY <2>1 DEF EntriesIn
<1>10. ASSUME NEW j \in Inodes \ {i}
       PROVE  EntriesIn(g, j) = EntriesIn(s, j)
  <2>1. ASSUME NEW q \in Paths
        PROVE  q \in EntriesIn(g, j) <=> q \in EntriesIn(s, j)
    <3>1. CASE q = p
      BY <1>5, <3>1, InodesNotNone DEF EntriesIn
    <3>2. CASE q.dir = i
      BY <1>2, <1>5, <3>2, InodesNotNone DEF EntriesIn
    <3>3. CASE q # p /\ q.dir # i
      BY <1>5, <1>7, <3>3 DEF EntriesIn
    <3> QED  BY <3>1, <3>2, <3>3
  <2> QED  BY <2>1 DEF EntriesIn
<1>11. ASSUME NEW q \in Paths, q.dir \in DirsIn(g), Target(g, q) # None
       PROVE  Target(g, q) \in g.bitmap \ {Root}
  <2>1. CASE q = p
    BY <1>2, <1>3, <1>5, <2>1
  <2>2. CASE q # p
    BY <1>3, <1>5, <1>7, <1>8, <1>11, <2>2
  <2> QED  BY <2>1, <2>2
<1>12. ASSUME NEW j \in g.bitmap \ {Root}
       PROVE  g.links[j] = Cardinality(EntriesIn(g, j)) /\ (g.type[j] # "lnk" => EntriesIn(g, j) # {})
  <2>1. CASE j = i
    <3>1. g.links[i] = 1
      BY <1>1, <1>3
    <3> QED  BY <1>9, <2>1, <3>1, FS_Singleton
  <2>2. CASE j # i
    <3>1. j \in Inodes /\ j \in s.bitmap \ {Root}
      BY <1>1, <1>3, <2>2
    <3>2. g.links[j] = s.links[j] /\ g.type[j] = s.type[j]
      BY <1>1, <1>3, <2>2, <3>1
    <3> QED  BY <1>10, <2>2, <3>1, <3>2 DEF TreeOK
  <2> QED  BY <2>1, <2>2
<1>13. ASSUME NEW d \in DirsIn(g) \ {Root}
       PROVE  \E q \in Paths : EntriesIn(g, d) = {q}
  <2>1. CASE d = i
    BY <1>9, <2>1
  <2>2. CASE d # i
    BY <1>7, <1>10, <2>2 DEF TreeOK
  <2> QED  BY <2>1, <2>2
<1>14. ASSUME NEW D \in SUBSET (DirsIn(g) \ {Root}), D # {}
       PROVE  \E d \in D : \E q \in EntriesIn(g, d) : q.dir \notin D
  <2>1. CASE D = {i}
    BY <1>2, <1>9, <2>1
  <2>2. CASE D # {i}
    <3>1. D \ {i} \in SUBSET (DirsIn(s) \ {Root}) /\ D \ {i} # {}
      BY <1>7, <1>14, <2>2
    <3>2. PICK d \in D \ {i} : \E q \in EntriesIn(s, d) : q.dir \notin D \ {i}
      BY <3>1 DEF TreeOK
    <3>3. PICK q \in EntriesIn(s, d) : q.dir \notin D \ {i}
      BY <3>2
    <3>4. q.dir # i /\ q \in EntriesIn(g, d)
      BY <1>2, <1>7, <1>10, <3>2, <3>3 DEF EntriesIn
    <3> QED  BY <3>3, <3>4
  <2> QED  BY <2>1, <2>2
<1>15. Root \in DirsIn(g)
  BY <1>7 DEF TreeOK
<1>16. TreeOK(g)
  BY <1>6, <1>11, <1>12, <1>13, <1>14, <1>15 DEF TreeOK
<1> QED  BY <1>16 DEF g

\* inode_create creates the inode under a free name, or fails and changes nothing.
LEMMA CreateOK ==
  ASSUME NEW s, TreeOK(s), NEW p \in Paths, NEW t \in {"reg", "dir", "lnk"},
         NEW i \in Inodes \ s.bitmap, NEW r, r = InodeCreate(s, p, t, i)
  PROVE  r.ok \in BOOLEAN /\ (~r.ok => r.s = s) /\ TreeOK(r.s)
<1>1. /\ s \in FsType
      /\ s = [bitmap |-> s.bitmap, type |-> s.type, links |-> s.links, ents |-> s.ents]
      /\ s.ents \in [Inodes -> [AllNames -> Inodes \cup {None}]]
  BY DEF TreeOK, FsType
<1>2. CASE ~IsDir(s, p.dir) \/ Target(s, p) # None
  <2>1. r.ok = FALSE /\ r.s = s
    BY <1>2 DEF InodeCreate, Failed
  <2> QED  BY <2>1
<1>3. CASE IsDir(s, p.dir) /\ Target(s, p) = None
  <2>1. p.dir \in DirsIn(s) /\ p.dir # i /\ p.dir \in Inodes /\ p.name \in AllNames
    BY <1>3, PathParts DEF IsDir, DirsIn
  <2> DEFINE e == [s.ents EXCEPT ![i] = NoEntries, ![p.dir][p.name] = i]
             f == [s.ents EXCEPT ![i] = NoEntries]
             a == [s EXCEPT !.bitmap = @ \cup {i}, !.type[i] = t, !.links[i] = 1, !.ents = e]
  <2>2. r.ok = TRUE /\ r.s = a
    BY <1>3 DEF InodeCreate, Ok
  <2>3. e = SetEntry(f, p, i)
    BY <1>1, <2>1 DEF SetEntry
  <2> HIDE DEF e, f
  <2>4. a = [bitmap |-> s.bitmap \cup {i}, type |-> [s.type EXCEPT ![i] = t],
             links |-> [s.links EXCEPT ![i] = 1], ents |-> e]
    <3> DEFINE a1 == [s EXCEPT !.bitmap = s.bitmap \cup {i}]
               a2 == [a1 EXCEPT !.type = [s.type EXCEPT ![i] = t]]
               a3 == [a2 EXCEPT !.links = [s.links EXCEPT ![i] = 1]]
    <3>1. a = [a3 EXCEPT !.ents = e]
      BY <1>1
    <3>2. a1 = [bitmap |-> s.bitmap \cup {i}, type |-> s.type, links |-> s.links, ents |-> s.ents]
      BY <1>1, SetFields
    <3> HIDE DEF a1
    <3>3. a2 = [bitmap |-> s.bitmap \cup {i}, type |-> [s.type EXCEPT ![i] = t],
                links |-> s.links, ents |-> s.ents]
      BY <3>2
    <3> HIDE DEF a2
    <3>4. a3 = [bitmap |-> s.bitmap \cup {i}, type |-> [s.type EXCEPT ![i] = t],
                links |-> [s.links EXCEPT ![i] = 1], ents |-> s.ents]
      BY <3>3
    <3> HIDE DEF a3
    <3> QED  BY <3>1, <3>4
  <2> HIDE DEF a
  <2>5. r.s = Created(s, p, t, i)
    BY <2>2, <2>3, <2>4 DEF Created, f
  <2> QED  BY <1>3, <2>1, <2>2, <2>5, CreatedOK
<1> QED  BY <1>2, <1>3

(***************************************************************************)
(* The handlers.                                                           *)
(***************************************************************************)
\* What a handler keeps: the tree, and the state if it fails (except where
\* FailureChangesNothing says otherwise).
Keeps ==
  /\ TreeOK(fs')
  /\ failed' => fs' = fs \/ swap' # << >> \/ LosesSymlink \/ LateRefusal

LEMMA CallablePath ==
  ASSUME NEW p, Callable(p)
  PROVE  p.dir \in DirsIn(fs) /\ p.name \in Names
BY DEF Callable, IsDir, DirsIn

LEMMA LookupEntry ==
  ASSUME NEW s, NEW p, Lookup(s, p)
  PROVE  p.dir \in DirsIn(s) /\ Target(s, p) # None /\ Target(s, p) \in s.bitmap
BY DEF Lookup, IsDir, DirsIn, Target

\* A handler that makes one call of inode_create.
LEMMA CreatesKeep ==
  ASSUME TreeOK(fs), NEW p \in Paths, NEW t \in {"reg", "dir", "lnk"}, NEW i \in Inodes,
         FirstFree(i), Return(InodeCreate(fs, p, t, i))
  PROVE  Keeps
<1> DEFINE r == InodeCreate(fs, p, t, i)
<1>1. i \in Inodes \ fs.bitmap
  BY DEF FirstFree
<1>2. (~r.ok => r.s = fs) /\ TreeOK(r.s)
  BY <1>1, CreateOK
<1> HIDE DEF r
<1>3. fs' = r.s /\ failed' = ~r.ok
  BY DEF Return, r
<1> QED  BY <1>2, <1>3 DEF Keeps

\* A handler that removes an entry, if it is there, and does nothing else.
LEMMA UnlinksKeep ==
  ASSUME TreeOK(fs), NEW p, NEW r, Return(r),
         \/ r = Failed(fs)
         \/ Removable(fs, p) /\ r = InodeUnlink(fs, p)
  PROVE  Keeps
<1>1. fs' = r.s /\ failed' = ~r.ok
  BY DEF Return
<1>2. CASE r = Failed(fs)
  BY <1>1, <1>2 DEF Failed, Keeps
<1>3. CASE Removable(fs, p) /\ r = InodeUnlink(fs, p)
  <2> DEFINE i == Target(fs, p)
  <2>1. /\ r.s = Without(fs, p) /\ TreeOK(r.s)
        /\ r.ok <=> fs.links[i] # 1 \/ fs.type[i] # "lnk"
    BY <1>3, UnlinkOK
  <2>2. ASSUME ~r.ok PROVE LosesSymlink
    <3>1. fs.links[i] = 1 /\ fs.type[i] = "lnk"
      BY <2>1, <2>2
    <3>2. i \in fs.bitmap /\ i \in Inodes
      BY <1>3, EntryFacts DEF Removable
    <3>3. fs'.links = [fs.links EXCEPT ![i] = fs.links[i] - 1]
      BY <1>1, <2>1 DEF Without
    <3>4. fs.links \in [Inodes -> 0 .. LinkModulus - 1]
      BY DEF TreeOK, FsType
    <3>5. fs'.links[i] = 0
      BY <3>1, <3>2, <3>3, <3>4
    <3> QED  BY <3>1, <3>2, <3>5 DEF LosesSymlink
  <2> QED  BY <1>1, <2>1, <2>2 DEF Keeps
<1> QED  BY <1>2, <1>3

\* inode_link(p, q) followed, if it succeeds, by inode_unlink(p): the entry
\* moves or nothing changes.
LEMMA MoveOK ==
  ASSUME NEW s, TreeOK(s), NEW p \in Paths, NEW q \in Paths, p # q,
         NEW b, b = InodeLink(s, p, q),
         NEW c, c = IF b.ok THEN InodeUnlink(b.s, p) ELSE b
  PROVE  /\ TreeOK(c.s)
         /\ c.ok \in BOOLEAN
         /\ c.ok <=> b.ok
         /\ ~c.ok => c.s = s
<1> DEFINE i == Target(s, p)
<1>1. /\ b.ok \in BOOLEAN
      /\ b.ok => Lookup(s, p) /\ Linkable(s, q, i) /\ b.s = Linked(s, q, i)
      /\ ~b.ok => b.s = s
      /\ TreeOK(b.s)
  BY LinkOK
<1>2. CASE ~b.ok
  BY <1>1, <1>2
<1>3. CASE b.ok
  <2>1. c = InodeUnlink(b.s, p)
    BY <1>3
  <2>2. Target(b.s, p) = i /\ DirsIn(b.s) = DirsIn(s) /\ b.s = Linked(s, q, i)
    BY <1>1, <1>3, LinkedOK
  <2>3. b.s.type = s.type /\ b.s.links = [s.links EXCEPT ![i] = s.links[i] + 1]
    BY <2>2 DEF Linked
  <2>4. p.dir \in DirsIn(s) /\ i # None
    BY <1>1, <1>3, LookupEntry
  <2>5. i \in Inodes /\ s.links[i] \in 1 .. LinkModulus - 1
    BY <2>4, EntryFacts
  <2>6. Removable(b.s, p)
    BY <1>1, <1>3, <2>2, <2>3, <2>4 DEF Removable, Linkable
  <2>7. b.s.links[i] = s.links[i] + 1 /\ b.s.links[i] # 1
    BY <2>3, <2>5 DEF TreeOK, FsType
  <2> QED  BY <1>1, <1>3, <2>1, <2>2, <2>6, <2>7, UnlinkOK
<1> QED  BY <1>1, <1>2, <1>3

LEMMA RenameKeeps ==
  ASSUME TreeOK(fs), "replace_full_dir" \notin Calls, NEW p \in Paths, NEW q \in Paths, Rename(p, q)
  PROVE  Keeps
<1> DEFINE a == IF Lookup(fs, q) THEN InodeUnlink(fs, q) ELSE Ok(fs)
           b == InodeLink(a.s, p, q)
           c == IF b.ok THEN InodeUnlink(b.s, p) ELSE b
           r == IF a.ok THEN c ELSE a
<1>1. fs' = r.s /\ failed' = ~r.ok /\ p # q
  BY DEF Rename, Renamable, Return, Then
<1>2. CASE ~Lookup(fs, q)
  <2>1. a.ok = TRUE /\ a.s = fs
    BY <1>2 DEF Ok
  <2> HIDE DEF a
  <2>2. TreeOK(c.s) /\ (~c.ok => c.s = fs)
    BY <1>1, <2>1, MoveOK
  <2> HIDE DEF c
  <2> QED  BY <1>1, <2>1, <2>2 DEF Keeps
<1>3. CASE ReplacesDir(q)
  <2>1. Lookup(fs, q) /\ fs.type[Target(fs, q)] = "dir"
    BY <1>3 DEF ReplacesDir, IsDir
  <2>2. Removable(fs, q)
    BY <1>3, <2>1, LookupEntry DEF Rename, Removable
  <2>3. a = InodeUnlink(fs, q)
    BY <2>1
  <2> HIDE DEF a
  <2>4. TreeOK(a.s)
    BY <2>2, <2>3, UnlinkOK
  <2>5. TreeOK(c.s)
    BY <1>1, <2>4, MoveOK
  <2> HIDE DEF c
  <2>6. TreeOK(r.s)
    BY <2>4, <2>5
  <2> HIDE DEF r
  <2>7. LateRefusal
    BY <1>3 DEF LateRefusal
  <2> QED  BY <1>1, <2>6, <2>7 DEF Keeps
<1>4. CASE Lookup(fs, q) /\ ~ReplacesDir(q)
  <2> DEFINE i == Target(fs, p)
             j == Target(fs, q)
  <2>1. j \in fs.bitmap /\ fs.type[j] # "dir" /\ i \in fs.bitmap /\ fs.type[i] # "dir"
    BY <1>4, LookupEntry DEF ReplacesDir, Rename, Renamable, SameKind, IsDir
  <2>2. /\ p.dir \in DirsIn(fs) /\ q.dir \in DirsIn(fs)
        /\ i # None /\ j # None /\ Removable(fs, q)
    BY <1>4, <2>1, LookupEntry DEF Rename, Renamable, Removable
  <2>3. a = InodeUnlink(fs, q)
    BY <1>4
  <2> HIDE DEF a
  <2>4. CASE ~a.ok
    <3>1. r = a
      BY <2>4
    <3>2. Return(a)
      BY <1>1, <3>1 DEF Return, Rename
    <3> QED  BY <2>2, <2>3, <3>2, UnlinksKeep
  <2>5. CASE a.ok
    <3>1. TreeOK(a.s) /\ a.s = Without(fs, q)
      BY <2>2, <2>3, UnlinkOK
    <3>2. /\ DirsIn(a.s) = DirsIn(fs) \ {j}
          /\ Target(a.s, q) = None
          /\ Target(a.s, p) = i
      BY <1>1, <2>2, <3>1, WithoutOK
    <3>3. p.dir \in DirsIn(a.s) /\ q.dir \in DirsIn(a.s)
      BY <2>1, <2>2, <3>2 DEF DirsIn
    <3>4. i \in a.s.bitmap \ {Root}
      BY <2>2, <3>1, <3>2, <3>3, EntryFacts
    <3>5. a.s.type = fs.type
      BY <3>1 DEF Without
    <3>6. Lookup(a.s, p) /\ Linkable(a.s, q, Target(a.s, p))
      BY <2>1, <2>2, <3>2, <3>3, <3>4, <3>5 DEF Lookup, Linkable, IsDir, DirsIn, Target
    <3>7. b.ok
      BY <3>1, <3>6, LinkOK
    <3>8. TreeOK(c.s) /\ c.ok
      BY <1>1, <3>1, <3>7, MoveOK
    <3>9. r = c
      BY <2>5
    <3> HIDE DEF c, r
    <3> QED  BY <1>1, <3>8, <3>9 DEF Keeps
  <2> QED  BY <2>4, <2>5
<1> QED  BY <1>2, <1>3, <1>4

LEMMA RenameNoReplaceKeeps ==
  ASSUME TreeOK(fs), NEW p \in Paths, NEW q \in Paths, RenameNoReplace(p, q)
  PROVE  Keeps
<1> DEFINE b == InodeLink(fs, p, q)
           c == IF b.ok THEN InodeUnlink(b.s, p) ELSE b
           r == IF Lookup(fs, q) THEN Failed(fs) ELSE c
<1>1. fs' = r.s /\ failed' = ~r.ok /\ p # q
  BY DEF RenameNoReplace, Renamable, Return, Then
<1>2. TreeOK(c.s) /\ (~c.ok => c.s = fs)
  BY <1>1, MoveOK
<1> HIDE DEF c
<1>3. CASE Lookup(fs, q)
  BY <1>1, <1>3 DEF Failed, Keeps
<1>4. CASE ~Lookup(fs, q)
  BY <1>1, <1>2, <1>4 DEF Keeps
<1> QED  BY <1>3, <1>4

\* The fourth call of an exchange finds its name taken, so the fifth is never
\* made.
LEMMA RenameExchangeKeeps ==
  ASSUME TreeOK(fs), NEW p \in Paths, NEW q \in Paths, RenameExchange(p, q)
  PROVE  Keeps
<1> DEFINE r1 == InodeLink(fs, p, TmpPath)
           r2 == IF r1.ok THEN InodeUnlink(r1.s, p) ELSE r1
           r3 == IF r2.ok THEN InodeLink(r2.s, q, p) ELSE r2
           r4 == IF r3.ok THEN InodeLink(r3.s, p, q) ELSE r3
           r5 == IF r4.ok THEN InodeUnlink(r4.s, TmpPath) ELSE r4
<1>1. fs' = r5.s /\ swap' = <<p, q>> /\ p # q /\ p.name \in Names
  BY DEF RenameExchange, Renamable, Callable, Then
<1>2. TmpPath \in Paths /\ p # TmpPath
  <2>1. Root \in Inodes
    BY NInodesAssumption DEF Inodes, Root
  <2>2. TmpPath \in Paths /\ TmpPath.name = Tmp
    BY <2>1 DEF TmpPath, Paths, AllNames
  <2> QED  BY <1>1, <2>2, NamesAssumption
<1>3. TreeOK(r2.s)
  BY <1>2, MoveOK
<1> HIDE DEF r2
<1>4. /\ TreeOK(r3.s)
      /\ r3.ok => \/ ~r2.ok
                  \/ Lookup(r2.s, q) /\ Linkable(r2.s, p, Target(r2.s, q))
                       /\ r3.s = Linked(r2.s, p, Target(r2.s, q))
  BY <1>3, LinkOK
<1>5. r3.ok => Target(r3.s, q) # None
  <2> SUFFICES ASSUME r3.ok PROVE Target(r3.s, q) # None
    OBVIOUS
  <2>1. r2.ok
    OBVIOUS
  <2> HIDE DEF r3
  <2>2. /\ Lookup(r2.s, q) /\ Linkable(r2.s, p, Target(r2.s, q))
        /\ r3.s = Linked(r2.s, p, Target(r2.s, q))
    BY <1>4, <2>1
  <2>3. Target(r3.s, q) = Target(r2.s, q)
    <3>1. PICK g, i : g = r2.s /\ i = Target(r2.s, q)
      OBVIOUS
    <3>2. TreeOK(g) /\ Linkable(g, p, i) /\ r3.s = Linked(g, p, i) /\ q \in Paths \ {p}
      BY <1>1, <1>3, <2>2, <3>1
    <3>3. \A x \in Paths \ {p} : Target(Linked(g, p, i), x) = Target(g, x)
      BY <3>2, LinkedOthers
    <3> QED  BY <3>1, <3>2, <3>3
  <2> QED  BY <2>2, <2>3, LookupEntry
<1> HIDE DEF r3
<1>6. TreeOK(r4.s) /\ ~r4.ok
  <2>1. CASE ~r3.ok
    BY <1>4, <2>1
  <2>2. CASE r3.ok
    <3>1. r4 = InodeLink(r3.s, p, q)
      BY <2>2
    <3>2. ~Linkable(r3.s, q, Target(r3.s, p))
      BY <1>5, <2>2 DEF Linkable
    <3> QED  BY <1>4, <3>1, <3>2, LinkOK
  <2> QED  BY <2>1, <2>2
<1> HIDE DEF r4
<1>7. TreeOK(fs')
  BY <1>1, <1>6
<1> QED  BY <1>1, <1>7 DEF Keeps

\* What FailureChangesNothing says of one step.
FailureStep ==
  failed' => UNCHANGED fs \/ swap' # << >> \/ LosesSymlink \/ LateRefusal

LEMMA NextKeeps ==
  ASSUME TreeOK(fs), "replace_full_dir" \notin Calls, Next
  PROVE  TreeOK(fs') /\ FailureStep
<1> SUFFICES Keeps
  BY DEF Keeps, FailureStep
<1>1. ASSUME NEW p \in Paths, Create(p) \/ Mkdir(p)
      PROVE  Keeps
  BY <1>1, CreatesKeep DEF Create, Mkdir
<1>2. ASSUME NEW p \in Paths, MkdirDenied(p)
      PROVE  Keeps
  <2>1. PICK i \in Inodes : FirstFree(i) /\ Return(Failed(InodeCreate(fs, p, "dir", i).s))
    BY <1>2 DEF MkdirDenied
  <2> DEFINE r == InodeCreate(fs, p, "dir", i)
  <2>2. TreeOK(r.s)
    BY <2>1, CreateOK DEF FirstFree
  <2> HIDE DEF r
  <2>3. fs' = r.s
    BY <2>1 DEF Return, Failed, r
  <2> QED  BY <1>2, <2>2, <2>3 DEF Keeps, LateRefusal
<1>3. ASSUME NEW p \in Paths, Unlink(p)
      PROVE  Keeps
  <2> DEFINE r == IF Lookup(fs, p) THEN InodeUnlink(fs, p) ELSE Failed(fs)
  <2>1. Return(r) /\ ~IsDir(fs, Target(fs, p))
    BY <1>3 DEF Unlink
  <2>2. Lookup(fs, p) => Removable(fs, p)
    BY <2>1, LookupEntry DEF Removable, IsDir
  <2> QED  BY <2>1, <2>2, UnlinksKeep
<1>4. ASSUME NEW p \in Paths, Rmdir(p)
      PROVE  Keeps
  <2> DEFINE ok == /\ Lookup(fs, p)
                   /\ IsDir(fs, Target(fs, p))
                   /\ fs.ents[Target(fs, p)] = NoEntries
             r == IF ok THEN InodeUnlink(fs, p) ELSE Failed(fs)
  <2>1. Return(r)
    BY <1>4 DEF Rmdir
  <2>2. ok => Removable(fs, p)
    BY LookupEntry DEF Removable
  <2> QED  BY <2>1, <2>2, UnlinksKeep
<1>5. ASSUME NEW p \in Paths, NEW q \in Paths, Link(p, q)
      PROVE  Keeps
  <2> DEFINE r == InodeLink(fs, p, q)
  <2>1. TreeOK(r.s) /\ (~r.ok => r.s = fs)
    BY LinkOK
  <2> HIDE DEF r
  <2>2. fs' = r.s /\ failed' = ~r.ok
    BY <1>5 DEF Link, Return, r
  <2> QED  BY <2>1, <2>2 DEF Keeps
<1>6. ASSUME NEW t \in Paths, NEW p \in Paths, Symlink(t, p)
      PROVE  Keeps
  <2>1. PICK i \in Inodes :
          /\ FirstFree(i)
          /\ Return(IF Lookup(fs, t) THEN InodeCreate(fs, p, "lnk", i) ELSE Failed(fs))
    BY <1>6 DEF Symlink
  <2>2. CASE Lookup(fs, t)
    BY <2>1, <2>2, CreatesKeep
  <2>3. CASE ~Lookup(fs, t)
    <3>1. Return(Failed(fs))
      BY <2>1, <2>3
    <3> QED  BY <3>1, UnlinksKeep
  <2> QED  BY <2>2, <2>3
<1>7. CASE \E p \in Paths : Create(p) \/ Mkdir(p) \/ MkdirDenied(p) \/ Unlink(p) \/ Rmdir(p)
  BY <1>1, <1>2, <1>3, <1>4, <1>7
<1>8. CASE \E p, q \in Paths : Link(p, q) \/ Symlink(p, q)
  BY <1>5, <1>6, <1>8
<1>9. CASE \E p, q \in Paths : Rename(p, q) \/ RenameNoReplace(p, q) \/ RenameExchange(p, q)
  BY <1>9, RenameKeeps, RenameNoReplaceKeeps, RenameExchangeKeeps
<1> QED  BY <1>7, <1>8, <1>9 DEF Next

LEMMA InitOK == Init => TreeOK(fs)
<1> SUFFICES ASSUME Init PROVE TreeOK(fs)
  OBVIOUS
<1>1. Root \in Inodes
  BY NInodesAssumption DEF Inodes, Root
<1>2. /\ fs.bitmap = {Root}
      /\ fs.type = [i \in Inodes |-> IF i = Root THEN "dir" ELSE "reg"]
      /\ fs.links = [i \in Inodes |-> IF i = Root THEN 1 ELSE 0]
      /\ fs.ents = [i \in Inodes |-> NoEntries]
      /\ fs = [bitmap |-> fs.bitmap, type |-> fs.type, links |-> fs.links, ents |-> fs.ents]
  BY DEF Init
<1>3. fs \in FsType
  <2>1. fs.links \in [Inodes -> 0 .. LinkModulus - 1]
    <3>1. 0 \in 0 .. LinkModulus - 1 /\ 1 \in 0 .. LinkModulus - 1
      BY LinkModulusType
    <3> QED  BY <1>2, <3>1
  <2>2. fs.ents \in [Inodes -> [AllNames -> Inodes \cup {None}]]
    BY <1>2 DEF NoEntries
  <2>3. fs.bitmap \in SUBSET Inodes /\ fs.type \in [Inodes -> {"dir", "reg", "lnk"}]
    BY <1>1, <1>2
  <2> QED  BY <1>2, <2>1, <2>2, <2>3 DEF FsType
<1>4. DirsIn(fs) = {Root}
  BY <1>1, <1>2 DEF DirsIn
<1>5. \A p \in Paths : Target(fs, p) = None
  BY <1>2, PathParts DEF Target, NoEntries
<1> QED  BY <1>2, <1>3, <1>4, <1>5 DEF TreeOK

LEMMA TreeImplies ==
  ASSUME TreeOK(fs)
  PROVE  NoDanglingEntry /\ LinksAreEntries /\ Reclaimed /\ DirsFormTree
<1>1. Dirs = DirsIn(fs) /\ \A i : EntriesOf(i) = EntriesIn(fs, i)
  BY DEF Dirs, DirsIn, EntriesOf, EntriesIn
<1>2. NoDanglingEntry
  BY <1>1 DEF TreeOK, NoDanglingEntry
<1>3. LinksAreEntries /\ Reclaimed
  BY <1>1 DEF TreeOK, LinksAreEntries, Reclaimed
<1>4. \A d \in Dirs \ {Root} : Cardinality(EntriesOf(d)) = 1
  <2> SUFFICES ASSUME NEW d \in DirsIn(fs) \ {Root} PROVE Cardinality(EntriesIn(fs, d)) = 1
    BY <1>1
  <2>1. PICK p \in Paths : EntriesIn(fs, d) = {p}
    BY DEF TreeOK
  <2> QED  BY <2>1, FS_Singleton
<1>5. EntriesOf(Root) = {}
  <2>1. Root \in Inodes
    BY NInodesAssumption DEF Inodes, Root
  <2> QED  BY <1>1, <2>1, InodesNotNone DEF TreeOK, EntriesIn
<1>6. \A D \in SUBSET (Dirs \ {Root}) :
        D # {} => \E d \in D : \E p \in EntriesOf(d) : p.dir \notin D
  BY <1>1 DEF TreeOK
<1> QED  BY <1>2, <1>3, <1>4, <1>5, <1>6 DEF DirsFormTree

(***************************************************************************)
(* The theorems.                                                           *)
(***************************************************************************)
\* The inductive invariant holds after every handler.
THEOREM TreeInvariant ==
  ASSUME "replace_full_dir" \notin Calls PROVE Spec => []TreeOK(fs)
<1>1. TreeOK(fs) /\ [Next]_vars => TreeOK(fs)'
  <2>1. TreeOK(fs) /\ Next => TreeOK(fs')
    BY NextKeeps
  <2>2. TreeOK(fs) /\ UNCHANGED vars => TreeOK(fs')
    BY DEF vars
  <2> QED  BY <2>1, <2>2
<1> QED  BY <1>1, InitOK, PTL DEF Spec

\* No entry of a live directory names a free inode.
THEOREM TreeEntriesAllocated ==
  ASSUME "replace_full_dir" \notin Calls PROVE Spec => []NoDanglingEntry
BY TreeInvariant, TreeImplies, PTL

\* i_links_count is the number of entries of the inode, through every create,
\* link, unlink, rename and half-done exchange.
THEOREM TreeLinkCounts ==
  ASSUME "replace_full_dir" \notin Calls PROVE Spec => []LinksAreEntries
BY TreeInvariant, TreeImplies, PTL

\* inode_delete frees every file and directory with its last entry.
THEOREM TreeReclaimed ==
  ASSUME "replace_full_dir" \notin Calls PROVE Spec => []Reclaimed
BY TreeInvariant, TreeImplies, PTL

\* The directories stay one tree below the root: mkdir adds a leaf, rmdir
\* removes one, and a rename moves none, it may only remove an empty one.
THEOREM TreeConnected ==
  ASSUME "replace_full_dir" \notin Calls PROVE Spec => []DirsFormTree
BY TreeInvariant, TreeImplies, PTL

\* A handler that fails has changed nothing, unless it is of one of the four
\* kinds FailureChangesNothing names: a fuse_rename of a file without
\* RENAME_EXCHANGE never stops between its calls, except at a symbolic link.
THEOREM TreeFailures ==
  ASSUME "replace_full_dir" \notin Calls PROVE Spec => FailureChangesNothing
<1>1. TreeOK(fs) /\ [Next]_vars => [FailureStep]_vars
  BY NextKeeps
<1>2. Spec => []TreeOK(fs) /\ [][Next]_vars
  BY TreeInvariant, PTL DEF Spec
<1>3. Spec => [][FailureStep]_vars
  BY <1>1, <1>2, PTL
<1> QED  BY <1>3 DEF FailureChangesNothing, FailureStep
================================================================================
