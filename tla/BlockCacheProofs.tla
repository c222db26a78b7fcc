--------------------------- MODULE BlockCacheProofs ---------------------------
(***************************************************************************)
(* Proofs about BlockCache, for every cache size, every number of blocks   *)
(* and every set of contents.                                              *)
(***************************************************************************)
EXTENDS BlockCache, TLAPS

\* The provers a step is given to in turn, with their time in seconds.
USE ZenonT(3), SMTT(40), ZenonT(60)

ListType == [prev : [Ends -> Ends \cup {Null}], next : [Ends -> Ends \cup {Null}]]

\* The constants of the list are distinct.
LEMMA Sentinels ==
  /\ Nodes \subseteq Ends /\ HeadNode \in Ends /\ TailNode \in Ends
  /\ HeadNode \notin Nodes /\ TailNode \notin Nodes /\ HeadNode # TailNode
  /\ Null \notin Ends
  /\ \A S : S \subseteq Nodes => HeadNode \notin S /\ TailNode \notin S
BY SizeAssumption DEF Nodes, Ends, HeadNode, TailNode, Null

\* detach of a linked node leaves a list of the other nodes.
LEMMA DetachIsList ==
  ASSUME NEW l \in ListType, NEW S \in SUBSET Nodes, IsList(l, S), NEW n \in S
  PROVE  /\ Detach(l, n) \in ListType
         /\ IsList(Detach(l, n), S \ {n})
<1> DEFINE d == Detach(l, n)
           p == l.prev[n]
           x == l.next[n]
<1>1. /\ l.prev \in [Ends -> Ends \cup {Null}]
      /\ l.next \in [Ends -> Ends \cup {Null}]
      /\ S \subseteq Ends /\ n \in Ends /\ n # HeadNode /\ n # TailNode
  BY Sentinels DEF ListType
<1>2. /\ p \in S \cup {HeadNode} /\ l.next[p] = n /\ p \in Ends
      /\ x \in S \cup {TailNode} /\ l.prev[x] = n /\ x \in Ends
  BY <1>1, Sentinels DEF IsList
<1>3. /\ d.prev = [l.prev EXCEPT ![x] = p]
      /\ d.next = [l.next EXCEPT ![p] = x]
  BY DEF Detach
<1>4. d \in ListType
  BY <1>1, <1>2, <1>3 DEF Detach, ListType
<1>5. p # n /\ x # n
  <2>1. \E m \in {n} : l.next[m] \notin {n}
    <3>1. \A T \in SUBSET S : T # {} => \E m \in T : l.next[m] \notin T
      BY DEF IsList
    <3>2. {n} \in SUBSET S /\ {n} # {}
      OBVIOUS
    <3> QED  BY <3>1, <3>2
  <2> QED BY <2>1, <1>1, <1>2
<1>6. ASSUME NEW m \in (S \ {n}) \cup {HeadNode}
      PROVE  d.next[m] \in (S \ {n}) \cup {TailNode} /\ d.prev[d.next[m]] = m
  <2>1. l.next[m] \in S \cup {TailNode} /\ l.prev[l.next[m]] = m /\ m \in Ends /\ m # n
    BY <1>1, <1>6, Sentinels DEF IsList
  <2>2. CASE m = p
    BY <2>1, <2>2, <1>1, <1>2, <1>3, <1>5
  <2>3. CASE m # p
    <3>1. d.next[m] = l.next[m]
      BY <2>1, <2>3, <1>1, <1>3
    <3>2. l.next[m] # n
      BY <2>1, <2>3
    <3>3. l.next[m] # x
      BY <2>1, <1>2
    <3> QED BY <3>1, <3>2, <3>3, <2>1, <1>1, <1>3, Sentinels
  <2> QED BY <2>2, <2>3
<1>7. ASSUME NEW m \in (S \ {n}) \cup {TailNode}
      PROVE  d.prev[m] \in (S \ {n}) \cup {HeadNode} /\ d.next[d.prev[m]] = m
  <2>1. l.prev[m] \in S \cup {HeadNode} /\ l.next[l.prev[m]] = m /\ m \in Ends /\ m # n
    BY <1>1, <1>7, Sentinels DEF IsList
  <2>2. CASE m = x
    BY <2>1, <2>2, <1>1, <1>2, <1>3, <1>5
  <2>3. CASE m # x
    <3>1. d.prev[m] = l.prev[m]
      BY <2>1, <2>3, <1>1, <1>3
    <3>2. l.prev[m] # n
      BY <2>1, <2>3
    <3>3. l.prev[m] # p
      BY <2>1, <1>2
    <3> QED BY <3>1, <3>2, <3>3, <2>1, <1>1, <1>3, Sentinels
  <2> QED BY <2>2, <2>3
<1>8. ASSUME NEW T \in SUBSET (S \ {n}), T # {}
      PROVE  \E m \in T : d.next[m] \notin T
  <2>1. T \subseteq Ends /\ n \notin T
    BY <1>1
  <2>2. CASE p \in T
    <3>1. PICK m \in T \cup {n} : l.next[m] \notin T \cup {n}
      <4>1. (T \cup {n}) \in SUBSET S /\ T \cup {n} # {}
        OBVIOUS
      <4> QED BY <4>1 DEF IsList
    <3>2. CASE m = n
      BY <3>1, <3>2, <2>1, <2>2, <1>1, <1>3
    <3>3. CASE m # n
      <4>1. m \in T /\ m # p
        BY <3>1, <3>3, <1>2
      <4> QED BY <4>1, <3>1, <2>1, <1>1, <1>3
    <3> QED BY <3>2, <3>3
  <2>3. CASE p \notin T
    <3>1. PICK m \in T : l.next[m] \notin T
      BY <1>8 DEF IsList
    <3> QED BY <3>1, <2>1, <2>3, <1>1, <1>3
  <2> QED BY <2>2, <2>3
<1> QED BY <1>4, <1>6, <1>7, <1>8 DEF IsList

\* attach of a node that is not linked makes a list with that node first.
LEMMA AttachIsList ==
  ASSUME NEW l \in ListType, NEW S \in SUBSET Nodes, IsList(l, S), NEW n \in Nodes \ S
  PROVE  /\ Attach(l, n) \in ListType
         /\ IsList(Attach(l, n), S \cup {n})
<1> DEFINE d == Attach(l, n)
           x == l.next[HeadNode]
<1>1. /\ l.prev \in [Ends -> Ends \cup {Null}]
      /\ l.next \in [Ends -> Ends \cup {Null}]
      /\ S \subseteq Ends /\ n \in Ends /\ n # HeadNode /\ n # TailNode
      /\ HeadNode \in Ends /\ HeadNode \notin S /\ TailNode \in Ends /\ TailNode \notin S
      /\ HeadNode # TailNode
  BY Sentinels DEF ListType
<1>2. x \in S \cup {TailNode} /\ l.prev[x] = HeadNode /\ x \in Ends /\ x # n /\ x # HeadNode
  BY <1>1 DEF IsList
<1>3. /\ d.prev = [l.prev EXCEPT ![n] = HeadNode, ![x] = n]
      /\ d.next = [l.next EXCEPT ![n] = x, ![HeadNode] = n]
  BY DEF Attach
<1>4. d \in ListType
  BY <1>1, <1>2, <1>3 DEF Attach, ListType
<1>5. ASSUME NEW m \in S \cup {n} \cup {HeadNode}
      PROVE  d.next[m] \in S \cup {n} \cup {TailNode} /\ d.prev[d.next[m]] = m
  <2>1. CASE m = n
    BY <2>1, <1>1, <1>2, <1>3
  <2>2. CASE m = HeadNode
    BY <2>2, <1>1, <1>2, <1>3
  <2>3. CASE m \in S
    <3>1. l.next[m] \in S \cup {TailNode} /\ l.prev[l.next[m]] = m /\ m # n /\ m # HeadNode
      BY <2>3, <1>1 DEF IsList
    <3>2. l.next[m] # x /\ l.next[m] # n /\ l.next[m] \in Ends
      BY <3>1, <1>1, <1>2
    <3> QED BY <3>1, <3>2, <2>3, <1>1, <1>3
  <2> QED BY <2>1, <2>2, <2>3
<1>6. ASSUME NEW m \in S \cup {n} \cup {TailNode}
      PROVE  d.prev[m] \in S \cup {n} \cup {HeadNode} /\ d.next[d.prev[m]] = m
  <2>1. CASE m = n
    BY <2>1, <1>1, <1>2, <1>3
  <2>2. CASE m = x
    BY <2>2, <1>1, <1>2, <1>3
  <2>3. CASE m # n /\ m # x
    <3>1. l.prev[m] \in S \cup {HeadNode} /\ l.next[l.prev[m]] = m /\ m \in Ends
      BY <2>3, <1>1, <1>6 DEF IsList
    <3>2. l.prev[m] # HeadNode /\ l.prev[m] # n /\ l.prev[m] \in Ends
      BY <3>1, <2>3, <1>1
    <3> QED BY <3>1, <3>2, <2>3, <1>1, <1>3
  <2> QED BY <2>1, <2>2, <2>3
<1>7. ASSUME NEW T \in SUBSET (S \cup {n}), T # {}
      PROVE  \E m \in T : d.next[m] \notin T
  <2>1. CASE T \ {n} = {}
    <3>1. T = {n}
      BY <2>1, <1>7
    <3> QED BY <3>1, <1>1, <1>2, <1>3
  <2>2. CASE T \ {n} # {}
    <3>1. T \ {n} \in SUBSET S
      OBVIOUS
    <3>2. PICK m \in T \ {n} : l.next[m] \notin T \ {n}
      BY <2>2, <3>1 DEF IsList
    <3>3. m \in S /\ m \in Ends /\ m # n /\ m # HeadNode
      BY <3>2, <1>1
    <3>4. l.next[m] \in S \cup {TailNode} /\ l.next[m] # n
      BY <3>3, <1>1 DEF IsList
    <3>5. d.next[m] = l.next[m]
      BY <3>3, <1>1, <1>3
    <3> QED BY <3>2, <3>4, <3>5
  <2> QED BY <2>1, <2>2
<1> QED BY <1>4, <1>5, <1>6, <1>7 DEF IsList

\* A list through at least one node has a node in front of TailNode.
LEMMA ListHasLast ==
  ASSUME NEW l \in ListType, NEW S \in SUBSET Nodes, IsList(l, S), S # {}
  PROVE  l.prev[TailNode] \in S
<1>1. PICK n \in S : l.next[n] \notin S
  BY DEF IsList
<1>2. l.next[n] = TailNode /\ l.prev[l.next[n]] = n
  BY <1>1 DEF IsList
<1> QED BY <1>2

\* The initial list is a list of no nodes.
LEMMA EmptyIsList == EmptyList \in ListType /\ IsList(EmptyList, {})
BY Sentinels DEF EmptyList, ListType, IsList, Ends

\* pop_back of a non-empty stack.
LEMMA PopProperties ==
  ASSUME NEW S, NEW s \in Seq(S), Len(s) > 0
  PROVE  /\ SubSeq(s, 1, Len(s) - 1) \in Seq(S)
         /\ Len(SubSeq(s, 1, Len(s) - 1)) = Len(s) - 1
         /\ \A i \in 1 .. Len(s) - 1 : SubSeq(s, 1, Len(s) - 1)[i] = s[i]
<1>1. SubSeq(s, 1, Len(s) - 1) \in Seq(S)
  OBVIOUS
<1>2. Len(SubSeq(s, 1, Len(s) - 1)) = Len(s) - 1
  <2>1. PICK k \in Nat : k = Len(s)
    OBVIOUS
  <2>2. Len(SubSeq(s, 1, k - 1)) = k - 1
    BY <2>1
  <2> QED BY <2>1, <2>2
<1>3. \A i \in 1 .. Len(s) - 1 : SubSeq(s, 1, Len(s) - 1)[i] = s[i]
  OBVIOUS
<1> QED BY <1>1, <1>2, <1>3

(***************************************************************************)
(* The cache primitives.  Core is what they need and keep: types, list and *)
(* pool.  Coherent(c) says that dropping block c from the cache now, with  *)
(* the write-back of release, keeps its content.                           *)
(***************************************************************************)
CoreType ==
  /\ map \in [Blocks -> Nodes \cup {Null}]
  /\ dirty \in [Nodes -> BOOLEAN]
  /\ index \in [Nodes -> Blocks]
  /\ block \in [Nodes -> Vals]
  /\ links \in ListType
  /\ free \in Seq(Nodes)
  /\ disk \in [Blocks -> Vals]

Core == CoreType /\ ListMatchesMap /\ PoolPartition

Coherent(c) == map[c] # Null => dirty[map[c]] \/ block[map[c]] = disk[c]

\* A step that touches block b only, as seen by every other block.
OthersKept(b) ==
  \A c \in Blocks \ {b} : Coherent(c) => Coherent(c)' /\ Content(c)' = Content(c)

\* No two blocks share a node, and a linked node is a pool entry.
LEMMA MapFacts ==
  ASSUME CoreType, PoolPartition
  PROVE  /\ Null \notin Nodes
         /\ Linked \in SUBSET Nodes
         /\ \A b \in Blocks : map[b] # Null => map[b] \in Nodes /\ map[b] \in Linked
         /\ \A n \in Linked : index[n] \in Cached /\ map[index[n]] = n
         /\ \A b, c \in Cached : map[b] = map[c] => b = c
<1>1. Null \notin Nodes
  BY Sentinels
<1>2. \A b \in Cached : index[map[b]] = b
  BY DEF PoolPartition
<1> QED BY <1>1, <1>2 DEF CoreType, Linked, Cached

\* get keeps the core invariant; block b has content v afterwards.
LEMMA GetCore ==
  ASSUME Core, NEW b \in Blocks, NEW v \in Vals, NEW d \in BOOLEAN, Get(b, v, d)
  PROVE  /\ Core'
         /\ Cached' = Cached /\ b \in Cached
         /\ OthersKept(b)
         /\ Content(b)' = v
         /\ d \/ (Coherent(b) /\ v = block[map[b]]) => Coherent(b)'
<1> DEFINE n == map[b]
<1>1. /\ n \in Nodes /\ n \in Linked /\ b \in Cached
      /\ Linked \in SUBSET Nodes
      /\ \A c \in Cached : map[c] = n => c = b
      /\ \A c \in Cached : map[c] \in Nodes
      /\ Null \notin Nodes
  BY MapFacts DEF Get, Core, Cached
<1>2. /\ map' = map /\ index' = index /\ free' = free /\ disk' = disk
      /\ dirty' = [dirty EXCEPT ![n] = @ \/ d]
      /\ block' = [block EXCEPT ![n] = v]
      /\ links' = Attach(Detach(links, n), n)
  BY DEF Get
<1>3. Cached' = Cached /\ Linked' = Linked
  BY <1>2 DEF Cached, Linked
<1>4. links' \in ListType /\ IsList(links', Linked)
  <2>1. Detach(links, n) \in ListType /\ IsList(Detach(links, n), Linked \ {n})
    BY <1>1, DetachIsList DEF Core, CoreType, ListMatchesMap
  <2>2. n \in Nodes \ (Linked \ {n}) /\ (Linked \ {n}) \in SUBSET Nodes
    BY <1>1
  <2>3. (Linked \ {n}) \cup {n} = Linked
    BY <1>1
  <2> QED BY <2>1, <2>2, <2>3, <1>2, AttachIsList
<1>5. CoreType'
  BY <1>1, <1>2, <1>4 DEF Core, CoreType
<1>6. ListMatchesMap'
  BY <1>3, <1>4 DEF ListMatchesMap
<1>7. PoolPartition'
  BY <1>2, <1>3 DEF Core, PoolPartition
<1>8. OthersKept(b)
  BY <1>1, <1>2 DEF OthersKept, Coherent, Content, Core, CoreType, Cached
<1>9. Content(b)' = v /\ (d \/ (Coherent(b) /\ v = block[map[b]]) => Coherent(b)')
  BY <1>1, <1>2 DEF Content, Coherent, Core, CoreType
<1> QED BY <1>1, <1>3, <1>5, <1>6, <1>7, <1>8, <1>9 DEF Core

\* insert into a pool node.
LEMMA InsertFreeCore ==
  ASSUME Core, NEW b \in Blocks, NEW v \in Vals, NEW d \in BOOLEAN, InsertFree(b, v, d)
  PROVE  /\ Core'
         /\ Cached' = Cached \cup {b}
         /\ OthersKept(b)
         /\ Content(b)' = v
         /\ d \/ v = disk[b] => Coherent(b)'
<1> DEFINE n == free[Len(free)]
           k == Len(free)
<1>1. /\ free \in Seq(Nodes) /\ free # << >> /\ map[b] = Null
      /\ k \in Nat /\ k > 0 /\ n \in Nodes
      /\ Null \notin Nodes
      /\ Linked \in SUBSET Nodes
      /\ \A c \in Cached : map[c] \in Nodes /\ map[c] \in Linked
  BY MapFacts DEF InsertFree, Core, CoreType, Cached
<1>2. /\ index' = [index EXCEPT ![n] = b]
      /\ block' = [block EXCEPT ![n] = v]
      /\ dirty' = [dirty EXCEPT ![n] = d]
      /\ map' = [map EXCEPT ![b] = n]
      /\ free' = SubSeq(free, 1, k - 1)
      /\ links' = Attach(links, n)
      /\ disk' = disk
  BY DEF InsertFree, Fill
<1>3. n \notin Linked
  BY <1>1 DEF Core, PoolPartition
<1>4. Cached' = Cached \cup {b} /\ b \notin Cached
  BY <1>1, <1>2 DEF Cached, Core, CoreType
<1>5. \A c \in Cached : map'[c] = map[c] /\ map[c] # n
  BY <1>1, <1>2, <1>3, <1>4 DEF Cached, Core, CoreType
<1>6. map'[b] = n
  BY <1>2 DEF Core, CoreType
<1>7. Linked' = Linked \cup {n}
  BY <1>4, <1>5, <1>6 DEF Linked
<1>8. links' \in ListType /\ IsList(links', Linked \cup {n})
  BY <1>1, <1>2, <1>3, AttachIsList DEF Core, CoreType, ListMatchesMap
<1>9. /\ free' \in Seq(Nodes)
      /\ Len(free') = k - 1
      /\ \A i \in 1 .. k - 1 : free'[i] = free[i]
  BY <1>1, <1>2, PopProperties
<1>10. CoreType'
  BY <1>1, <1>2, <1>8, <1>9 DEF Core, CoreType
<1>11. ListMatchesMap'
  BY <1>7, <1>8 DEF ListMatchesMap
<1>12. PoolPartition'
  <2>1. \A i, j \in 1 .. Len(free') : free'[i] = free'[j] => i = j
    BY <1>1, <1>9 DEF Core, PoolPartition
  <2>2. \A i \in 1 .. k - 1 : free[i] # n
    BY <1>1 DEF Core, PoolPartition
  <2>3. {free'[i] : i \in 1 .. Len(free')} = Nodes \ (Linked \cup {n})
    <3>1. {free[i] : i \in 1 .. k} = Nodes \ Linked
      BY DEF Core, PoolPartition
    <3>2. ASSUME NEW m \in Nodes \ (Linked \cup {n})
          PROVE  \E i \in 1 .. Len(free') : free'[i] = m
      <4>1. PICK i \in 1 .. k : free[i] = m
        BY <3>1
      <4>2. i \in 1 .. k - 1
        BY <4>1, <1>1
      <4> QED BY <4>1, <4>2, <1>9
    <3>3. ASSUME NEW i \in 1 .. Len(free')
          PROVE  free'[i] \in Nodes \ (Linked \cup {n})
      <4>1. i \in 1 .. k /\ i \in 1 .. k - 1 /\ free'[i] = free[i]
        BY <1>1, <1>9
      <4> QED BY <4>1, <3>1, <2>2
    <3> QED BY <3>2, <3>3
  <2>4. \A c \in Cached \cup {b} : index'[map'[c]] = c
    BY <1>1, <1>2, <1>5, <1>6 DEF Core, CoreType, PoolPartition
  <2> QED BY <2>1, <2>3, <2>4, <1>4, <1>7 DEF PoolPartition
<1>13. OthersKept(b)
  BY <1>1, <1>2, <1>5 DEF OthersKept, Coherent, Content, Core, CoreType, Cached
<1>14. Content(b)' = v /\ (d \/ v = disk[b] => Coherent(b)')
  BY <1>1, <1>2, <1>6 DEF Content, Coherent, Core, CoreType
<1> QED BY <1>4, <1>10, <1>11, <1>12, <1>13, <1>14 DEF Core

\* insert into the node of the least recently used block.
LEMMA InsertEvictCore ==
  ASSUME Core, NEW b \in Blocks, NEW v \in Vals, NEW d \in BOOLEAN, InsertEvict(b, v, d)
  PROVE  /\ Core'
         /\ Cached' \subseteq Cached \cup {b}
         /\ OthersKept(b)
         /\ Content(b)' = v
         /\ d \/ v = disk[b] => Coherent(b)'
<1> DEFINE n == links.prev[TailNode]
           e == index[n]
<1>1. /\ Null \notin Nodes /\ map[b] = Null
      /\ Linked \in SUBSET Nodes
      /\ \A c \in Cached : map[c] \in Nodes /\ map[c] \in Linked
      /\ b \notin Cached
  BY MapFacts DEF InsertEvict, Core, CoreType, Cached
<1>2. Linked = Nodes
  <2>1. Len(free) = 0
    BY DEF InsertEvict
  <2> QED BY <2>1, <1>1 DEF Core, PoolPartition
<1>3. n \in Linked /\ n \in Nodes
  <2>1. Nodes # {}
    BY SizeAssumption DEF Nodes
  <2> QED BY <2>1, <1>2, ListHasLast DEF Core, CoreType, ListMatchesMap
<1>4. e \in Cached /\ map[e] = n /\ e # b /\ e \in Blocks
  BY <1>1, <1>3, MapFacts DEF Core, Cached
<1>5. \A c \in Cached : map[c] = n => c = e
  BY <1>4, MapFacts DEF Core
<1>6. /\ index' = [index EXCEPT ![n] = b]
      /\ block' = [block EXCEPT ![n] = v]
      /\ dirty' = [dirty EXCEPT ![n] = d]
      /\ map' = [map EXCEPT ![e] = Null, ![b] = n]
      /\ free' = free
      /\ links' = Attach(Detach(links, n), n)
      /\ disk' = IF dirty[n] THEN [disk EXCEPT ![e] = block[n]] ELSE disk
  BY DEF InsertEvict, Fill, WriteBack
<1>7. /\ map'[b] = n /\ map'[e] = Null
      /\ \A c \in Blocks \ {b, e} : map'[c] = map[c]
  BY <1>4, <1>6 DEF Core, CoreType
<1>8. Cached' = (Cached \ {e}) \cup {b}
  BY <1>1, <1>3, <1>4, <1>7 DEF Cached
<1>9. Linked' = Linked
  <2>1. \A c \in Cached \ {e} : map'[c] = map[c]
    BY <1>1, <1>7 DEF Cached
  <2> QED BY <2>1, <1>3, <1>4, <1>5, <1>7, <1>8 DEF Linked
<1>10. links' \in ListType /\ IsList(links', Linked)
  <2>1. Detach(links, n) \in ListType /\ IsList(Detach(links, n), Linked \ {n})
    BY <1>1, <1>3, DetachIsList DEF Core, CoreType, ListMatchesMap
  <2>2. n \in Nodes \ (Linked \ {n}) /\ (Linked \ {n}) \in SUBSET Nodes
    BY <1>1, <1>3
  <2>3. (Linked \ {n}) \cup {n} = Linked
    BY <1>3
  <2> QED BY <2>1, <2>2, <2>3, <1>6, AttachIsList
<1>11. CoreType'
  BY <1>3, <1>4, <1>6, <1>10 DEF Core, CoreType
<1>12. ListMatchesMap'
  BY <1>9, <1>10 DEF ListMatchesMap
<1>13. PoolPartition'
  <2>1. \A c \in (Cached \ {e}) \cup {b} : index'[map'[c]] = c
    <3>1. \A c \in Cached \ {e} : map'[c] = map[c] /\ map[c] # n /\ map[c] \in Nodes
      BY <1>1, <1>5, <1>7 DEF Cached
    <3> QED BY <3>1, <1>3, <1>6, <1>7 DEF Core, CoreType, PoolPartition
  <2>2. /\ \A i, j \in 1 .. Len(free) : free[i] = free[j] => i = j
        /\ {free[i] : i \in 1 .. Len(free)} = Nodes \ Linked
    BY DEF Core, PoolPartition
  <2>3. free' = free
    BY <1>6
  <2>4. /\ \A i, j \in 1 .. Len(free') : free'[i] = free'[j] => i = j
        /\ {free'[i] : i \in 1 .. Len(free')} = Nodes \ Linked'
    BY <2>2, <2>3, <1>9
  <2> QED BY <2>1, <2>4, <1>8 DEF PoolPartition
<1>14. OthersKept(b)
  <2> SUFFICES ASSUME NEW c \in Blocks \ {b}, Coherent(c)
               PROVE  Coherent(c)' /\ Content(c)' = Content(c)
    BY DEF OthersKept
  <2>1. CASE c = e
    BY <2>1, <1>1, <1>3, <1>4, <1>6, <1>7 DEF Coherent, Content, Core, CoreType
  <2>2. CASE c # e
    <3>1. map'[c] = map[c] /\ disk'[c] = disk[c]
      BY <2>2, <1>4, <1>6, <1>7 DEF Core, CoreType
    <3>2. map[c] # Null => /\ map[c] # n
                           /\ dirty'[map[c]] = dirty[map[c]]
                           /\ block'[map[c]] = block[map[c]]
      BY <2>2, <1>1, <1>3, <1>5, <1>6 DEF Core, CoreType, Cached
    <3> QED BY <3>1, <3>2 DEF Coherent, Content
  <2> QED BY <2>1, <2>2
<1>15. Content(b)' = v /\ (d \/ v = disk[b] => Coherent(b)')
  <2>1. block'[n] = v /\ dirty'[n] = d /\ disk'[b] = disk[b] /\ n # Null
    BY <1>1, <1>3, <1>4, <1>6 DEF Core, CoreType
  <2> QED BY <2>1, <1>7 DEF Content, Coherent
<1> QED BY <1>8, <1>11, <1>12, <1>13, <1>14, <1>15 DEF Core

\* insert, whichever way it finds a node.
LEMMA InsertCore ==
  ASSUME Core, NEW b \in Blocks, NEW v \in Vals, NEW d \in BOOLEAN, Insert(b, v, d)
  PROVE  /\ Core'
         /\ Cached' \subseteq Cached \cup {b}
         /\ OthersKept(b)
         /\ Content(b)' = v
         /\ d \/ v = disk[b] => Coherent(b)'
<1>1. CASE InsertFree(b, v, d)
  BY <1>1, InsertFreeCore
<1>2. CASE InsertEvict(b, v, d)
  BY <1>2, InsertEvictCore
<1> QED BY <1>1, <1>2 DEF Insert

\* remove of a cached block.
LEMMA RemoveCore ==
  ASSUME Core, NEW b \in Blocks, Remove(b)
  PROVE  /\ Core'
         /\ Cached' = Cached \ {b}
         /\ OthersKept(b)
<1> DEFINE n == map[b]
           k == Len(free)
<1>1. /\ n \in Nodes /\ n \in Linked /\ b \in Cached /\ index[n] = b
      /\ Linked \in SUBSET Nodes
      /\ \A c \in Cached : map[c] = n => c = b
      /\ \A c \in Cached : map[c] \in Nodes
      /\ Null \notin Nodes
      /\ free \in Seq(Nodes) /\ k \in Nat
  BY MapFacts DEF Remove, Core, CoreType, Cached, PoolPartition
<1>2. /\ index' = index /\ dirty' = dirty /\ block' = block
      /\ map' = [map EXCEPT ![b] = Null]
      /\ free' = Append(free, n)
      /\ links' = Detach(links, n)
      /\ disk' = IF dirty[n] THEN [disk EXCEPT ![b] = block[n]] ELSE disk
  BY <1>1 DEF Remove, WriteBack
<1>3. Cached' = Cached \ {b}
  BY <1>1, <1>2 DEF Cached, Core, CoreType
<1>4. \A c \in Blocks \ {b} : map'[c] = map[c]
  BY <1>2 DEF Core, CoreType
<1>5. Linked' = Linked \ {n}
  <2>1. \A c \in Cached \ {b} : map'[c] = map[c] /\ map[c] # n
    BY <1>1, <1>4 DEF Cached
  <2> QED BY <2>1, <1>1, <1>3 DEF Linked
<1>6. links' \in ListType /\ IsList(links', Linked \ {n})
  BY <1>1, <1>2, DetachIsList DEF Core, CoreType, ListMatchesMap
<1>7. CoreType'
  BY <1>1, <1>2, <1>6 DEF Core, CoreType
<1>8. ListMatchesMap'
  BY <1>5, <1>6 DEF ListMatchesMap
<1>9. PoolPartition'
  <2>1. /\ Len(free') = k + 1
        /\ free'[k + 1] = n
        /\ \A i \in 1 .. k : free'[i] = free[i]
    BY <1>1, <1>2
  <2>2. {free[i] : i \in 1 .. k} = Nodes \ Linked
    BY DEF Core, PoolPartition
  <2>3. \A i \in 1 .. k : free[i] # n
    BY <2>2, <1>1
  <2>4. \A i, j \in 1 .. Len(free') : free'[i] = free'[j] => i = j
    BY <2>1, <2>3, <1>1 DEF Core, PoolPartition
  <2>5. {free'[i] : i \in 1 .. Len(free')} = Nodes \ (Linked \ {n})
    <3>1. ASSUME NEW m \in Nodes \ (Linked \ {n})
          PROVE  \E i \in 1 .. Len(free') : free'[i] = m
      <4>1. CASE m = n
        BY <4>1, <2>1, <1>1
      <4>2. CASE m # n
        <5>1. PICK i \in 1 .. k : free[i] = m
          BY <4>2, <2>2
        <5> QED BY <5>1, <2>1, <1>1
      <4> QED BY <4>1, <4>2
    <3>2. ASSUME NEW i \in 1 .. Len(free')
          PROVE  free'[i] \in Nodes \ (Linked \ {n})
      <4>1. CASE i = k + 1
        BY <4>1, <2>1, <1>1
      <4>2. CASE i # k + 1
        <5>1. i \in 1 .. k
          BY <4>2, <2>1, <1>1
        <5> QED BY <5>1, <2>1, <2>2
      <4> QED BY <4>1, <4>2
    <3> QED BY <3>1, <3>2
  <2>6. \A c \in Cached \ {b} : index'[map'[c]] = c
    BY <1>2, <1>4 DEF Core, PoolPartition, Cached
  <2> QED BY <2>4, <2>5, <2>6, <1>3, <1>5 DEF PoolPartition
<1>10. OthersKept(b)
  <2> SUFFICES ASSUME NEW c \in Blocks \ {b}
               PROVE  /\ map'[c] = map[c] /\ disk'[c] = disk[c]
                      /\ dirty' = dirty /\ block' = block
    BY DEF OthersKept, Coherent, Content
  <2> QED BY <1>2, <1>4 DEF Core, CoreType
<1> QED BY <1>3, <1>7, <1>8, <1>9, <1>10 DEF Core

\* A flush keeps the core invariant, every content and every coherent block.
LEMMA FlushCore ==
  ASSUME Core, NEW S, FlushSome(S)
  PROVE  /\ Core'
         /\ Cached' = Cached
         /\ \A c \in Blocks : Coherent(c) => Coherent(c)' /\ Content(c)' = Content(c)
<1>1. /\ map' = map /\ index' = index /\ block' = block /\ links' = links /\ free' = free
      /\ disk' = FlushDisk(S)
      /\ dirty' = [n \in Nodes |-> dirty[n] /\ n \notin {map[b] : b \in S \cap Cached}]
  BY DEF FlushSome
<1>2. Cached' = Cached /\ Linked' = Linked
  BY <1>1 DEF Cached, Linked
<1>3. disk' \in [Blocks -> Vals] /\ dirty' \in [Nodes -> BOOLEAN]
  <2>1. \A b \in Cached : map[b] \in Nodes
    BY DEF Core, CoreType, Cached
  <2> QED BY <2>1, <1>1 DEF FlushDisk, Core, CoreType
<1>4. CoreType'
  BY <1>1, <1>3 DEF Core, CoreType
<1>5. ListMatchesMap' /\ PoolPartition'
  BY <1>1, <1>2 DEF Core, ListMatchesMap, PoolPartition
<1>6. ASSUME NEW c \in Blocks, Coherent(c)
      PROVE  Coherent(c)' /\ Content(c)' = Content(c)
  <2>1. CASE map[c] = Null
    <3>1. disk'[c] = disk[c]
      BY <2>1, <1>1 DEF FlushDisk, Cached
    <3> QED BY <3>1, <2>1, <1>1 DEF Coherent, Content
  <2>2. CASE map[c] # Null
    <3>1. c \in Cached /\ map[c] \in Nodes
      BY <2>2 DEF Cached, Core, CoreType
    <3>2. \A b \in Cached : map[b] = map[c] => b = c
      BY <3>1, MapFacts DEF Core
    <3>3. dirty'[map[c]] <=> dirty[map[c]] /\ c \notin S
      BY <3>1, <3>2, <1>1
    <3>4. disk'[c] = IF c \in S /\ dirty[map[c]] THEN block[map[c]] ELSE disk[c]
      BY <3>1, <1>1 DEF FlushDisk
    <3> QED BY <3>3, <3>4, <2>2, <1>1, <1>6 DEF Coherent, Content
  <2> QED BY <2>1, <2>2
<1> QED BY <1>2, <1>4, <1>5, <1>6 DEF Core

EmptyCache ==
  /\ map = [b \in Blocks |-> Null]
  /\ dirty = [n \in Nodes |-> FALSE]
  /\ index = [n \in Nodes |-> 0]
  /\ block = [n \in Nodes |-> Zero]
  /\ links = EmptyList
  /\ free = [i \in 1 .. Size |-> i]
  /\ disk \in [Blocks -> Vals]

\* The empty cache of the constructor satisfies the core invariant.
LEMMA EmptyCore == EmptyCache => Core /\ Cached = {}
<1> SUFFICES ASSUME EmptyCache PROVE Core /\ Cached = {}
  OBVIOUS
<1> USE DEF EmptyCache
<1>1. Cached = {} /\ Linked = {}
  BY DEF Cached, Linked
<1>2. free \in Seq(Nodes) /\ Len(free) = Size /\ \A i \in 1 .. Size : free[i] = i
  BY SizeAssumption DEF Nodes
<1>3. 0 \in Blocks
  BY NBlocksAssumption DEF Blocks
<1>4. CoreType
  BY <1>2, <1>3, EmptyIsList, ValsAssumption DEF CoreType
<1>5. ListMatchesMap
  BY <1>1, EmptyIsList DEF ListMatchesMap
<1>6. PoolPartition
  <2>1. {free[i] : i \in 1 .. Len(free)} = Nodes
    BY <1>2 DEF Nodes
  <2> QED BY <2>1, <1>1, <1>2 DEF PoolPartition
<1> QED BY <1>1, <1>4, <1>5, <1>6 DEF Core

\* The same after a step.
LEMMA EmptyCoreNext == EmptyCache' => (Core /\ Cached = {})'
BY EmptyCore, PTL

(***************************************************************************)
(* The inductive invariant.  CachedAreAllocated is needed by alloc_block   *)
(* (it inserts an index that must not be cached), and written \subseteq    *)
(* bitmap by CleanMatchesDisk (the new block is clean and not on disk).    *)
(***************************************************************************)
CacheInv ==
  TypeOK /\ ListMatchesMap /\ PoolPartition /\ CachedAreAllocated /\ CleanMatchesDisk

CacheInvParts ==
  /\ Core
  /\ bitmap \subseteq Blocks
  /\ written \subseteq bitmap
  /\ out \in {<< >>} \cup (Blocks \X (Vals \cup {Fail}))
  /\ Cached \subseteq bitmap
  /\ \A c \in written : Coherent(c)

\* Core is the part of the invariant about the cache object itself.
LEMMA InvParts == CacheInv <=> CacheInvParts
<1>1. ASSUME written \subseteq Blocks
      PROVE  CleanMatchesDisk <=> \A c \in written : Coherent(c)
  BY <1>1 DEF CleanMatchesDisk, Coherent, Cached
<1> QED BY <1>1 DEF CacheInv, CacheInvParts, TypeOK, Core, CoreType, ListType, CachedAreAllocated

\* The same after a step.
LEMMA InvPartsNext == CacheInv' <=> CacheInvParts'
BY InvParts, PTL

\* The constructor establishes the invariant.
LEMMA InitInv == Init => CacheInv
<1> SUFFICES ASSUME Init PROVE CacheInv
  OBVIOUS
<1>1. Core /\ Cached = {}
  BY EmptyCore, ValsAssumption DEF Init, EmptyCache
<1> QED BY <1>1, InvParts DEF Init, CacheInvParts

\* What a step leaves to show once the core invariant is preserved.
LEMMA StepInv ==
  ASSUME CacheInv, NEW b \in Blocks, Core',
         OthersKept(b),
         bitmap' \subseteq Blocks,
         written' \subseteq bitmap', written' \subseteq written \cup {b},
         out' \in {<< >>} \cup (Blocks \X (Vals \cup {Fail})),
         Cached' \subseteq bitmap',
         b \in written' => Coherent(b)'
  PROVE  CacheInv'
<1>1. bitmap \subseteq Blocks /\ written \subseteq bitmap /\ \A c \in written : Coherent(c)
  BY InvParts DEF CacheInvParts
<1>2. \A c \in written' : Coherent(c)'
  BY <1>1 DEF OthersKept
<1> QED BY <1>2, InvPartsNext DEF CacheInvParts

\* Every operation preserves the invariant.
LEMMA NextInv == CacheInv /\ [Next]_vars => CacheInv'
<1> SUFFICES ASSUME CacheInv, [Next]_vars PROVE CacheInv'
  OBVIOUS
<1>1. /\ Core /\ bitmap \subseteq Blocks /\ written \subseteq bitmap
      /\ Cached \subseteq bitmap /\ disk \in [Blocks -> Vals] /\ block \in [Nodes -> Vals]
      /\ \A c \in written : Coherent(c)
      /\ out \in {<< >>} \cup (Blocks \X (Vals \cup {Fail}))
  BY InvParts DEF CacheInvParts, Core, CoreType
<1>2. ASSUME NEW b \in Blocks, ReadHit(b) PROVE CacheInv'
  <2>1. map[b] \in Nodes /\ block[map[b]] \in Vals
    BY <1>1, <1>2 DEF ReadHit, Core, CoreType
  <2>2. /\ Core' /\ Cached' = Cached /\ OthersKept(b)
        /\ Coherent(b) => Coherent(b)'
    BY <1>1, <1>2, <2>1, GetCore DEF ReadHit
  <2> QED BY <1>1, <1>2, <2>1, <2>2, StepInv DEF ReadHit
<1>3. ASSUME NEW b \in Blocks, ReadMiss(b) PROVE CacheInv'
  <2>1. disk[b] \in Vals
    BY <1>1
  <2>2. Core' /\ Cached' \subseteq Cached \cup {b} /\ OthersKept(b) /\ Coherent(b)'
    BY <1>1, <1>3, <2>1, InsertCore DEF ReadMiss
  <2> QED BY <1>1, <1>3, <2>1, <2>2, StepInv DEF ReadMiss
<1>4. ASSUME NEW b \in Blocks, ReadFail(b) PROVE CacheInv'
  <2>1. /\ Core' /\ Cached' = Cached
        /\ \A c \in Blocks : Coherent(c)' <=> Coherent(c)
    BY <1>1, <1>4
    DEF ReadFail, cacheVars, Core, CoreType, ListMatchesMap, PoolPartition, Cached, Linked, Coherent
  <2> QED BY <1>1, <1>4, <2>1, InvPartsNext DEF ReadFail, CacheInvParts
<1>5. ASSUME NEW b \in Blocks, NEW v \in Vals, WriteBlock(b, v) PROVE CacheInv'
  <2>1. /\ Core' /\ Cached' \subseteq Cached \cup {b} /\ OthersKept(b) /\ Coherent(b)'
        /\ b \in bitmap
    <3>1. CASE Get(b, v, TRUE)
      BY <1>1, <3>1, GetCore
    <3>2. CASE b \in bitmap /\ Insert(b, v, TRUE)
      BY <1>1, <3>2, InsertCore
    <3> QED BY <1>5, <3>1, <3>2 DEF WriteBlock
  <2> QED BY <1>1, <1>5, <2>1, StepInv DEF WriteBlock
<1>6. ASSUME NEW b \in Blocks, AllocBlock(b) PROVE CacheInv'
  <2>1. Core' /\ Cached' \subseteq Cached \cup {b} /\ OthersKept(b)
    BY <1>1, <1>6, InsertCore, ValsAssumption DEF AllocBlock
  <2>2. b \notin written
    BY <1>1, <1>6 DEF AllocBlock, FirstFree
  <2> QED BY <1>1, <1>6, <2>1, <2>2, StepInv DEF AllocBlock
<1>7. ASSUME NEW b \in Blocks, NEW v \in Vals, AllocModify(b, v) PROVE CacheInv'
  <2>1. Core' /\ Cached' \subseteq Cached \cup {b} /\ OthersKept(b) /\ Coherent(b)'
    BY <1>1, <1>7, InsertCore DEF AllocModify
  <2> QED BY <1>1, <1>7, <2>1, StepInv DEF AllocModify
<1>8. ASSUME NEW b \in Blocks, FreeBlock(b) PROVE CacheInv'
  <2>1. Core' /\ Cached' \subseteq Cached \ {b} /\ OthersKept(b)
    <3>1. CASE Remove(b)
      BY <1>1, <3>1, RemoveCore
    <3>2. CASE map[b] = Null /\ UNCHANGED <<cacheVars, disk>>
      BY <1>1, <3>2
      DEF cacheVars, Core, CoreType, ListMatchesMap, PoolPartition, Cached, Linked,
          OthersKept, Coherent, Content
    <3> QED BY <1>8, <3>1, <3>2 DEF FreeBlock
  <2> QED BY <1>1, <1>8, <2>1, StepInv DEF FreeBlock
<1>9. ASSUME NEW S, FlushSome(S) PROVE CacheInv'
  <2>1. Core' /\ Cached' = Cached /\ \A c \in Blocks : Coherent(c) => Coherent(c)'
    BY <1>1, <1>9, FlushCore
  <2> QED BY <1>1, <1>9, <2>1, InvPartsNext DEF FlushSome, CacheInvParts
<1>10. ASSUME Remount PROVE CacheInv'
  <2>1. disk' \in [Blocks -> Vals]
    <3>1. \A b \in Cached : map[b] \in Nodes
      BY <1>1 DEF Core, CoreType, Cached
    <3> QED BY <1>1, <1>10, <3>1 DEF Remount, FlushDisk
  <2>2. Core' /\ Cached' = {}
    <3>1. EmptyCache'
      BY <1>10, <2>1 DEF Remount, EmptyCache
    <3> QED BY <3>1, EmptyCoreNext
  <2>3. \A c \in Blocks : Coherent(c)'
    BY <1>10 DEF Remount, Coherent
  <2> QED BY <1>1, <1>10, <2>2, <2>3, InvPartsNext DEF Remount, CacheInvParts
<1>11. CASE UNCHANGED vars
  <2>1. /\ Core' /\ Cached' = Cached
        /\ \A c \in Blocks : Coherent(c)' <=> Coherent(c)
    BY <1>1, <1>11
    DEF vars, Core, CoreType, ListMatchesMap, PoolPartition, Cached, Linked, Coherent
  <2> QED BY <1>1, <1>11, <2>1, InvPartsNext DEF vars, CacheInvParts
<1> QED BY <1>2, <1>3, <1>4, <1>5, <1>6, <1>7, <1>8, <1>9, <1>10, <1>11
        DEF Next, Flush, FlushInode

(***************************************************************************)
(* The theorems.                                                           *)
(***************************************************************************)
\* The cache object stays well formed and loses no write, for every sequence of
\* FileSystem calls.
THEOREM CacheInvariant == Spec => []CacheInv
BY InitInv, NextInv, PTL DEF Spec

\* Every variable keeps its type.
THEOREM TypeCorrect == Spec => []TypeOK
<1>1. CacheInv => TypeOK
  BY DEF CacheInv
<1> QED BY <1>1, CacheInvariant, PTL

\* The recency list of insert, get and remove holds the nodes of map_, so the
\* eviction in insert never runs into head_.
THEOREM ListSafe == Spec => []ListMatchesMap
<1>1. CacheInv => ListMatchesMap
  BY DEF CacheInv
<1> QED BY <1>1, CacheInvariant, PTL

\* free_entries_ and map_ share out the pool entries.
THEOREM PoolSafe == Spec => []PoolPartition
<1>1. CacheInv => PoolPartition
  BY DEF CacheInv
<1> QED BY <1>1, CacheInvariant, PTL

\* The assertion of insert on an index that is cached already holds: alloc_block
\* only inserts blocks that are not.
THEOREM AllocNeverCached == Spec => []CachedAreAllocated
<1>1. CacheInv => CachedAreAllocated
  BY DEF CacheInv
<1> QED BY <1>1, CacheInvariant, PTL

\* release may drop a clean block without writing it.
THEOREM EvictionLosesNothing == Spec => []CleanMatchesDisk
<1>1. CacheInv => CleanMatchesDisk
  BY DEF CacheInv
<1> QED BY <1>1, CacheInvariant, PTL

(***************************************************************************)
(* The refinement of BlockStore.                                           *)
(***************************************************************************)
StoreVal == [c \in written |-> Content(c)]

\* A step that touches block b only keeps the stored value of the others.
LEMMA ValueOfOthers ==
  ASSUME CacheInv, NEW b \in Blocks, OthersKept(b)
  PROVE  \A c \in written \ {b} : Content(c)' = Content(c)
<1>1. written \subseteq Blocks /\ \A c \in written : Coherent(c)
  BY InvParts DEF CacheInvParts
<1> QED BY <1>1 DEF OthersKept

\* Every operation is an operation of BlockStore.
LEMMA StepSimulation == CacheInv /\ [Next]_vars => [Store!Next]_(Store!storeVars)
<1> SUFFICES ASSUME CacheInv, [Next]_vars PROVE [Store!Next]_(Store!storeVars)
  OBVIOUS
<1> USE DEF Store!Blocks, Blocks, Store!storeVars
<1>1. /\ Core /\ bitmap \subseteq Blocks /\ written \subseteq bitmap
      /\ Cached \subseteq bitmap /\ disk \in [Blocks -> Vals] /\ block \in [Nodes -> Vals]
      /\ \A c \in written : Coherent(c)
  BY InvParts DEF CacheInvParts, Core, CoreType
<1>2. ASSUME NEW b \in Blocks, ReadHit(b) PROVE Store!Next
  <2>1. map[b] \in Nodes /\ block[map[b]] \in Vals /\ b \in bitmap
    BY <1>1, <1>2 DEF ReadHit, Core, CoreType, Cached
  <2>2. OthersKept(b) /\ Content(b)' = Content(b) /\ Content(b) = block[map[b]]
    BY <1>1, <1>2, <2>1, GetCore DEF ReadHit, Content
  <2>3. written' = written /\ bitmap' = bitmap /\ out' = <<b, Content(b)>>
    BY <1>2, <2>2 DEF ReadHit
  <2>4. StoreVal' = StoreVal
    BY <2>2, <2>3, ValueOfOthers DEF StoreVal
  <2>5. Content(b) \in Vals \cup {Fail} /\ Content(b) # Fail
    BY <2>1, <2>2, ValsAssumption
  <2>6. Store!Read(b)
    BY <2>1, <2>3, <2>4, <2>5 DEF Store!Read, StoreVal
  <2> QED BY <2>6 DEF Store!Next
<1>3. ASSUME NEW b \in Blocks, ReadMiss(b) PROVE Store!Next
  <2>1. disk[b] \in Vals /\ b \in bitmap
    BY <1>1, <1>3 DEF ReadMiss
  <2>2. OthersKept(b) /\ Content(b)' = Content(b) /\ Content(b) = disk[b]
    <3>1. map[b] = Null
      BY <1>3 DEF ReadMiss, Insert, InsertFree, InsertEvict
    <3> QED BY <1>1, <1>3, <2>1, <3>1, InsertCore DEF ReadMiss, Content
  <2>3. written' = written /\ bitmap' = bitmap /\ out' = <<b, Content(b)>>
    BY <1>3, <2>2 DEF ReadMiss
  <2>4. StoreVal' = StoreVal
    BY <2>2, <2>3, ValueOfOthers DEF StoreVal
  <2>5. Content(b) \in Vals \cup {Fail} /\ Content(b) # Fail
    BY <2>1, <2>2, ValsAssumption
  <2>6. Store!Read(b)
    BY <2>1, <2>3, <2>4, <2>5 DEF Store!Read, StoreVal
  <2> QED BY <2>6 DEF Store!Next
<1>4. ASSUME NEW b \in Blocks, ReadFail(b) PROVE Store!Next
  <2>1. /\ written' = written /\ bitmap' = bitmap /\ out' = <<b, Fail>>
        /\ b \notin bitmap /\ b \notin written
        /\ map' = map /\ block' = block /\ disk' = disk
    BY <1>1, <1>4 DEF ReadFail, cacheVars
  <2>2. StoreVal' = StoreVal
    BY <2>1 DEF StoreVal, Content
  <2>3. Store!Read(b)
    BY <2>1, <2>2 DEF Store!Read, StoreVal
  <2> QED BY <2>3 DEF Store!Next
<1>5. ASSUME NEW b \in Blocks, NEW v \in Vals, WriteBlock(b, v) PROVE Store!Next
  <2>1. OthersKept(b) /\ Content(b)' = v /\ b \in bitmap
    <3>1. CASE Get(b, v, TRUE)
      BY <1>1, <3>1, GetCore
    <3>2. CASE b \in bitmap /\ Insert(b, v, TRUE)
      BY <1>1, <3>2, InsertCore
    <3> QED BY <1>5, <3>1, <3>2 DEF WriteBlock
  <2>2. written' = written \cup {b} /\ bitmap' = bitmap /\ out' = << >>
    BY <1>5 DEF WriteBlock
  <2>3. StoreVal' = [c \in DOMAIN StoreVal \cup {b} |-> IF c = b THEN v ELSE StoreVal[c]]
    BY <2>1, <2>2, ValueOfOthers DEF StoreVal
  <2>4. Store!Write(b, v)
    BY <2>1, <2>2, <2>3 DEF Store!Write, StoreVal
  <2> QED BY <2>4 DEF Store!Next
<1>6. ASSUME NEW b \in Blocks, AllocBlock(b) PROVE Store!Next
  <2>1. OthersKept(b)
    BY <1>1, <1>6, InsertCore, ValsAssumption DEF AllocBlock
  <2>2. /\ b \notin bitmap /\ b \notin written
        /\ written' = written /\ bitmap' = bitmap \cup {b} /\ out' = << >>
    BY <1>1, <1>6 DEF AllocBlock, FirstFree
  <2>3. StoreVal' = StoreVal
    BY <2>1, <2>2, ValueOfOthers DEF StoreVal
  <2>4. Store!Alloc(b)
    BY <2>2, <2>3 DEF Store!Alloc, StoreVal
  <2> QED BY <2>4 DEF Store!Next
<1>7. ASSUME NEW b \in Blocks, NEW v \in Vals, AllocModify(b, v) PROVE Store!Next
  <2>1. OthersKept(b) /\ Content(b)' = v
    BY <1>1, <1>7, InsertCore DEF AllocModify
  <2>2. b \notin bitmap /\ written' = written \cup {b} /\ bitmap' = bitmap \cup {b} /\ out' = << >>
    BY <1>7 DEF AllocModify, FirstFree
  <2>3. StoreVal' = [c \in DOMAIN StoreVal \cup {b} |-> IF c = b THEN v ELSE StoreVal[c]]
    BY <2>1, <2>2, ValueOfOthers DEF StoreVal
  <2>4. Store!AllocWrite(b, v)
    BY <2>2, <2>3 DEF Store!AllocWrite, StoreVal
  <2> QED BY <2>4 DEF Store!Next
<1>8. ASSUME NEW b \in Blocks, FreeBlock(b) PROVE Store!Next
  <2>1. OthersKept(b)
    <3>1. CASE Remove(b)
      BY <1>1, <3>1, RemoveCore
    <3>2. CASE map[b] = Null /\ UNCHANGED <<cacheVars, disk>>
      BY <3>2 DEF cacheVars, OthersKept, Coherent, Content
    <3> QED BY <1>8, <3>1, <3>2 DEF FreeBlock
  <2>2. b \in bitmap /\ written' = written \ {b} /\ bitmap' = bitmap \ {b} /\ out' = << >>
    BY <1>8 DEF FreeBlock
  <2>3. StoreVal' = [c \in DOMAIN StoreVal \ {b} |-> StoreVal[c]]
    BY <2>1, <2>2, ValueOfOthers DEF StoreVal
  <2>4. Store!Free(b)
    BY <2>2, <2>3 DEF Store!Free, StoreVal
  <2> QED BY <2>4 DEF Store!Next
<1>9. ASSUME NEW S, FlushSome(S) PROVE Store!Next
  <2>1. \A c \in written : Content(c)' = Content(c)
    BY <1>1, <1>9, FlushCore
  <2>2. written' = written /\ bitmap' = bitmap /\ out' = << >>
    BY <1>9 DEF FlushSome
  <2>3. StoreVal' = StoreVal
    BY <2>1, <2>2 DEF StoreVal
  <2>4. Store!Maintain
    BY <2>2, <2>3 DEF Store!Maintain, StoreVal
  <2> QED BY <2>4 DEF Store!Next
<1>10. ASSUME Remount PROVE Store!Next
  <2>1. ASSUME NEW c \in written PROVE Content(c)' = Content(c)
    <3>1. c \in Blocks /\ Coherent(c)
      BY <1>1
    <3>2. map'[c] = Null /\ disk'[c] = FlushDisk(Blocks)[c]
      BY <1>10, <3>1 DEF Remount
    <3> QED BY <3>1, <3>2 DEF Content, Coherent, FlushDisk, Cached
  <2>2. written' = written /\ bitmap' = bitmap /\ out' = << >>
    BY <1>10 DEF Remount
  <2>3. StoreVal' = StoreVal
    BY <2>1, <2>2 DEF StoreVal
  <2>4. Store!Maintain
    BY <2>2, <2>3 DEF Store!Maintain, StoreVal
  <2> QED BY <2>4 DEF Store!Next
<1>11. CASE UNCHANGED vars
  BY <1>11 DEF vars, Content
<1> QED BY <1>2, <1>3, <1>4, <1>5, <1>6, <1>7, <1>8, <1>9, <1>10, <1>11
        DEF Next, Flush, FlushInode

\* The cache in front of the disk implements the plain store: get_block returns
\* the last value written, whatever was evicted, flushed or remounted since.
THEOREM Refinement == Spec => ImplementsBlockStore
<1>1. Init => Store!Init
  BY DEF Init, Store!Init
<1> QED BY <1>1, StepSimulation, CacheInvariant, PTL DEF Spec, Store!Spec, ImplementsBlockStore
=============================================================================
