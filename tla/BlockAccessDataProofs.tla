------------------------- MODULE BlockAccessDataProofs -------------------------
(***************************************************************************)
(* What the blocks of BlockAccess hold, for every number of threads,       *)
(* handles and files and every size of the cache: until a Block in use is  *)
(* deleted, threads that write to blocks of their own read back what they  *)
(* wrote, and an indirect block keeps its links.                           *)
(***************************************************************************)
EXTENDS BlockAccessProofs

\* The provers a step is given to in turn, with their time in seconds.
USE ZenonT(3), SMTT(40), ZenonT(60)
USE DEF At

(***************************************************************************)
(* Threads that write to blocks of their own.                              *)
(***************************************************************************)
Parts(x) == x = [u \in Threads |-> x[u]]

\* Cache c keeps v as the part of thread t in its block.
Keeping(c, t, v) ==
  /\ CleanOn(c, DataBlock(t))
  /\ Parts(c.mem[DataBlock(t)]) /\ Parts(c.disk[DataBlock(t)])
  /\ Val(c, DataBlock(t))[t] = v

\* A thread that is to insert its block is the only one that could have, and a
\* block it is to copy to is marked as dirty, if the cache still has it.
Ready(t, l, s, c) ==
  /\ l \in {"miss", "fill"} /\ Head(s).b = DataBlock(t) => DataBlock(t) \notin In(c)
  /\ l = "copy" /\ Head(s).w /\ Head(s).b = DataBlock(t) /\ DataBlock(t) \in In(c) => DataBlock(t) \in c.dirty

Owned(t) ==
  /\ Keeping(Cache, t, wrote[t])
  /\ got[t] = wrote[t]
  /\ Ready(t, pc[t], todo[t], Cache)

OwnInv == Parts(wrote) /\ Parts(got) /\ \A t \in Threads : Owned(t)

LEMMA DataBlocks ==
  ASSUME ~Shared, AllocInv
  PROVE  \A t, u \in Threads : /\ DataBlock(t) = DataBlock(u) => t = u
                               /\ DataBlock(t) \in Blocks /\ DataBlock(t) \notin Ptrs
                               /\ DataBlock(t) # DirBlock /\ DataBlock(t) \notin Allocated
<1> SUFFICES ASSUME NEW t \in Threads, NEW u \in Threads
             PROVE  /\ DataBlock(t) = DataBlock(u) => t = u
                    /\ DataBlock(t) \in Blocks /\ DataBlock(t) \notin Ptrs
                    /\ DataBlock(t) # DirBlock /\ DataBlock(t) \notin Allocated
  OBVIOUS
<1>1. DataBlock(t) = <<"data", t>> /\ DataBlock(u) = <<"data", u>>
  BY DEF DataBlock
<1>2. DataBlock(t) = DataBlock(u) => t = u
  BY <1>1
<1>3. DataBlock(t) \in Blocks
  BY DEF Blocks
<1>4. DataBlock(t) \notin Ptrs /\ DataBlock(t) # DirBlock
  BY <1>1 DEF Ptrs, PtrBlock, DirBlock
<1>5. DataBlock(t) \notin {NewBlock(k) : k \in 1 .. MaxNew}
  BY <1>1 DEF NewBlock
<1>6. Allocated \subseteq {NewBlock(k) : k \in 1 .. MaxNew}
  BY DEF AllocInv
<1> QED  BY <1>2, <1>3, <1>4, <1>5, <1>6

LEMMA OwnInit == Init => OwnInv
<1> SUFFICES ASSUME Init PROVE OwnInv
  OBVIOUS
<1>1. Parts(Zero) /\ \A t \in Threads : Zero[t] = 0
  BY DEF Parts, Zero
<1>2. wrote = Zero /\ got = Zero
  BY DEF Init
<1>3. ASSUME NEW t \in Threads PROVE Owned(t)
  <2>1. PICK b : b = DataBlock(t) /\ b \in Blocks
    BY DEF Blocks
  <2>2. Empty(b) = Zero
    BY <2>1 DEF DataBlock, Empty
  <2>3. Cache.mem[b] = Zero /\ Cache.disk[b] = Zero
    BY <2>1, <2>2 DEF Init, Cache
  <2>4. CleanOn(Cache, b) /\ Val(Cache, b) = Zero
    BY <2>3 DEF CleanOn, Val
  <2>5. Keeping(Cache, t, 0)
    BY <1>1, <2>1, <2>3, <2>4 DEF Keeping
  <2>6. pc[t] = "idle" /\ wrote[t] = 0 /\ got[t] = 0
    BY <1>1, <1>2 DEF Init
  <2> QED  BY <2>5, <2>6 DEF Owned, Ready
<1> QED  BY <1>1, <1>2, <1>3 DEF OwnInv

\* What a step of thread u leaves of the block of thread t.
LEMMA OwnedNext ==
  ASSUME NEW t \in Threads, Keeping(Cache', t, wrote'[t]), got'[t] = wrote'[t],
         Ready(t, pc'[t], todo'[t], Cache')
  PROVE  Owned(t)'
<1>1. /\ Keeping(Cache, t, wrote[t])' <=> Keeping(Cache', t, wrote'[t])
      /\ Ready(t, pc[t], todo[t], Cache)' <=> Ready(t, pc'[t], todo'[t], Cache')
  BY DEF Keeping, CleanOn, Val, In, Parts, DataBlock, Ready
<1> QED  BY <1>1 DEF Owned

\* The block of thread t in a cache where its content did not change.
LEMMA KeepingSame ==
  ASSUME NEW t \in Threads, NEW v, NEW c, NEW d, Keeping(c, t, v), NEW b, b = DataBlock(t),
         CleanOn(c, b) => Val(d, b) = Val(c, b) /\ CleanOn(d, b),
         d.mem[b] \in {c.mem[b], c.disk[b]}, d.disk[b] \in {c.mem[b], c.disk[b]}
  PROVE  Keeping(d, t, v)
BY DEF Keeping

\* The step of thread t, seen from thread u.
LEMMA OwnMoves ==
  ASSUME LockType, BlocksInv, NEW t \in Threads, NEW l, NEW k, NEW s, NEW p, Moves(t, l, k, s, p),
         Allocated \subseteq Allocated'
  PROVE  \A u \in Threads : pc'[u] = (IF u = t THEN l ELSE pc[u]) /\ todo'[u] = (IF u = t THEN s ELSE todo[u])
BY CallsMoved DEF BlocksInv

\* Another thread's block in a cache that keeps it as it was.
LEMMA ReadySame ==
  ASSUME NEW u \in Threads, NEW l, NEW s, NEW c, NEW d, Ready(u, l, s, c), NEW x, x = DataBlock(u),
         x \in In(d) => x \in In(c), x \in In(d) /\ x \in c.dirty => x \in d.dirty
  PROVE  Ready(u, l, s, d)
BY DEF Ready

LEMMA OwnQuiet ==
  ASSUME LockType, BlocksInv, OwnInv, NEW t \in Threads, NEW l, NEW k, NEW s, NEW p, QuietTo(t, l, k, s, p)
  PROVE  OwnInv'
<1>1. /\ Cache' = Cache /\ wrote' = wrote /\ got' = got /\ Moves(t, l, k, s, p) /\ l # "copy"
      /\ l \in {"miss", "fill"} => s = todo[t] /\ (pc[t] \in {"miss", "fill"} \/ Head(s).b \notin In(Cache))
      /\ Allocated' = Allocated
  BY DEF QuietTo, Cache, Allocated
<1>2. \A u \in Threads : pc'[u] = (IF u = t THEN l ELSE pc[u]) /\ todo'[u] = (IF u = t THEN s ELSE todo[u])
  BY <1>1, OwnMoves
<1>3. ASSUME NEW u \in Threads PROVE Owned(u)'
  <2>1. Keeping(Cache, u, wrote[u]) /\ got[u] = wrote[u] /\ Ready(u, pc[u], todo[u], Cache)
    BY DEF OwnInv, Owned
  <2>2. Ready(u, pc'[u], todo'[u], Cache)
    <3>1. CASE u = t
      BY <1>1, <1>2, <2>1, <3>1 DEF Ready
    <3>2. CASE u # t
      BY <1>2, <2>1, <3>2
    <3> QED  BY <3>1, <3>2
  <2> QED  BY <1>1, <2>1, <2>2, OwnedNext
<1> QED  BY <1>1, <1>3 DEF OwnInv, Parts

LEMMA OwnFetched ==
  ASSUME ~Shared, LockType, BlocksInv, OwnInv, NEW t \in Threads, NEW d, NEW m \in BOOLEAN, FetchedTo(t, d, m)
  PROVE  OwnInv'
<1>0. todo[t] # << >> /\ pc[t] \in {"probe", "fill"}
  BY DEF FetchedTo
<1>1. PICK b, w : b = Current(t).b /\ w = Current(t).w /\ w \in BOOLEAN
                  /\ b \in {DirBlock, DataBlock(t)} \cup Ptrs \cup Allocated
  BY <1>0, CurrentOp DEF OpOK
<1>2. /\ Cache' = d /\ wrote' = wrote /\ got' = got /\ Allocated' = Allocated
      /\ w /\ (pc[t] = "probe" \/ b \notin In(Cache)) => m
  BY <1>1 DEF FetchedTo, Allocated
<1>3. /\ b \in In(d) /\ In(d) \subseteq In(Cache) \cup {b} /\ (m => b \in d.dirty)
      /\ \A x \in Blocks :
           /\ CleanOn(Cache, x) => Val(d, x) = Val(Cache, x) /\ CleanOn(d, x)
           /\ d.mem[x] \in {Cache.mem[x], Cache.disk[x]}
           /\ d.disk[x] \in {Cache.mem[x], Cache.disk[x]}
           /\ x \in In(d) /\ x \in Cache.dirty => x \in d.dirty
  BY <1>1 DEF FetchedTo, Fetches
<1>4. \A u \in Threads : pc'[u] = (IF u = t THEN "copy" ELSE pc[u]) /\ todo'[u] = todo[u]
  <2>1. PICK k, s : k = kind[t] /\ s = todo[t]
    OBVIOUS
  <2>2. Moves(t, "copy", k, s, b)
    BY <1>1, <2>1 DEF FetchedTo
  <2>3. \A u \in Threads : pc'[u] = (IF u = t THEN "copy" ELSE pc[u]) /\ todo'[u] = (IF u = t THEN s ELSE todo[u])
    BY <1>2, <2>2, OwnMoves
  <2> QED  BY <2>1, <2>3
<1>5. AllocInv
  BY DEF BlocksInv
<1>6. ASSUME NEW u \in Threads PROVE Owned(u)'
  <2>1. PICK x : x = DataBlock(u)
    OBVIOUS
  <2>2. x \in Blocks /\ (x = DataBlock(t) => u = t) /\ x \notin {DirBlock} \cup Ptrs \cup Allocated
    BY <1>5, <2>1, DataBlocks
  <2>3. Keeping(Cache, u, wrote[u]) /\ got[u] = wrote[u] /\ Ready(u, pc[u], todo[u], Cache)
    BY DEF OwnInv, Owned
  <2>4. Keeping(d, u, wrote[u])
    BY <1>3, <2>1, <2>2, <2>3, KeepingSame DEF Keeping
  <2>5. Ready(u, pc'[u], todo'[u], d)
    <3>1. CASE u # t
      <4>1. x # b
        BY <1>1, <2>2, <3>1
      <4>2. Ready(u, pc[u], todo[u], d)
        BY <1>3, <2>1, <2>2, <2>3, <4>1, ReadySame
      <4> QED  BY <1>4, <3>1, <4>2
    <3>2. CASE u = t
      <4>1. ASSUME w, b = x PROVE x \in d.dirty
        <5>1. pc[t] = "fill" => x \notin In(Cache)
          BY <1>1, <2>1, <2>3, <3>2, <4>1 DEF Ready, Current
        <5> QED  BY <1>0, <1>2, <1>3, <4>1, <5>1
      <4> QED  BY <1>1, <1>4, <2>1, <3>2, <4>1 DEF Ready, Current
    <3> QED  BY <3>1, <3>2
  <2> QED  BY <1>2, <2>3, <2>4, <2>5, OwnedNext
<1> QED  BY <1>2, <1>6 DEF OwnInv, Parts

\* A step that writes only to block b leaves the threads that do not own it alone.
LEMMA OwnOthers ==
  ASSUME ~Shared, AllocInv, OwnInv, NEW b, OnlyIn(b), NEW u \in Threads, DataBlock(u) # b
  PROVE  Keeping(Cache', u, wrote[u]) /\ Ready(u, pc[u], todo[u], Cache')
<1>1. PICK x : x = DataBlock(u) /\ x \in Blocks \ {b}
  BY DataBlocks
<1>2. Keeping(Cache, u, wrote[u]) /\ Ready(u, pc[u], todo[u], Cache)
  BY DEF OwnInv, Owned
<1>3. /\ Cache'.mem[x] = Cache.mem[x] /\ Cache'.disk[x] = Cache.disk[x]
      /\ (x \in Cache'.dirty <=> x \in Cache.dirty) /\ (x \in In(Cache') <=> x \in In(Cache))
  BY <1>1 DEF OnlyIn
<1>4. Keeping(Cache', u, wrote[u])
  BY <1>1, <1>2, <1>3 DEF Keeping, CleanOn, Val
<1> QED  BY <1>1, <1>2, <1>3, <1>4, ReadySame

LEMMA OwnCopied ==
  ASSUME ~Shared, LockType, BlocksInv, OwnInv, NEW t \in Threads, NEW p, CopiedTo(t, p)
  PROVE  OwnInv'
<1>0. todo[t] # << >> /\ pc[t] = "copy" /\ ptr[t] = Current(t).b /\ ~Undefined /\ AllocInv
      /\ CacheOK(Cache) /\ Parts(wrote) /\ Parts(got)
  BY DEF CopiedTo, Moves, BlocksInv, OwnInv
<1>1. PICK b, w : b = Current(t).b /\ w = Current(t).w /\ w \in BOOLEAN /\ b \in Blocks
                  /\ b \in {DirBlock, DataBlock(t)} \cup Ptrs \cup Allocated
  BY <1>0, CurrentOp DEF OpOK
<1>2. /\ OnlyIn(b) /\ Cache'.dirty = Cache.dirty /\ Allocated' = Allocated
      /\ Cache'.mem[b] = IF w THEN [Cache.mem[b] EXCEPT ![t] = calls[t]] ELSE Cache.mem[b]
      /\ wrote' = IF w /\ b = DataBlock(t) THEN [wrote EXCEPT ![t] = calls[t]] ELSE wrote
      /\ got' = IF b = DataBlock(t) THEN [got EXCEPT ![t] = Cache'.mem[b][t]] ELSE got
  BY <1>1 DEF CopiedTo, Allocated
<1>3. b \in In(Cache)
  <2>1. ptr[t] # NoBlock
    BY <1>0, <1>1, NoBlockAssumption
  <2> QED  BY <1>0, <1>1, <2>1, PtrCached
<1>4. \A u \in Threads : pc'[u] = (IF u = t THEN "run" ELSE pc[u]) /\ (u # t => todo'[u] = todo[u])
  <2>1. PICK k, s : k = kind[t] /\ s = Tail(todo[t])
    OBVIOUS
  <2>2. Moves(t, "run", k, s, p)
    BY <2>1 DEF CopiedTo
  <2>3. \A u \in Threads : pc'[u] = (IF u = t THEN "run" ELSE pc[u]) /\ todo'[u] = (IF u = t THEN s ELSE todo[u])
    BY <1>2, <2>2, OwnMoves
  <2> QED  BY <2>3
<1>5. Parts(wrote)' /\ Parts(got)'
  BY <1>0, <1>2 DEF Parts
<1>6. ASSUME NEW u \in Threads PROVE Owned(u)'
  <2>1. PICK x : x = DataBlock(u)
    OBVIOUS
  <2>2. (x = DataBlock(t) => u = t) /\ x \notin {DirBlock} \cup Ptrs \cup Allocated
    BY <1>0, <2>1, DataBlocks
  <2>3. Keeping(Cache, u, wrote[u]) /\ got[u] = wrote[u] /\ Ready(u, pc[u], todo[u], Cache)
    BY DEF OwnInv, Owned
  <2>4. CASE b # x
    <3>1. Keeping(Cache', u, wrote[u]) /\ Ready(u, pc[u], todo[u], Cache')
      BY <1>0, <1>2, <2>1, <2>4, OwnOthers
    <3>2. wrote'[u] = wrote[u] /\ got'[u] = got[u]
      BY <1>0, <1>2, <2>1, <2>4 DEF Parts
    <3>3. Ready(u, pc'[u], todo'[u], Cache')
      BY <1>4, <3>1 DEF Ready
    <3> QED  BY <2>3, <3>1, <3>2, <3>3, OwnedNext
  <2>5. CASE b = x
    <3>1. u = t /\ b = DataBlock(t)
      BY <1>1, <2>1, <2>2, <2>5
    <3>2. Parts(Cache.mem[b]) /\ Parts(Cache.disk[b]) /\ CleanOn(Cache, b) /\ Cache.mem[b][t] = wrote[t]
      BY <1>3, <2>3, <3>1 DEF Keeping, Val
    <3>3. b \in In(Cache') /\ Cache'.disk = Cache.disk
      BY <1>2, <1>3 DEF OnlyIn
    <3>4. Ready(t, pc'[t], todo'[t], Cache')
      BY <1>4 DEF Ready
    <3>5. CASE w
      <4>1. b \in Cache'.dirty
        BY <1>0, <1>1, <1>2, <1>3, <2>3, <3>1, <3>5 DEF Ready, Current
      <4>2. Cache'.mem[b] = [Cache.mem[b] EXCEPT ![t] = calls[t]]
        BY <1>2, <3>5
      <4>3. Parts(Cache'.mem[b]) /\ Cache'.mem[b][t] = calls[t]
        BY <3>2, <4>2 DEF Parts
      <4>4. Keeping(Cache', t, calls[t])
        BY <3>1, <3>2, <3>3, <4>1, <4>3 DEF Keeping, CleanOn, Val
      <4>5. wrote'[t] = calls[t] /\ got'[t] = calls[t]
        BY <1>0, <1>2, <3>1, <3>5, <4>3 DEF Parts
      <4> QED  BY <3>1, <3>4, <4>4, <4>5, OwnedNext
    <3>6. CASE ~w
      <4>1. Cache'.mem[b] = Cache.mem[b] /\ (b \in Cache'.dirty <=> b \in Cache.dirty)
        BY <1>2, <3>6
      <4>2. Keeping(Cache', t, wrote[t])
        <5>1. Cache'.disk[b] = Cache.disk[b] /\ Val(Cache', b) = Cache.mem[b] /\ (CleanOn(Cache', b) <=> CleanOn(Cache, b))
          BY <1>3, <3>3, <4>1 DEF CleanOn, Val
        <5> QED  BY <3>1, <3>2, <4>1, <5>1 DEF Keeping
      <4>3. wrote' = wrote /\ got'[t] = wrote[t]
        <5>1. wrote' = wrote /\ got' = [got EXCEPT ![t] = Cache'.mem[b][t]]
          BY <1>2, <3>1, <3>6
        <5>2. Cache'.mem[b][t] = wrote[t]
          BY <3>2, <4>1
        <5> QED  BY <1>0, <5>1, <5>2 DEF Parts
      <4> QED  BY <3>1, <3>4, <4>2, <4>3, OwnedNext
    <3> QED  BY <1>1, <3>5, <3>6
  <2> QED  BY <2>4, <2>5
<1> QED  BY <1>5, <1>6 DEF OwnInv

LEMMA OwnAllocated ==
  ASSUME ~Shared, LockType, BlocksInv, OwnInv, NEW t \in Threads, NEW b, NEW s, AllocatedTo(t, b, s)
  PROVE  OwnInv'
<1>1. /\ b \notin {DataBlock(u) : u \in Threads} /\ In(Cache') \subseteq In(Cache) \cup {b}
      /\ \A x \in Blocks \ {b} :
           /\ CleanOn(Cache, x) => Val(Cache', x) = Val(Cache, x) /\ CleanOn(Cache', x)
           /\ Cache'.mem[x] = Cache.mem[x]
           /\ Cache'.disk[x] \in {Cache.mem[x], Cache.disk[x]}
           /\ x \in In(Cache') /\ x \in Cache.dirty => x \in Cache'.dirty
      /\ wrote' = wrote /\ got' = got /\ Allocated \subseteq Allocated'
  BY DEF AllocatedTo
<1>2. AllocInv
  BY DEF BlocksInv
<1>3. \A u \in Threads : pc'[u] = (IF u = t THEN "run" ELSE pc[u]) /\ (u # t => todo'[u] = todo[u])
  <2>1. PICK k, p : k = kind[t] /\ p = ptr[t]
    OBVIOUS
  <2>2. Moves(t, "run", k, s, p)
    BY <2>1 DEF AllocatedTo
  <2>3. \A u \in Threads : pc'[u] = (IF u = t THEN "run" ELSE pc[u]) /\ todo'[u] = (IF u = t THEN s ELSE todo[u])
    BY <1>1, <2>2, OwnMoves
  <2> QED  BY <2>3
<1>4. ASSUME NEW u \in Threads PROVE Owned(u)'
  <2>1. PICK x : x = DataBlock(u)
    OBVIOUS
  <2>2. x \in Blocks \ {b}
    BY <1>1, <1>2, <2>1, DataBlocks
  <2>3. Keeping(Cache, u, wrote[u]) /\ got[u] = wrote[u] /\ Ready(u, pc[u], todo[u], Cache)
    BY DEF OwnInv, Owned
  <2>4. PICK c, e : c = Cache /\ e = Cache'
    OBVIOUS
  <2>5. /\ CleanOn(c, x) => Val(e, x) = Val(c, x) /\ CleanOn(e, x)
        /\ e.mem[x] \in {c.mem[x], c.disk[x]} /\ e.disk[x] \in {c.mem[x], c.disk[x]}
        /\ x \in In(e) => x \in In(c)
        /\ x \in In(e) /\ x \in c.dirty => x \in e.dirty
        /\ Keeping(c, u, wrote[u]) /\ Ready(u, pc[u], todo[u], c)
    BY <1>1, <2>2, <2>3, <2>4
  <2>6. Keeping(e, u, wrote[u])
    BY <2>1, <2>5, KeepingSame
  <2>7. Ready(u, pc[u], todo[u], e)
    BY <2>1, <2>5, ReadySame
  <2>8. Ready(u, pc'[u], todo'[u], e)
    BY <1>3, <2>7 DEF Ready
  <2> QED  BY <1>1, <2>3, <2>4, <2>6, <2>8, OwnedNext
<1> QED  BY <1>1, <1>4 DEF OwnInv, Parts

\* alloc_block stores a link or marks its block.
LEMMA OwnLinked ==
  ASSUME ~Shared, LockType, BlocksInv, OwnInv, NEW t \in Threads, NEW f \in Files, NEW p, OnlyIn(PtrBlock(f)),
         Moves(t, "run", kind[t], Tail(todo[t]), p), linked' = linked, wrote' = wrote, got' = got
  PROVE  OwnInv'
<1>1. AllocInv /\ Allocated' = Allocated /\ PtrBlock(f) \in Ptrs
  BY DEF BlocksInv, Allocated, Ptrs
<1>2. \A u \in Threads : pc'[u] = (IF u = t THEN "run" ELSE pc[u]) /\ (u # t => todo'[u] = todo[u])
  <2>1. PICK k, s : k = kind[t] /\ s = Tail(todo[t])
    OBVIOUS
  <2>2. Moves(t, "run", k, s, p)
    BY <2>1
  <2>3. \A u \in Threads : pc'[u] = (IF u = t THEN "run" ELSE pc[u]) /\ todo'[u] = (IF u = t THEN s ELSE todo[u])
    BY <1>1, <2>2, OwnMoves
  <2> QED  BY <2>3
<1>3. ASSUME NEW u \in Threads PROVE Owned(u)'
  <2>1. DataBlock(u) # PtrBlock(f)
    BY <1>1, DataBlocks
  <2>2. Keeping(Cache', u, wrote[u]) /\ Ready(u, pc[u], todo[u], Cache')
    BY <1>1, <2>1, OwnOthers
  <2>3. Ready(u, pc'[u], todo'[u], Cache') /\ got[u] = wrote[u]
    BY <1>2, <2>2 DEF Ready, OwnInv, Owned
  <2> QED  BY <2>2, <2>3, OwnedNext
<1> QED  BY <1>3 DEF OwnInv, Parts

LEMMA OwnNext == ~Shared /\ LockInv /\ BlocksInv /\ OwnInv /\ [Next]_vars => OwnInv'
<1> SUFFICES ASSUME ~Shared, LockInv, BlocksInv, OwnInv, [Next]_vars PROVE OwnInv'
  OBVIOUS
<1>0. LockType
  BY DEF LockInv
<1>1. CASE Next
  <2>1. PICK t \in Threads : StepOf(t)
    BY <1>1, StepsOf
  <2>2. ASSUME NEW l, NEW k, NEW s, NEW p, QuietTo(t, l, k, s, p) PROVE OwnInv'
    BY <1>0, <2>2, OwnQuiet
  <2>3. ASSUME NEW d, NEW m \in BOOLEAN, FetchedTo(t, d, m) PROVE OwnInv'
    BY <1>0, <2>3, OwnFetched
  <2>4. ASSUME NEW p, CopiedTo(t, p) PROVE OwnInv'
    BY <1>0, <2>4, OwnCopied
  <2>5. ASSUME NEW b, NEW s, AllocatedTo(t, b, s) PROVE OwnInv'
    BY <1>0, <2>5, OwnAllocated
  <2>6. CASE LinkedTo(t, File(t))
    <3>1. PICK f, p : f = File(t) /\ p = ptr[t]
      OBVIOUS
    <3>2. /\ f \in Files /\ OnlyIn(PtrBlock(f)) /\ Moves(t, "run", kind[t], Tail(todo[t]), p)
          /\ linked' = linked /\ wrote' = wrote /\ got' = got
      BY <2>6, <3>1 DEF LinkedTo
    <3> QED  BY <1>0, <3>2, OwnLinked
  <2>7. CASE MarkedTo(t, File(t))
    <3>1. PICK f : f = File(t)
      OBVIOUS
    <3>2. /\ f \in Files /\ OnlyIn(PtrBlock(f)) /\ Moves(t, "run", kind[t], Tail(todo[t]), NoBlock)
          /\ linked' = linked /\ wrote' = wrote /\ got' = got
      BY <2>7, <3>1 DEF MarkedTo
    <3> QED  BY <1>0, <3>2, OwnLinked
  <2> QED  BY <2>1, <2>2, <2>3, <2>4, <2>5, <2>6, <2>7 DEF StepOf, Quiet
<1>2. CASE UNCHANGED vars
  <2>1. Cache' = Cache
    BY <1>2 DEF vars, Cache
  <2>2. ASSUME NEW u \in Threads PROVE Owned(u)'
    <3>1. Owned(u) /\ wrote' = wrote /\ got' = got /\ pc' = pc /\ todo' = todo
      BY <1>2 DEF OwnInv, vars
    <3> QED  BY <2>1, <3>1, OwnedNext DEF Owned
  <2> QED  BY <1>2, <2>2 DEF vars, OwnInv, Parts
<1> QED  BY <1>1, <1>2

\* Threads that write to blocks of their own read back what they wrote last,
\* whatever is evicted, written back and read again between, and whatever other
\* calls do between get and the copy: until a Block is deleted that is in use.
THEOREM OwnWrites ==
  ASSUME ~Shared
  PROVE  Spec => []ReadsOwnWrites
<1>1. OwnInv => ReadsOwnWrites
  BY DEF OwnInv, Owned, ReadsOwnWrites
<1>2. OwnInv /\ LockInv /\ BlocksInv /\ [Next]_vars => OwnInv'
  BY OwnNext
<1> QED  BY <1>1, <1>2, OwnInit, LocksHeld, BlocksHeld, PTL DEF Spec

(***************************************************************************)
(* Links in indirect blocks.                                               *)
(***************************************************************************)
\* Cache c holds the links l in block p: all of them, but while one is to be
\* stored (lk), and marked as dirty when the disk has not got them, but while
\* the block is to be marked (mk).
StoredIn(c, p, l, mk, lk) ==
  /\ c.mem[p] \subseteq l /\ c.disk[p] \subseteq l
  /\ ~mk => CleanOn(c, p)
  /\ mk /\ p \in In(c) => c.mem[p] = l
  /\ ~lk => Val(c, p) = l

MarksFor(f) == \E t \in Threads : Marking(todo[t]) /\ File(t) = f
LinksFor(f) == \E t \in Threads : Links(todo[t]) /\ File(t) = f

Stored(f) == StoredIn(Cache, PtrBlock(f), linked[f], MarksFor(f), LinksFor(f))

LinkInv == \A f \in Files : Stored(f)

LEMMA LinkInit == Init => LinkInv
<1> SUFFICES ASSUME Init, NEW f \in Files PROVE Stored(f)
  BY DEF LinkInv
<1>1. PtrBlock(f) \in Blocks /\ Empty(PtrBlock(f)) = {}
  BY DEF Blocks, PtrBlock, Empty
<1>2. Cache.mem[PtrBlock(f)] = {} /\ Cache.disk[PtrBlock(f)] = {} /\ linked[f] = {}
  BY <1>1 DEF Init, Cache
<1>3. ~MarksFor(f)
  BY DEF Init, MarksFor, Marking
<1> QED  BY <1>2, <1>3 DEF Stored, StoredIn, CleanOn, Val

LEMMA PtrBlocks ==
  ASSUME NEW f \in Files, NEW g \in Files
  PROVE  /\ PtrBlock(f) \in Blocks /\ PtrBlock(f) \in Ptrs
         /\ PtrBlock(f) = PtrBlock(g) => f = g
BY DEF PtrBlock, Blocks, Ptrs

LEMMA StoredNext ==
  ASSUME NEW f \in Files, on' = on, NEW mk \in BOOLEAN, NEW lk \in BOOLEAN,
         StoredIn(Cache', PtrBlock(f), linked'[f], mk, lk),
         mk <=> \E u \in Threads : Marking(todo'[u]) /\ File(u) = f,
         lk <=> \E u \in Threads : Links(todo'[u]) /\ File(u) = f
  PROVE  Stored(f)'
<1>1. \A u : (Links(todo[u])' <=> Links(todo'[u])) /\ (Marking(todo[u])' <=> Marking(todo'[u])) /\ File(u)' = File(u)
  BY DEF Links, Marking, File
<1>2. (MarksFor(f)' <=> mk) /\ (LinksFor(f)' <=> lk)
  BY <1>1 DEF MarksFor, LinksFor
<1>3. PICK c, p, l : c = Cache' /\ p = PtrBlock(f) /\ l = linked'[f]
  OBVIOUS
<1>4. StoredIn(c, p, l, MarksFor(f)', LinksFor(f)')
  BY <1>2, <1>3 DEF StoredIn
<1>5. Stored(f)' <=> StoredIn(c, p, l, MarksFor(f)', LinksFor(f)')
  BY <1>3 DEF Stored, StoredIn, CleanOn, Val, In, PtrBlock
<1> QED  BY <1>4, <1>5

\* A thread that is to mark an indirect block has it in the cache.
LEMMA MarkingHas ==
  ASSUME LockInv, BlocksInv, NEW u \in Threads, Marking(todo[u])
  PROVE  /\ Links(todo[u]) /\ kind[u] = "extend" /\ pc[u] = "run" /\ Running(u)
         /\ ptr[u] = PtrBlock(File(u)) /\ File(u) \in Files
         /\ ~Undefined => PtrBlock(File(u)) \in In(Cache)
<1>1. CallOK(u, pc[u], kind[u], todo[u], Allocated) /\ CacheOK(Cache)
  BY DEF BlocksInv, CallsInv
<1>2. todo[u] # << >> /\ Current(u).op = "modify" /\ todo[u] \in Seq(Ops)
  BY <1>1 DEF Marking, CallOK, Current
<1>3. Head(todo[u]) \in Range(todo[u])
  BY <1>2, TailParts
<1>4. Links(todo[u])
  BY <1>2, <1>3 DEF Links, Current
<1>5. kind[u] = "extend"
  BY <1>1, <1>4 DEF CallOK
<1>6. pc[u] = "run"
  BY <1>1, <1>2 DEF CallOK, Current
<1>7. ptr[u] = PtrBlock(File(u)) /\ File(u) \in Files /\ PtrBlock(File(u)) \in Blocks
  BY <1>2, <1>6, LinkOp
<1>8. ~Undefined => PtrBlock(File(u)) \in In(Cache)
  <2>1. ptr[u] # NoBlock
    BY <1>7, NoBlockAssumption
  <2> QED  BY <1>1, <1>7, <2>1, PtrCached
<1>9. Running(u)
  BY <1>6 DEF Running
<1> QED  BY <1>4, <1>5, <1>6, <1>7, <1>8, <1>9

LEMMA MarksHave ==
  ASSUME LockInv, BlocksInv, NEW f \in Files, MarksFor(f)
  PROVE  LinksFor(f) /\ (~Undefined => PtrBlock(f) \in In(Cache))
<1>1. PICK u \in Threads : Marking(todo[u]) /\ File(u) = f
  BY DEF MarksFor
<1> QED  BY <1>1, MarkingHas DEF LinksFor

\* What holds of every step that does not write to the indirect block of f.
LEMMA LinkSame ==
  ASSUME LockInv, BlocksInv, LinkInv, ~Undefined, NEW f \in Files, NEW p, p = PtrBlock(f), on' = on,
         linked'[f] = linked[f],
         CleanOn(Cache, p) => Val(Cache', p) = Val(Cache, p) /\ CleanOn(Cache', p),
         Cache'.mem[p] \in {Cache.mem[p], Cache.disk[p]},
         Cache'.disk[p] \in {Cache.mem[p], Cache.disk[p]},
         p \in In(Cache) => Cache'.mem[p] = Cache.mem[p],
         \A u \in Threads : File(u) = f =>
           (Links(todo'[u]) <=> Links(todo[u])) /\ (Marking(todo'[u]) <=> Marking(todo[u]))
  PROVE  Stored(f)'
<1>1. PICK mk, lk, l : mk = MarksFor(f) /\ lk = LinksFor(f) /\ l = linked[f]
  OBVIOUS
<1>2. mk \in BOOLEAN /\ lk \in BOOLEAN
  BY <1>1 DEF MarksFor, LinksFor
<1>3. StoredIn(Cache, p, l, mk, lk)
  BY <1>1 DEF LinkInv, Stored
<1>4. mk => lk /\ p \in In(Cache)
  BY <1>1, MarksHave
<1>5. StoredIn(Cache', p, l, mk, lk)
  BY <1>2, <1>3, <1>4 DEF StoredIn
<1>6. /\ mk <=> \E u \in Threads : Marking(todo'[u]) /\ File(u) = f
      /\ lk <=> \E u \in Threads : Links(todo'[u]) /\ File(u) = f
  BY <1>1 DEF MarksFor, LinksFor
<1> QED  BY <1>1, <1>2, <1>5, <1>6, StoredNext

LEMMA LinkQuiet ==
  ASSUME LockInv, BlocksInv, LinkInv, NEW t \in Threads, NEW l, NEW k, NEW s, NEW p, QuietTo(t, l, k, s, p)
  PROVE  LinkInv'
<1> SUFFICES ASSUME NEW f \in Files PROVE Stored(f)'
  BY DEF LinkInv
<1>1. /\ Cache' = Cache /\ on' = on /\ linked' = linked /\ ~Undefined /\ Allocated' = Allocated
      /\ Moves(t, l, k, s, p) /\ (Links(s) <=> Links(todo[t])) /\ (Marking(s) <=> Marking(todo[t]))
  BY DEF QuietTo, Cache, Moves, Allocated
<1>2. \A u \in Threads : todo'[u] = IF u = t THEN s ELSE todo[u]
  BY <1>1, OwnMoves DEF LockInv
<1>3. \A u \in Threads : (Links(todo'[u]) <=> Links(todo[u])) /\ (Marking(todo'[u]) <=> Marking(todo[u]))
  BY <1>1, <1>2
<1> QED  BY <1>1, <1>3, LinkSame

LEMMA LinkFetched ==
  ASSUME LockInv, BlocksInv, LinkInv, NEW t \in Threads, NEW d, NEW m \in BOOLEAN, FetchedTo(t, d, m)
  PROVE  LinkInv'
<1> SUFFICES ASSUME NEW f \in Files PROVE Stored(f)'
  BY DEF LinkInv
<1>1. PICK p : p = PtrBlock(f) /\ p \in Blocks
  BY PtrBlocks
<1>2. /\ Cache' = d /\ on' = on /\ linked' = linked /\ ~Undefined
      /\ todo' = [todo EXCEPT ![t] = todo[t]] /\ todo \in [Threads -> Seq(Ops)]
  BY DEF FetchedTo, Moves, BlocksInv, CallsInv
<1>3. /\ CleanOn(Cache, p) => Val(d, p) = Val(Cache, p) /\ CleanOn(d, p)
      /\ d.mem[p] \in {Cache.mem[p], Cache.disk[p]}
      /\ d.disk[p] \in {Cache.mem[p], Cache.disk[p]}
      /\ p \in In(Cache) => d.mem[p] = Cache.mem[p]
  BY <1>1 DEF FetchedTo, Fetches
<1>4. todo' = todo
  BY <1>2
<1> QED  BY <1>1, <1>2, <1>3, <1>4, LinkSame

LEMMA LinkCopied ==
  ASSUME LockInv, BlocksInv, LinkInv, NEW t \in Threads, NEW q, CopiedTo(t, q)
  PROVE  LinkInv'
<1> SUFFICES ASSUME NEW f \in Files PROVE Stored(f)'
  BY DEF LinkInv
<1>0. todo[t] # << >> /\ ~Undefined /\ on' = on /\ linked' = linked /\ Allocated' = Allocated
  BY DEF CopiedTo, Moves, Allocated
<1>1. PICK b, w, p : b = Current(t).b /\ w = Current(t).w /\ w \in BOOLEAN /\ (w => b \notin Ptrs)
                     /\ p = PtrBlock(f) /\ p \in Blocks /\ p \in Ptrs
  BY <1>0, CurrentOp, PtrBlocks DEF OpOK
<1>2. /\ OnlyIn(b) /\ Cache'.dirty = Cache.dirty /\ (~w => Cache'.mem[b] = Cache.mem[b])
  BY <1>1 DEF CopiedTo
<1>3. /\ Cache'.mem[p] = Cache.mem[p] /\ (p \in Cache'.dirty <=> p \in Cache.dirty)
      /\ (p \in In(Cache') <=> p \in In(Cache)) /\ Cache'.disk[p] = Cache.disk[p]
  BY <1>1, <1>2 DEF OnlyIn
<1>4. Val(Cache', p) = Val(Cache, p) /\ (CleanOn(Cache', p) <=> CleanOn(Cache, p))
  BY <1>3 DEF Val, CleanOn
<1>5. PICK k, s : k = kind[t] /\ s = Tail(todo[t])
  OBVIOUS
<1>6. Moves(t, "run", k, s, q) /\ (Links(s) <=> Links(todo[t])) /\ ~Marking(s) /\ ~Marking(todo[t])
  BY <1>5 DEF CopiedTo
<1>7. \A u \in Threads : todo'[u] = IF u = t THEN s ELSE todo[u]
  BY <1>0, <1>6, OwnMoves DEF LockInv
<1>8. \A u \in Threads : (Links(todo'[u]) <=> Links(todo[u])) /\ (Marking(todo'[u]) <=> Marking(todo[u]))
  BY <1>6, <1>7
<1> QED  BY <1>0, <1>1, <1>3, <1>4, <1>8, LinkSame

LEMMA LinkAllocated ==
  ASSUME LockInv, BlocksInv, LinkInv, NEW t \in Threads, NEW b, NEW s, AllocatedTo(t, b, s)
  PROVE  LinkInv'
<1> SUFFICES ASSUME NEW f \in Files PROVE Stored(f)'
  BY DEF LinkInv
<1>1. PICK p : p = PtrBlock(f) /\ p \in Blocks /\ p \in Ptrs
  BY PtrBlocks
<1>2. PICK c, e : c = Cache /\ e = Cache'
  OBVIOUS
<1>3. /\ b \notin Ptrs /\ on' = on /\ ~Undefined
      /\ \A x \in Blocks \ {b} :
           /\ CleanOn(c, x) => Val(e, x) = Val(c, x) /\ CleanOn(e, x)
           /\ e.mem[x] = c.mem[x]
           /\ e.disk[x] \in {c.mem[x], c.disk[x]}
      /\ linked' = [linked EXCEPT ![File(t)] = @ \cup {b}]
      /\ Allocated \subseteq Allocated' /\ Links(s) /\ ~Marking(s)
      /\ pc[t] = "insert" /\ kind[t] = "extend" /\ todo[t] = << >>
  BY <1>2 DEF AllocatedTo, Moves
<1>4. linked = [g \in Files |-> linked[g]]
  BY DEF BlocksInv, AllocInv
<1>5. linked'[f] = IF f = File(t) THEN linked[f] \cup {b} ELSE linked[f]
  BY <1>3, <1>4
<1>6. \A u \in Threads : todo'[u] = IF u = t THEN s ELSE todo[u]
  <2>1. PICK k, q : k = kind[t] /\ q = ptr[t]
    OBVIOUS
  <2>2. Moves(t, "run", k, s, q)
    BY <2>1 DEF AllocatedTo
  <2> QED  BY <1>3, <2>2, OwnMoves DEF LockInv
<1>7. /\ CleanOn(c, p) => Val(e, p) = Val(c, p) /\ CleanOn(e, p)
      /\ e.mem[p] = c.mem[p] /\ e.disk[p] \in {c.mem[p], c.disk[p]}
  BY <1>1, <1>3
<1>8. ~Links(todo[t]) /\ ~Marking(todo[t])
  BY <1>3 DEF Links, Marking, Range
<1>9. CASE File(t) # f
  <2>1. \A u \in Threads : File(u) = f => todo'[u] = todo[u]
    BY <1>6, <1>9
  <2> QED  BY <1>1, <1>2, <1>3, <1>5, <1>7, <1>9, <2>1, LinkSame
<1>10. CASE File(t) = f
  <2>1. \A u \in Threads : ~(Marking(todo[u]) /\ File(u) = f)
    <3> SUFFICES ASSUME NEW u \in Threads, Marking(todo[u]), File(u) = f PROVE FALSE
      OBVIOUS
    <3>1. u # t
      BY <1>8
    <3>2. Running(u) /\ Extending(t)
      BY <1>3, MarkingHas DEF Extending
    <3>3. FileOf[on[t]] # FileOf[on[u]]
      BY <3>1, <3>2, InvExcludes DEF CallsExclude
    <3> QED  BY <1>10, <3>3 DEF File
  <2>2. \A u \in Threads : ~(Marking(todo'[u]) /\ File(u) = f)
    BY <1>3, <1>6, <2>1
  <2>3. \E u \in Threads : Links(todo'[u]) /\ File(u) = f
    BY <1>3, <1>6, <1>10
  <2>4. StoredIn(c, p, linked[f], FALSE, LinksFor(f))
    BY <1>1, <1>2, <2>1 DEF LinkInv, Stored, StoredIn, MarksFor
  <2>5. StoredIn(e, p, linked'[f], FALSE, TRUE)
    BY <1>5, <1>7, <2>4 DEF StoredIn
  <2> QED  BY <1>1, <1>2, <1>3, <2>2, <2>3, <2>5, StoredNext
<1> QED  BY <1>9, <1>10

\* alloc_block stores a link, or marks the block, while the block is in the cache.
LEMMA LinkLinked ==
  ASSUME LockInv, BlocksInv, LinkInv, NEW t \in Threads, NEW g \in Files, g = File(t), NEW q,
         Moves(t, "run", kind[t], Tail(todo[t]), q), OnlyIn(PtrBlock(g)), linked' = linked,
         PtrBlock(g) \in In(Cache), Cache'.mem[PtrBlock(g)] = linked[g],
         Marking(Tail(todo[t])) => Links(Tail(todo[t])),
         ~Marking(Tail(todo[t])) => PtrBlock(g) \in Cache'.dirty
  PROVE  LinkInv'
<1> SUFFICES ASSUME NEW f \in Files PROVE Stored(f)'
  BY DEF LinkInv
<1>1. PICK p, c, e : p = PtrBlock(f) /\ p \in Blocks /\ c = Cache /\ e = Cache'
  BY PtrBlocks
<1>2. on' = on /\ ~Undefined /\ Allocated' = Allocated
  BY DEF Moves, Allocated
<1>3. PICK k, s : k = kind[t] /\ s = Tail(todo[t])
  OBVIOUS
<1>4. \A u \in Threads : todo'[u] = IF u = t THEN s ELSE todo[u]
  <2>1. Moves(t, "run", k, s, q)
    BY <1>3
  <2> QED  BY <1>2, <2>1, OwnMoves DEF LockInv
<1>5. CASE f # g
  <2>1. p # PtrBlock(g)
    BY <1>1, <1>5, PtrBlocks
  <2>2. /\ e.mem[p] = c.mem[p] /\ (p \in e.dirty <=> p \in c.dirty)
        /\ (p \in In(e) <=> p \in In(c)) /\ e.disk[p] = c.disk[p]
    BY <1>1, <2>1 DEF OnlyIn
  <2>3. Val(e, p) = Val(c, p) /\ (CleanOn(e, p) <=> CleanOn(c, p))
    BY <2>2 DEF Val, CleanOn
  <2>4. \A u \in Threads : File(u) = f => todo'[u] = todo[u]
    BY <1>4, <1>5
  <2> QED  BY <1>1, <1>2, <2>2, <2>3, <2>4, LinkSame
<1>6. CASE f = g
  <2>1. p \in In(e) /\ e.mem[p] = linked[f] /\ e.disk = c.disk
    BY <1>1, <1>6 DEF OnlyIn
  <2>2. c.disk[p] \subseteq linked[f]
    BY <1>1 DEF LinkInv, Stored, StoredIn
  <2>3. PICK mk \in BOOLEAN, lk \in BOOLEAN :
          /\ mk <=> \E u \in Threads : Marking(todo'[u]) /\ File(u) = f
          /\ lk <=> \E u \in Threads : Links(todo'[u]) /\ File(u) = f
    <3>1. PICK mk, lk : /\ mk = (\E u \in Threads : Marking(todo'[u]) /\ File(u) = f)
                        /\ lk = (\E u \in Threads : Links(todo'[u]) /\ File(u) = f)
      OBVIOUS
    <3>2. mk \in BOOLEAN /\ lk \in BOOLEAN
      BY <3>1
    <3> QED  BY <3>1, <3>2
  <2>4. ~mk => p \in e.dirty
    BY <1>1, <1>3, <1>4, <1>6, <2>3
  <2>5. StoredIn(e, p, linked'[f], mk, lk)
    BY <2>1, <2>2, <2>4 DEF StoredIn, CleanOn, Val
  <2> QED  BY <1>1, <1>2, <2>3, <2>5, StoredNext
<1> QED  BY <1>5, <1>6

LEMMA LinkNext == LockInv /\ BlocksInv /\ LinkInv /\ [Next]_vars => LinkInv'
<1> SUFFICES ASSUME LockInv, BlocksInv, LinkInv, [Next]_vars PROVE LinkInv'
  OBVIOUS
<1>1. CASE Next
  <2>1. PICK t \in Threads : StepOf(t)
    BY <1>1, StepsOf
  <2>2. ASSUME NEW l, NEW k, NEW s, NEW p, QuietTo(t, l, k, s, p) PROVE LinkInv'
    BY <2>2, LinkQuiet
  <2>3. ASSUME NEW d, NEW m \in BOOLEAN, FetchedTo(t, d, m) PROVE LinkInv'
    BY <2>3, LinkFetched
  <2>4. ASSUME NEW p, CopiedTo(t, p) PROVE LinkInv'
    BY <2>4, LinkCopied
  <2>5. ASSUME NEW b, NEW s, AllocatedTo(t, b, s) PROVE LinkInv'
    BY <2>5, LinkAllocated
  <2>6. CASE LinkedTo(t, File(t))
    <3>1. PICK g, q : g = File(t) /\ q = ptr[t]
      OBVIOUS
    <3>2. /\ g \in Files /\ q = PtrBlock(g) /\ ~Undefined /\ Moves(t, "run", kind[t], Tail(todo[t]), q)
          /\ OnlyIn(PtrBlock(g)) /\ linked' = linked /\ Cache'.mem[PtrBlock(g)] = Cache.mem[PtrBlock(g)] \cup linked[g]
          /\ Marking(Tail(todo[t])) /\ Links(Tail(todo[t]))
      BY <2>6, <3>1 DEF LinkedTo, Moves
    <3>3. PtrBlock(g) \in In(Cache)
      <4>1. ptr[t] # NoBlock /\ CacheOK(Cache)
        BY <3>1, <3>2, PtrBlocks, NoBlockAssumption DEF BlocksInv
      <4> QED  BY <3>1, <3>2, <4>1, PtrCached
    <3>4. Cache.mem[PtrBlock(g)] \subseteq linked[g]
      BY <3>2 DEF LinkInv, Stored, StoredIn
    <3>5. Cache'.mem[PtrBlock(g)] = linked[g]
      BY <3>2, <3>4
    <3> QED  BY <3>1, <3>2, <3>3, <3>5, LinkLinked
  <2>7. CASE MarkedTo(t, File(t))
    <3>1. PICK g : g = File(t)
      OBVIOUS
    <3>2. /\ g \in Files /\ Marking(todo[t]) /\ ~Undefined /\ Moves(t, "run", kind[t], Tail(todo[t]), NoBlock)
          /\ OnlyIn(PtrBlock(g)) /\ linked' = linked /\ Cache'.mem = Cache.mem
          /\ PtrBlock(g) \in In(Cache) => PtrBlock(g) \in Cache'.dirty
          /\ ~Marking(Tail(todo[t]))
      BY <2>7, <3>1 DEF MarkedTo, Moves
    <3>3. PtrBlock(g) \in In(Cache)
      BY <3>1, <3>2, MarkingHas
    <3>4. Cache.mem[PtrBlock(g)] = linked[g]
      BY <3>1, <3>2, <3>3 DEF LinkInv, Stored, StoredIn, MarksFor
    <3> QED  BY <3>1, <3>2, <3>3, <3>4, LinkLinked
  <2> QED  BY <2>1, <2>2, <2>3, <2>4, <2>5, <2>6, <2>7 DEF StepOf, Quiet
<1>2. CASE UNCHANGED vars
  BY <1>2 DEF vars, LinkInv, Stored, StoredIn, MarksFor, LinksFor, CleanOn, Val, In, Cache, PtrBlock, Links, Marking, File
<1> QED  BY <1>1, <1>2

\* While a link is to be stored, or its block to be marked, the file is locked.
LEMMA LinksLocked ==
  ASSUME LockInv, BlocksInv, NEW t \in Threads, Links(todo[t])
  PROVE  lock[InodeLock(File(t))].w # {}
<1>1. CallOK(t, pc[t], kind[t], todo[t], Allocated) /\ Holds(t)
  BY DEF BlocksInv, CallsInv, LockInv
<1>2. todo[t] # << >> /\ kind[t] = "extend"
  BY <1>1 DEF CallOK, Links, Range
<1>3. pc[t] \in {"run", "probe", "miss", "fill", "copy"}
  BY <1>1, <1>2 DEF CallOK
<1>4. Extending(t)
  BY <1>2, <1>3 DEF Extending, Running
<1> QED  BY <1>1, <1>4 DEF Holds, File

\* An indirect block that is not being extended holds the links alloc_block
\* stored: until a Block is deleted that is in use.
THEOREM LinksKept == Spec => []LinksSurvive
<1>1. ASSUME LockInv, BlocksInv, LinkInv PROVE LinksSurvive
  <2> SUFFICES ASSUME NEW f \in Files, lock[InodeLock(f)].w = {}
               PROVE  linked[f] = IF PtrBlock(f) \in Range(lru) THEN mem[PtrBlock(f)] ELSE disk[PtrBlock(f)]
    BY DEF LinksSurvive
  <2>1. ~LinksFor(f)
    BY <1>1, LinksLocked DEF LinksFor
  <2>2. Val(Cache, PtrBlock(f)) = linked[f]
    BY <1>1, <2>1 DEF LinkInv, Stored, StoredIn
  <2> QED  BY <2>2 DEF Val, In, Cache
<1> QED  BY <1>1, LinkInit, LinkNext, LocksHeld, BlocksHeld, PTL DEF Spec
=============================================================================
