--------------------------- MODULE MCBlockCacheLRU ---------------------------
(***************************************************************************)
(* BlockCache against the LRU policy: the pointer-level list, walked from  *)
(* head_, is the order of use.                                             *)
(***************************************************************************)
EXTENDS BlockCache

\* The nodes met by following next_ from head_, up to tail_, at most Size.
Walk ==
  LET at[k \in 1 .. Size] ==
        IF k = 1 THEN links.next[HeadNode]
        ELSE IF at[k - 1] = TailNode THEN TailNode ELSE links.next[at[k - 1]]
  IN  SelectSeq([k \in 1 .. Size |-> at[k]], LAMBDA n : n # TailNode)

\* The blocks in the order of the list.
Recent == [k \in 1 .. Len(Walk) |-> index[Walk[k]]]

Policy == INSTANCE LRU WITH recent <- Recent

Accesses(b) ==
  \/ ReadHit(b) \/ ReadMiss(b) \/ AllocBlock(b)
  \/ \E v \in Vals : WriteBlock(b, v) \/ AllocModify(b, v)

\* Every get and insert moves exactly the block it touches to the front of the
\* list, insert evicting the block that was used longest ago, remove takes out
\* one block, and a flush leaves the order alone.
EvictsLeastRecentlyUsed ==
  /\ Policy!Spec
  /\ [][\A b \in Blocks :
          /\ Accesses(b) => Policy!Use(b)
          /\ FreeBlock(b) => Policy!Drop(b)
          /\ (Flush \/ FlushInode(b)) => UNCHANGED Recent]_vars
=============================================================================
