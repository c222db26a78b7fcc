------------------------------ MODULE BlockStore ------------------------------
(***************************************************************************)
(* What the block layer of NaiveFS promises to the code above it, with no  *)
(* cache in sight: a set of allocated blocks, and for each block written   *)
(* since it was allocated the value last written to it.  A block that was  *)
(* allocated and never written has no promised content.                    *)
(***************************************************************************)
EXTENDS Integers

CONSTANTS NBlocks,  \* data blocks of the block group
          Vals,     \* contents a block can have
          Fail      \* what a read of an unallocated block reports

Blocks == 0 .. NBlocks - 1

VARIABLES alloc,    \* the allocated blocks
          val,      \* the value of every allocated, written block
          out       \* the block and the value of the last read, or << >>

storeVars == <<alloc, val, out>>

Init ==
  /\ alloc = {}
  /\ val = [b \in {} |-> Fail]
  /\ out = << >>

\* The promise of a read: the last value written, for a block that has one.
Read(b) ==
  /\ \E v \in Vals \cup {Fail} :
       /\ out' = <<b, v>>
       /\ v = Fail <=> b \notin alloc
       /\ b \in DOMAIN val => v = val[b]
  /\ UNCHANGED <<alloc, val>>

Write(b, v) ==
  /\ b \in alloc
  /\ val' = [c \in DOMAIN val \cup {b} |-> IF c = b THEN v ELSE val[c]]
  /\ out' = << >>
  /\ UNCHANGED alloc

Alloc(b) ==
  /\ b \notin alloc
  /\ alloc' = alloc \cup {b}
  /\ out' = << >>
  /\ UNCHANGED val

AllocWrite(b, v) ==
  /\ b \notin alloc
  /\ alloc' = alloc \cup {b}
  /\ val' = [c \in DOMAIN val \cup {b} |-> IF c = b THEN v ELSE val[c]]
  /\ out' = << >>

Free(b) ==
  /\ b \in alloc
  /\ alloc' = alloc \ {b}
  /\ val' = [c \in DOMAIN val \ {b} |-> val[c]]
  /\ out' = << >>

\* Flushing and remounting are invisible but for the forgotten last read.
Maintain ==
  /\ out' = << >>
  /\ UNCHANGED <<alloc, val>>

Next ==
  \/ \E b \in Blocks : Read(b) \/ Alloc(b) \/ Free(b)
  \/ \E b \in Blocks, v \in Vals : Write(b, v) \/ AllocWrite(b, v)
  \/ Maintain

Spec == Init /\ [][Next]_storeVars
=============================================================================
