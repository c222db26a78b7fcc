--------------------------------- MODULE LRU ----------------------------------
(***************************************************************************)
(* The replacement policy BlockCache is meant to have: the cached blocks   *)
(* in order of use, most recent first, the last one leaving when a block   *)
(* enters a full cache.                                                    *)
(***************************************************************************)
EXTENDS Integers, Sequences, SequencesExt

CONSTANTS Size, NBlocks

VARIABLE recent

Init == recent = << >>

\* Block b is used: it moves to the front, or enters there.
Use(b) ==
  LET others == SelectSeq(recent, LAMBDA c : c # b)
  IN  recent' = <<b>> \o (IF Len(others) = Size THEN Front(others) ELSE others)

\* Block b is freed.
Drop(b) == recent' = SelectSeq(recent, LAMBDA c : c # b)

\* The file system is unmounted.
Clear == recent' = << >>

Next == Clear \/ \E b \in 0 .. NBlocks - 1 : Use(b) \/ Drop(b)

Spec == Init /\ [][Next]_recent
=============================================================================
