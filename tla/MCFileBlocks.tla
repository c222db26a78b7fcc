---------------------------- MODULE MCFileBlocks ------------------------------
(***************************************************************************)
(* FileBlocks for TLC.  inode_delete leaks the pointer blocks of a file:   *)
(* they stay allocated and no inode leads to them, so what they hold is no *)
(* longer part of the state.                                               *)
(***************************************************************************)
EXTENDS FileBlocks

PointedFrom(S) == S \cup UNION {ToSet(fs.ptr[b]) : b \in S}
Tops == UNION {{fs.ino[f].i_block[s] : s \in {IND, DIND, TIND}} : f \in Files}
Reachable == PointedFrom(PointedFrom(Tops))
Leaked == fs.used \ Reachable

\* The files, and the blocks some inode leads to, in memory and on disk.
FilesView ==
  <<fs.used, fs.ino, data, fs.dirty \cap Reachable,
    [b \in Reachable |-> fs.ptr[b]], [b \in Blocks \ Leaked |-> disk[b]]>>
=============================================================================
