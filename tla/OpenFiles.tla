------------------------------ MODULE OpenFiles -------------------------------
(***************************************************************************)
(* Open files and the inode they share.  The FUSE handlers keep, for every *)
(* open inode, one InodeCache with a private copy of the inode and a       *)
(* reference count (OpManager, include/operation.h); FileSystem changes    *)
(* the inode table itself (src/filesystem.cpp).  This module models the    *)
(* handlers that touch either copy, for regular files in one directory.    *)
(* Every handler but read and write holds _big_lock exclusively, so each   *)
(* is one action.                                                          *)
(*                                                                         *)
(* Of an inode the model keeps the link count and the size, of the rest of *)
(* libfuse that it hides a file that is open under a name before it        *)
(* unlinks that name or renames over it: such calls never arrive.          *)
(***************************************************************************)
EXTENDS Integers, FiniteSets

CONSTANTS NInodes,        \* inodes of the block group
          Names,          \* file names
          Handles,        \* struct fuse_file_info of the kernel's open files
          None,           \* no directory entry, or no open file
          MaxSize,        \* bound on the size of a file
          RelinkOpen      \* may the hard links of an open file change?

Inodes == 0 .. NInodes - 1
LinkModulus == 256 * 256  \* i_links_count is 16 bits wide

ASSUME NInodesAssumption == NInodes \in Nat \ {0}
ASSUME NamesAssumption == IsFiniteSet(Names) /\ Cardinality(Names) < LinkModulus
ASSUME HandlesAssumption == IsFiniteSet(Handles)
ASSUME NoneAssumption == None \notin Int /\ None \notin [ino : Inodes, name : Names]
ASSUME MaxSizeAssumption == MaxSize \in Nat
ASSUME RelinkOpenAssumption == RelinkOpen \in BOOLEAN

Meta == [links : 0 .. LinkModulus - 1, size : 0 .. MaxSize]
NoMeta == [links |-> 0, size |-> 0]

VARIABLES fs,     \* bitmap: allocated inodes; table: the inode table; dir: the entries
          cnts,   \* InodeCache::cnts_ by inode, 0 when st_ has no entry
          copy,   \* InodeCache::cache_ by inode, NoMeta when st_ has no entry
          fd      \* the open handles: inode, and name under which libfuse knows it

vars == <<fs, cnts, copy, fd>>

IsOpen(h) == fd[h] # None
OpenUnder(n) == \E h \in Handles : IsOpen(h) /\ fd[h].name = n

(***************************************************************************)
(* FileSystem.                                                             *)
(***************************************************************************)
\* inode_lookup: the entry exists and get_inode finds its inode allocated.
Lookup(f, n) == f.dir[n] # None /\ f.dir[n] \in f.bitmap

\* Fault: the inode is freed with any of its names.
InodeUnlink_AnyLink(f, n) ==
  [f EXCEPT !.dir[n] = None,
            !.table[f.dir[n]].links = (@ - 1) % LinkModulus,
            !.bitmap = @ \ {f.dir[n]}]

\* inode_unlink of an existing entry, with the inode_delete it ends in.
InodeUnlink(f, n) ==
  LET i == f.dir[n]
      l == (f.table[i].links - 1) % LinkModulus
      g == [f EXCEPT !.dir[n] = None]
  IN  IF i \notin f.bitmap THEN g
      ELSE [g EXCEPT !.table[i].links = l,
                     !.bitmap = IF l = 0 THEN @ \ {i} ELSE @]

\* inode_link, once source and destination have been looked up.
InodeLink(f, n, m) ==
  [f EXCEPT !.dir[m] = f.dir[n],
            !.table[f.dir[n]].links = (@ + 1) % LinkModulus]

\* alloc_inode and inode_init: the first clear bit, one link, no data.
InodeCreate(f, n, i) ==
  [f EXCEPT !.bitmap = @ \cup {i},
            !.table[i] = [links |-> 1, size |-> 0],
            !.dir[n] = i]

(***************************************************************************)
(* OpManager and InodeCache.                                               *)
(***************************************************************************)
\* get_cache: what the handler sees of inode i of f.
GetCache(f, i) == IF cnts[i] = 0 THEN f.table[i] ELSE copy[i]

\* commit: get_inode must find the inode.
Commit(f, i, c) == IF i \in f.bitmap THEN [f EXCEPT !.table[i] = c] ELSE f

\* Fault: the last reference does not commit.
RelCache_NoCommit(f, i, k, c) ==
  /\ fs' = f
  /\ cnts' = [cnts EXCEPT ![i] = k - 1]
  /\ copy' = [copy EXCEPT ![i] = IF k = 1 THEN NoMeta ELSE c]

\* rel_cache of the last reference commits and drops the copy.
RelCache(f, i, k, c) ==
  /\ fs' = IF k = 1 THEN Commit(f, i, c) ELSE f
  /\ cnts' = [cnts EXCEPT ![i] = k - 1]
  /\ copy' = [copy EXCEPT ![i] = IF k = 1 THEN NoMeta ELSE c]

(***************************************************************************)
(* The handlers.                                                           *)
(***************************************************************************)
Init ==
  /\ fs = [bitmap |-> {}, table |-> [i \in Inodes |-> NoMeta], dir |-> [n \in Names |-> None]]
  /\ cnts = [i \in Inodes |-> 0]
  /\ copy = [i \in Inodes |-> NoMeta]
  /\ fd = [h \in Handles |-> None]

FirstFree(i) == i \notin fs.bitmap /\ \A j \in 0 .. i - 1 : j \in fs.bitmap

Create(h, n) ==
  /\ ~IsOpen(h)
  /\ fs.dir[n] = None
  /\ \E i \in Inodes :
       LET f == InodeCreate(fs, n, i)
           c == [GetCache(f, i) EXCEPT !.size = 0]
       IN  /\ FirstFree(i)
           /\ fs' = Commit(f, i, c)
           /\ cnts' = [cnts EXCEPT ![i] = @ + 1]
           /\ copy' = [copy EXCEPT ![i] = c]
           /\ fd' = [fd EXCEPT ![h] = [ino |-> i, name |-> n]]

\* Fault: an existing copy is used without counting.
Open_NoCount(h, n) ==
  /\ ~IsOpen(h)
  /\ Lookup(fs, n)
  /\ copy' = [copy EXCEPT ![fs.dir[n]] = GetCache(fs, fs.dir[n])]
  /\ fd' = [fd EXCEPT ![h] = [ino |-> fs.dir[n], name |-> n]]
  /\ UNCHANGED <<fs, cnts>>

Open(h, n) ==
  /\ ~IsOpen(h)
  /\ Lookup(fs, n)
  /\ LET i == fs.dir[n]
     IN  /\ copy' = [copy EXCEPT ![i] = GetCache(fs, i)]
         /\ cnts' = [cnts EXCEPT ![i] = @ + 1]
         /\ fd' = [fd EXCEPT ![h] = [ino |-> i, name |-> n]]
  /\ UNCHANGED fs

Release(h) ==
  /\ IsOpen(h)
  /\ RelCache(fs, fd[h].ino, cnts[fd[h].ino], copy[fd[h].ino])
  /\ fd' = [fd EXCEPT ![h] = None]

\* fuse_write past the end of the file: the size grows in the copy only.
Extend(h) ==
  /\ IsOpen(h)
  /\ copy[fd[h].ino].size < MaxSize
  /\ copy' = [copy EXCEPT ![fd[h].ino].size = @ + 1]
  /\ UNCHANGED <<fs, cnts, fd>>

\* fuse_fsync with datasync = 0.
Fsync(h) ==
  /\ IsOpen(h)
  /\ fs' = Commit(fs, fd[h].ino, copy[fd[h].ino])
  /\ UNCHANGED <<cnts, copy, fd>>

\* fuse_chmod, fuse_chown, fuse_utimens: the attribute they set is abstracted,
\* get_cache, commit and rel_cache are not.
SetAttr(n) ==
  /\ Lookup(fs, n)
  /\ LET i == fs.dir[n]
         c == GetCache(fs, i)
     IN  RelCache(Commit(fs, i, c), i, cnts[i] + 1, c)
  /\ UNCHANGED fd

\* Link changes the link count of an inode that is open (see RelinkOpen).
Relinks(i) == cnts[i] > 0

Link(n, m) ==
  /\ Lookup(fs, n)
  /\ fs.dir[m] = None
  /\ RelinkOpen \/ ~Relinks(fs.dir[n])
  /\ fs' = InodeLink(fs, n, m)
  /\ UNCHANGED <<cnts, copy, fd>>

\* Fault: a file that is open under another name is not refused.
Unlink_Unchecked(n) ==
  /\ Lookup(fs, n)
  /\ ~OpenUnder(n)
  /\ fs' = InodeUnlink(fs, n)
  /\ UNCHANGED <<cnts, copy, fd>>

\* fuse_unlink: refused when its own get_cache is not the only reference.
Unlink(n) ==
  /\ Lookup(fs, n)
  /\ ~OpenUnder(n)
  /\ cnts[fs.dir[n]] + 1 < 2
  /\ fs' = InodeUnlink(fs, n)
  /\ UNCHANGED <<cnts, copy, fd>>

\* Fault: the source is unlinked first, so that inode_link does not find it.
Rename_UnlinksFirst(n, m) ==
  /\ n # m
  /\ Lookup(fs, n)
  /\ fs.dir[m] = None
  /\ fs' = InodeUnlink(fs, n)
  /\ UNCHANGED <<cnts, copy, fd>>

\* fuse_rename with flags 0: unlink newname if it exists, link, unlink
\* oldname.  A failed link leaves the unlinked state behind.
Rename(n, m) ==
  /\ n # m
  /\ Lookup(fs, n)
  /\ ~OpenUnder(m)
  /\ Lookup(fs, m) => RelinkOpen \/ ~Relinks(fs.dir[m])
  /\ LET f == IF Lookup(fs, m) THEN InodeUnlink(fs, m) ELSE fs
         linked == Lookup(f, n) /\ f.dir[m] = None
     IN  /\ fs' = IF linked THEN InodeUnlink(InodeLink(f, n, m), n) ELSE f
         /\ fd' = [h \in Handles |-> IF linked /\ IsOpen(h) /\ fd[h].name = n
                                     THEN [fd[h] EXCEPT !.name = m] ELSE fd[h]]
  /\ UNCHANGED <<cnts, copy>>

Next ==
  \/ \E h \in Handles : Release(h) \/ Extend(h) \/ Fsync(h)
  \/ \E h \in Handles, n \in Names : Create(h, n) \/ Open(h, n)
  \/ \E n \in Names : SetAttr(n) \/ Unlink(n)
  \/ \E n, m \in Names : Link(n, m) \/ Rename(n, m)

Spec == Init /\ [][Next]_vars

(***************************************************************************)
(* Properties.                                                             *)
(***************************************************************************)
\* Every variable has its type.
TypeOK ==
  /\ fs \in [bitmap : SUBSET Inodes, table : [Inodes -> Meta], dir : [Names -> Inodes \cup {None}]]
  /\ cnts \in [Inodes -> 0 .. Cardinality(Handles)]
  /\ copy \in [Inodes -> Meta]
  /\ fd \in [Handles -> [ino : Inodes, name : Names] \cup {None}]

Entries(i) == {n \in Names : fs.dir[n] = i}
OpenHandles(i) == {h \in Handles : IsOpen(h) /\ fd[h].ino = i}

\* A directory entry names an allocated inode: the warning "INODE should exist
\* with a valid directory entry!" of inode_lookup is never reached.
NoDanglingEntry == \A n \in Names : fs.dir[n] # None => fs.dir[n] \in fs.bitmap

\* i_links_count is the number of entries, in the table and in the copy of an
\* open file, so inode_unlink deletes the inode with its last name only: no name
\* of a file goes while the file is open under another one.
LinksAreEntries ==
  \A i \in fs.bitmap :
    /\ fs.table[i].links = Cardinality(Entries(i))
    /\ cnts[i] > 0 => copy[i].links = fs.table[i].links

\* cnts_ counts the open handles: rel_cache drops the copy with the last one.
CountsAreHandles == \A i \in Inodes : cnts[i] = Cardinality(OpenHandles(i))

\* No file is deleted, and its inode reused, under an open handle.
OpenStaysAllocated == \A h \in Handles : IsOpen(h) => fd[h].ino \in fs.bitmap

\* The size a handler sees.
Size(i) == GetCache(fs, i).size

\* What was written through a handle is never rolled back by a close, by an
\* fsync or by a change of attributes or links: as long as the inode is
\* allocated, the size every handler sees never shrinks.
SizeNeverLost ==
  [][\A i \in fs.bitmap : i \in fs'.bitmap => Size(i)' >= Size(i)]_vars
=============================================================================
