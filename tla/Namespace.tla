------------------------------ MODULE Namespace -------------------------------
(***************************************************************************)
(* The directory tree: inodes with link counts, directory entries, and the *)
(* FUSE handlers that change them (src/operation/meta.cpp, dir.cpp,        *)
(* symlink.cpp) through FileSystem::inode_create, inode_link, inode_unlink *)
(* and inode_delete (src/filesystem.cpp).  Each handler holds _big_lock    *)
(* exclusively and is one action, built from the FileSystem calls it makes *)
(* in their order; a call that fails ends the handler where it stands.     *)
(*                                                                         *)
(* The kernel resolves the directories of a path before it calls, so a     *)
(* path is here its directory inode and its last name.  No file is open    *)
(* (OpenFiles models that), the block group never fills up, and permission *)
(* checks succeed unless said otherwise.                                   *)
(***************************************************************************)
EXTENDS Integers, FiniteSets

CONSTANTS NInodes,   \* inodes of the block group, the root included
          Names,     \* names of files and directories
          Tmp,       \* the name "<a" of fuse_rename
          None,      \* no directory entry
          Calls      \* calls allowed beside the plain ones, a subset of AllCalls

AllCalls == {"exchange", "symlink", "mkdir_denied", "replace_full_dir"}

ASSUME NInodesAssumption == NInodes \in Nat \ {0}
ASSUME NamesAssumption == Tmp \notin Names
ASSUME NoneAssumption == None \notin Int
ASSUME CallsAssumption == Calls \subseteq AllCalls

Inodes == 0 .. NInodes - 1
Root == 0
AllNames == Names \cup {Tmp}
Paths == [dir : Inodes, name : AllNames]
LinkModulus == 65536   \* i_links_count is 16 bits wide
NoEntries == [n \in AllNames |-> None]

\* No inode can have so many names that its link count wraps around.
ASSUME EntriesAssumption == IsFiniteSet(Paths) /\ Cardinality(Paths) < LinkModulus

VARIABLES fs,      \* bitmap: allocated inodes; type, links: of the inode table;
                   \* ents: the live entries of every directory
          failed,  \* did the last handler return an error?
          swap     \* history: the two paths of a fuse_rename with RENAME_EXCHANGE

vars == <<fs, failed, swap>>

(***************************************************************************)
(* Results of FileSystem calls and their sequencing.                       *)
(***************************************************************************)
Ok(s) == [ok |-> TRUE, s |-> s]
Failed(s) == [ok |-> FALSE, s |-> s]
Then(r, Call(_)) == IF r.ok THEN Call(r.s) ELSE r

IsDir(s, i) == i \in s.bitmap /\ s.type[i] = "dir"

\* inode_lookup of a path: the entry exists and its inode is allocated.
Lookup(s, p) ==
  /\ IsDir(s, p.dir)
  /\ s.ents[p.dir][p.name] # None
  /\ s.ents[p.dir][p.name] \in s.bitmap

Target(s, p) == s.ents[p.dir][p.name]

\* inode_create with inode i: alloc_inode zeroes the inode and inode_init gives
\* it one link; a directory starts without blocks, so without entries.
InodeCreate(s, p, t, i) ==
  IF ~IsDir(s, p.dir) \/ Target(s, p) # None THEN Failed(s)
  ELSE Ok([s EXCEPT !.bitmap = @ \cup {i},
                    !.type[i] = t,
                    !.links[i] = 1,
                    !.ents = [@ EXCEPT ![i] = NoEntries, ![p.dir][p.name] = i]])

\* Fault: regular files are not freed.
Deleted_DirsOnly(s, i) ==
  {j \in {i} : j # Root /\ j \in s.bitmap /\ s.type[j] = "dir"}

\* The inodes inode_delete(i) frees: it descends into directories, whatever
\* the link counts, and stops at what is neither a file nor a directory.
Deleted(s, i) ==
  LET Deletable == {j \in s.bitmap \ {Root} : s.type[j] \in {"reg", "dir"}}
      Closed(D) ==
        /\ i \in Deletable => i \in D
        /\ \A k \in D, n \in AllNames :
             s.type[k] = "dir" /\ s.ents[k][n] \in Deletable => s.ents[k][n] \in D
  IN  {j \in Deletable : \A D \in SUBSET Deletable : Closed(D) => j \in D}

\* Fault: the inode is deleted with any of its names.
InodeUnlink_AnyLink(s, p) ==
  LET i == Target(s, p)
      h == [s EXCEPT !.ents[p.dir][p.name] = None, !.links[i] = (@ - 1) % LinkModulus]
  IN  IF ~Lookup(s, p) THEN Failed(s) ELSE Ok([h EXCEPT !.bitmap = @ \ Deleted(h, i)])

\* inode_unlink: the entry goes first, then the link, then the inode.
InodeUnlink(s, p) ==
  LET i == Target(s, p)
      g == [s EXCEPT !.ents[p.dir][p.name] = None]
      l == (s.links[i] - 1) % LinkModulus
      h == [g EXCEPT !.links[i] = l]
  IN  IF ~IsDir(s, p.dir) \/ i = None THEN Failed(s)
      ELSE IF i \notin s.bitmap THEN Failed(g)
      ELSE IF l # 0 THEN Ok(h)
      ELSE IF Deleted(h, i) = {} THEN Failed(h)
      ELSE Ok([h EXCEPT !.bitmap = @ \ Deleted(h, i)])

\* Fault: i_links_count is not raised.
InodeLink_NoCount(s, p, q) ==
  IF ~Lookup(s, p) \/ IsDir(s, Target(s, p)) \/ ~IsDir(s, q.dir) \/ Target(s, q) # None
  THEN Failed(s)
  ELSE Ok([s EXCEPT !.ents[q.dir][q.name] = Target(s, p)])

\* Fault: directories can be linked.
InodeLink_Directories(s, p, q) ==
  IF ~Lookup(s, p) \/ ~IsDir(s, q.dir) \/ Target(s, q) # None THEN Failed(s)
  ELSE Ok([s EXCEPT !.ents[q.dir][q.name] = Target(s, p),
                    !.links[Target(s, p)] = (@ + 1) % LinkModulus])

InodeLink(s, p, q) ==
  IF ~Lookup(s, p) \/ IsDir(s, Target(s, p)) \/ ~IsDir(s, q.dir) \/ Target(s, q) # None
  THEN Failed(s)
  ELSE Ok([s EXCEPT !.ents[q.dir][q.name] = Target(s, p),
                    !.links[Target(s, p)] = (@ + 1) % LinkModulus])

(***************************************************************************)
(* The handlers.                                                           *)
(***************************************************************************)
Init ==
  /\ fs = [bitmap |-> {Root},
           type |-> [i \in Inodes |-> IF i = Root THEN "dir" ELSE "reg"],
           links |-> [i \in Inodes |-> IF i = Root THEN 1 ELSE 0],
           ents |-> [i \in Inodes |-> NoEntries]]
  /\ failed = FALSE
  /\ swap = << >>

\* The paths the kernel may pass: in a directory that exists, and not "<a".
Callable(p) == IsDir(fs, p.dir) /\ p.name \in Names

Return(r) ==
  /\ fs' = r.s
  /\ failed' = ~r.ok
  /\ swap' = << >>

\* alloc_new: the first clear bit of the inode bitmap.
FirstFree(i) == i \notin fs.bitmap /\ \A j \in 0 .. i - 1 : j \in fs.bitmap

Create(p) ==
  /\ Callable(p)
  /\ \E i \in Inodes : FirstFree(i) /\ Return(InodeCreate(fs, p, "reg", i))

Mkdir(p) ==
  /\ Callable(p)
  /\ \E i \in Inodes : FirstFree(i) /\ Return(InodeCreate(fs, p, "dir", i))

\* fuse_mkdir checks the permission after it has created the directory.
MkdirDenied(p) ==
  /\ "mkdir_denied" \in Calls
  /\ Callable(p)
  /\ \E i \in Inodes :
       FirstFree(i) /\ Return(Failed(InodeCreate(fs, p, "dir", i).s))

\* fuse_symlink: the target must exist.
Symlink(t, p) ==
  /\ "symlink" \in Calls
  /\ Callable(t) /\ Callable(p)
  /\ \E i \in Inodes :
       /\ FirstFree(i)
       /\ Return(IF Lookup(fs, t) THEN InodeCreate(fs, p, "lnk", i) ELSE Failed(fs))

\* The kernel unlinks and links no directory.
Unlink(p) ==
  /\ Callable(p) /\ ~IsDir(fs, Target(fs, p))
  /\ Return(IF Lookup(fs, p) THEN InodeUnlink(fs, p) ELSE Failed(fs))

Rmdir(p) ==
  /\ Callable(p)
  /\ Return(IF /\ Lookup(fs, p)
               /\ IsDir(fs, Target(fs, p))
               /\ fs.ents[Target(fs, p)] = NoEntries
            THEN InodeUnlink(fs, p) ELSE Failed(fs))

Link(p, q) ==
  /\ Callable(p) /\ Callable(q) /\ ~IsDir(fs, Target(fs, p))
  /\ Return(InodeLink(fs, p, q))

\* The kernel renames no directory into itself or below, and no directory over
\* a file or a file over a directory.
Below(p, q) == IsDir(fs, Target(fs, p)) /\ q.dir \in Deleted(fs, Target(fs, p))
SameKind(p, q) == Lookup(fs, q) => (IsDir(fs, Target(fs, p)) <=> IsDir(fs, Target(fs, q)))
Renamable(p, q) == Callable(p) /\ Callable(q) /\ p # q /\ ~Below(p, q) /\ Lookup(fs, p)

\* Fault: the source is unlinked before it is linked.
Rename_UnlinksFirst(p, q) ==
  /\ Renamable(p, q) /\ ~Lookup(fs, q)
  /\ Return(Then(InodeUnlink(fs, p), LAMBDA s : InodeLink(s, p, q)))

\* A rename to q has a directory to replace.
ReplacesDir(q) == Lookup(fs, q) /\ IsDir(fs, Target(fs, q))

\* fuse_rename with flags 0.  It does not ask whether a directory it replaces
\* is empty: inode_delete would free all that is below.
Rename(p, q) ==
  /\ Renamable(p, q) /\ SameKind(p, q)
  /\ "replace_full_dir" \notin Calls => (ReplacesDir(q) => fs.ents[Target(fs, q)] = NoEntries)
  /\ LET Replaced == IF Lookup(fs, q) THEN InodeUnlink(fs, q) ELSE Ok(fs)
         Linked == Then(Replaced, LAMBDA s : InodeLink(s, p, q))
     IN  Return(Then(Linked, LAMBDA s : InodeUnlink(s, p)))

\* fuse_rename with RENAME_NOREPLACE.
RenameNoReplace(p, q) ==
  /\ Renamable(p, q)
  /\ Return(IF Lookup(fs, q) THEN Failed(fs)
            ELSE Then(InodeLink(fs, p, q), LAMBDA s : InodeUnlink(s, p)))

TmpPath == [dir |-> Root, name |-> Tmp]

\* fuse_rename with RENAME_EXCHANGE.
RenameExchange(p, q) ==
  /\ "exchange" \in Calls
  /\ Renamable(p, q) /\ Lookup(fs, q)
  /\ LET r1 == InodeLink(fs, p, TmpPath)
         r2 == Then(r1, LAMBDA s : InodeUnlink(s, p))
         r3 == Then(r2, LAMBDA s : InodeLink(s, q, p))
         r4 == Then(r3, LAMBDA s : InodeLink(s, p, q))
         r5 == Then(r4, LAMBDA s : InodeUnlink(s, TmpPath))
     IN  fs' = r5.s /\ failed' = ~r5.ok
  /\ swap' = <<p, q>>

Next ==
  \/ \E p \in Paths : Create(p) \/ Mkdir(p) \/ MkdirDenied(p) \/ Unlink(p) \/ Rmdir(p)
  \/ \E p, q \in Paths : \/ Link(p, q)
                         \/ Symlink(p, q)
                         \/ Rename(p, q)
                         \/ RenameNoReplace(p, q)
                         \/ RenameExchange(p, q)

Spec == Init /\ [][Next]_vars

(***************************************************************************)
(* Properties.                                                             *)
(***************************************************************************)
\* Every variable has its type.
TypeOK ==
  /\ fs \in [bitmap : SUBSET Inodes,
             type : [Inodes -> {"dir", "reg", "lnk"}],
             links : [Inodes -> 0 .. LinkModulus - 1],
             ents : [Inodes -> [AllNames -> Inodes \cup {None}]]]
  /\ failed \in BOOLEAN
  /\ swap \in {<< >>} \cup (Paths \X Paths)

Dirs == {d \in fs.bitmap : fs.type[d] = "dir"}

\* The live entries that name inode i.
EntriesOf(i) == {p \in Paths : p.dir \in Dirs /\ Target(fs, p) = i}

\* Every entry of a directory names an allocated inode: the warning "INODE
\* should exist with a valid directory entry!" of inode_lookup is not reached.
NoDanglingEntry ==
  \A p \in Paths : p.dir \in Dirs /\ Target(fs, p) # None => Target(fs, p) \in fs.bitmap

\* i_links_count of an allocated inode is the number of its entries, through
\* every create, link, unlink and rename: an inode is deleted with its last
\* name, neither earlier nor later.
LinksAreEntries ==
  \A i \in fs.bitmap \ {Root} : fs.links[i] = Cardinality(EntriesOf(i))

\* A file or directory that has no entry any more has been freed.
Reclaimed ==
  \A i \in fs.bitmap \ {Root} : fs.type[i] # "lnk" => EntriesOf(i) # {}

\* The directories form a tree below the root: no set of other directories
\* holds all entries of its members, so none is lost in a cycle or orphaned.
DirsFormTree ==
  /\ \A d \in Dirs \ {Root} : Cardinality(EntriesOf(d)) = 1
  /\ EntriesOf(Root) = {}
  /\ \A D \in SUBSET (Dirs \ {Root}) :
       D # {} => \E d \in D : \E p \in EntriesOf(d) : p.dir \notin D

\* The symbolic link that inode_delete refuses has lost its last name.
LosesSymlink ==
  \E i \in fs.bitmap : fs.type[i] = "lnk" /\ fs.links[i] = 1 /\ fs'.links[i] = 0

\* The handlers that are refused after their first change: fuse_mkdir asks for
\* the permission last, and fuse_rename has deleted the directory to replace
\* when inode_link refuses to link the other one.
LateRefusal ==
  \/ \E p \in Paths : MkdirDenied(p)
  \/ \E p, q \in Paths : Rename(p, q) /\ ReplacesDir(q)

\* A handler that reports an error has changed nothing, however many of the
\* FileSystem calls it is made of had succeeded, but for four kinds: an
\* exchange, a mkdir refused after the fact, the removal of a symbolic link, and
\* a directory renamed over a directory.
FailureChangesNothing ==
  [][failed' => UNCHANGED fs \/ swap' # << >> \/ LosesSymlink \/ LateRefusal]_vars

\* "the filesystem must atomically exchange the two files, i.e. both must exist
\* and neither may be deleted" (RENAME_EXCHANGE, include/operation.h).
ExchangeSwaps ==
  [][swap' # << >> /\ ~IsDir(fs, Target(fs, swap'[1])) /\ ~IsDir(fs, Target(fs, swap'[2]))
       => /\ Target(fs', swap'[1]) = Target(fs, swap'[2])
          /\ Target(fs', swap'[2]) = Target(fs, swap'[1])]_vars

\* "delete the inode when i_links equal to 0" (inode_unlink,
\* include/filesystem.h).
DeletedAtZeroLinks == \A i \in fs.bitmap : fs.links[i] # 0
=============================================================================
