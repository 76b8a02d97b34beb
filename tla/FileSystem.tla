----------------------------- MODULE FileSystem -----------------------------
(***************************************************************************)
(* The file system: the calls of the VFS (kernel/fs/vfs.cpp), the two       *)
(* caches under it (inode_cache.cpp, path_cache.cpp), the open Files        *)
(* (file.cpp) and the ext2 driver that keeps directory entries, inode       *)
(* records, block maps and the two bitmaps on the disk (ext2/ext2.cpp).     *)
(*                                                                         *)
(* A call of the VFS is one step: the kernel is not preempted and every     *)
(* block a call needs is taken to be in the block cache, whose own steps    *)
(* the module Disk has.  What is left to go wrong is the sequence of calls: *)
(* five pieces of state name an inode (an entry, a bitmap bit, a reference   *)
(* count, a cached path, an open File) and each call changes some of them.   *)
(*                                                                         *)
(* Some legal calls break the agreement of the five for good.  The history  *)
(* variable orderly says that none has been made yet; the conjunct that      *)
(* updates it in each action names them.                                    *)
(***************************************************************************)
EXTENDS Integers, Sequences, FiniteSets, FiniteSetsExt, Functions, TLC

CONSTANTS Names,         \* the names an entry may have
          MaxInode,      \* the last inode of the disk
          MaxBlock,      \* the last block of the disk
          Files,         \* the slots for open Files
          SymlinkDepth,  \* MAX_SYMLINK_DEPTH
          Paths,         \* the paths a call may be given, as sequences of names
          Targets        \* the paths a symlink may be given

VARIABLES disk,          \* what is on the disk
          refs,          \* InodeCache: inode -> refCount, 0 when not cached
          pcache,        \* PathCache: a partial function, path -> inode
          file,          \* File::m_inode of each slot, 0 when closed
          panicked,      \* InodeCache has called Console::panic
          orderly        \* history: no call has broken the agreement

vars == <<disk, refs, pcache, file, panicked, orderly>>

ASSUME FsAssumption == MaxInode >= 2 /\ MaxBlock >= 1 /\ SymlinkDepth \in Nat

Root == 2                        \* EXT2_ROOT_INODE
Inodes == Root..MaxInode
Blocks == 1..MaxBlock
LinkCap == 2                     \* bound: a link count above 1 is 2

\* An inode record; mode is none, file, dir or link.  One direct pointer stands for the twelve and one indirect
\* block with one pointer for the three trees.  entries is what the first block
\* of a directory says, target what a fast symlink keeps in i_block.
Blank == [mode |-> "none", links |-> 0, direct |-> 0, single |-> 0,
          entries |-> [n \in Names |-> 0], target |-> <<>>]

\* A disk fresh from mkfs: only the root directory, in block 1.
Init ==
    /\ disk = [imap  |-> {Root}, ifree |-> MaxInode - Root,
               bmap  |-> {1}, bfree |-> MaxBlock - 1,
               raw   |-> [i \in Inodes |-> IF i = Root
                              THEN [Blank EXCEPT !.mode = "dir", !.links = 2, !.direct = 1]
                              ELSE Blank],
               ptr   |-> [b \in Blocks |-> 0]]
    /\ refs = [i \in Inodes |-> 0]
    /\ pcache = <<>>
    /\ file = [f \in Files |-> 0]
    /\ panicked = FALSE
    /\ orderly = TRUE

-----------------------------------------------------------------------------
(* The bitmaps.  A record of a free inode and the pointers of a free block   *)
(* are kept blank: the code blanks them when it allocates them again.        *)

FirstFree(all, used) == IF all \subseteq used THEN 0 ELSE Min(all \ used)

AllocBlock(d) ==
    LET b == IF d.bfree = 0 THEN 0 ELSE FirstFree(Blocks, d.bmap)
    IN [num  |-> b,
        disk |-> IF b = 0 THEN d ELSE [d EXCEPT !.bmap = @ \cup {b}, !.bfree = @ - 1]]

FreeBlocks(d, S) ==
    [d EXCEPT !.bmap  = @ \ S,
              !.bfree = @ + Cardinality(S),
              !.ptr   = [b \in Blocks |-> IF b \in S THEN 0 ELSE @[b]]]

AllocInode(d) ==
    LET n == IF d.ifree = 0 THEN 0 ELSE FirstFree(Inodes, d.imap)
    IN [num  |-> n,
        disk |-> IF n = 0 THEN d ELSE [d EXCEPT !.imap = @ \cup {n}, !.ifree = @ - 1]]

FreeInode(d, n) ==
    [d EXCEPT !.imap = @ \ {n}, !.ifree = @ + 1, !.raw[n] = Blank]

-----------------------------------------------------------------------------
(* The block map of an inode.                                               *)

BlocksOf(d, i) ==
    LET r == d.raw[i]
    IN {r.direct, r.single, IF r.single = 0 THEN 0 ELSE d.ptr[r.single]} \ {0}

MapDirect(d, i) ==
    LET a == AllocBlock(d)
    IN IF d.raw[i].direct # 0 THEN [num |-> d.raw[i].direct, disk |-> d]
       ELSE [a EXCEPT !.disk.raw[i].direct = a.num]

\* An indirect block that was allocated stays in the inode when there is no
\* block left for the data.
MapIndirect(d, i) ==
    LET s == IF d.raw[i].single # 0 THEN [num |-> d.raw[i].single, disk |-> d]
             ELSE LET a == AllocBlock(d) IN [a EXCEPT !.disk.raw[i].single = a.num]
        a == AllocBlock(s.disk)
    IN IF s.num = 0 THEN [num |-> 0, disk |-> d]
       ELSE IF s.disk.ptr[s.num] # 0 THEN [num |-> s.disk.ptr[s.num], disk |-> s.disk]
       ELSE [a EXCEPT !.disk.ptr[s.num] = a.num]

BlockMapAlloc(d, i, logical) == IF logical = 0 THEN MapDirect(d, i) ELSE MapIndirect(d, i)

TruncateFault(d, i) ==
    [d EXCEPT !.bmap = @ \ {d.raw[i].direct}, !.bfree = @ + 1,
              !.raw[i].direct = 0, !.raw[i].single = 0]

Truncate(d, i) ==
    [FreeBlocks(d, BlocksOf(d, i)) EXCEPT !.raw[i].direct = 0, !.raw[i].single = 0]

-----------------------------------------------------------------------------
(* Directory entries.  A directory never outgrows its first block.           *)

AddDirEntry(d, dir, name, num) ==
    LET b == MapDirect(d, dir)
    IN IF d.raw[dir].entries[name] # 0 \/ b.num = 0
       THEN [ok |-> FALSE, disk |-> d]
       ELSE [ok |-> TRUE, disk |-> [b.disk EXCEPT !.raw[dir].entries[name] = num]]

RemoveDirEntry(d, dir, name) == [d EXCEPT !.raw[dir].entries[name] = 0]

Failed(d) == [num |-> 0, disk |-> d]

\* Ext2Mount::create and Ext2Mount::symlink.
NewNode(d, dir, name, node) ==
    LET a     == AllocInode(d)
        added == AddDirEntry([a.disk EXCEPT !.raw[a.num] = node], dir, name, a.num)
    IN CASE a.num = 0 -> Failed(d)
         [] a.num # 0 /\ ~added.ok -> Failed(FreeInode(added.disk, a.num))
         [] a.num # 0 /\ added.ok -> [num |-> a.num, disk |-> added.disk]

CreateNode(d, dir, name) == NewNode(d, dir, name, [Blank EXCEPT !.mode = "file", !.links = 1])

SymlinkNode(d, dir, name, target) ==
    NewNode(d, dir, name, [Blank EXCEPT !.mode = "link", !.links = 1, !.target = target])

MoreLinks(n) == IF n = LinkCap THEN n ELSE n + 1

MkdirNodeFault(d, dir, name) ==
    LET a     == AllocInode(d)
        b     == AllocBlock(a.disk)
        node  == [Blank EXCEPT !.mode = "dir", !.links = 1, !.direct = b.num]
        added == AddDirEntry([b.disk EXCEPT !.raw[a.num] = node], dir, name, a.num)
    IN CASE a.num = 0 -> Failed(d)
         [] a.num # 0 /\ b.num = 0 -> Failed(a.disk)
         [] a.num # 0 /\ b.num # 0 /\ ~added.ok ->
                Failed(FreeBlocks(FreeInode(added.disk, a.num), {b.num}))
         [] a.num # 0 /\ b.num # 0 /\ added.ok ->
                [num |-> a.num, disk |-> [added.disk EXCEPT !.raw[dir].links = MoreLinks(@)]]

MkdirNode(d, dir, name) ==
    LET a     == AllocInode(d)
        b     == AllocBlock(a.disk)
        node  == [Blank EXCEPT !.mode = "dir", !.links = 1, !.direct = b.num]
        added == AddDirEntry([b.disk EXCEPT !.raw[a.num] = node], dir, name, a.num)
    IN CASE a.num = 0 -> Failed(d)
         [] a.num # 0 /\ b.num = 0 -> Failed(FreeInode(a.disk, a.num))
         [] a.num # 0 /\ b.num # 0 /\ ~added.ok ->
                Failed(FreeBlocks(FreeInode(added.disk, a.num), {b.num}))
         [] a.num # 0 /\ b.num # 0 /\ added.ok ->
                [num |-> a.num, disk |-> [added.disk EXCEPT !.raw[dir].links = MoreLinks(@)]]

\* Ext2Mount::unlink.  The text of a symlink lies where the block pointers are
\* and is freed as if it were one of them: text is the block it happens to name.
UnlinkNode(d, dir, name, text) ==
    LET i == d.raw[dir].entries[name]
        b == IF d.raw[i].mode = "link" THEN {text} ELSE BlocksOf(d, i)
        g == IF d.raw[i].links = 1 THEN FreeInode(FreeBlocks(d, b), i)
             ELSE [d EXCEPT !.raw[i].links = @ - 1]
    IN RemoveDirEntry(g, dir, name)

\* Ext2Mount::rename: the inode that had the new name is not freed.
RenameNode(d, src, old, dst, new) ==
    LET i     == d.raw[src].entries[old]
        there == d.raw[dst].entries[new]
        added == AddDirEntry(RemoveDirEntry(d, dst, new), dst, new, i)
    IN IF there = i THEN d ELSE RemoveDirEntry(added.disk, src, old)

-----------------------------------------------------------------------------
(* The inode cache.  lookup, insert and acquire add a reference; release     *)
(* drops one, and the entry and the object with the last.                    *)

Get(r, i) == [r EXCEPT ![i] = @ + 1]

Put(r, i) == IF r[i] = 0 THEN r ELSE [r EXCEPT ![i] = @ - 1]

\* A referenced entry moves to a key nobody looks up.
Invalidate(r, i) == [r EXCEPT ![i] = 0]

-----------------------------------------------------------------------------
(* The path cache.                                                          *)

Without(c, S) == Restrict(c, DOMAIN c \ S)

InsertPath(c, p, i) == (p :> i) @@ c

-----------------------------------------------------------------------------
(* Path resolution.                                                         *)

\* The inode of a name in directory i; 0 when there is none, or no directory.
Entry(i, name) ==
    IF i # 0 /\ disk.raw[i].mode = "dir" THEN disk.raw[i].entries[name] ELSE 0

\* The inode at each component of a path, walking from the root through
\* directories only; 0 from the first component that is missing.
Walk(p) ==
    LET at[k \in 0..Len(p)] == IF k = 0 THEN Root ELSE Entry(at[k - 1], p[k])
    IN at

End(p) == Walk(p)[Len(p)]

ModeOf(i) == disk.raw[i].mode

\* VFS::resolvePath(path, true, depth).  ino is 0 when it returns nullptr; at is
\* the path under which it finds the inode; stale are the paths it invalidates.
\* Every other inode on the way is released before the next one is taken.
Resolve[depth \in Nat, p \in Seq(Names)] ==
    LET walk  == Walk(p)
        links == {k \in 1..Len(p) : walk[k] # 0 /\ ModeOf(walk[k]) = "link"}
        stale == {p} \cap DOMAIN pcache
    IN IF depth > SymlinkDepth THEN [ino |-> 0, at |-> p, stale |-> {}]
       ELSE IF stale # {} /\ ModeOf(pcache[p]) # "link"
       THEN [ino |-> pcache[p], at |-> p, stale |-> {}]
       ELSE IF links = {} THEN [ino |-> walk[Len(p)], at |-> p, stale |-> stale]
       ELSE LET k == Min(links)
                r == Resolve[depth + 1, disk.raw[walk[k]].target
                                            \o SubSeq(p, k + 1, Len(p))]
            IN [r EXCEPT !.stale = @ \cup stale]

\* What a resolution leaves in the path cache.
Learn(c, r) ==
    IF r.ino = 0 THEN Without(c, r.stale)
    ELSE InsertPath(Without(c, r.stale), r.at, r.ino)

Front(p) == SubSeq(p, 1, Len(p) - 1)
Last(p) == p[Len(p)]

\* VFS::resolveParent, and what it leaves in the path cache.
ResolveParent(p) ==
    IF Len(p) = 1 THEN [ino |-> Root, at |-> <<>>, stale |-> {}]
    ELSE Resolve[0, Front(p)]

LearnParent(p) == IF Len(p) = 1 THEN pcache ELSE Learn(pcache, ResolveParent(p))

\* The parent of p is reached through directories, not through a symlink.
Plain(p) == End(Front(p)) # 0 /\ ModeOf(End(Front(p))) = "dir"

-----------------------------------------------------------------------------
(* The calls.                                                               *)

\* open of a name that exists.
OpenFound(f, p, trunc) ==
    LET r == Resolve[0, p]
        held == Get(refs, r.ino)
        refuse == trunc /\ ModeOf(r.ino) = "dir"
    IN /\ file[f] = 0
       /\ r.ino # 0
       /\ pcache' = Learn(pcache, r)
       /\ refs' = IF refuse THEN Put(held, r.ino) ELSE held
       /\ file' = IF refuse THEN file ELSE [file EXCEPT ![f] = r.ino]
       /\ disk' = IF trunc /\ ~refuse THEN Truncate(disk, r.ino) ELSE disk
       /\ UNCHANGED <<panicked, orderly>>

\* open with O_CREAT of a name that does not exist.  Nothing checks that the
\* parent is a directory, and the path is cached as it was given.
OpenCreate(f, p) ==
    LET r == Resolve[0, p]
        parent == ResolveParent(p)
        made == CreateNode(disk, parent.ino, Last(p))
        left == Put(Get(refs, parent.ino), parent.ino)
    IN /\ file[f] = 0
       /\ r.ino = 0 /\ parent.ino # 0
       /\ disk' = made.disk
       /\ IF made.num = 0
          THEN /\ refs' = left
               /\ pcache' = LearnParent(p)
               /\ UNCHANGED <<file, orderly>>
          ELSE /\ refs' = Get(left, made.num)
               /\ pcache' = InsertPath(LearnParent(p), p, made.num)
               /\ file' = [file EXCEPT ![f] = made.num]
               /\ orderly' = (orderly /\ Plain(p))
       /\ UNCHANGED panicked

\* The parent a call works on exists and is a directory.
ParentOf(p) == ResolveParent(p).ino

Under(p) == p # <<>> /\ ParentOf(p) # 0 /\ ModeOf(ParentOf(p)) = "dir"

Mkdir(p) ==
    /\ Under(p)
    /\ LET parent == ParentOf(p)
       IN /\ disk' = MkdirNode(disk, parent, Last(p)).disk
          /\ refs' = Put(Get(refs, parent), parent)
    /\ pcache' = Without(LearnParent(p), {p})
    /\ UNCHANGED <<file, panicked, orderly>>

Symlink(target, p) ==
    /\ Under(p)
    /\ LET parent == ParentOf(p)
           made == SymlinkNode(disk, parent, Last(p), target)
           left == Put(Get(refs, parent), parent)
       IN /\ disk' = made.disk
          /\ refs' = IF made.num = 0 THEN left ELSE Put(Get(left, made.num), made.num)
    /\ pcache' = LearnParent(p)
    /\ UNCHANGED <<file, panicked, orderly>>

\* The call that removes the name p would not leave something behind: the name
\* is not an alias, nothing has the inode open, it is no symlink, and if it is a
\* directory it is empty and has never had a subdirectory.
CleanRemoval(p, i) ==
    /\ Plain(p)
    /\ \A f \in Files : file[f] # i
    /\ ModeOf(i) # "link"
    /\ ModeOf(i) = "dir" => /\ disk.raw[i].links = 1
                            /\ disk.raw[i].entries = Blank.entries

Unlink(p, rmdir) ==
    /\ Under(p)
    /\ LET parent == ParentOf(p)
           t == Resolve[0, p]
           learnt == Learn(LearnParent(p), t)
           i == disk.raw[parent].entries[Last(p)]
           refused == i = 0 \/ (t.ino # 0 /\ ModeOf(t.ino) = "dir" /\ ~rmdir)
           left == Put(Get(refs, parent), parent)
       IN /\ IF refused THEN UNCHANGED disk
             ELSE \E text \in IF ModeOf(i) = "link" THEN Blocks ELSE {0} :
                      disk' = UnlinkNode(disk, parent, Last(p), text)
          /\ refs' = IF refused \/ t.ino = 0 THEN left ELSE Invalidate(left, t.ino)
          /\ pcache' = IF refused \/ t.ino = 0 THEN learnt ELSE Without(learnt, {p})
          /\ orderly' = (orderly /\ (~refused => CleanRemoval(p, i)))
    /\ UNCHANGED <<file, panicked>>

\* rename drops the two names from the path cache and no name below them.
RenamedFault(c, p, q) == Without(c, {q})

Renamed(c, p, q) == Without(c, {p, q})

Rename(p, q) ==
    /\ Under(p)
    /\ Under(q)
    /\ LET src == ParentOf(p)
           dst == ParentOf(q)
           i == disk.raw[src].entries[Last(p)]
           there == disk.raw[dst].entries[Last(q)]
           learnt == IF Len(q) = 1 THEN LearnParent(p)
                     ELSE Learn(LearnParent(p), ResolveParent(q))
       IN /\ disk' = IF i = 0 THEN disk ELSE RenameNode(disk, src, Last(p), dst, Last(q))
          /\ refs' = Put(Put(Get(Get(refs, src), dst), src), dst)
          /\ pcache' = IF i = 0 THEN learnt ELSE Renamed(learnt, p, q)
          /\ orderly' = (orderly /\ (i # 0 => /\ Plain(p) /\ Plain(q)
                                              /\ ModeOf(i) # "dir"
                                              /\ there \in {0, i}))
    /\ UNCHANGED <<file, panicked>>

\* stat, faccessat, utimensat and chdir only look a path up, and so does an open
\* without O_CREAT that does not find it.
Lookup(p) ==
    LET r == Resolve[0, p]
    IN /\ pcache' = Learn(pcache, r)
       /\ refs' = IF r.ino = 0 THEN refs ELSE Put(Get(refs, r.ino), r.ino)
       /\ UNCHANGED <<disk, file, panicked, orderly>>

DupFault(f, g) ==
    /\ file[f] # 0 /\ file[g] = 0
    /\ file' = [file EXCEPT ![g] = file[f]]
    /\ UNCHANGED <<disk, refs, pcache, panicked, orderly>>

\* The copy of a File that dup and fork make.
Dup(f, g) ==
    /\ file[f] # 0 /\ file[g] = 0
    /\ file' = [file EXCEPT ![g] = file[f]]
    /\ refs' = IF refs[file[f]] = 0 THEN refs ELSE Get(refs, file[f])
    /\ panicked' = (panicked \/ refs[file[f]] = 0)
    /\ UNCHANGED <<disk, pcache, orderly>>

Close(f) ==
    /\ file[f] # 0
    /\ file' = [file EXCEPT ![f] = 0]
    /\ refs' = Put(refs, file[f])
    /\ UNCHANGED <<disk, pcache, panicked, orderly>>

\* A write into one block.  On a full disk it fails and keeps what it has
\* allocated.  Nothing keeps a write from a directory, whose entries it erases.
Write(f, logical) ==
    /\ file[f] # 0
    /\ LET d == BlockMapAlloc(disk, file[f], logical).disk
           dir == ModeOf(file[f]) = "dir"
       IN /\ disk' = IF dir THEN [d EXCEPT !.raw[file[f]].entries = Blank.entries] ELSE d
          /\ orderly' = (orderly /\ ~dir)
    /\ UNCHANGED <<refs, pcache, file, panicked>>

\* ftruncate to length 0.
Ftruncate(f) ==
    /\ file[f] # 0
    /\ disk' = LET d == Truncate(disk, file[f])
               IN IF ModeOf(file[f]) = "dir"
                  THEN [d EXCEPT !.raw[file[f]].entries = Blank.entries] ELSE d
    /\ refs' = Put(Get(refs, file[f]), file[f])
    /\ orderly' = (orderly /\ ModeOf(file[f]) # "dir")
    /\ UNCHANGED <<pcache, file, panicked>>

Next ==
    \/ \E f \in Files, p \in Paths :
           OpenCreate(f, p) \/ \E trunc \in BOOLEAN : OpenFound(f, p, trunc)
    \/ \E p \in Paths : \/ Lookup(p) \/ Mkdir(p)
                        \/ \E rmdir \in BOOLEAN : Unlink(p, rmdir)
                        \/ \E q \in Paths : Rename(p, q)
                        \/ \E t \in Targets : Symlink(t, p)
    \/ \E f \in Files : \/ Close(f) \/ Ftruncate(f)
                        \/ \E logical \in {0, 1} : Write(f, logical)
                        \/ \E g \in Files : Dup(f, g)

Spec == Init /\ [][Next]_vars

-----------------------------------------------------------------------------
\* The paths that can name something: no chain is longer than the inodes.
DeepPaths == UNION {[1..n -> Names] : n \in 0..(MaxInode - Root)}

\* Inode allocation is exact: the inodes marked in the bitmap are the ones the
\* root reaches, each by one path, and the free count is the number of clear
\* bits, whatever creations failed half-way (Ext2Mount::create, mkdir, unlink,
\* rename).
InodesExact ==
    orderly =>
        LET named == {p \in DeepPaths : End(p) # 0}
        IN /\ disk.imap = {End(p) : p \in named}
           /\ Cardinality(named) = Cardinality(disk.imap)
           /\ disk.ifree = Cardinality(Inodes \ disk.imap)

\* Block allocation is exact: a block is marked exactly when one inode in use
\* points to it, as data or as its indirect block, it has one place there, and
\* the free count is the number of clear bits, also after a write or a mkdir that
\* ran out of blocks (blockMapAlloc, truncate, unlink, allocBlock, freeBlock).
BlocksExact ==
    orderly =>
        /\ disk.bmap = UNION {BlocksOf(disk, i) : i \in disk.imap}
        /\ \A i, j \in disk.imap :
               i # j => BlocksOf(disk, i) \cap BlocksOf(disk, j) = {}
        /\ \A i \in disk.imap :
               LET r == disk.raw[i]
               IN r.single # 0 => r.single \notin {r.direct, disk.ptr[r.single]}
        /\ disk.bfree = Cardinality(Blocks \ disk.bmap)

\* A cached path is never out of date: PathCache has for a path the inode a walk
\* from the root finds, and never a symlink (VFS::resolvePath returns the cached
\* inode without a walk).
PathCacheSound ==
    orderly => \A p \in DOMAIN pcache : End(p) = pcache[p] /\ ModeOf(pcache[p]) # "link"

\* Between calls an inode is in the cache with exactly one reference for each
\* File open on it, so no call forgets a putInode on an error path, the object a
\* File points to is not deleted under it, and InodeCache does not panic.
RefsExact ==
    orderly =>
        /\ ~panicked
        /\ \A i \in Inodes : refs[i] = Cardinality({f \in Files : file[f] = i})
=============================================================================
