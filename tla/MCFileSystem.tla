---------------------------- MODULE MCFileSystem ----------------------------
(***************************************************************************)
(* A disk with two names per directory and room for a file that needs an     *)
(* indirect block, but not for everything the calls ask for.                 *)
(***************************************************************************)
EXTENDS FileSystem

CONSTANTS n1, n2

\* Two names in the root, and one name below each of them, so that n2 can be a
\* symlink to n1 and n1 to itself.
MCPaths == {<<n1>>, <<n2>>, <<n1, n1>>, <<n2, n1>>}
MCTargets == {<<n1>>, <<n1, n1>>}

\* Nothing is explored after the first call that breaks the agreement, and
\* symlinks while no File is open.
NoSymlink == \A i \in Inodes : ModeOf(i) # "link"
NoneOpen == \A f \in Files : file[f] = 0
Explored == orderly /\ (NoSymlink \/ NoneOpen)

\* The slots for open Files are interchangeable.
Symmetry == Permutations(Files)
=============================================================================
