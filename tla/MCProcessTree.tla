--------------------------- MODULE MCProcessTree ---------------------------
(* ProcessTree for TLC: Root and three more Process objects. *)
EXTENDS ProcessTree, TLC

CONSTANTS r, a, b, c

AllTargets == Procs \cup {AnyPid}

Interchangeable == Permutations(Procs \ {Root})
=============================================================================
