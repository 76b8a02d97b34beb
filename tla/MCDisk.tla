------------------------------- MODULE MCDisk -------------------------------
(* Disk for TLC. *)
EXTENDS Disk, TLC

CONSTANTS p1, p2, p3, s1, s2, s3

(* The processes that only read, and the sectors, are interchangeable *)
Interchangeable == Permutations(Procs \ Writers) \cup Permutations(Sectors)
=============================================================================
