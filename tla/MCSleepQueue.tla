---------------------------- MODULE MCSleepQueue ---------------------------
(* Small instances of SleepQueue for TLC. *)
EXTENDS SleepQueue, TLC

CONSTANTS p1, p2, p3, p4

MCSymmetry == Permutations(Pcbs)
=============================================================================
