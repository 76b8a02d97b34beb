------------------------------ MODULE MCFutex ------------------------------
(* Small instances of Futex for TLC. *)
EXTENDS Futex, TLC

CONSTANTS p1, p2, k1, k2

MCSemInit == [s \in Sems |-> 0]
=============================================================================
