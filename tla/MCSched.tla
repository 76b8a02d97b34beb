------------------------------ MODULE MCSched ------------------------------
(* Small instances of Sched for TLC. *)
EXTENDS Sched, TLC

CONSTANTS p1, p2, mutex, event

\* one semaphore is a mutex, as in Disk and the inodes; the other counts
\* events, as Process::m_selfSem does
MCSemInit == [s \in Sems |-> IF s = mutex THEN 1 ELSE 0]

MCSymmetry == Permutations({p1, p2})
=============================================================================
