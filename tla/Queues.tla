------------------------------- MODULE Queues ------------------------------
(***************************************************************************)
(* The contents of the kernel's intrusive lists of PCBs, as sequences with *)
(* the head first: ProcList (m_next), the blocked queue of a Semaphore     *)
(* (m_semNext), FutexQueue (m_futexNext), the sleep list (m_nextSleep),    *)
(* and of the list of a Process's children (m_nextSibling).                *)
(* IntrusiveList has the pointers behind them.                             *)
(***************************************************************************)
EXTENDS Integers, Sequences, Functions

\* q after unlinking p, wherever it stands
Unlink(q, p) ==
    IF p \notin Range(q) THEN q
    ELSE LET i == CHOOSE k \in 1..Len(q) : q[k] = p
         IN  [k \in 1..(Len(q) - 1) |-> IF k < i THEN q[k] ELSE q[k + 1]]

\* q with p linked in after its first i members
LinkAfter(q, i, p) ==
    [k \in 1..(Len(q) + 1) |-> IF k <= i THEN q[k] ELSE IF k = i + 1 THEN p ELSE q[k - 1]]

\* q as it ends up when its members are moved one by one to the head of another list
Reversed(q) == [k \in 1..Len(q) |-> q[(Len(q) - k) + 1]]

\* p's link field is null: p is not in q, or is its tail
LastOrAbsent(q, p) == \A i \in 1..Len(q) : q[i] = p => i = Len(q)

\* no PCB is linked twice into q
NoDuplicates(q) == \A i, j \in 1..Len(q) : q[i] = q[j] => i = j
=============================================================================
