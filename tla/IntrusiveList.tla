--------------------------- MODULE IntrusiveList ---------------------------
(***************************************************************************)
(* The singly linked list of PCBs with head and tail that the kernel has   *)
(* three times, through three link fields of the PCB: ProcList (m_next),   *)
(* the blocked queue of a Semaphore (m_semNext), FutexQueue (m_futexNext). *)
(* The lists' code is the same up to names; forceRemove exists in the last *)
(* two.  It runs under a lock with interrupts off; its walk is modelled    *)
(* step by step because its loop invariant is what makes it right.         *)
(***************************************************************************)
EXTENDS Queues

CONSTANTS Pcbs, Null

ASSUME ListConstants == Null \notin Pcbs

VARIABLES
    head, tail, \* m_head and m_tail
    next,       \* the link field of every PCB
    got,        \* what the last get() returned
    target,     \* the pcb argument of the forceRemove that is walking, or Null
    cur,        \* its cursor
    list        \* history: the members, oldest first

walkVars == <<target, cur>>
vars == <<head, tail, next, got, target, cur, list>>

Link == Pcbs \cup {Null}

TypeOK ==
    /\ head \in Link /\ tail \in Link
    /\ next \in [Pcbs -> Link]
    /\ got \in Link
    /\ target \in Link /\ cur \in Link
    /\ list \in Seq(Pcbs)

Init ==
    /\ head = Null /\ tail = Null
    /\ next = [p \in Pcbs |-> Null]
    /\ got = Null
    /\ target = Null /\ cur = Null
    /\ list = <<>>

Idle == target = Null

-----------------------------------------------------------------------------
(* The definitions named *Fault are plausible mistakes in the operation    *)
(* that follows them; no specification uses them.                          *)

\* A PCB is put into a list only when it is not in it: ReadyListExact and
\* WaitersExact of Sched.
Put(p) ==
    /\ Idle /\ p \notin Range(list)
    /\ IF tail = Null
       THEN head' = p /\ next' = [next EXCEPT ![p] = Null]
       ELSE head' = head /\ next' = [next EXCEPT ![p] = Null, ![tail] = p]
    /\ tail' = p
    /\ list' = Append(list, p)
    /\ UNCHANGED <<got, walkVars>>

GetFault1 ==
    \* the tail is not reset when the last member leaves
    /\ Idle
    /\ IF head = Null
       THEN got' = Null /\ UNCHANGED <<head, tail, next, list>>
       ELSE /\ got' = head
            /\ head' = next[head]
            /\ next' = [next EXCEPT ![head] = Null]
            /\ list' = Tail(list)
            /\ UNCHANGED tail
    /\ UNCHANGED walkVars

GetFault2 ==
    \* the head is advanced before it is saved
    /\ Idle
    /\ IF head = Null
       THEN got' = Null /\ UNCHANGED <<head, tail, next, list>>
       ELSE /\ got' = next[head]
            /\ head' = next[head]
            /\ tail' = IF next[head] = Null THEN Null ELSE tail
            /\ next' = [next EXCEPT ![head] = Null]
            /\ list' = Tail(list)
    /\ UNCHANGED walkVars

Get ==
    /\ Idle
    /\ IF head = Null
       THEN got' = Null /\ UNCHANGED <<head, tail, next, list>>
       ELSE /\ got' = head
            /\ head' = next[head]
            /\ tail' = IF next[head] = Null THEN Null ELSE tail
            /\ next' = [next EXCEPT ![head] = Null]
            /\ list' = Tail(list)
    /\ UNCHANGED walkVars

RemoveHead(p) ==
    \* forceRemove(p), p first
    /\ Idle /\ head = p
    /\ head' = next[p]
    /\ tail' = IF next[p] = Null THEN Null ELSE tail
    /\ next' = [next EXCEPT ![p] = Null]
    /\ list' = Unlink(list, p)
    /\ UNCHANGED <<got, walkVars>>

RemoveStart(p) ==
    \* forceRemove(p), p not first: the walk begins
    /\ Idle /\ head # p
    /\ target' = p /\ cur' = head
    /\ UNCHANGED <<head, tail, next, got, list>>

RemoveWalk ==
    /\ ~Idle /\ cur # Null /\ next[cur] # target
    /\ cur' = next[cur]
    /\ UNCHANGED <<head, tail, next, got, target, list>>

RemoveLink ==
    /\ ~Idle /\ cur # Null /\ next[cur] = target
    /\ next' = [next EXCEPT ![cur] = next[target], ![target] = Null]
    /\ tail' = IF tail = target THEN cur ELSE tail
    /\ list' = Unlink(list, target)
    /\ target' = Null /\ cur' = Null
    /\ UNCHANGED <<head, got>>

RemoveAbsent ==
    \* the walk fell off the end: not a member
    /\ ~Idle /\ cur = Null
    /\ target' = Null
    /\ UNCHANGED <<head, tail, next, got, cur, list>>

Next ==
    \/ \E p \in Pcbs : Put(p) \/ RemoveHead(p) \/ RemoveStart(p)
    \/ Get
    \/ RemoveWalk
    \/ RemoveLink
    \/ RemoveAbsent

Spec == Init /\ [][Next]_vars

-----------------------------------------------------------------------------
(* Properties *)

(* head, tail and the links spell exactly the members in the order they    *)
(* were put, and the link field of every other PCB is null, which is what  *)
(* PCBGarbage::isSafeToDelete takes for "in no list".                      *)
Represents ==
    /\ NoDuplicates(list)
    /\ head = IF list = <<>> THEN Null ELSE list[1]
    /\ tail = IF list = <<>> THEN Null ELSE list[Len(list)]
    /\ \A i \in 1..Len(list) :
         next[list[i]] = IF i = Len(list) THEN Null ELSE list[i + 1]
    /\ \A p \in Pcbs : p \notin Range(list) => next[p] = Null

(* The loop invariant of forceRemove: the cursor is a member, everything   *)
(* up to it is known not to be the target; off the end, nothing is.        *)
WalkInv ==
    IF Idle THEN cur = Null
    ELSE IF cur = Null THEN target \notin Range(list)
    ELSE \E i \in 1..Len(list) : /\ cur = list[i]
                                 /\ \A j \in 1..i : list[j] # target

(* The list keeps the promise of PcbFifo: get() returns the oldest member. *)
Fifo == INSTANCE PcbFifo WITH q <- list
FifoSpec == Fifo!Spec
=============================================================================
