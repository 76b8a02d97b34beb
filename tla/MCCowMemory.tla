---------------------------- MODULE MCCowMemory ----------------------------
(* CowMemory for TLC. *)
EXTENDS CowMemory, TLC

CONSTANTS p1, p2, p3, g1, g2, g3

Interchangeable == Permutations(Pages)

(* The first page of the mappings, or both *)
FirstOrBoth == {HeapMax + 1} \X Maps

(* Behaviours end where brk, mprotect, exec or munmap meets a shared page. *)
(* Three processes are explored while none has or has cut a mapping;       *)
(* mappings of two pages, and processes that have cut one, while all that  *)
(* is mapped is writable.                                                  *)
Pair == Cardinality(alive \cup dead) <= 2
NoMaps == cut = {} /\ \A p \in Procs : region[p] = {}
OnePage == cut = {} /\ \A p \in Procs : InRegions(region[p]) \subseteq {HeapMax + 1}
AllWritable == \A p \in Procs : \A a \in Mapped(p) : pte[p][a].w
(* p2 and p3 are interchangeable as well: p2 alone stands for either *)
Canonical == p3 \in alive \cup dead => p2 \in alive \cup dead
Explored == orderly /\ Canonical /\ (Pair \/ NoMaps) /\ (OnePage \/ AllWritable)
=============================================================================
