----------------------------- MODULE KmemCache ------------------------------
(***************************************************************************)
(* An object cache (kernel/mm/kalloc/kmem_cache.cpp, slab.cpp) on top of the *)
(* page allocator: every cache keeps three lists of slabs, chained through    *)
(* the slabs' next fields, and every slab a chain of free slots.  kmalloc and *)
(* every new in the kernel are such a cache of some object size.              *)
(*                                                                         *)
(* alloc and free hold m_lock and do not yield: each is one step.  A slab is  *)
(* named by its page.  The next fields are kept as they are in memory,        *)
(* because alloc does not unlink the slab it moves between two lists.         *)
(***************************************************************************)
EXTENDS Buddy, TLC

CONSTANTS Slots,      \* m_maxSlots of a slab of this cache
          Null

VARIABLES partial, empty, full,   \* the heads of the three lists
          next,                   \* Slab::next of every page that is a slab
          slots,                  \* slab -> its free slots, the first is m_free
          objs,                   \* the objects callers hold: <<slab, slot>>
          failed,                 \* no, or how a call went wrong: null when alloc
                                  \* returned no object, panic when free did not
                                  \* find one, fault when there was no page
          tangled                 \* history: a slab is on two lists

cacheVars == <<partial, empty, full, next, slots, objs, failed, tangled>>

ASSUME CacheAssumption == Slots \in Nat \ {0} /\ Null \notin Heap

CacheInit ==
    /\ Init
    /\ partial = Null /\ empty = Null /\ full = Null
    /\ next = [s \in {} |-> Null]
    /\ slots = [s \in {} |-> <<>>]
    /\ objs = {}
    /\ failed = "no" /\ tangled = FALSE

AllSlots == [i \in 1..Slots |-> i]

\* The slabs of a list, as far as they are all different.
Chain(head, links) ==
    LET at[k \in 1..Pages] ==
            IF k = 1 THEN head
            ELSE IF at[k - 1] = Null THEN Null ELSE links[at[k - 1]]
        n == {k \in 1..Pages : at[k] # Null}
    IN [k \in n |-> at[k]]

-----------------------------------------------------------------------------
GetSlotFault(s, links, free) ==
    LET f == free[s]
    IN /\ slots' = [free EXCEPT ![s] = Tail(f)]
       /\ objs' = objs \cup {<<s, Head(f)>>}
       /\ next' = links /\ partial' = s
       /\ UNCHANGED <<full, failed>>

\* The second half of MemCache::alloc: a slot of the slab s at the head of the
\* partial list, where links and free are next and slots with s in them.  A slab
\* that is full then goes to the full list.
GetSlot(s, links, free) ==
    LET f == free[s]
    IN /\ slots' = [free EXCEPT ![s] = IF f = <<>> THEN f ELSE Tail(f)]
       /\ objs' = IF f = <<>> THEN objs ELSE objs \cup {<<s, Head(f)>>}
       /\ failed' = IF f = <<>> THEN "null" ELSE failed
       /\ IF Len(f) <= 1
          THEN next' = [links EXCEPT ![s] = full] /\ full' = s /\ partial' = links[s]
          ELSE next' = links /\ partial' = s /\ UNCHANGED full

AllocPartial ==
    /\ partial # Null
    /\ GetSlot(partial, next, slots)
    /\ UNCHANGED <<empty, tangled, pageVars>>

\* The slab taken from the empty list keeps its next field, so what follows it
\* on that list is now on the partial list as well.
AllocEmpty ==
    /\ partial = Null /\ empty # Null
    /\ GetSlot(empty, next, slots)
    /\ empty' = next[empty]
    /\ tangled' = (tangled \/ next[empty] # Null)
    /\ UNCHANGED pageVars

\* Slab::create takes a page and does not look whether it got one.
AllocNew ==
    /\ partial = Null /\ empty = Null
    /\ KallocPages(1)
    /\ IF Fits(buddy, 1) = {}
       THEN failed' = "fault" /\ UNCHANGED <<partial, full, next, slots, objs>>
       ELSE LET s == Taken(buddy, 1)
            IN GetSlot(s, (s :> Null) @@ next, (s :> AllSlots) @@ slots)
    /\ UNCHANGED <<empty, tangled>>

\* links without s in the list that starts at head, and s before first.
Moved(links, head, s, first) ==
    LET before == {p \in DOMAIN links : p \in Range(Chain(head, links)) /\ links[p] = s}
    IN [p \in DOMAIN links |-> IF p = s THEN first
                               ELSE IF p \in before THEN links[s] ELSE links[p]]

\* The head of that list without s.
Behead(links, head, s) == IF s = head THEN links[s] ELSE head

FreePartial(o) ==
    LET s == o[1]
        gone == Len(slots[s]) + 1 = Slots
    IN /\ s \in Range(Chain(partial, next))
       /\ slots' = [slots EXCEPT ![s] = <<o[2]>> \o @]
       /\ objs' = objs \ {o}
       /\ IF gone
          THEN /\ next' = Moved(next, partial, s, empty)
               /\ partial' = Behead(next, partial, s)
               /\ empty' = s
          ELSE UNCHANGED <<next, partial, empty>>
       /\ UNCHANGED <<full, failed, tangled, pageVars>>

\* kfree panics when no cache finds the object.
FreeFull(o) ==
    LET s == o[1]
    IN /\ s \notin Range(Chain(partial, next))
       /\ IF s \in Range(Chain(full, next))
          THEN /\ slots' = [slots EXCEPT ![s] = <<o[2]>> \o @]
               /\ objs' = objs \ {o}
               /\ full' = Behead(next, full, s)
               /\ next' = Moved(next, full, s, partial)
               /\ partial' = s
               /\ UNCHANGED failed
          ELSE failed' = "panic" /\ UNCHANGED <<slots, objs, full, next, partial>>
       /\ UNCHANGED <<empty, tangled, pageVars>>

CacheNext ==
    \/ AllocPartial \/ AllocEmpty \/ AllocNew
    \/ \E o \in objs : FreePartial(o) \/ FreeFull(o)

\* The pages of a slab stay with the cache: nothing calls MemCache::shrink.
Next ==
    \/ CacheNext
    \/ /\ \/ \E n \in Counts : KallocPages(n)
          \/ \E r \in used : r.at \notin DOMAIN next /\ (KfreePages(r) \/ Scatter(r))
       /\ UNCHANGED cacheVars

Spec == CacheInit /\ [][Next]_<<pageVars, cacheVars>>

-----------------------------------------------------------------------------
\* As long as no slab was taken from the empty list with another one behind it,
\* every slab is on exactly one of the three lists, on the one that fits its
\* free slots, the lists end, and the free slots of a slab are the ones no caller
\* holds: no object is handed out twice, free finds every object, and alloc
\* returns one while there is a page (MemCache::alloc, MemCache::free,
\* Slab::getSlot, Slab::freeSlot).
SlabsExact ==
    ~tangled =>
        LET lists == <<Chain(partial, next), Chain(empty, next), Chain(full, next)>>
        IN /\ failed \in {"no", "fault"}
           /\ UNION {Range(lists[i]) : i \in 1..3} = DOMAIN next
           /\ Len(lists[1]) + Len(lists[2]) + Len(lists[3]) = Cardinality(DOMAIN next)
           /\ \A s \in Range(lists[1]) : slots[s] # <<>>
           /\ \A s \in Range(lists[2]) : Len(slots[s]) = Slots
           /\ \A s \in Range(lists[3]) : slots[s] = <<>>
           /\ \A s \in DOMAIN next :
                  /\ IsInjective(slots[s])
                  /\ Range(slots[s]) = {i \in 1..Slots : <<s, i>> \notin objs}

=============================================================================
