------------------------------- MODULE Buddy --------------------------------
(***************************************************************************)
(* The page allocator (kernel/mm/kalloc/buddy.cpp): for every order a list   *)
(* of free blocks of 2^order pages, in which a request is served by          *)
(* splitting and a freed block is merged with its neighbour.                 *)
(*                                                                         *)
(* The links of a list are stored in the free pages themselves; a list is    *)
(* here the sequence of its blocks, a block the number of its first page.    *)
(* alloc and free hold m_lock and do not yield: each is one step.            *)
(***************************************************************************)
EXTENDS Integers, Sequences, FiniteSets, FiniteSetsExt, SequencesExt

CONSTANTS Pages,     \* pages of the heap
          Top,       \* BUDDY_SIZE - 1, the last order
          Counts     \* the numbers of pages a caller asks for

VARIABLES buddy,     \* m_buddy: order -> the free blocks
          used,      \* what callers hold: [at, count, span], count of span pages
          lost,      \* pages nobody will free
          freeSpace  \* m_freeSpace, in pages

pageVars == <<buddy, used, lost, freeSpace>>

\* The heap is what the kernel image leaves of 2^27 bytes, so it is smaller than
\* the one block of the last order.
ASSUME HeapAssumption ==
    /\ Top \in Nat /\ Pages \in 1..(2^Top - 1)
    /\ Counts \subseteq 1..Pages

Orders == 0..Top
Heap == 0..(Pages - 1)

Run(x, n) == x..(x + n - 1)

\* Buddy::init: from the largest order down, as many blocks as fit.
Init ==
    /\ buddy = [o \in Orders |->
                   IF (Pages \div 2^o) % 2 = 1 THEN <<(Pages \div 2^(o + 1)) * 2^(o + 1)>>
                   ELSE <<>>]
    /\ used = {}
    /\ lost = {}
    /\ freeSpace = Pages

\* The order of a request, in alloc and in getOrder.
OrderFor(n) == Min({o \in Orders : n <= 2^o})

\* The smallest order with a free block that is large enough.
Fits(b, n) == {o \in Orders : o >= OrderFor(n) /\ b[o] # <<>>}

\* The block alloc returns: the end of the first block that fits.
Taken(b, n) ==
    LET k == Min(Fits(b, n)) IN Head(b[k]) + 2^k - 2^OrderFor(n)

SplitFault(b, n) ==
    LET k == Min(Fits(b, n))
    IN [o \in Orders |->
           CASE o = k -> Tail(b[o])
             [] o < k /\ o >= OrderFor(n) -> <<Head(b[k]) + 2^k - 2^o>> \o b[o]
             [] OTHER -> b[o]]

\* alloc splits that block: at every order on the way the lower half stays free.
Split(b, n) ==
    LET k == Min(Fits(b, n))
    IN [o \in Orders |->
           CASE o = k -> Tail(b[o])
             [] o < k /\ o >= OrderFor(n) -> <<Head(b[k]) + 2^k - 2^(o + 1)>> \o b[o]
             [] OTHER -> b[o]]

\* putBlock: before the first block with a larger number, past the last order
\* nowhere.
PutBlock(b, o, x) ==
    LET after == {i \in DOMAIN b[o] : b[o][i] >= x}
        at == IF after = {} THEN Len(b[o]) + 1 ELSE Min(after)
    IN IF o > Top THEN b ELSE [b EXCEPT ![o] = InsertAt(@, at, x)]

\* The neighbours in a list that are the two halves of one block.
Pairs(b, o) ==
    {i \in 1..(Len(b[o]) - 1) : /\ b[o][i + 1] - b[o][i] = 2^o
                                /\ b[o][i] % 2^(o + 1) = 0}

MergeAtFault(b, o) ==
    LET pairs == {i \in 1..(Len(b[o]) - 1) : b[o][i + 1] - b[o][i] = 2^o}
        i == Min(pairs)
    IN IF pairs = {} THEN [lists |-> b, merged |-> FALSE]
       ELSE [lists  |-> [PutBlock(b, o + 1, b[o][i]) EXCEPT ![o] = RemoveAt(RemoveAt(@, i), i)],
             merged |-> TRUE]

\* One call of merge: the first such pair moves up.
MergeAt(b, o) ==
    LET i == Min(Pairs(b, o))
    IN IF Pairs(b, o) = {} THEN [lists |-> b, merged |-> FALSE]
       ELSE [lists  |-> [PutBlock(b, o + 1, b[o][i]) EXCEPT ![o] = RemoveAt(RemoveAt(@, i), i)],
             merged |-> TRUE]

\* merge calls itself on the next order as long as there was a pair.
Merge(b, o) ==
    LET after[k \in o..(Top + 1)] ==
            IF k = o THEN [lists |-> b, merged |-> TRUE]
            ELSE IF after[k - 1].merged THEN MergeAt(after[k - 1].lists, k - 1)
            ELSE after[k - 1]
    IN after[Top + 1].lists

FreeBlock(b, x, n) == Merge(PutBlock(b, OrderFor(n), x), OrderFor(n))

-----------------------------------------------------------------------------
(* The callers: kallocPages, kfreePages, and those that allocate a run of     *)
(* pages at once and free its pages one by one, as an ELF segment is.         *)

KallocPages(n) ==
    IF Fits(buddy, n) = {} THEN UNCHANGED pageVars
    ELSE /\ buddy' = Split(buddy, n)
         /\ used' = used \cup {[at |-> Taken(buddy, n), count |-> n, span |-> 2^OrderFor(n)]}
         /\ freeSpace' = freeSpace - n
         /\ UNCHANGED lost

KfreePages(r) ==
    /\ buddy' = FreeBlock(buddy, r.at, r.count)
    /\ used' = used \ {r}
    /\ freeSpace' = freeSpace + r.count
    /\ UNCHANGED lost

\* The pages alloc added to round the run up belong to nobody from here on.
Scatter(r) ==
    /\ r.span > 1
    /\ used' = (used \ {r}) \cup {[at |-> p, count |-> 1, span |-> 1] : p \in Run(r.at, r.count)}
    /\ lost' = lost \cup (Run(r.at, r.span) \ Run(r.at, r.count))
    /\ UNCHANGED <<buddy, freeSpace>>

-----------------------------------------------------------------------------
FreeBlocks == {<<o, i>> \in Orders \X (1..Pages) : i \in DOMAIN buddy[o]}

\* Every page of the heap is in exactly one place: in one free block, in one run
\* a caller holds, or lost; so no page is handed out twice and none disappears
\* in a split or a merge (Buddy::alloc, putBlock, merge).  m_freeSpace counts
\* what callers asked for, so it is at least the number of free pages.
PagesExact ==
    LET places == {Run(buddy[f[1]][f[2]], 2^f[1]) : f \in FreeBlocks}
                    \cup {Run(r.at, r.span) : r \in used} \cup {{p} : p \in lost}
    IN /\ UNION places = Heap
       /\ Cardinality(FreeBlocks) + Cardinality(used) + Cardinality(lost) = Cardinality(places)
       /\ \A a, b \in places : a # b => a \cap b = {}
       /\ freeSpace >= SumFunction([f \in FreeBlocks |-> 2^f[1]])

\* The free lists are sorted, their blocks aligned to their size, and no two
\* halves of a block are both free in the same list: merge, which only looks at
\* neighbours and only at the first pair, never misses one.
Coalesced ==
    \A o \in Orders :
        /\ \A i \in DOMAIN buddy[o] : buddy[o][i] % 2^o = 0
        /\ \A i, j \in DOMAIN buddy[o] : i < j => buddy[o][i] < buddy[o][j]
        /\ Pairs(buddy, o) = {}
=============================================================================
