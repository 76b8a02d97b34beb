----------------------------- MODULE CowMemory -----------------------------
(***************************************************************************)
(* The physical pages behind user memory: copy-on-write fork (kernel/mm/vm *)
(* vm.cpp), the reference counts (page_meta.cpp), the heap (Process::brk)  *)
(* and anonymous mappings, private and shared (mmap.cpp).                  *)
(*                                                                         *)
(* No operation blocks, so each is one step.  The heap stands for every    *)
(* page that fork shares copy-on-write: text, data, stack and heap.        *)
(* Running out of pages is left out: operations wait for a free one.  The  *)
(* hint of a caller may ask for any free place, so allocVA returns any of *)
(* Places that is free.                                                    *)
(***************************************************************************)
EXTENDS Integers, FiniteSets

CONSTANTS
    Procs, Root,
    HeapMax,        \* pages of heap
    MapMax,         \* pages between MMAP_BASE and MMAP_TOP
    Places,         \* <<first, last>>: the places of mmap's mappings
    Touched,        \* addresses that user code stores to and protects
    Pages, NoPage,  \* physical pages
    Values          \* what is stored in a page; all hold 0 at first

ASSUME MemoryConstants ==
    /\ Root \in Procs /\ HeapMax \in Nat /\ MapMax \in Nat
    /\ Places \subseteq (HeapMax + 1 .. HeapMax + MapMax) \X (HeapMax + 1 .. HeapMax + MapMax)
    /\ Touched \subseteq 1 .. HeapMax + MapMax
    /\ NoPage \notin Pages /\ Values \subseteq Nat /\ IsFiniteSet(Procs)

VARIABLES
    alive,      \* processes that run
    dead,       \* zombies: memory mappings gone, page table still there
    heap,       \* pages of heap of each process
    pte,        \* page tables
    region,     \* m_mmap of each process, a set of regions
    refCount,   \* MmapSharedRef::refCount
    rc,         \* PageRefCount; 0: the page has no node
    free,       \* pages the allocator holds
    data,       \* what each page contains; 0 in a free one
    image,      \* history: what each process expects to read
    cut,        \* history: processes that unmapped a part of a region, or
                \* whose ancestors did
    orderly     \* history: brk and mprotect were only used on pages of one
                \* owner, exec only without shared mappings, and no shared
                \* region was unmapped in part

vars == <<alive, dead, heap, pte, region, refCount, rc, free, data, image, cut, orderly>>

Heap == 1 .. HeapMax
Maps == HeapMax + 1 .. HeapMax + MapMax
Addresses == Heap \cup Maps

(* MmapRegion: the pages lo to hi.  ref is the first page of a shared one, *)
(* which stands for its MmapSharedRef, and NoPage in a private one.        *)
Region(lo, hi, ref) == [lo |-> lo, hi |-> hi, ref |-> ref]
Extent(r) == r.lo .. r.hi
Shared(r) == r.ref # NoPage

Nothing == -1
NoPte == [pa |-> NoPage, w |-> FALSE, cow |-> FALSE]
Writable(pa) == [pa |-> pa, w |-> TRUE, cow |-> FALSE]

Init ==
    /\ alive = {Root} /\ dead = {}
    /\ heap = [p \in Procs |-> 0]
    /\ pte = [p \in Procs |-> [a \in Addresses |-> NoPte]]
    /\ region = [p \in Procs |-> {}]
    /\ refCount = [g \in Pages |-> 0]
    /\ rc = [g \in Pages |-> 0]
    /\ free = Pages
    /\ data = [g \in Pages |-> 0]
    /\ image = [p \in Procs |-> [a \in Addresses |-> Nothing]]
    /\ cut = {} /\ orderly = TRUE

Mapped(p) == {a \in Addresses : pte[p][a] # NoPte}
Pa(p, a) == pte[p][a].pa

(* What p expects of the addresses A does not matter any more *)
Forget(p, A) == image' = [image EXCEPT ![p] = [a \in Addresses |-> IF a \in A THEN Nothing ELSE @[a]]]

(* The definitions named *Fault are plausible mistakes in the operation    *)
(* that follows them; no specification uses them.                          *)

-----------------------------------------------------------------------------
(* PageRefCount *)

\* a page that has no node yet starts at one
IncRefFault(g) == rc[g] + 1

(* incRef: the first sharer makes a node for two *)
IncRef(g) == IF rc[g] = 0 THEN 2 ELSE rc[g] + 1

(* decRef: the count left, and whether the caller must free the page *)
DecRef(g) == IF rc[g] = 0 THEN 0 ELSE rc[g] - 1

GetRef(g) == IF rc[g] = 0 THEN 1 ELSE rc[g]

LastRef(g) == rc[g] <= 1

(* kfreePage: what a free page contains does not matter *)
Release(F) ==
    /\ free' = free \cup F
    /\ data' = [g \in Pages |-> IF g \in F THEN 0 ELSE data[g]]

(* Drop the references of p to the pages at the addresses A: destroyPMT    *)
(* and clearUserPages.                                                     *)
DropRefs(p, A) ==
    LET gone == {Pa(p, a) : a \in A} IN
    /\ rc' = [g \in Pages |-> IF g \in gone THEN DecRef(g) ELSE rc[g]]
    /\ Release({g \in gone : LastRef(g)})

-----------------------------------------------------------------------------
(* User stores and the copy-on-write fault *)

SharesWith(p, a) ==
    {q \in alive : \E r \in region[p] \cap region[q] : Shared(r) /\ a \in Extent(r)}

Store(p, a, v) ==
    /\ p \in alive /\ pte[p][a].w
    /\ data' = [data EXCEPT ![Pa(p, a)] = v]
    /\ image' = [q \in Procs |-> IF q \in SharesWith(p, a) \cup {p}
                                 THEN [image[q] EXCEPT ![a] = v] ELSE image[q]]
    /\ UNCHANGED <<alive, dead, heap, pte, region, refCount, rc, free, cut, orderly>>

CowCopies(g) == GetRef(g) > 1

(* VM::handleCowFault.  The last owner keeps the page; the free that       *)
(* decRef may ask for there is ignored.                                    *)
CowFault(p, a) ==
    /\ p \in alive /\ pte[p][a].cow
    /\ LET g == Pa(p, a) IN
       /\ rc' = [rc EXCEPT ![g] = DecRef(g)]
       /\ \/ /\ ~CowCopies(g)
             /\ pte' = [pte EXCEPT ![p][a] = Writable(g)]
             /\ UNCHANGED <<data, free>>
          \/ /\ CowCopies(g)
             /\ \E new \in free :
                /\ pte' = [pte EXCEPT ![p][a] = Writable(new)]
                /\ data' = [data EXCEPT ![new] = data[g]]
                /\ free' = (free \ {new}) \cup (IF LastRef(g) THEN {g} ELSE {})
    /\ UNCHANGED <<alive, dead, heap, region, refCount, image, cut, orderly>>

-----------------------------------------------------------------------------
(* fork, exec, exit *)

\* the entries stay writable on both sides
AsCowFault(e) == e

AsCow(e) == IF e.w THEN [e EXCEPT !.w = FALSE, !.cow = TRUE] ELSE e

InRegions(R) == UNION {Extent(r) : r \in R}

(* Mmap::clone for the page a of a mapping: that of a private one is       *)
(* copied into one of new, that of a shared one is mapped as it is.  The   *)
(* child gets the protection of the region.                                *)
Cloned(p, new, a) ==
    IF a \in DOMAIN new THEN Writable(new[a])
    ELSE IF a \in Mapped(p) \cap InRegions(region[p]) THEN Writable(Pa(p, a)) ELSE NoPte

(* Process::fork: VM::copyPMT shares every page outside m_mmap, and        *)
(* Mmap::clone copies the private mappings and shares the shared ones.     *)
Fork(p, c) ==
    LET cows == Mapped(p) \ InRegions(region[p])
        copied == Mapped(p) \cap InRegions({r \in region[p] : ~Shared(r)})
        sharedRefs == {r.ref : r \in {s \in region[p] : Shared(s)}}
    IN
    /\ p \in alive /\ c \notin alive \cup dead
    /\ \E new \in [copied -> free] :
        /\ \A a, b \in copied : new[a] = new[b] => a = b
        /\ pte' = [pte EXCEPT
            ![p] = [a \in Addresses |-> IF a \in cows THEN AsCow(pte[p][a]) ELSE pte[p][a]],
            ![c] = [a \in Addresses |->
                        IF a \in cows THEN AsCow(pte[p][a])
                        ELSE IF a \in Maps THEN Cloned(p, new, a) ELSE NoPte]]
        /\ data' = [g \in Pages |-> IF \E a \in copied : new[a] = g
                                    THEN data[Pa(p, CHOOSE a \in copied : new[a] = g)]
                                    ELSE data[g]]
        /\ free' = free \ {new[a] : a \in copied}
    /\ rc' = [g \in Pages |-> IF \E a \in cows : Pa(p, a) = g THEN IncRef(g) ELSE rc[g]]
    /\ refCount' = [g \in Pages |-> IF g \in sharedRefs THEN refCount[g] + 1 ELSE refCount[g]]
    /\ region' = [region EXCEPT ![c] = region[p]]
    /\ heap' = [heap EXCEPT ![c] = heap[p]]
    /\ image' = [image EXCEPT ![c] = image[p]]
    /\ alive' = alive \cup {c}
    /\ cut' = IF p \in cut THEN cut \cup {c} ELSE cut
    /\ UNCHANGED <<dead, orderly>>

(* Process::exec: clearUserPages drops every user page, those of mappings  *)
(* too, and m_mmap keeps its regions.                                      *)
Exec(p) ==
    /\ p \in alive
    /\ DropRefs(p, Mapped(p))
    /\ pte' = [pte EXCEPT ![p] = [a \in Addresses |-> NoPte]]
    /\ heap' = [heap EXCEPT ![p] = 0]
    /\ Forget(p, Addresses)
    /\ orderly' = (orderly /\ \A r \in region[p] : ~Shared(r))
    /\ UNCHANGED <<alive, dead, region, refCount, cut>>

\* the pages of a shared mapping go with its first user
LastUserFault(r) == TRUE

(* No other process has this region: its pages go back to the allocator *)
LastUser(r) == ~Shared(r) \/ refCount[r.ref] = 1

(* What Mmap::unmap and ~Mmap do with the regions R of p: unmapPhysical    *)
(* frees the pages, unmapPhysicalShared does not, and both clear the table. *)
Freed(p, R) == {Pa(p, a) : a \in Mapped(p) \cap InRegions({r \in R : LastUser(r)})}
Cleared(p, R) ==
    LET gone == InRegions(R) IN [a \in Addresses |-> IF a \in gone THEN NoPte ELSE pte[p][a]]
Dropped(R) == [g \in Pages |-> IF \E r \in R : r.ref = g THEN refCount[g] - 1 ELSE refCount[g]]

(* Process::clear deletes m_mmap *)
Exit(p) ==
    /\ p \in alive \ {Root}
    /\ Release(Freed(p, region[p]))
    /\ pte' = [pte EXCEPT ![p] = Cleared(p, region[p])]
    /\ refCount' = Dropped(region[p])
    /\ region' = [region EXCEPT ![p] = {}]
    /\ alive' = alive \ {p} /\ dead' = dead \cup {p}
    /\ Forget(p, Addresses) /\ cut' = cut \ {p}
    /\ UNCHANGED <<heap, rc, orderly>>

(* ~Process: VM::destroyPMT *)
Destroy(p) ==
    /\ p \in dead
    /\ DropRefs(p, Mapped(p))
    /\ dead' = dead \ {p}
    /\ pte' = [pte EXCEPT ![p] = [a \in Addresses |-> NoPte]]
    /\ heap' = [heap EXCEPT ![p] = 0]
    /\ UNCHANGED <<alive, region, refCount, image, cut, orderly>>

-----------------------------------------------------------------------------
(* brk, mmap, munmap, mprotect *)

(* A new heap page is not cleared: the process finds what it contains *)
BrkGrow(p) ==
    /\ p \in alive /\ heap[p] < HeapMax
    /\ \E g \in free :
        /\ pte' = [pte EXCEPT ![p][heap[p] + 1] = Writable(g)]
        /\ image' = [image EXCEPT ![p][heap[p] + 1] = data[g]]
        /\ free' = free \ {g}
    /\ heap' = [heap EXCEPT ![p] = @ + 1]
    /\ UNCHANGED <<alive, dead, region, refCount, rc, data, cut, orderly>>

(* The page goes to the allocator whatever its reference count says *)
BrkShrink(p) ==
    /\ p \in alive /\ heap[p] > 0
    /\ Release({Pa(p, heap[p])})
    /\ pte' = [pte EXCEPT ![p][heap[p]] = NoPte]
    /\ heap' = [heap EXCEPT ![p] = @ - 1]
    /\ Forget(p, {heap[p]})
    /\ orderly' = (orderly /\ GetRef(Pa(p, heap[p])) = 1)
    /\ UNCHANGED <<alive, dead, region, refCount, rc, cut>>

(* The regions that share a page with lo to hi; isFree when there is none *)
Overlapping(p, lo, hi) == {r \in region[p] : r.lo <= hi /\ r.hi >= lo}

(* What is left of a region when lo to hi are unmapped.  The right part of *)
(* a shared one cut in the middle has an uninitialized sharedRef: such a   *)
(* cut is not orderly.                                                     *)
Trimmed(r, lo, hi) ==
    {t \in {Region(r.lo, lo - 1, r.ref), Region(hi + 1, r.hi, r.ref)} : t.lo <= t.hi}

(* The regions after Mmap::unmap of lo to hi *)
Rest(p, lo, hi) == UNION {Trimmed(r, lo, hi) : r \in Overlapping(p, lo, hi)}
Cuts(p, lo, hi) ==
    /\ cut' = IF Rest(p, lo, hi) # {} THEN cut \cup {p} ELSE cut
    /\ orderly' = (orderly /\ \A r \in Rest(p, lo, hi) : ~Shared(r))

(* Mmap::unmap: every region that overlaps loses all its pages, also those *)
(* outside lo to hi.  A MAP_FIXED mapping that fails does the same.        *)
Munmap(p, lo, hi) ==
    LET hit == Overlapping(p, lo, hi) IN
    /\ p \in alive /\ lo <= hi /\ hit # {}
    /\ Release(Freed(p, hit))
    /\ pte' = [pte EXCEPT ![p] = Cleared(p, hit)]
    /\ refCount' = Dropped(hit)
    /\ region' = [region EXCEPT ![p] = (@ \ hit) \cup Rest(p, lo, hi)]
    /\ Forget(p, lo .. hi) /\ Cuts(p, lo, hi)
    /\ UNCHANGED <<alive, dead, heap, rc>>

(* mapPages: a new page for every address of the mapping *)
MapPages(table, new) ==
    [a \in Addresses |-> IF a \in DOMAIN new THEN Writable(new[a]) ELSE table[a]]

(* Mmap::map: over other regions only with MAP_FIXED, which unmaps them    *)
(* first.  The pages are zeroed; a shared mapping has its MmapSharedRef.   *)
Mmap(p, lo, hi, shared) ==
    LET hit == Overlapping(p, lo, hi)
        avail == free \cup Freed(p, hit)
        table == Cleared(p, hit)
        counts == Dropped(hit)
    IN
    /\ p \in alive /\ lo <= hi
    /\ \E new \in [lo .. hi -> avail] :
        LET got == {new[a] : a \in lo .. hi}
            ref == IF shared THEN new[lo] ELSE NoPage
        IN
        /\ \A a, b \in lo .. hi : new[a] = new[b] => a = b
        /\ pte' = [pte EXCEPT ![p] = MapPages(table, new)]
        /\ free' = avail \ got
        /\ data' = [g \in Pages |-> IF g \in avail THEN 0 ELSE data[g]]
        /\ region' = [region EXCEPT ![p] = (@ \ hit) \cup Rest(p, lo, hi) \cup {Region(lo, hi, ref)}]
        /\ refCount' = [g \in Pages |-> IF g = ref THEN 1 ELSE counts[g]]
    /\ image' = [image EXCEPT ![p] = [a \in Addresses |-> IF a \in lo .. hi THEN 0 ELSE @[a]]]
    /\ Cuts(p, lo, hi)
    /\ UNCHANGED <<alive, dead, heap, rc>>

(* Mmap::protect rewrites the entry; PAGE_COW is not among the new flags *)
Mprotect(p, a, w) ==
    /\ p \in alive /\ pte[p][a] # NoPte
    /\ pte' = [pte EXCEPT ![p][a] = [pa |-> Pa(p, a), w |-> w, cow |-> FALSE]]
    /\ orderly' = (orderly /\ GetRef(Pa(p, a)) = 1)
    /\ UNCHANGED <<alive, dead, heap, region, refCount, rc, free, data, image, cut>>

Next ==
    \E p \in Procs :
        \/ \E a \in Touched, v \in Values : Store(p, a, v)
        \/ \E a \in Addresses : CowFault(p, a)
        \/ \E c \in Procs : Fork(p, c)
        \/ Exec(p) \/ Exit(p) \/ Destroy(p)
        \/ BrkGrow(p) \/ BrkShrink(p)
        \/ \E place \in Places, shared \in BOOLEAN : Mmap(p, place[1], place[2], shared)
        \/ \E lo, hi \in Maps : Munmap(p, lo, hi)
        \/ \E a \in Touched, w \in BOOLEAN : Mprotect(p, a, w)

Spec == Init /\ [][Next]_vars

-----------------------------------------------------------------------------
(* Properties *)

Users(g) == {pa \in Procs \X Addresses : Pa(pa[1], pa[2]) = g}
InUse(g) == Users(g) # {}

(* A page is free or mapped, and not both: fork, copy-on-write faults,     *)
(* exits, unmappings of regions and of parts of them in any order free no  *)
(* page that a table leads to and lose none for good.                      *)
PagesAccounted == orderly => \A g \in Pages : g \in free <=> ~InUse(g)

(* PageRefCount counts exactly the page tables that share a page; a page   *)
(* without a node has one user.                                            *)
CountsExact ==
    orderly => \A g \in Pages : InUse(g) /\ (\A u \in Users(g) : u[2] \in Heap) =>
        Cardinality(Users(g)) = GetRef(g)

(* A process reads what it, and in a shared mapping whoever shares it, has *)
(* written: no store of another process shows through, and no page goes    *)
(* away under it, save for a process that unmapped part of a region.       *)
Isolation ==
    \A p \in alive : \A a \in Addresses : image[p][a] # Nothing =>
        IF a \in Mapped(p) THEN data[Pa(p, a)] = image[p][a] ELSE p \in cut

(* It does as long as brk, mprotect and exec leave shared pages alone and  *)
(* munmap takes shared regions whole.                                      *)
OrderlyIsolation == orderly => Isolation
=============================================================================
