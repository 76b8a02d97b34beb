-------------------------------- MODULE Disk --------------------------------
(***************************************************************************)
(* The VirtIO block driver (kernel/io/disk/disk.cpp) in interrupt mode and *)
(* the block cache above it (kernel/io/disk/block_cache.cpp).              *)
(*                                                                         *)
(* A step is a stretch of kernel code between two points where it blocks.  *)
(* Processes woken inside the driver resume in the order in which they     *)
(* were put on the ready list; the others run user code in between.  The   *)
(* device completes the requests it holds in any order, with success.      *)
(***************************************************************************)
EXTENDS Naturals, Sequences, SequencesExt, FiniteSetsExt

CONSTANTS
    Procs,
    Writers,        \* the processes that also write
    Sectors, NoSector,
    Values,         \* what is written to a sector; all hold 0 at first
    Slots,          \* QUEUE_SIZE / 3
    Capacity,       \* of the block cache
    MaxSignals      \* bound on the signals sent to blocked processes

ASSUME DiskConstants ==
    /\ Writers \subseteq Procs /\ NoSector \notin Sectors /\ Values \subseteq Nat
    /\ Slots \in Nat \ {0} /\ Capacity \in Nat \ {0} /\ MaxSignals \in Nat

VARIABLES
    platter,        \* what the device holds
    cache,          \* entries of the LRU list, most recently used first
    busy,           \* m_free: slots in use
    slotSector,     \* m_slotSector
    done,           \* slots in use whose m_status is not 0xFF any more
    device,         \* slots the device has not completed
    used,           \* completed slots the interrupt handler has not seen
    allocTok,       \* m_allocSem: its value,
    allocQ,         \* and its waiters
    coQ,            \* the waiters of m_coalesceSem[slot]; its value stays 0
    slotTok,        \* m_slotSem[slot]: its value; only the owner waits on it
    req,            \* the read() or write() each process is in
    ready,          \* processes woken inside it and not resumed, in order
    signals,        \* how many were sent
    stop,           \* "panic" or "hang" once the kernel is stuck
    last,           \* history: the value of the last write() that returned
    doubled         \* history: a request for a sector was sent beside another one

slots == <<busy, slotSector, done, device, slotTok>>
driver == <<slots, allocTok, allocQ, coQ>>
vars == <<platter, cache, driver, used, req, ready, signals, stop, last, doubled>>

SlotIds == 0 .. Slots - 1
NoReq == [op |-> "none", sector |-> NoSector, val |-> 0, at |-> "user", slot |-> 0]

Init ==
    /\ platter = [s \in Sectors |-> 0]
    /\ cache = <<>>
    /\ busy = {} /\ slotSector = [j \in SlotIds |-> NoSector]
    /\ done = {} /\ device = {} /\ used = <<>>
    /\ allocTok = Slots /\ allocQ = <<>>
    /\ coQ = [j \in SlotIds |-> <<>>]
    /\ slotTok = [j \in SlotIds |-> 0]
    /\ req = [p \in Procs |-> NoReq]
    /\ ready = <<>>
    /\ signals = 0 /\ stop = "no"
    /\ last = [s \in Sectors |-> 0] /\ doubled = FALSE

(* The definitions named *Fault are plausible mistakes in the operation    *)
(* that follows them; no specification uses them.                          *)

-----------------------------------------------------------------------------
(* BlockCache, an LRU list *)

Cached(s) == \E i \in DOMAIN cache : cache[i].sector = s
Entry(s) == cache[CHOOSE i \in DOMAIN cache : cache[i].sector = s]
MoveFront(e) == <<e>> \o SelectSeq(cache, LAMBDA x : x.sector # e.sector)

(* The entry an insert() of a new sector evicts *)
Full == Len(cache) = Capacity
EvictsDirty(s) == ~Cached(s) /\ Full /\ Last(cache).dirty

\* an entry that is there keeps its data
InsertedFault(s, v) ==
    IF Cached(s) THEN MoveFront(Entry(s))
    ELSE <<[sector |-> s, val |-> v, dirty |-> FALSE]>>
         \o (IF Full THEN Front(cache) ELSE cache)

(* BlockCache::insert: an entry that is there gets the new data and keeps  *)
(* its dirty bit.                                                          *)
Inserted(s, v) ==
    IF Cached(s) THEN MoveFront([Entry(s) EXCEPT !.val = v])
    ELSE <<[sector |-> s, val |-> v, dirty |-> FALSE]>>
         \o (IF Full THEN Front(cache) ELSE cache)

-----------------------------------------------------------------------------
(* Disk::sendRequest *)

Marked(slot, s) == [slotSector EXCEPT ![slot] = s]

(* From line 124 on, in a slot just found: hand the request to the device  *)
(* and wait on the semaphore of the slot.  A token an earlier request left *)
(* there lets it through before the device has answered.                   *)
Submit(p, r) ==
    LET slot == Min(SlotIds \ busy) IN
    IF SlotIds \subseteq busy
    THEN stop' = "panic" /\ UNCHANGED <<req, slots, doubled>>
    ELSE /\ busy' = busy \cup {slot}
         /\ slotSector' = Marked(slot, r.sector)
         /\ done' = done \ {slot}
         /\ device' = device \cup {slot}
         /\ req' = [req EXCEPT ![p] = [r EXCEPT !.at = "slot", !.slot = slot]]
         /\ doubled' = \/ doubled
                       \/ \E j \in busy : slotSector[j] = r.sector
                       \/ r.op = "read" /\ Cached(r.sector)
         /\ IF slotTok[slot] > 0
            THEN stop' = "panic" /\ slotTok' = [slotTok EXCEPT ![slot] = @ - 1]
            ELSE UNCHANGED <<stop, slotTok>>

(* The loop over the slots, from slot "from" on: wait behind a request for *)
(* the same sector; behind the loop, allocSlot().                          *)
Search(p, from, r) ==
    LET same == {j \in busy : j >= from /\ slotSector[j] = r.sector} IN
    IF same # {}
    THEN /\ req' = [req EXCEPT ![p] = [r EXCEPT !.at = "coalesce", !.slot = Min(same)]]
         /\ coQ' = [coQ EXCEPT ![Min(same)] = Append(@, p)]
         /\ UNCHANGED <<slots, allocTok, allocQ, stop, doubled>>
    ELSE IF allocTok = 0
    THEN /\ req' = [req EXCEPT ![p] = [r EXCEPT !.at = "alloc"]]
         /\ allocQ' = Append(allocQ, p)
         /\ UNCHANGED <<slots, allocTok, coQ, stop, doubled>>
    ELSE allocTok' = allocTok - 1 /\ UNCHANGED <<allocQ, coQ>> /\ Submit(p, r)

Running == stop = "no"
Idle(p) == Running /\ req[p] = NoReq
Resumes(p, at) == Running /\ ready # <<>> /\ Head(ready) = p /\ req[p].at = at

(* Disk::read *)
ReadCached(p, s) ==
    /\ Idle(p) /\ Cached(s)
    /\ cache' = MoveFront(Entry(s))
    /\ UNCHANGED <<platter, driver, used, req, ready, stop, signals, last, doubled>>

Read(p, s) ==
    /\ Idle(p) /\ ~Cached(s)
    /\ Search(p, 0, [NoReq EXCEPT !.op = "read", !.sector = s])
    /\ UNCHANGED <<platter, cache, used, ready, signals, last>>

(* Disk::write, not forced *)
WriteCached(p, s, v) ==
    /\ Idle(p) /\ Cached(s)
    /\ cache' = MoveFront([Entry(s) EXCEPT !.val = v, !.dirty = TRUE])
    /\ last' = [last EXCEPT ![s] = v]
    /\ UNCHANGED <<platter, driver, used, req, ready, signals, stop, doubled>>

Write(p, s, v) ==
    /\ Idle(p) /\ ~Cached(s)
    /\ Search(p, 0, [NoReq EXCEPT !.op = "write", !.sector = s, !.val = v])
    /\ UNCHANGED <<platter, cache, used, ready, signals, last>>

(* Behind m_coalesceSem: a reader takes the block from the cache; a writer, *)
(* or a reader that does not find it, goes on with the next slot.           *)
ResumeCoalesce(p) ==
    /\ Resumes(p, "coalesce")
    /\ ready' = Tail(ready)
    /\ IF Cached(req[p].sector) THEN cache' = MoveFront(Entry(req[p].sector))
                                ELSE UNCHANGED cache
    /\ IF Cached(req[p].sector) /\ req[p].op = "read"
       THEN req' = [req EXCEPT ![p] = NoReq] /\ UNCHANGED <<driver, stop, doubled>>
       ELSE Search(p, req[p].slot + 1, req[p])
    /\ UNCHANGED <<platter, used, signals, last>>

(* Behind m_allocSem *)
ResumeAlloc(p) ==
    /\ Resumes(p, "alloc")
    /\ ready' = Tail(ready)
    /\ Submit(p, req[p])
    /\ UNCHANGED <<platter, cache, used, allocTok, allocQ, coQ, signals, last>>

(* Behind m_slotSem: line 160 on.  insert() of a block that evicts a dirty *)
(* one holds s_lock while Disk::write sends that one out, and whoever next *)
(* enters the block cache, at the latest the same process when its write   *)
(* is done, spins on s_lock for ever.                                      *)
\* the processes that wait behind this request are not woken
FollowersFault(j) == <<>>

(* Whom the freed slot j wakes: one process that waits for a slot, then    *)
(* everybody who waits behind the request.                                 *)
Followers(j) == coQ[j]

\* the answer of the device is not checked
AnsweredFault(p) == TRUE

Answered(p) == req[p].slot \in done

ResumeSlot(p) ==
    LET r == req[p]
        one == IF allocQ = <<>> THEN <<>> ELSE <<Head(allocQ)>>
    IN
    /\ Resumes(p, "slot") /\ Answered(p) /\ ~EvictsDirty(r.sector)
    /\ cache' = Inserted(r.sector, r.val)
    /\ busy' = busy \ {r.slot} /\ done' = done \ {r.slot}
    /\ slotSector' = [slotSector EXCEPT ![r.slot] = NoSector]
    /\ allocQ' = IF allocQ = <<>> THEN <<>> ELSE Tail(allocQ)
    /\ allocTok' = IF allocQ = <<>> THEN allocTok + 1 ELSE allocTok
    /\ coQ' = [coQ EXCEPT ![r.slot] = <<>>]
    /\ ready' = Tail(ready) \o one \o Followers(r.slot)
    /\ last' = IF r.op = "write" THEN [last EXCEPT ![r.sector] = r.val] ELSE last
    /\ req' = [req EXCEPT ![p] = NoReq]
    /\ UNCHANGED <<platter, device, used, slotTok, signals, stop, doubled>>

RequestFails(p) ==
    /\ Resumes(p, "slot") /\ ~Answered(p)
    /\ stop' = "panic"
    /\ UNCHANGED <<platter, cache, driver, used, req, ready, signals, last, doubled>>

Evict(p) ==
    /\ Resumes(p, "slot") /\ Answered(p) /\ EvictsDirty(req[p].sector)
    /\ stop' = "hang"
    /\ UNCHANGED <<platter, cache, driver, used, req, ready, signals, last, doubled>>

-----------------------------------------------------------------------------
(* The device, the interrupt, signals *)

Owner(j) == CHOOSE p \in Procs : req[p].at = "slot" /\ req[p].slot = j

(* The device transfers the block, sets m_status and fills the used ring *)
DeviceCompletes(j) ==
    /\ Running /\ j \in device
    /\ LET p == Owner(j) IN
       IF req[p].op = "write"
       THEN platter' = [platter EXCEPT ![req[p].sector] = req[p].val] /\ UNCHANGED req
       ELSE req' = [req EXCEPT ![p].val = platter[req[p].sector]] /\ UNCHANGED platter
    /\ device' = device \ {j} /\ done' = done \cup {j} /\ used' = Append(used, j)
    /\ UNCHANGED <<cache, busy, slotSector, slotTok, allocTok, allocQ, coQ, ready, stop, signals, last, doubled>>

(* The owner of slot j is still blocked on its semaphore *)
Blocked(p) == req[p].at # "user" /\ ~Contains(ready, p)
OwnerWaits(j) == \E p \in Procs : req[p].at = "slot" /\ req[p].slot = j /\ Blocked(p)

(* Disk::interruptHandler: signal the semaphore of every completed slot *)
Interrupt ==
    LET woken == SelectSeq(used, OwnerWaits) IN
    /\ Running /\ used # <<>>
    /\ ready' = ready \o [i \in DOMAIN woken |-> Owner(woken[i])]
    /\ slotTok' = [j \in SlotIds |-> IF Contains(used, j) /\ ~OwnerWaits(j)
                                     THEN slotTok[j] + 1 ELSE slotTok[j]]
    /\ used' = <<>>
    /\ UNCHANGED <<platter, cache, busy, slotSector, done, device, allocTok, allocQ, coQ,
                   req, signals, stop, last, doubled>>

(* Process::kill of a process blocked in the driver: SIGCHLD included *)
Kill(p) ==
    LET others(q) == q # p IN
    /\ Running /\ Blocked(p)
    /\ signals < MaxSignals /\ signals' = signals + 1
    /\ allocQ' = SelectSeq(allocQ, others)
    /\ coQ' = [j \in SlotIds |-> SelectSeq(coQ[j], others)]
    /\ ready' = Append(ready, p)
    /\ UNCHANGED <<platter, cache, slots, allocTok, used, req, stop, last, doubled>>

Step(p) ==
    \/ ResumeCoalesce(p)
    \/ ResumeAlloc(p)
    \/ ResumeSlot(p)
    \/ RequestFails(p)
    \/ Evict(p)

Next ==
    \/ \E p \in Procs, s \in Sectors : ReadCached(p, s) \/ Read(p, s)
    \/ \E p \in Writers, s \in Sectors, v \in Values :
        WriteCached(p, s, v) \/ Write(p, s, v)
    \/ \E p \in Procs : Step(p)
    \/ \E j \in SlotIds : DeviceCompletes(j)
    \/ Interrupt
    \/ \E p \in Procs : Kill(p)

Spec == Init /\ [][Next]_vars

-----------------------------------------------------------------------------
(* Properties *)

Owners(j) == {p \in Procs : req[p].at = "slot" /\ req[p].slot = j}
Granted == {p \in ToSet(ready) : req[p].at = "alloc"}

(* Every slot in use belongs to one request and carries its sector; the    *)
(* tokens of m_allocSem, with those handed to processes that have not run  *)
(* yet, are the free slots: as long as no signal takes a process out of    *)
(* the driver's semaphores.  Signalled or not, while the device holds a    *)
(* request the process whose buffer it transfers is inside sendRequest and *)
(* its slot is taken: the buffer is on the stack of that process alone.    *)
SlotsExact ==
    /\ signals = 0 =>
        /\ \A j \in SlotIds :
            /\ j \in busy <=> \E p \in Procs : Owners(j) = {p} /\ slotSector[j] = req[p].sector
            /\ j \notin busy => Owners(j) = {} /\ slotSector[j] = NoSector /\ slotTok[j] = 0
        /\ allocTok + Cardinality(Granted) + Cardinality(busy) = Slots
    /\ Running => \A j \in device : j \in busy /\ \E p \in Procs : Owners(j) = {p}

Writing(s) == \E p \in Procs : req[p].op = "write" /\ req[p].sector = s

(* Between writes, what the next read of a sector returns (the cached      *)
(* block, or the device's where none is cached) is what the last write()   *)
(* that returned had put there: no write is undone by a read in flight.    *)
NoLostWrite ==
    \A s \in Sectors : ~Writing(s) =>
        last[s] = IF Cached(s) THEN Entry(s).val ELSE platter[s]

(* None is as long as requests for one sector go one after another, and no *)
(* block is read again that is in the cache: a process that waited for a   *)
(* slot or behind a request that is no more cached may do so.              *)
WritesKept == ~doubled => NoLostWrite

(* Whoever sleeps in the driver has somebody to wake it: the device or the *)
(* interrupt still owes the completion of its slot, the request it waits   *)
(* behind is not over, or all slots are in use or promised.  And nobody is *)
(* woken before that, which is the panic of sendRequest.  No wake-up is    *)
(* lost or early as long as no signal interferes.                          *)
NobodyStranded ==
    signals = 0 =>
        /\ stop # "panic"
        /\ Running => \A p \in Procs : Blocked(p) =>
              CASE req[p].at = "slot" -> req[p].slot \in device \cup ToSet(used)
                [] req[p].at = "coalesce" -> req[p].slot \in busy
                [] OTHER -> Cardinality(busy) + Cardinality(Granted) = Slots
=============================================================================
