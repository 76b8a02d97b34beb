---------------------------- MODULE ProcessTree ----------------------------
(***************************************************************************)
(* The process tree (kernel/proc/process/process.cpp): fork, exit with the *)
(* reparenting of orphans, wait4, the wake-up of a waiter by a signal, and *)
(* the collector of dead PCBs (kernel/proc/garbage.h).                     *)
(*                                                                         *)
(* A kernel path runs to its next yield without interruption, so a call    *)
(* is one step, or two when wait() blocks on m_selfSem.  Processes have a  *)
(* single thread.  A process that is not in wait() is "live", whatever it  *)
(* does: only m_selfSem matters here.                                      *)
(***************************************************************************)
EXTENDS Queues, FiniteSets, FiniteSetsExt

CONSTANTS
    Procs,      \* Process objects; a deleted one may be allocated again
    Root,       \* s_init
    NoProc, AnyPid,
    Targets     \* the pid arguments of wait(); AnyPid is -1

ASSUME TreeConstants ==
    /\ Root \in Procs /\ NoProc \notin Procs /\ AnyPid \notin Procs
    /\ Targets \subseteq Procs \cup {AnyPid} /\ IsFiniteSet(Procs)

VARIABLES
    status,     \* "none": not allocated; "waiting": blocked on m_selfSem;
                \* "woken": READY again, still inside wait()
    parent,     \* m_parent
    children,   \* the list m_firstChild, m_nextSibling, ...
    tokens,     \* m_selfSem.m_value
    reaped,     \* processes with m_reaped set
    sibling,    \* reaped processes whose m_nextSibling is not null
    garbage,    \* PCBGarbage::m_list
    call,       \* the arguments of the wait() a process is in
    ret,        \* history: how the last wait() of anybody returned
    odd         \* history: whether a wait named a "pid" and slept or took a token,
                \* and whether a "signal" woke a waiter

vars == <<status, parent, children, tokens, reaped, sibling, garbage, call, ret, odd>>

NoCall == [pid |-> AnyPid, nohang |-> FALSE]

Init ==
    /\ status = [p \in Procs |-> IF p = Root THEN "live" ELSE "none"]
    /\ parent = [p \in Procs |-> NoProc]
    /\ children = [p \in Procs |-> <<>>]
    /\ tokens = [p \in Procs |-> 0]
    /\ reaped = {} /\ sibling = {} /\ garbage = {}
    /\ call = [p \in Procs |-> NoCall]
    /\ ret = "none" /\ odd = {}

IsZombie(c) == status[c] = "zombie"

(* How many of p's list are dead *)
Zombies(p) == Cardinality({i \in DOMAIN children[p] : IsZombie(children[p][i])})

(* The definitions named *Fault are plausible mistakes in the operation    *)
(* that follows them; no specification uses them.                          *)

-----------------------------------------------------------------------------
(* Process::fork: the child goes to the head of the parent's list *)
Fork(p, c) ==
    /\ status[p] = "live" /\ status[c] = "none"
    /\ status' = [status EXCEPT ![c] = "live"]
    /\ parent' = [parent EXCEPT ![c] = p]
    /\ children' = [children EXCEPT ![p] = <<c>> \o @]
    /\ UNCHANGED <<tokens, reaped, sibling, garbage, call, ret, odd>>

\* the orphans that are zombies already are handed over without a signal
SelfSignalsFault(p, x) == IF x = parent[p] THEN 1 ELSE 0

(* How often the exit of p signals the m_selfSem of x: once per zombie     *)
(* handed to Root, once for p itself to its parent.                        *)
SelfSignals(p, x) ==
    (IF x = Root THEN Zombies(p) ELSE 0)
    + (IF x = parent[p] THEN 1 ELSE 0)

\* the orphans get their new parent, but do not enter its list
AdoptedFault(p) == children[Root]

(* Root's list after it was handed the children of p one by one *)
Adopted(p) == Reversed(children[p]) \o children[Root]

\* signal() counts up although somebody is blocked on the semaphore
WakesFault(p, x) == FALSE

(* The first signal() wakes x if it waits, every other one adds a token *)
Wakes(p, x) == status[x] = "waiting" /\ SelfSignals(p, x) > 0

(* Process::exit.  The SIGCHLD it ends with finds the parent awake. *)
Exit(p) ==
    /\ p # Root /\ status[p] = "live"
    /\ parent' = [c \in Procs |->
                    IF c \in Range(children[p]) THEN Root ELSE parent[c]]
    /\ children' = [children EXCEPT ![p] = <<>>, ![Root] = Adopted(p)]
    /\ tokens' = [x \in Procs |->
                    tokens[x] + SelfSignals(p, x) - (IF Wakes(p, x) THEN 1 ELSE 0)]
    /\ status' = [x \in Procs |-> IF x = p THEN "zombie"
                                  ELSE IF Wakes(p, x) THEN "woken" ELSE status[x]]
    /\ garbage' = garbage \cup {p}
    /\ UNCHANGED <<reaped, sibling, call, ret, odd>>

-----------------------------------------------------------------------------
(* Process::wait *)

(* The zombies in p's list that wait(pid) may take, as positions *)
Reapable(p, pid) ==
    {i \in DOMAIN children[p] :
        IsZombie(children[p][i]) /\ pid \in {AnyPid, children[p][i]}}

(* The second half of wait(), behind m_selfSem.wait(): unlink the first    *)
(* matching zombie.  It keeps its own m_nextSibling.                       *)
Reap(p, pid) ==
    LET found == Reapable(p, pid)
        i == Min(found)
        zombie == children[p][i]
    IN
    /\ IF found = {}
       THEN ret' = "error" /\ UNCHANGED <<children, reaped, sibling>>
       ELSE /\ children' = [children EXCEPT ![p] = Unlink(@, zombie)]
            /\ reaped' = reaped \cup {zombie}
            /\ sibling' = IF i < Len(children[p]) THEN sibling \cup {zombie} ELSE sibling
            /\ ret' = "child"
    /\ UNCHANGED <<parent, garbage>>

(* No child, or none with this pid *)
WaitNoChild(p, pid) ==
    /\ status[p] = "live"
    /\ \A i \in DOMAIN children[p] : pid \notin {AnyPid, children[p][i]}
    /\ ret' = "nochild"
    /\ UNCHANGED <<status, parent, children, tokens, reaped, sibling, garbage, call, odd>>

HasChild(p, pid) ==
    /\ status[p] = "live"
    /\ \E i \in DOMAIN children[p] : pid \in {AnyPid, children[p][i]}

(* WNOHANG, and no child to take *)
WaitNoHang(p, pid) ==
    /\ HasChild(p, pid) /\ Reapable(p, pid) = {}
    /\ ret' = "again"
    /\ UNCHANGED <<status, parent, children, tokens, reaped, sibling, garbage, call, odd>>

Named(pid) == IF pid = AnyPid THEN odd ELSE odd \cup {"pid"}

(* m_selfSem has a token *)
WaitTakes(p, pid, nohang) ==
    /\ HasChild(p, pid) /\ (nohang => Reapable(p, pid) # {})
    /\ tokens[p] > 0
    /\ tokens' = [tokens EXCEPT ![p] = @ - 1]
    /\ Reap(p, pid)
    /\ odd' = Named(pid)
    /\ UNCHANGED <<status, call>>

(* m_selfSem has none: wait() blocks *)
WaitBlocks(p, pid, nohang) ==
    /\ HasChild(p, pid) /\ (nohang => Reapable(p, pid) # {})
    /\ tokens[p] = 0
    /\ status' = [status EXCEPT ![p] = "waiting"]
    /\ call' = [call EXCEPT ![p] = [pid |-> pid, nohang |-> nohang]]
    /\ odd' = Named(pid)
    /\ UNCHANGED <<parent, children, tokens, reaped, sibling, garbage, ret>>

(* The waiter is dispatched again *)
WaitResumes(p) ==
    /\ status[p] = "woken"
    /\ status' = [status EXCEPT ![p] = "live"]
    /\ call' = [call EXCEPT ![p] = NoCall]
    /\ Reap(p, call[p].pid)
    /\ UNCHANGED <<tokens, odd>>

(* Process::kill of a process that waits: forceRemove takes it out of the  *)
(* queue of m_selfSem, without a token.                                    *)
Kill(p) ==
    /\ status[p] = "waiting"
    /\ status' = [status EXCEPT ![p] = "woken"]
    /\ odd' = odd \cup {"signal"}
    /\ UNCHANGED <<parent, children, tokens, reaped, sibling, garbage, call, ret>>

-----------------------------------------------------------------------------
(* PCBGarbage::clear, from the timer interrupt *)

SafeToDelete(p) == p \in garbage /\ p \in reaped /\ p \notin sibling

GarbageClear ==
    LET dead == {p \in Procs : SafeToDelete(p)} IN
    /\ dead # {}
    /\ status' = [p \in Procs |-> IF p \in dead THEN "none" ELSE status[p]]
    /\ parent' = [p \in Procs |-> IF p \in dead THEN NoProc ELSE parent[p]]
    /\ tokens' = [p \in Procs |-> IF p \in dead THEN 0 ELSE tokens[p]]
    /\ garbage' = garbage \ dead /\ reaped' = reaped \ dead
    /\ UNCHANGED <<children, sibling, call, ret, odd>>

WaitCall(p, pid, nohang) ==
    \/ WaitNoChild(p, pid)
    \/ nohang /\ WaitNoHang(p, pid)
    \/ WaitTakes(p, pid, nohang)
    \/ WaitBlocks(p, pid, nohang)

Next ==
    \/ \E p, c \in Procs : Fork(p, c)
    \/ \E p \in Procs : Exit(p)
    \/ \E p \in Procs, pid \in Targets, nohang \in BOOLEAN : WaitCall(p, pid, nohang)
    \/ \E p \in Procs : WaitResumes(p)
    \/ \E p \in Procs : Kill(p)
    \/ GarbageClear

Spec == Init /\ [][Next]_vars

-----------------------------------------------------------------------------
(* Properties *)

Listed(p) == Range(children[p])

(* Every process but Root that nobody has waited for is in exactly one     *)
(* list, once, and that list is its m_parent's; m_parent is never a dead   *)
(* process.  Forks, exits in any order and waits keep the lists and the    *)
(* parent pointers in step, and the collector deletes no process that a    *)
(* list, a parent pointer or the garbage list still leads to.              *)
TreeExact ==
    /\ \A p \in Procs : NoDuplicates(children[p])
    /\ \A p, c \in Procs :
        c \in Listed(p) <=> /\ parent[c] = p /\ status[c] # "none"
                            /\ c \notin reaped
    /\ \A c \in Procs :
        /\ status[c] \in {"live", "waiting", "woken"} /\ c # Root
           => status[parent[c]] \in {"live", "waiting", "woken"}
        /\ c \in reaped => IsZombie(c)
    /\ \A p \in Procs : status[p] = "none" =>
        /\ p \notin garbage
        /\ \A q \in Procs : p \notin Listed(q) /\ (status[q] \notin {"none", "zombie"} => parent[q] # p)

(* The tokens of m_selfSem, with the one a woken waiter carries, are as    *)
(* many as the zombies in the list, so that each exit is waited for once   *)
(* and no wait() comes back from m_selfSem with nothing to reap: as long   *)
(* as every wait() is for any child and no signal wakes a waiter.          *)
TokensMatchZombies ==
    odd = {} =>
        /\ ret # "error"
        /\ \A p \in Procs : status[p] \in {"live", "waiting", "woken"} =>
              tokens[p] + (IF status[p] = "woken" THEN 1 ELSE 0) = Zombies(p)

(* Nobody sleeps in wait() while a child it asks for is dead, and nobody   *)
(* at all with WNOHANG, whatever signals are sent, as long as no wait()    *)
(* for one pid has been called, which may take another's token.            *)
NoStuckWaiter ==
    "pid" \notin odd =>
        \A p \in Procs : status[p] = "waiting" =>
            Reapable(p, call[p].pid) = {} /\ ~call[p].nohang
=============================================================================
