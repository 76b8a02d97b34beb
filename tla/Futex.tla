------------------------------- MODULE Futex -------------------------------
(***************************************************************************)
(* Futexes (kernel/proc/sync/futex.cpp) on top of the scheduling core: the *)
(* table of queues, FUTEX_WAIT with and without a timeout, FUTEX_WAKE, and *)
(* Process::kill of a waiter.  Keys stand for physical addresses; the user *)
(* words behind them are part of the state.  Kernel semaphores are left    *)
(* out: Sems may be empty.                                                 *)
(***************************************************************************)
EXTENDS Sched, FiniteSets

CONSTANTS
    Keys, NoKey,
    Words,      \* the values a futex word takes
    Counts      \* the counts FUTEX_WAKE is called with

ASSUME FutexConstants ==
    /\ NoKey \notin Keys
    /\ Counts \subseteq Nat \ {0}
    /\ IsFiniteSet(Procs)

VARIABLES
    word,       \* the user's futex words
    table,      \* the keys in s_table
    fq,         \* the waiters of each queue, head first
    refCount,   \* of each queue
    fkey,       \* m_waitingOnFutexKey of each PCB
    call,       \* the arguments of the wait() each PCB is in: key and val
    owed,       \* keys whose word was changed by a process that has not yet
                \* called FUTEX_WAKE for everybody
    expired     \* history: a wait with a timeout has timed out, or was woken

futexVars == <<word, table, fq, refCount, fkey, call, owed, expired>>
allVars == <<vars, futexVars>>

NoCall == [key |-> NoKey, val |-> 0]

FutexInit ==
    /\ Init
    /\ word = [k \in Keys |-> 0]
    /\ table = {}
    /\ fq = [k \in Keys |-> <<>>]
    /\ refCount = [k \in Keys |-> 0]
    /\ fkey = [p \in Procs |-> NoKey]
    /\ call = [p \in Procs |-> NoCall]
    /\ owed = {}
    /\ expired = FALSE

-----------------------------------------------------------------------------
(* User code: change a word, then owe the waiters a wake *)

Store(k, v) ==
    /\ Interruptible /\ Process /\ v # word[k]
    /\ word' = [word EXCEPT ![k] = v]
    /\ owed' = owed \cup {k}
    /\ UNCHANGED <<vars, table, fq, refCount, fkey, call, expired>>

-----------------------------------------------------------------------------
(* The definitions named *Fault are plausible mistakes in the operation    *)
(* that follows them; no specification uses them.                          *)

TableAfterFault(k, refs, q) ==
    \* tryFreeQueue() looks at the queue only
    IF q = <<>> THEN table \ {k} ELSE table

\* tryFreeQueue(): the queue is deleted when nobody is in it or refers to it
TableAfter(k, refs, q) == IF refs = 0 /\ q = <<>> THEN table \ {k} ELSE table

FutexWaitFault(k, v, timed) ==
    \* the word is not compared under the lock
    /\ Interruptible /\ Process
    /\ table' = table \cup {k}
    /\ refCount' = [refCount EXCEPT ![k] = @ + 1]
    /\ fq' = [fq EXCEPT ![k] = Append(@, running)]
    /\ fkey' = [fkey EXCEPT ![running] = k]
    /\ call' = [call EXCEPT ![running] = [key |-> k, val |-> v]]
    /\ Goto("futex")
    /\ Dispatch([state EXCEPT ![running] = "BLOCKED"], ready, slice)
    /\ UNCHANGED <<sleepq, semVars, word, owed, expired>>

FutexWait(k, v, timed) ==
    \* wait() up to its yield
    /\ Interruptible /\ Process
    /\ IF word[k] # v
       THEN \* FUTEX_EAGAIN
            /\ NoSwitch(state, ready) /\ Goto("kernel")
            /\ UNCHANGED <<sleepq, table, fq, refCount, fkey, call>>
       ELSE /\ table' = table \cup {k}
            /\ refCount' = [refCount EXCEPT ![k] = @ + 1]
            /\ fq' = [fq EXCEPT ![k] = Append(@, running)]
            /\ fkey' = [fkey EXCEPT ![running] = k]
            /\ call' = [call EXCEPT ![running] = [key |-> k, val |-> v]]
            /\ IF timed
               THEN \E i \in 0..Len(sleepq) : sleepq' = LinkAfter(sleepq, i, running)
               ELSE UNCHANGED sleepq
            /\ Goto("futex")
            /\ Dispatch([state EXCEPT ![running] = IF timed THEN "SLEEPING" ELSE "BLOCKED"],
                        ready, slice)
    /\ UNCHANGED <<semVars, word, owed, expired>>

FutexResumeFault ==
    \* wait() yields again instead of returning
    /\ ~halted /\ at[running] = "futex"
    /\ Dispatch(state, ready, slice)
    /\ UNCHANGED <<at, sleepq, semVars, futexVars>>

FutexResume ==
    \* the rest of wait(); q still points to the queue found before the yield
    /\ ~halted /\ at[running] = "futex"
    /\ LET k == call[running].key
       IN  /\ refCount' = [refCount EXCEPT ![k] = @ - 1]
           /\ table' = TableAfter(k, refCount[k] - 1, fq[k])
    /\ fkey' = [fkey EXCEPT ![running] = NoKey]
    /\ call' = [call EXCEPT ![running] = NoCall]
    /\ NoSwitch(state, ready) /\ Goto("kernel")
    /\ UNCHANGED <<sleepq, semVars, word, fq, owed, expired>>

\* the PCBs that wait on k, whatever the queue says
WaitingOn(k) == {p \in Procs : /\ at[p] = "futex" /\ call[p].key = k
                               /\ state[p] \in {"BLOCKED", "SLEEPING"}}

FutexWake(k, count) ==
    \* wake(): pops up to count PCBs.  A SLEEPING one is taken out of the sleep
    \* list and put on the ready list as it is; any other is made READY.
    /\ Interruptible /\ Process
    /\ LET n == IF k \notin table THEN 0
                ELSE IF count < Len(fq[k]) THEN count ELSE Len(fq[k])
           popped == SubSeq(fq[k], 1, n)
           sleeping == {p \in Range(popped) : state[p] = "SLEEPING"}
       IN  /\ fq' = [fq EXCEPT ![k] = SubSeq(@, n + 1, Len(@))]
           /\ table' = IF k \in table THEN TableAfter(k, refCount[k], fq'[k]) ELSE table
           /\ state' = [p \in Procs |-> IF p \in Range(popped) \ sleeping
                                        THEN "READY" ELSE state[p]]
           /\ sleepq' = IF sleeping = {} THEN sleepq
                        ELSE SelectSeq(sleepq, LAMBDA p : p \notin sleeping)
           /\ ready' = ready \o popped
              \* wakeUp() of a PCB that does not sleep keeps the lock; put() of a
              \* PCB that is linked or running ruins the list: the model stops
           /\ halted' = \/ \E p \in sleeping : p \notin Range(sleepq)
                        \/ \E p \in Range(popped) : p \in Range(ready) \cup {running}
           /\ owed' = IF fq'[k] = <<>> THEN owed \ {k} ELSE owed
           /\ expired' = (expired \/ sleeping # {})
    /\ Goto("kernel")
    /\ UNCHANGED <<running, slice, semVars, word, refCount, fkey, call>>

FutexKill(p) ==
    \* Process::kill with Futex::forceRemove
    /\ Kill(p)
    /\ IF Wakeable(state, p) /\ fkey[p] # NoKey
       THEN /\ fq' = IF fkey[p] \in table
                     THEN [fq EXCEPT ![fkey[p]] = Unlink(@, p)] ELSE fq
            /\ fkey' = [fkey EXCEPT ![p] = NoKey]
       ELSE UNCHANGED <<fq, fkey>>
    /\ UNCHANGED <<word, table, refCount, call, owed, expired>>

\* Scheduler::awake() takes p, which waits on a futex, out of the sleep list
TimesOut(p) == fkey[p] # NoKey /\ p \in Range(sleepq) /\ p \notin Range(sleepq')

\* what the steps of the scheduling core, whose semaphores are not used here,
\* leave alone
Frame ==
    /\ expired' = (expired \/ \E p \in Procs : TimesOut(p))
    /\ UNCHANGED <<word, table, fq, refCount, fkey, call, owed>>

Core ==
    \/ Tick /\ Frame
    \/ \E p \in Procs : Create(p) /\ Frame
    \/ Yield /\ Frame
    \/ Return /\ Frame
    \/ Exit /\ Frame

FutexNext ==
    \* behaviours end where a timeout comes into it: the waiter is then left in
    \* a queue, or on the ready list while SLEEPING
    /\ ~expired
    /\ \/ Core
       \/ \E k \in Keys, v \in Words : Store(k, v)
       \/ \E k \in Keys, v \in Words, timed \in BOOLEAN : FutexWait(k, v, timed)
       \/ FutexResume
       \/ \E k \in Keys, count \in Counts : FutexWake(k, count)
       \/ \E p \in Procs : FutexKill(p)

FutexSpec == FutexInit /\ [][FutexNext]_allVars

(* As in Sched: kernel code runs on, and the timer is taken.              *)
FutexFairSpec ==
    /\ FutexSpec
    /\ WF_allVars(~expired /\ FutexResume)
    /\ WF_allVars(~expired /\ Return /\ Frame)
    /\ SF_allVars(~expired /\ Tick /\ Frame)

-----------------------------------------------------------------------------
(* Properties *)

(* A PCB is in the queue of a key exactly while it is waiting on it, with  *)
(* or without a timeout: wake(), kill() and the waiter itself never leave  *)
(* it in a queue it no longer waits in, until a timeout runs out.  The     *)
(* FutexQueue a waiter points to across its yield is not deleted under it, *)
(* timeouts or not, and without them is deleted once nobody waits:         *)
(* refCount counts the calls of wait() that have not returned.             *)
FutexQueuesExact ==
    \A k \in Keys :
        /\ ~expired =>
            /\ NoDuplicates(fq[k])
            /\ Range(fq[k]) = {p \in Procs : state[p] \in {"BLOCKED", "SLEEPING"} /\ fkey[p] = k}
        /\ refCount[k] = Cardinality({p \in Procs : at[p] = "futex" /\ call[p].key = k})
        /\ refCount[k] > 0 => k \in table
        /\ ~expired /\ k \in table => refCount[k] > 0

(* Compare and enqueue are one step: a PCB waits on a word that has        *)
(* changed only as long as the process that changed it has not called wake *)
(* (again until a timeout runs out).                                       *)
NoLostWake ==
    ~expired => \A k \in Keys : \A p \in WaitingOn(k) : call[p].val # word[k] => k \in owed

(* Who was woken from a futex gets to run and returns from wait(), unless  *)
(* a timeout comes into it.                                                *)
WokenReturns ==
    \A p \in Procs :
        (at[p] = "futex" /\ \A k \in Keys : p \notin Range(fq[k]))
            ~> (at[p] # "futex" \/ halted \/ expired)
=============================================================================
