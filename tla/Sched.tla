------------------------------- MODULE Sched -------------------------------
(***************************************************************************)
(* The scheduling core of the kernel: PCB (kernel/proc/pcb.cpp), Scheduler *)
(* (kernel/proc/scheduler.cpp), Semaphore (kernel/proc/sync/sem.cpp), the  *)
(* timer branch of TrapHandler::handleTrap, and the part of Process::kill  *)
(* and of signal delivery that moves a PCB between queues.                 *)
(*                                                                         *)
(* There is one hart.  A trap clears SIE, so everything a process does     *)
(* inside the kernel is atomic up to the next PCB::yield(); interrupts are *)
(* taken only while the running PCB is in user mode (or is the main        *)
(* thread, which idles with SIE set).  One action below is one method call *)
(* up to the context switch that ends it; at[p] is where p goes on when it *)
(* is dispatched again.                                                    *)
(***************************************************************************)
EXTENDS Integers, FiniteSetsExt, Queues

CONSTANTS
    Procs,      \* the PCBs
    Main,       \* the boot thread: main() spins until init is a zombie
    InitProc,   \* the first process, made by main() before it spins
    Sems,       \* the kernel's semaphores
    NoSem,      \* nullptr in m_waitingOn
    SemInit,    \* [Sems -> Nat]: the values the semaphores are built with
    TimeSlice,  \* PCB::DEFAULT_TIME_SLICE
    MaxValue    \* bound on a semaphore's value

ASSUME SchedConstants ==
    /\ Main \in Procs /\ InitProc \in Procs /\ Main # InitProc
    /\ NoSem \notin Sems
    /\ SemInit \in [Sems -> Nat]
    /\ TimeSlice \in Nat \ {0}
    /\ MaxValue \in Nat

VARIABLES
    state,      \* m_state of each PCB, "NONE" before construction and after delete
    running,    \* PCB::s_running
    ready,      \* Scheduler::m_list, head first
    slice,      \* PCB::s_timeSliceCounter, saturated at TimeSlice
    sleepq,     \* the list from Scheduler::m_sleepHead
    value,      \* m_value of each semaphore
    blocked,    \* the list from m_blockedHead of each semaphore
    waitingOn,  \* m_waitingOn of each PCB
    at,         \* where each PCB resumes
    halted      \* Console::panic was called, or the hart spins on a held lock

semVars == <<value, blocked, waitingOn>>
vars == <<state, running, ready, slice, sleepq, value, blocked, waitingOn, at, halted>>

States == {"NONE", "READY", "RUNNING", "BLOCKED", "SLEEPING", "STOPPED", "ZOMBIE"}
\* "futex" is Futex::wait, which the module Futex adds
Places == {"user", "kernel", "semwait", "futex", "sleep", "stopped", "dead"}

TypeOK ==
    /\ state \in [Procs -> States]
    /\ running \in Procs
    /\ ready \in Seq(Procs)
    /\ slice \in 0..TimeSlice
    /\ sleepq \in Seq(Procs)
    /\ value \in [Sems -> Nat]
    /\ blocked \in [Sems -> Seq(Procs)]
    /\ waitingOn \in [Procs -> Sems \cup {NoSem}]
    /\ at \in [Procs -> Places]
    /\ halted \in BOOLEAN

Init ==
    \* main() after Process::createInit
    /\ state = [p \in Procs |-> CASE p = Main -> "RUNNING"
                                 [] p = InitProc -> "READY"
                                 [] OTHER -> "NONE"]
    /\ running = Main
    /\ ready = <<InitProc>>
    /\ slice = 0
    /\ sleepq = <<>>
    /\ value = SemInit
    /\ blocked = [s \in Sems |-> <<>>]
    /\ waitingOn = [p \in Procs |-> NoSem]
    /\ at = [p \in Procs |-> "user"]
    /\ halted = FALSE

-----------------------------------------------------------------------------
(* PCB::dispatch().  The definitions named *Fault are plausible mistakes   *)
(* in the operation that follows them; no specification uses them.        *)

DispatchFault1(st, rdy, sl) ==
    \* the preempted PCB is made READY but not put() back
    LET runnable == {i \in 1..Len(rdy) : st[rdy[i]] = "READY"}
        st1 == IF st[running] = "RUNNING" THEN [st EXCEPT ![running] = "READY"] ELSE st
        k == Min(runnable)
    IN  IF runnable = {}
        THEN state' = st /\ ready' = rdy /\ slice' = sl /\ UNCHANGED <<running, halted>>
        ELSE /\ slice' = 0 /\ running' = rdy[k] /\ UNCHANGED halted
             /\ state' = [st1 EXCEPT ![rdy[k]] = "RUNNING"]
             /\ ready' = SubSeq(rdy, k + 1, Len(rdy))

DispatchFault2(st, rdy, sl) ==
    \* no early return, and get() comes before the put() of the current PCB
    LET runnable == {i \in 1..Len(rdy) : st[rdy[i]] = "READY"}
        again == st[running] = "RUNNING"
        st1 == IF again THEN [st EXCEPT ![running] = "READY"] ELSE st
        k == Min(runnable)
    IN  /\ slice' = 0
        /\ IF runnable = {}
           THEN halted' = TRUE /\ state' = st /\ ready' = <<>> /\ UNCHANGED running
           ELSE /\ running' = rdy[k] /\ UNCHANGED halted
                /\ state' = [st1 EXCEPT ![rdy[k]] = "RUNNING"]
                /\ ready' = LET r == SubSeq(rdy, k + 1, Len(rdy))
                            IN  IF again THEN Append(r, running) ELSE r

Dispatch(st, rdy, sl) ==
    \* st, rdy and sl are the values the caller left in m_state, m_list and
    \* s_timeSliceCounter when it reached dispatch()
    IF rdy = <<>> /\ st[running] = "RUNNING"
    THEN /\ state' = st /\ ready' = rdy /\ slice' = sl
         /\ UNCHANGED <<running, halted>>
    ELSE LET again == st[running] = "RUNNING"
             st1   == IF again THEN [st EXCEPT ![running] = "READY"] ELSE st
             rdy1  == IF again THEN Append(rdy, running) ELSE rdy
             runnable == {i \in 1..Len(rdy1) : st1[rdy1[i]] = "READY"}
         IN  /\ slice' = 0
             /\ IF runnable = {}
                THEN /\ halted' = TRUE
                     /\ state' = st1 /\ ready' = <<>>
                     /\ UNCHANGED running
                ELSE LET k == Min(runnable)
                     IN  /\ running' = rdy1[k]
                         /\ state' = [st1 EXCEPT ![rdy1[k]] = "RUNNING"]
                         /\ ready' = SubSeq(rdy1, k + 1, Len(rdy1))
                         /\ UNCHANGED halted

NoSwitch(st, rdy) ==
    \* the handler returns to its caller without reaching dispatch()
    /\ state' = st /\ ready' = rdy
    /\ UNCHANGED <<running, slice, halted>>

-----------------------------------------------------------------------------
(* Entering the kernel *)

Interruptible == ~halted /\ at[running] = "user"
InKernel == ~halted /\ at[running] \in {"user", "kernel"}
Process == running # Main

Goto(place) == at' = [at EXCEPT ![running] = IF Process THEN place ELSE "user"]

-----------------------------------------------------------------------------
(* The timer interrupt: Scheduler::awake(), PCBGarbage::clear(), and a     *)
(* yield when the slice is used up.  Sleep times are abstracted: a tick    *)
(* wakes any prefix of the delta list (SleepQueue has the times).          *)

Deletable ==
    \* PCBGarbage::isSafeToDelete; whether the parent has reaped is left open
    {p \in Procs : /\ state[p] = "ZOMBIE" /\ p # running
                   /\ LastOrAbsent(ready, p) /\ LastOrAbsent(sleepq, p)}

TickFault ==
    \* the slice is counted, its end is not noticed
    /\ Interruptible
    /\ \E n \in 0..Len(sleepq) :
         LET woken == SubSeq(sleepq, 1, n)
         IN  /\ sleepq' = SubSeq(sleepq, n + 1, Len(sleepq))
             /\ state' = [p \in Procs |-> IF p \in Range(woken) THEN "READY" ELSE state[p]]
             /\ ready' = ready \o woken
             /\ slice' = IF slice < TimeSlice THEN slice + 1 ELSE TimeSlice
    /\ Goto("kernel")
    /\ UNCHANGED <<running, halted, semVars>>

Tick ==
    /\ Interruptible
    /\ \E n \in 0..Len(sleepq), dead \in SUBSET Deletable :
         LET woken == SubSeq(sleepq, 1, n)
             st  == [p \in Procs |-> IF p \in Range(woken) THEN "READY"
                                     ELSE IF p \in dead THEN "NONE" ELSE state[p]]
             rdy == ready \o woken
             sl  == IF slice < TimeSlice THEN slice + 1 ELSE TimeSlice
         IN  /\ sleepq' = SubSeq(sleepq, n + 1, Len(sleepq))
             /\ IF sl >= TimeSlice
                THEN Dispatch(st, rdy, sl)
                ELSE /\ state' = st /\ ready' = rdy /\ slice' = sl
                     /\ UNCHANGED <<running, halted>>
    /\ Goto("kernel")
    /\ UNCHANGED semVars

-----------------------------------------------------------------------------
(* Calls of the running process *)

Create(p) ==
    \* the PCB constructor with an entry point, for fork and clone: born
    \* READY, on the list, to start in user mode
    /\ InKernel /\ Process
    /\ state[p] = "NONE"
    /\ NoSwitch([state EXCEPT ![p] = "READY"], Append(ready, p))
    /\ at' = [at EXCEPT ![p] = "user", ![running] = "kernel"]
    /\ UNCHANGED <<sleepq, semVars>>

Yield ==
    \* sched_yield, and the polling loops of Pipe::read and Pipe::write
    /\ InKernel /\ Process
    /\ Goto("kernel")
    /\ Dispatch(state, ready, slice)
    /\ UNCHANGED <<sleepq, semVars>>

Sleep ==
    \* PCB::sleep: putSleep() links the caller somewhere in the delta list
    /\ Interruptible /\ Process
    /\ \E i \in 0..Len(sleepq) : sleepq' = LinkAfter(sleepq, i, running)
    /\ Goto("sleep")
    /\ Dispatch([state EXCEPT ![running] = "SLEEPING"], ready, slice)
    /\ UNCHANGED semVars

SemWait(s) ==
    \* Semaphore::wait, with block() when no token is left
    /\ InKernel /\ Process
    /\ IF value[s] = 0
       THEN /\ waitingOn' = [waitingOn EXCEPT ![running] = s]
            /\ blocked' = [blocked EXCEPT ![s] = Append(@, running)]
            /\ Goto("semwait")
            /\ Dispatch([state EXCEPT ![running] = "BLOCKED"], ready, slice)
            /\ UNCHANGED value
       ELSE /\ value' = [value EXCEPT ![s] = @ - 1]
            /\ Goto("kernel")
            /\ NoSwitch(state, ready)
            /\ UNCHANGED <<blocked, waitingOn>>
    /\ UNCHANGED sleepq

SemSignalFault(s) ==
    \* m_value++ also when a waiter is released
    /\ InKernel
    /\ value[s] < MaxValue
    /\ value' = [value EXCEPT ![s] = @ + 1]
    /\ IF blocked[s] = <<>>
       THEN NoSwitch(state, ready) /\ UNCHANGED <<blocked, waitingOn>>
       ELSE LET p == Head(blocked[s])
            IN  /\ blocked' = [blocked EXCEPT ![s] = Tail(@)]
                /\ waitingOn' = [waitingOn EXCEPT ![p] = NoSem]
                /\ NoSwitch([state EXCEPT ![p] = "READY"], Append(ready, p))
    /\ Goto("kernel")
    /\ UNCHANGED sleepq

SemSignal(s) ==
    \* Semaphore::signal, from a system call or from a device interrupt: the
    \* token goes to the first waiter if there is one
    /\ InKernel
    /\ IF blocked[s] = <<>>
       THEN /\ value[s] < MaxValue
            /\ value' = [value EXCEPT ![s] = @ + 1]
            /\ NoSwitch(state, ready)
            /\ UNCHANGED <<blocked, waitingOn>>
       ELSE LET p == Head(blocked[s])
            IN  /\ blocked' = [blocked EXCEPT ![s] = Tail(@)]
                /\ waitingOn' = [waitingOn EXCEPT ![p] = NoSem]
                /\ NoSwitch([state EXCEPT ![p] = "READY"], Append(ready, p))
                /\ UNCHANGED value
    /\ Goto("kernel")
    /\ UNCHANGED sleepq

Resume ==
    \* the rest of Semaphore::block() and of PCB::sleep() after the yield; the
    \* return of PCB::yield() to executeDefault() after a stop
    /\ ~halted
    /\ at[running] \in {"semwait", "sleep", "stopped"}
    /\ waitingOn' = IF at[running] = "semwait"
                    THEN [waitingOn EXCEPT ![running] = NoSem] ELSE waitingOn
    /\ Goto(IF at[running] = "stopped" THEN "user" ELSE "kernel")
    /\ NoSwitch(state, ready)
    /\ UNCHANGED <<sleepq, value, blocked>>

-----------------------------------------------------------------------------
(* Signals, as far as they move PCBs.  Which signal is pending is left     *)
(* open: on its way back to user mode a process is stopped or not.         *)

Wakeable(st, p) == st[p] \in {"SLEEPING", "BLOCKED"}
Woken(st, p) == IF Wakeable(st, p) THEN [st EXCEPT ![p] = "READY"] ELSE st
WokenList(st, rdy, p) == IF Wakeable(st, p) THEN Append(rdy, p) ELSE rdy

Hangs(st, p) ==
    \* Scheduler::wakeUp returns with its lock held when p is not in the list
    st[p] = "SLEEPING" /\ p \notin Range(sleepq)

LeaveQueuesFault(st, p) ==
    \* the waiter is made ready but stays in the semaphore's queue
    IF Wakeable(st, p)
    THEN /\ sleepq' = IF st[p] = "SLEEPING" THEN Unlink(sleepq, p) ELSE sleepq
         /\ waitingOn' = [waitingOn EXCEPT ![p] = NoSem]
         /\ UNCHANGED <<value, blocked>>
    ELSE UNCHANGED <<sleepq, semVars>>

LeaveQueues(st, p) ==
    \* Process::kill on p, the signal now pending: p leaves the queues it waits in
    IF Wakeable(st, p)
    THEN /\ blocked' = IF waitingOn[p] = NoSem THEN blocked
                       ELSE [blocked EXCEPT ![waitingOn[p]] = Unlink(@, p)]
         /\ waitingOn' = [waitingOn EXCEPT ![p] = NoSem]
         /\ sleepq' = IF st[p] = "SLEEPING" THEN Unlink(sleepq, p) ELSE sleepq
         /\ UNCHANGED value
    ELSE UNCHANGED <<sleepq, semVars>>

Kill(p) ==
    \* any signal sent to p, by a system call or from the console interrupt
    /\ InKernel /\ p # Main
    /\ state[p] \notin {"NONE", "ZOMBIE"}
    /\ LeaveQueues(state, p)
    /\ state' = Woken(state, p)
    /\ ready' = WokenList(state, ready, p)
    /\ halted' = Hangs(state, p)
    /\ Goto("kernel")
    /\ UNCHANGED <<running, slice>>

Continue(p) ==
    \* SIGCONT: wakeStoppedThreads(), then the rest of kill() finds p ready
    /\ InKernel /\ p # Main
    /\ state[p] = "STOPPED"
    /\ NoSwitch([state EXCEPT ![p] = "READY"], Append(ready, p))
    /\ Goto("kernel")
    /\ UNCHANGED <<sleepq, semVars>>

Return ==
    \* the end of handleTrap(): back to user mode, no deadly signal
    /\ ~halted
    /\ at[running] = "kernel"
    /\ Goto("user")
    /\ NoSwitch(state, ready)
    /\ UNCHANGED <<sleepq, semVars>>

Stop(parent) ==
    \* executeDefault(), STOP: STOPPED, SIGCHLD to the parent, yield.  A
    \* process without parent is its own here: the kill then changes nothing.
    /\ ~halted
    /\ at[running] = "kernel"
    /\ parent # Main
    /\ state[parent] \notin {"NONE", "ZOMBIE"}
    /\ LET st == [state EXCEPT ![running] = "STOPPED"]
       IN  /\ LeaveQueues(st, parent)
           /\ IF Hangs(st, parent)
              THEN halted' = TRUE /\ state' = st /\ UNCHANGED <<running, ready, slice>>
              ELSE Dispatch(Woken(st, parent), WokenList(st, ready, parent), slice)
    /\ Goto("stopped")

Exit ==
    \* the end of Process::exit and Thread::exit: ZOMBIE, yield, never again.
    \* What exit does before it is a sequence of the calls above.  The exit of
    \* init ends main()'s loop and the emulation.
    /\ ~halted /\ running # InitProc
    /\ at[running] = "kernel"
    /\ Goto("dead")
    /\ Dispatch([state EXCEPT ![running] = "ZOMBIE"], ready, slice)
    /\ UNCHANGED <<sleepq, semVars>>

Next ==
    \/ Tick
    \/ \E p \in Procs : Create(p)
    \/ Yield
    \/ Sleep
    \/ \E s \in Sems : SemWait(s)
    \/ \E s \in Sems : SemSignal(s)
    \/ Resume
    \/ \E p \in Procs : Kill(p)
    \/ \E p \in Procs : Continue(p)
    \/ Return
    \/ \E p \in Procs : Stop(p)
    \/ Exit

Spec == Init /\ [][Next]_vars

(* Kernel code once dispatched runs to its next yield or back to user mode. *)
(* A pending timer interrupt is taken at the first return to user mode,    *)
(* however briefly the hart stays there: strong fairness.                  *)
FairSpec == Spec /\ WF_vars(Resume) /\ WF_vars(Return) /\ SF_vars(Tick)

-----------------------------------------------------------------------------
(* Properties *)

(* Exactly the READY PCBs are on the scheduler's list, each once, and the  *)
(* only RUNNING PCB is s_running: no sequence of put(), dispatch(),        *)
(* signal(), awake() and kill() links a PCB twice through its one m_next,  *)
(* or forgets a runnable one.                                              *)
ReadyListExact ==
    /\ NoDuplicates(ready)
    /\ \A p \in Procs : p \in Range(ready) <=> state[p] = "READY"
    /\ \A p \in Procs : p = running <=> state[p] = "RUNNING"

(* A BLOCKED PCB is in the queue of the semaphore m_waitingOn names, once, *)
(* and in no other; a SLEEPING one is in the sleep list, once; no other    *)
(* PCB is in any of them.  A signal, a tick and a kill racing for the same *)
(* waiter leave nothing behind.                                            *)
WaitersExact ==
    /\ NoDuplicates(sleepq)
    /\ \A p \in Procs : p \in Range(sleepq) <=> state[p] = "SLEEPING"
    /\ \A s \in Sems : NoDuplicates(blocked[s])
    /\ \A p \in Procs, s \in Sems :
         p \in Range(blocked[s]) <=> state[p] = "BLOCKED" /\ waitingOn[p] = s
    /\ \A p \in Procs : state[p] = "BLOCKED" <=> waitingOn[p] # NoSem

(* A semaphore never holds a token while somebody is queued on it: signal()*)
(* hands the token over, and no kill can leave a waiter beside a token.    *)
NoIdleToken == \A s \in Sems : value[s] > 0 => blocked[s] = <<>>

(* PCB::dispatch() always finds a READY PCB (its panic is unreachable), and*)
(* Scheduler::wakeUp() is only called for a PCB that is in the sleep list. *)
NeverHalts == ~halted

(* The main thread is always ready or running, with interrupts enabled: no *)
(* trap taken on top of it blocks, stops or kills it, so dispatch() has    *)
(* somebody to switch to when every process waits.                         *)
MainAlive == state[Main] \in {"READY", "RUNNING"} /\ at[Main] = "user"

(* Every ready PCB is dispatched: nobody starves under the timer.          *)
ReadyRuns == \A p \in Procs : state[p] = "READY" ~> state[p] = "RUNNING"

=============================================================================
