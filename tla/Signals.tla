------------------------------ MODULE Signals ------------------------------
(***************************************************************************)
(* Signals (kernel/proc/signal/signal_handler.cpp, Process::kill and the   *)
(* signal calls of kernel/trap/syscall/syscall.cpp): sending, the wake-up  *)
(* of blocked and stopped processes, delivery on the way back to user mode *)
(* (TrapHandler::handleTrap), handlers and their frames, fork, execve.     *)
(*                                                                         *)
(* The kernel is not preempted: only the process that has the cpu takes    *)
(* steps, and a call is followed by Deliver before anything else happens.  *)
(* Processes have a single thread.  Signals are their numbers.             *)
(***************************************************************************)
EXTENDS Naturals, Sequences, SequencesExt, FiniteSets, FiniteSetsExt

CONSTANTS
    Procs, Root, NoProc,
    Sent,       \* the signals that processes send
    Caught,     \* the signals whose action processes change
    Masks,      \* the sets given to sigprocmask
    SaMask,     \* the sa_mask of the handlers
    MaxFrames   \* frames that fit on the user stack

SIGKILL == 9
SIGCHLD == 17
SIGCONT == 18
SIGSTOP == 19
Unblockable == {SIGKILL, SIGSTOP}

ASSUME SignalConstants ==
    /\ Root \in Procs /\ NoProc \notin Procs
    /\ Sent \subseteq 1..31 /\ Caught \subseteq 1..31
    /\ SaMask \subseteq 1..31 /\ \A set \in Masks : set \subseteq 1..31
    /\ MaxFrames \in Nat

VARIABLES
    cpu,        \* s_running; NoProc: the scheduler chooses
    mode,       \* "none", "user", "leaving" (on its way through signalDispatch),
                \* "stopped", "resumed" (READY after a stop), "blocked" (BLOCKED
                \* or SLEEPING in a call), "zombie"
    parent,     \* m_parent
    pending,    \* m_pending, as a set
    mask,       \* m_sigMask
    action,     \* sa_handler: "dfl", "ign" or "handler"
    frames      \* the SignalFrames on the user stack: signal and saved mask

vars == <<cpu, mode, parent, pending, mask, action, frames>>

Init ==
    /\ cpu = Root
    /\ mode = [p \in Procs |-> IF p = Root THEN "user" ELSE "none"]
    /\ parent = [p \in Procs |-> NoProc]
    /\ pending = [p \in Procs |-> {}]
    /\ mask = [p \in Procs |-> {}]
    /\ action = [p \in Procs |-> [s \in Caught |-> "dfl"]]
    /\ frames = [p \in Procs |-> <<>>]

Calls(p) == cpu = p /\ mode[p] = "user"
Action(p, s) == IF s \in Caught THEN action[p][s] ELSE "dfl"

(* sigDefaultAction *)
Default(s) ==
    CASE s \in 19..22 -> "stop" [] s = SIGCHLD -> "ign" [] s = SIGCONT -> "cont"
      [] OTHER -> "term"

(* The definitions named *Fault are plausible mistakes in the operation    *)
(* that follows them; no specification uses them.                          *)

-----------------------------------------------------------------------------
(* Process::kill(s) for q, as new values of m_pending and of the mode      *)

(* SignalHandler::send *)
Pended(q, s) ==
    IF s \notin Unblockable /\ Action(q, s) = "ign"
    THEN pending[q] ELSE pending[q] \cup {s}

(* SIGCONT wakes a stopped process, and every signal a blocked one *)
Woken(q, s) ==
    IF s = SIGCONT /\ mode[q] = "stopped" THEN "resumed"
    ELSE IF mode[q] = "blocked" THEN "leaving" ELSE mode[q]

(* sys_kill by p; q may be p itself *)
Kill(p, q, s) ==
    /\ Calls(p) /\ mode[q] \notin {"none", "zombie"}
    /\ pending' = [pending EXCEPT ![q] = Pended(q, s)]
    /\ mode' = [mode EXCEPT ![q] = Woken(q, s), ![p] = "leaving"]
    /\ UNCHANGED <<cpu, parent, mask, action, frames>>

-----------------------------------------------------------------------------
(* SignalHandler::signalDispatch: one signal per return to user mode *)

\* the mask is ignored
DeliverableFault(p) == pending[p]

Deliverable(p) == pending[p] \ mask[p]

\* the highest number first
DequeueFault(p) == Max(Deliverable(p))

(* SignalHandler::dequeue takes the one with the lowest number *)
Dequeue(p) == Min(Deliverable(p))

Delivers(p, to) ==
    /\ cpu = p /\ mode[p] = "leaving" /\ Deliverable(p) # {}
    /\ LET s == Dequeue(p) IN
       to = (IF Action(p, s) # "dfl" THEN Action(p, s) ELSE Default(s))

(* m_pending of everybody when p has dequeued a signal and sends SIGCHLD   *)
(* to its parent: the SIGCHLD of exit() and of notifyStopped()             *)
Notified(p) ==
    [x \in Procs |->
        IF x = p THEN pending[p] \ {Dequeue(p)}
        ELSE IF x = parent[p] THEN Pended(x, SIGCHLD) ELSE pending[x]]
Left(p, m) ==
    [x \in Procs |-> IF x = p THEN m
                     ELSE IF x = parent[p] THEN Woken(x, SIGCHLD) ELSE mode[x]]

(* Process::exit: the children go to init *)
Orphaned(p) == [x \in Procs |-> IF parent[x] = p THEN Root ELSE parent[x]]

DeliverNone(p) ==
    /\ cpu = p /\ mode[p] = "leaving" /\ Deliverable(p) = {}
    /\ mode' = [mode EXCEPT ![p] = "user"]
    /\ UNCHANGED <<cpu, parent, pending, mask, action, frames>>

DeliverIgnored(p) ==
    /\ Delivers(p, "ign") \/ Delivers(p, "cont")
    /\ pending' = [pending EXCEPT ![p] = @ \ {Dequeue(p)}]
    /\ mode' = [mode EXCEPT ![p] = "user"]
    /\ UNCHANGED <<cpu, parent, mask, action, frames>>

(* By its default action, or because the frame does not fit on the stack.  *)
(* Nobody looks at the signals of a zombie again.                          *)
DeliverTerm(p) ==
    /\ \/ Delivers(p, "term")
       \/ Delivers(p, "handler") /\ Len(frames[p]) = MaxFrames
    /\ pending' = [Notified(p) EXCEPT ![p] = {}]
    /\ mode' = Left(p, "zombie") /\ cpu' = NoProc
    /\ parent' = Orphaned(p)
    /\ mask' = [mask EXCEPT ![p] = {}] /\ frames' = [frames EXCEPT ![p] = <<>>]
    /\ action' = [action EXCEPT ![p] = [s \in Caught |-> "dfl"]]

DeliverStop(p) ==
    /\ Delivers(p, "stop")
    /\ pending' = Notified(p) /\ mode' = Left(p, "stopped") /\ cpu' = NoProc
    /\ UNCHANGED <<parent, mask, action, frames>>

(* The frame saves the mask, and sa_mask is added to it *)
DeliverHandler(p) ==
    /\ Delivers(p, "handler") /\ Len(frames[p]) < MaxFrames
    /\ pending' = [pending EXCEPT ![p] = @ \ {Dequeue(p)}]
    /\ frames' = [frames EXCEPT ![p] = Append(@, [sig |-> Dequeue(p), saved |-> mask[p]])]
    /\ mask' = [mask EXCEPT ![p] = @ \cup (SaMask \ Unblockable)]
    /\ mode' = [mode EXCEPT ![p] = "user"]
    /\ UNCHANGED <<cpu, parent, action>>

-----------------------------------------------------------------------------
(* Calls of the running process *)

(* sys_rt_sigreturn at the end of a handler *)
SigReturn(p) ==
    /\ Calls(p) /\ frames[p] # <<>>
    /\ mask' = [mask EXCEPT ![p] = Last(frames[p]).saved]
    /\ frames' = [frames EXCEPT ![p] = Front(@)]
    /\ mode' = [mode EXCEPT ![p] = "leaving"]
    /\ UNCHANGED <<cpu, parent, pending, action>>

(* SignalHandler::setAction *)
SigAction(p, s, act) ==
    /\ Calls(p) /\ s \notin Unblockable
    /\ action' = [action EXCEPT ![p][s] = act]
    /\ mode' = [mode EXCEPT ![p] = "leaving"]
    /\ UNCHANGED <<cpu, parent, pending, mask, frames>>

NewMask(p, how, set) ==
    (CASE how = "block" -> mask[p] \cup set [] how = "unblock" -> mask[p] \ set
       [] how = "set" -> set) \ Unblockable

(* Process::sigprocmask *)
SigProcMask(p, how, set) ==
    /\ Calls(p)
    /\ mask' = [mask EXCEPT ![p] = NewMask(p, how, set)]
    /\ mode' = [mode EXCEPT ![p] = "leaving"]
    /\ UNCHANGED <<cpu, parent, pending, action, frames>>

\* clone() copies m_pending as well
ForkFault(p, c) ==
    /\ Calls(p) /\ mode[c] = "none"
    /\ parent' = [parent EXCEPT ![c] = p]
    /\ action' = [action EXCEPT ![c] = action[p]]
    /\ mask' = [mask EXCEPT ![c] = mask[p]]
    /\ frames' = [frames EXCEPT ![c] = frames[p]]
    /\ pending' = [pending EXCEPT ![c] = pending[p]]
    /\ mode' = [mode EXCEPT ![c] = "resumed", ![p] = "leaving"]
    /\ UNCHANGED cpu

(* Process::fork with SignalHandler::clone; the frames are part of the     *)
(* copied stack.                                                           *)
Fork(p, c) ==
    /\ Calls(p) /\ mode[c] = "none"
    /\ parent' = [parent EXCEPT ![c] = p]
    /\ action' = [action EXCEPT ![c] = action[p]]
    /\ mask' = [mask EXCEPT ![c] = mask[p]]
    /\ frames' = [frames EXCEPT ![c] = frames[p]]
    /\ mode' = [mode EXCEPT ![c] = "resumed", ![p] = "leaving"]
    /\ UNCHANGED <<cpu, pending>>

(* Process::exec with resetForExec *)
Exec(p) ==
    /\ Calls(p)
    /\ action' = [action EXCEPT ![p] =
                     [s \in Caught |-> IF @[s] = "ign" THEN "ign" ELSE "dfl"]]
    /\ frames' = [frames EXCEPT ![p] = <<>>]
    /\ mode' = [mode EXCEPT ![p] = "leaving"]
    /\ UNCHANGED <<cpu, parent, pending, mask>>

(* A call that blocks: none of them looks at m_pending first *)
Block(p) ==
    /\ Calls(p)
    /\ mode' = [mode EXCEPT ![p] = "blocked"] /\ cpu' = NoProc
    /\ UNCHANGED <<parent, pending, mask, action, frames>>

(* What the call waits for happens *)
Unblock(p) ==
    /\ mode[p] = "blocked"
    /\ mode' = [mode EXCEPT ![p] = "leaving"]
    /\ UNCHANGED <<cpu, parent, pending, mask, action, frames>>

-----------------------------------------------------------------------------
(* A timer interrupt in user mode, with or without the end of the slice *)
Tick(p) ==
    /\ Calls(p)
    /\ mode' = [mode EXCEPT ![p] = "leaving"]
    /\ cpu' \in {p, NoProc}
    /\ UNCHANGED <<parent, pending, mask, action, frames>>

(* PCB::dispatch picks a READY process.  One that was stopped returns from *)
(* executeDefault, and a new one starts, without signalDispatch.           *)
Schedule(p) ==
    /\ cpu = NoProc /\ mode[p] \in {"leaving", "resumed"}
    /\ cpu' = p
    /\ mode' = [mode EXCEPT ![p] = IF @ = "resumed" THEN "user" ELSE @]
    /\ UNCHANGED <<parent, pending, mask, action, frames>>

Deliver(p) ==
    \/ DeliverNone(p) \/ DeliverIgnored(p) \/ DeliverTerm(p)
    \/ DeliverStop(p) \/ DeliverHandler(p)

Next ==
    \E p \in Procs :
        \/ \E q \in Procs, s \in Sent : Kill(p, q, s)
        \/ Deliver(p)
        \/ SigReturn(p)
        \/ \E s \in Caught, act \in {"dfl", "ign", "handler"} : SigAction(p, s, act)
        \/ \E how \in {"block", "unblock", "set"}, set \in Masks : SigProcMask(p, how, set)
        \/ \E c \in Procs : Fork(p, c)
        \/ Exec(p)
        \/ Block(p)
        \/ Unblock(p)
        \/ Tick(p)
        \/ Schedule(p)

Spec == Init /\ [][Next]_vars

(* A timer interrupt that becomes pending in the kernel is taken as soon   *)
(* as the process is back in user mode, a call that does not block reaches *)
(* signalDispatch, and the ready list is served round robin.               *)
FairSpec ==
    Spec /\ \A p \in Procs : SF_vars(Tick(p) /\ cpu' = NoProc)
                            /\ WF_vars(Deliver(p)) /\ SF_vars(Schedule(p))

-----------------------------------------------------------------------------

(* signalDispatch runs a handler only for a signal that was not masked     *)
(* when it was delivered; with sa_mask this is what keeps a handler from   *)
(* being interrupted by the signals it excludes.                           *)
HandlersRespectMask ==
    \A p \in Procs : \A i \in DOMAIN frames[p] :
        frames[p][i].sig \notin frames[p][i].saved

(* A process that passes signalDispatch with SIGKILL pending terminates,   *)
(* however many other signals are pending and handlers are running: kill() *)
(* wakes the blocked, and none of the signals sent, which have the higher  *)
(* numbers, is taken before SIGKILL.                                       *)
KillSeen ==
    \A p \in Procs :
        (mode[p] = "leaving" /\ SIGKILL \in pending[p]) ~> (mode[p] = "zombie")
=============================================================================
