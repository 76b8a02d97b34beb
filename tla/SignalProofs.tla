---------------------------- MODULE SignalProofs ---------------------------
(***************************************************************************)
(* Signals, for any processes, signals, masks and stack depth: a handler   *)
(* runs only for a signal that was not masked, SIGKILL and SIGSTOP are     *)
(* never masked nor caught, and a pending SIGKILL is never forgotten.      *)
(***************************************************************************)
EXTENDS Signals, QueueTheorems, WellFoundedInduction, TLAPS

Numbers == 1..31
Modes == {"none", "user", "leaving", "stopped", "resumed", "blocked", "zombie"}
FrameSet == [sig : Numbers, saved : SUBSET Numbers]

SignalTypes ==
    /\ mode \in [Procs -> Modes]
    /\ pending \in [Procs -> SUBSET Numbers]
    /\ mask \in [Procs -> SUBSET Numbers]
    /\ action \in [Procs -> [Caught -> {"dfl", "ign", "handler"}]]
    /\ frames \in [Procs -> Seq(FrameSet)]

(* What holds of every frame of a process, and of the mask it runs with *)
GoodMask(m) == m \cap Unblockable = {}
GoodFrames(fs) ==
    \A i \in DOMAIN fs : fs[i].sig \notin fs[i].saved /\ GoodMask(fs[i].saved)

NeverCaught == \A p \in Procs : \A s \in Caught \cap Unblockable : action[p][s] = "dfl"

(* The saved masks are part of the invariant since sigreturn makes them    *)
(* the mask again.                                                         *)
SignalInv ==
    /\ SignalTypes
    /\ \A p \in Procs : GoodFrames(frames[p]) /\ GoodMask(mask[p])
    /\ NeverCaught

-----------------------------------------------------------------------------
(* The least of some numbers, as the library has it.                       *)
LEMMA LeastHolds == LeastNumber
<1> SUFFICES ASSUME NEW S \in SUBSET Nat, S # {}
             PROVE  \E x \in S : \A y \in S : x <= y
  BY DEF LeastNumber
<1>1. PICK x \in S : \A y \in S : ~ (<<y, x>> \in OpToRel(<, Nat))
  BY NatLessThanWellFounded, WFMin
<1>2. ASSUME NEW y \in S PROVE x <= y
  <2>1. <<y, x>> \in Nat \X Nat
    OBVIOUS
  <2>2. <<y, x>>[1] = y /\ <<y, x>>[2] = x
    OBVIOUS
  <2>3. ~(y < x)
    BY <1>1, <2>1, <2>2, Zenon DEF OpToRel
  <2>4. x \in Nat /\ y \in Nat
    OBVIOUS
  <2> QED BY ONLY <2>3, <2>4
<1> QED BY <1>2

(* SignalHandler::dequeue returns a pending signal that is not masked, and *)
(* none with a lower number is. *)
LEMMA DequeueDeliverable ==
    ASSUME SignalTypes, NEW p \in Procs, Deliverable(p) # {}
    PROVE  /\ Dequeue(p) \in pending[p] /\ Dequeue(p) \notin mask[p]
           /\ Dequeue(p) \in Numbers
           /\ \A s \in Deliverable(p) : Dequeue(p) <= s
<1>1. pending[p] \subseteq Numbers
  BY DEF SignalTypes
<1>2. Deliverable(p) \subseteq Nat
  BY <1>1 DEF Deliverable, Numbers
<1>3. Dequeue(p) \in Deliverable(p) /\ \A s \in Deliverable(p) : Dequeue(p) <= s
  <2>1. \E x \in Deliverable(p) : \A s \in Deliverable(p) : x <= s
    BY <1>2, LeastHolds DEF LeastNumber
  <2> QED BY <2>1, Zenon DEF Dequeue, Min
<1> QED BY <1>1, <1>3 DEF Deliverable

(* pushSignalFrame for a signal that is not masked *)
LEMMA PushGood ==
    ASSUME NEW fs \in Seq(FrameSet), GoodFrames(fs), NEW s \in Numbers, NEW m \in SUBSET Numbers,
           s \notin m, GoodMask(m)
    PROVE  /\ Append(fs, [sig |-> s, saved |-> m]) \in Seq(FrameSet)
           /\ GoodFrames(Append(fs, [sig |-> s, saved |-> m]))
<1> DEFINE f == [sig |-> s, saved |-> m]
           gs == Append(fs, f)
<1>1. f \in FrameSet
  BY DEF FrameSet
<1>2. /\ gs \in Seq(FrameSet) /\ Len(gs) = Len(fs) + 1 /\ gs[Len(fs) + 1] = f
      /\ \A i \in 1..Len(fs) : gs[i] = fs[i]
  BY <1>1, SeqAppend
<1>3. DOMAIN gs = 1..(Len(fs) + 1) /\ DOMAIN fs = 1..Len(fs) /\ Len(fs) \in Nat
  BY <1>2, SeqLength
<1>4. ASSUME NEW i \in DOMAIN gs
      PROVE  gs[i].sig \notin gs[i].saved /\ GoodMask(gs[i].saved)
  <2>1. CASE i \in 1..Len(fs)
    BY <2>1, <1>2, <1>3 DEF GoodFrames
  <2>2. CASE i = Len(fs) + 1
    BY <2>2, <1>2
  <2> QED BY <2>1, <2>2, <1>3
<1> QED BY <1>2, <1>4 DEF GoodFrames

(* sigreturn takes the last frame off the stack *)
LEMMA PopGood ==
    ASSUME NEW fs \in Seq(FrameSet), GoodFrames(fs), fs # <<>>
    PROVE  /\ Front(fs) \in Seq(FrameSet) /\ GoodFrames(Front(fs))
           /\ Last(fs).saved \in SUBSET Numbers /\ GoodMask(Last(fs).saved)
<1>1. Len(fs) \in Nat /\ Len(fs) # 0 /\ DOMAIN fs = 1..Len(fs)
  BY SeqEmpty, SeqLength
<1>2. /\ Front(fs) \in Seq(FrameSet) /\ DOMAIN Front(fs) = 1..(Len(fs) - 1)
      /\ \A i \in 1..(Len(fs) - 1) : Front(fs)[i] = fs[i]
  BY <1>1 DEF Front
<1>3. fs[Len(fs)] \in FrameSet
  BY <1>1, SeqMember
<1>4. Last(fs).saved \in SUBSET Numbers /\ GoodMask(Last(fs).saved)
  BY <1>1, <1>3 DEF Last, FrameSet, GoodFrames
<1>5. GoodFrames(Front(fs))
  BY <1>1, <1>2 DEF GoodFrames
<1> QED BY <1>2, <1>4, <1>5

-----------------------------------------------------------------------------
(* send() and the wake-up of kill() keep the types *)
LEMMA SendTypes ==
    ASSUME SignalTypes, NEW q \in Procs, NEW s \in Numbers
    PROVE  Pended(q, s) \in SUBSET Numbers /\ Woken(q, s) \in Modes
<1>1. pending[q] \in SUBSET Numbers /\ mode[q] \in Modes
  BY DEF SignalTypes
<1> QED BY <1>1 DEF Pended, Woken, Modes

(* A fresh stack has no frames *)
LEMMA EmptyGood == <<>> \in Seq(FrameSet) /\ GoodFrames(<<>>)
BY DEF GoodFrames

(* A step that leaves masks, frames and actions alone *)
LEMMA OnlyPending ==
    ASSUME SignalInv, UNCHANGED <<mask, action, frames>>,
           mode' \in [Procs -> Modes], pending' \in [Procs -> SUBSET Numbers]
    PROVE  SignalInv'
BY DEF SignalInv, SignalTypes, NeverCaught

(* kill() *)
LEMMA KillStep ==
    ASSUME SignalInv, NEW p \in Procs, NEW q \in Procs, NEW s \in Sent, Kill(p, q, s)
    PROVE  SignalInv'
<1>1. SignalTypes /\ s \in Numbers
  BY SignalConstants DEF SignalInv, Numbers
<1>2. Pended(q, s) \in SUBSET Numbers /\ Woken(q, s) \in Modes
  BY <1>1, SendTypes
<1>3. mode' \in [Procs -> Modes] /\ pending' \in [Procs -> SUBSET Numbers]
  BY <1>1, <1>2 DEF Kill, SignalTypes, Modes
<1> QED BY <1>3, OnlyPending DEF Kill

(* The SIGCHLD of exit() and notifyStopped() keeps the types *)
LEMMA NotifyTypes ==
    ASSUME SignalTypes, NEW p \in Procs, NEW m \in Modes
    PROVE  Notified(p) \in [Procs -> SUBSET Numbers] /\ Left(p, m) \in [Procs -> Modes]
<1>1. \A x \in Procs : Pended(x, SIGCHLD) \in SUBSET Numbers /\ Woken(x, SIGCHLD) \in Modes
  BY SendTypes DEF Numbers, SIGCHLD
<1> QED BY <1>1 DEF SignalTypes, Notified, Left

(* signalDispatch, one case per outcome *)
LEMMA DeliverStep ==
    ASSUME SignalInv, NEW p \in Procs, Deliver(p)
    PROVE  SignalInv'
<1>1. SignalTypes
  BY DEF SignalInv
<1>2. CASE DeliverNone(p)
  <2>1. mode' \in [Procs -> Modes] /\ pending' \in [Procs -> SUBSET Numbers]
    BY <1>1, <1>2 DEF DeliverNone, SignalTypes, Modes
  <2> QED BY <1>2, <2>1, OnlyPending DEF DeliverNone
<1>3. CASE DeliverIgnored(p)
  <2>1. mode' \in [Procs -> Modes] /\ pending' \in [Procs -> SUBSET Numbers]
    BY <1>1, <1>3 DEF DeliverIgnored, SignalTypes, Modes
  <2> QED BY <1>3, <2>1, OnlyPending DEF DeliverIgnored
<1>4. CASE DeliverStop(p)
  <2>1. mode' \in [Procs -> Modes] /\ pending' \in [Procs -> SUBSET Numbers]
    BY <1>1, <1>4, NotifyTypes DEF DeliverStop, Modes
  <2> QED BY <1>4, <2>1, OnlyPending DEF DeliverStop
<1>5. CASE DeliverTerm(p)
  <2>1. mode' \in [Procs -> Modes] /\ pending' \in [Procs -> SUBSET Numbers]
    <3>1. "zombie" \in Modes
      BY DEF Modes
    <3>2. Notified(p) \in [Procs -> SUBSET Numbers] /\ Left(p, "zombie") \in [Procs -> Modes]
      BY <1>1, <3>1, NotifyTypes
    <3> QED BY <1>5, <3>2 DEF DeliverTerm
  <2>2. /\ frames' = [frames EXCEPT ![p] = <<>>] /\ mask' = [mask EXCEPT ![p] = {}]
        /\ action' = [action EXCEPT ![p] = [s \in Caught |-> "dfl"]]
    BY <1>5 DEF DeliverTerm
  <2>3. SignalTypes'
    BY <1>1, <2>1, <2>2, EmptyGood DEF SignalTypes
  <2>4. \A x \in Procs : GoodFrames(frames'[x]) /\ GoodMask(mask'[x])
    BY <1>1, <2>2, EmptyGood DEF SignalInv, SignalTypes, GoodMask
  <2>5. NeverCaught'
    BY <1>1, <2>2 DEF SignalInv, SignalTypes, NeverCaught
  <2> QED BY <2>3, <2>4, <2>5 DEF SignalInv, GoodFrames, GoodMask
<1>6. CASE DeliverHandler(p)
  <2>1. /\ frames' = [frames EXCEPT ![p] = Append(@, [sig |-> Dequeue(p), saved |-> mask[p]])]
        /\ mask' = [mask EXCEPT ![p] = @ \cup (SaMask \ Unblockable)]
        /\ action' = action /\ Deliverable(p) # {}
        /\ mode' = [mode EXCEPT ![p] = "user"]
        /\ pending' = [pending EXCEPT ![p] = @ \ {Dequeue(p)}]
    BY <1>6 DEF DeliverHandler, Delivers
  <2>2. Dequeue(p) \in Numbers /\ Dequeue(p) \notin mask[p]
    BY <1>1, <2>1, DequeueDeliverable
  <2>3. /\ frames[p] \in Seq(FrameSet) /\ mask[p] \in SUBSET Numbers
        /\ GoodFrames(frames[p]) /\ GoodMask(mask[p])
    BY DEF SignalInv, SignalTypes
  <2>4. /\ Append(frames[p], [sig |-> Dequeue(p), saved |-> mask[p]]) \in Seq(FrameSet)
        /\ GoodFrames(Append(frames[p], [sig |-> Dequeue(p), saved |-> mask[p]]))
    BY <2>2, <2>3, PushGood
  <2>5. mask[p] \cup (SaMask \ Unblockable) \in SUBSET Numbers
        /\ GoodMask(mask[p] \cup (SaMask \ Unblockable))
    BY <2>3, SignalConstants DEF GoodMask, Numbers
  <2>6. SignalTypes'
    BY <1>1, <2>1, <2>4, <2>5 DEF SignalTypes, Modes
  <2>7. \A x \in Procs : GoodFrames(frames'[x]) /\ GoodMask(mask'[x])
    BY <1>1, <2>1, <2>4, <2>5 DEF SignalInv, SignalTypes
  <2>8. NeverCaught'
    BY <2>1 DEF SignalInv, NeverCaught
  <2> QED BY <2>6, <2>7, <2>8 DEF SignalInv, GoodFrames, GoodMask
<1> QED BY <1>2, <1>3, <1>4, <1>5, <1>6 DEF Deliver

(* sigreturn restores a good mask *)
LEMMA SigReturnStep ==
    ASSUME SignalInv, NEW p \in Procs, SigReturn(p)
    PROVE  SignalInv'
<1>1. SignalTypes /\ frames[p] # <<>> /\ GoodFrames(frames[p]) /\ frames[p] \in Seq(FrameSet)
  BY DEF SignalInv, SignalTypes, SigReturn
<1>2. /\ Front(frames[p]) \in Seq(FrameSet) /\ GoodFrames(Front(frames[p]))
      /\ Last(frames[p]).saved \in SUBSET Numbers /\ GoodMask(Last(frames[p]).saved)
  BY <1>1, PopGood
<1>3. /\ frames' = [frames EXCEPT ![p] = Front(@)]
      /\ mask' = [mask EXCEPT ![p] = Last(frames[p]).saved]
      /\ mode' = [mode EXCEPT ![p] = "leaving"]
      /\ action' = action /\ pending' = pending
  BY DEF SigReturn
<1>4. SignalTypes'
  BY <1>1, <1>2, <1>3 DEF SignalTypes, Modes
<1>5. \A x \in Procs : GoodFrames(frames'[x]) /\ GoodMask(mask'[x])
  BY <1>1, <1>2, <1>3 DEF SignalInv, SignalTypes
<1>6. NeverCaught'
  BY <1>3 DEF SignalInv, NeverCaught
<1> QED BY <1>4, <1>5, <1>6 DEF SignalInv, GoodFrames, GoodMask

(* sigaction() refuses SIGKILL and SIGSTOP *)
LEMMA SigActionStep ==
    ASSUME SignalInv, NEW p \in Procs, NEW s \in Caught, NEW act \in {"dfl", "ign", "handler"},
           SigAction(p, s, act)
    PROVE  SignalInv'
<1>1. /\ action' = [action EXCEPT ![p][s] = act] /\ s \notin Unblockable
      /\ mode' = [mode EXCEPT ![p] = "leaving"]
      /\ frames' = frames /\ mask' = mask /\ pending' = pending
  BY DEF SigAction
<1>2. SignalTypes'
  BY <1>1 DEF SignalInv, SignalTypes, Modes
<1>3. NeverCaught'
  BY <1>1 DEF SignalInv, SignalTypes, NeverCaught
<1> QED BY <1>1, <1>2, <1>3 DEF SignalInv

(* sigprocmask() leaves them out of the mask *)
LEMMA SigProcMaskStep ==
    ASSUME SignalInv, NEW p \in Procs, NEW how \in {"block", "unblock", "set"}, NEW set \in Masks,
           SigProcMask(p, how, set)
    PROVE  SignalInv'
<1>1. /\ mask' = [mask EXCEPT ![p] = NewMask(p, how, set)]
      /\ mode' = [mode EXCEPT ![p] = "leaving"]
      /\ frames' = frames /\ action' = action /\ pending' = pending
  BY DEF SigProcMask
<1>2. mask[p] \subseteq Numbers /\ set \subseteq Numbers
  BY SignalConstants DEF SignalInv, SignalTypes, Numbers
<1>3. NewMask(p, how, set) \in SUBSET Numbers /\ GoodMask(NewMask(p, how, set))
  BY <1>2 DEF NewMask, GoodMask
<1>4. SignalTypes'
  BY <1>1, <1>3 DEF SignalInv, SignalTypes, Modes
<1>5. \A x \in Procs : GoodFrames(frames'[x]) /\ GoodMask(mask'[x])
  BY <1>1, <1>3 DEF SignalInv, SignalTypes
<1>6. NeverCaught'
  BY <1>1 DEF SignalInv, NeverCaught
<1> QED BY <1>4, <1>5, <1>6 DEF SignalInv, GoodFrames, GoodMask

(* fork() copies frames, mask and actions *)
LEMMA ForkStep ==
    ASSUME SignalInv, NEW p \in Procs, NEW c \in Procs, Fork(p, c)
    PROVE  SignalInv'
<1>1. /\ action' = [action EXCEPT ![c] = action[p]]
      /\ mask' = [mask EXCEPT ![c] = mask[p]]
      /\ frames' = [frames EXCEPT ![c] = frames[p]]
      /\ mode' = [mode EXCEPT ![c] = "resumed", ![p] = "leaving"]
      /\ pending' = pending
  BY DEF Fork
<1>2. SignalTypes'
  BY <1>1 DEF SignalInv, SignalTypes, Modes
<1>3. \A x \in Procs : GoodFrames(frames'[x]) /\ GoodMask(mask'[x])
  BY <1>1 DEF SignalInv, SignalTypes
<1>4. NeverCaught'
  BY <1>1 DEF SignalInv, SignalTypes, NeverCaught
<1> QED BY <1>2, <1>3, <1>4 DEF SignalInv, GoodFrames, GoodMask

(* execve() drops the frames and the handlers *)
LEMMA ExecStep ==
    ASSUME SignalInv, NEW p \in Procs, Exec(p)
    PROVE  SignalInv'
<1>1. /\ action' = [action EXCEPT ![p] =
                       [s \in Caught |-> IF @[s] = "ign" THEN "ign" ELSE "dfl"]]
      /\ frames' = [frames EXCEPT ![p] = <<>>]
      /\ mode' = [mode EXCEPT ![p] = "leaving"]
      /\ mask' = mask /\ pending' = pending
  BY DEF Exec
<1>2. SignalTypes'
  BY <1>1, EmptyGood DEF SignalInv, SignalTypes, Modes
<1>3. \A x \in Procs : GoodFrames(frames'[x]) /\ GoodMask(mask'[x])
  BY <1>1, EmptyGood DEF SignalInv, SignalTypes
<1>4. NeverCaught'
  BY <1>1 DEF SignalInv, SignalTypes, NeverCaught
<1> QED BY <1>2, <1>3, <1>4 DEF SignalInv, GoodFrames, GoodMask

(* Blocking, waking, the timer and dispatch() *)
LEMMA ScheduleStep ==
    ASSUME SignalInv, NEW p \in Procs, Block(p) \/ Unblock(p) \/ Tick(p) \/ Schedule(p)
    PROVE  SignalInv'
<1>1. mode' \in [Procs -> Modes] /\ pending' = pending
  BY DEF SignalInv, SignalTypes, Modes, Block, Unblock, Tick, Schedule
<1>2. UNCHANGED <<mask, action, frames>>
  BY DEF Block, Unblock, Tick, Schedule
<1>3. pending' \in [Procs -> SUBSET Numbers]
  BY <1>1 DEF SignalInv, SignalTypes
<1> QED BY <1>1, <1>2, <1>3, OnlyPending

(* The invariant holds in every reachable state *)
LEMMA SignalInductive == Spec => []SignalInv
<1>1. Init => SignalInv
  BY EmptyGood DEF Init, SignalInv, SignalTypes, NeverCaught, GoodMask, Modes
<1>2. SignalInv /\ [Next]_vars => SignalInv'
  <2> SUFFICES ASSUME SignalInv, [Next]_vars PROVE SignalInv'
    OBVIOUS
  <2>1. ASSUME NEW p \in Procs, NEW q \in Procs, NEW s \in Sent, Kill(p, q, s) PROVE SignalInv'
    BY <2>1, KillStep
  <2>2. ASSUME NEW p \in Procs, Deliver(p) PROVE SignalInv'
    BY <2>2, DeliverStep
  <2>3. ASSUME NEW p \in Procs, SigReturn(p) PROVE SignalInv'
    BY <2>3, SigReturnStep
  <2>4. ASSUME NEW p \in Procs, NEW s \in Caught, NEW act \in {"dfl", "ign", "handler"},
               SigAction(p, s, act) PROVE SignalInv'
    BY <2>4, SigActionStep
  <2>5. ASSUME NEW p \in Procs, NEW how \in {"block", "unblock", "set"}, NEW set \in Masks,
               SigProcMask(p, how, set) PROVE SignalInv'
    BY <2>5, SigProcMaskStep
  <2>6. ASSUME NEW p \in Procs, NEW c \in Procs, Fork(p, c) PROVE SignalInv'
    BY <2>6, ForkStep
  <2>7. ASSUME NEW p \in Procs, Exec(p) PROVE SignalInv'
    BY <2>7, ExecStep
  <2>8. ASSUME NEW p \in Procs, Block(p) \/ Unblock(p) \/ Tick(p) \/ Schedule(p)
        PROVE SignalInv'
    BY <2>8, ScheduleStep
  <2>9. CASE UNCHANGED vars
    BY <2>9 DEF vars, SignalInv, SignalTypes, NeverCaught
  <2> QED BY <2>1, <2>2, <2>3, <2>4, <2>5, <2>6, <2>7, <2>8, <2>9 DEF Next
<1> QED BY <1>1, <1>2, PTL DEF Spec

-----------------------------------------------------------------------------
(* signalDispatch never runs a handler for a signal that was masked when   *)
(* it was dequeued, however frames are pushed, popped and inherited.       *)
THEOREM HandlersAlwaysRespectMask == Spec => []HandlersRespectMask
<1>1. SignalInv => HandlersRespectMask
  BY DEF SignalInv, GoodFrames, HandlersRespectMask
<1> QED BY <1>1, SignalInductive, PTL

(* SIGKILL and SIGSTOP are in no mask, not even in one that a handler's    *)
(* return restores, and have no handler and are not ignored.               *)
UnblockableFree ==
    \A p \in Procs :
        /\ mask[p] \cap Unblockable = {}
        /\ \A i \in DOMAIN frames[p] : frames[p][i].saved \cap Unblockable = {}
        /\ \A s \in Unblockable : Action(p, s) = "dfl"

(* setAction and sigprocmask keep SIGKILL and SIGSTOP out of reach, and no *)
(* fork, exec or handler brings them back.                                 *)
THEOREM UnblockableAlwaysFree == Spec => []UnblockableFree
<1>1. SignalInv => UnblockableFree
  BY DEF SignalInv, GoodFrames, GoodMask, NeverCaught, UnblockableFree, Action
<1> QED BY <1>1, SignalInductive, PTL

(* A pending SIGKILL stays pending until its process is a zombie, and      *)
(* signalDispatch takes it as soon as no signal with a lower number is     *)
(* pending: this is the part of KillSeen that needs no fairness.           *)
KillKept(p) ==
    SIGKILL \in pending[p] =>
        /\ SIGKILL \in pending'[p] \/ mode'[p] = "zombie"
        /\ Deliver(p) /\ (\A s \in pending[p] : s >= SIGKILL) => mode'[p] = "zombie"

KillLasts == [][\A p \in Procs : KillKept(p)]_vars

(* SIGKILL dequeued can only mean the end *)
LEMMA KillTerminates ==
    ASSUME SignalInv, NEW p \in Procs, NEW to, Delivers(p, to), Dequeue(p) = SIGKILL
    PROVE  to = "term"
<1>1. Action(p, SIGKILL) = "dfl"
  BY DEF SignalInv, NeverCaught, Action, Unblockable
<1>2. Default(SIGKILL) = "term"
  BY DEF Default, SIGKILL, SIGCHLD, SIGCONT
<1> QED BY <1>1, <1>2 DEF Delivers

(* send() adds, and everybody but the one who delivers only gets more *)
LEMMA OthersKeep ==
    ASSUME SignalTypes, NEW p \in Procs, NEW q \in Procs, q # p
    PROVE  pending[q] \subseteq Notified(p)[q]
BY DEF Notified, Pended

(* Delivery to anybody keeps a SIGKILL that is pending for p *)
LEMMA DeliverKeepsKill ==
    ASSUME SignalInv, NEW p \in Procs, NEW q \in Procs, Deliver(q), SIGKILL \in pending[p]
    PROVE  SIGKILL \in pending'[p] \/ mode'[p] = "zombie"
<1>1. SignalTypes
  BY DEF SignalInv
<1>2. CASE DeliverNone(q)
  BY <1>2 DEF DeliverNone
<1>3. CASE DeliverTerm(q)
  <2>1. CASE p = q
    BY <1>3, <2>1 DEF DeliverTerm, Left
  <2>2. CASE p # q
    <3>1. Notified(q) \in [Procs -> SUBSET Numbers] /\ pending[p] \subseteq Notified(q)[p]
      BY <1>1, <2>2, OthersKeep, NotifyTypes DEF Modes
    <3> QED BY <1>3, <2>2, <3>1 DEF DeliverTerm
  <2> QED BY <2>1, <2>2
<1>4. CASE DeliverStop(q)
  <2>1. Delivers(q, "stop") /\ pending' = Notified(q)
    BY <1>4 DEF DeliverStop
  <2>2. CASE p = q
    <3>1. Dequeue(p) # SIGKILL
      BY <2>1, <2>2, KillTerminates
    <3> QED BY <2>1, <2>2, <3>1 DEF Notified
  <2>3. CASE p # q
    BY <1>1, <2>1, <2>3, OthersKeep
  <2> QED BY <2>2, <2>3
<1>5. CASE DeliverIgnored(q) \/ DeliverHandler(q)
  <2>1. /\ \E to \in {"ign", "cont", "handler"} : Delivers(q, to)
        /\ pending' = [pending EXCEPT ![q] = @ \ {Dequeue(q)}]
    BY <1>5 DEF DeliverIgnored, DeliverHandler
  <2>2. Dequeue(q) # SIGKILL
    BY <2>1, KillTerminates
  <2> QED BY <1>1, <2>1, <2>2 DEF SignalTypes
<1> QED BY <1>2, <1>3, <1>4, <1>5 DEF Deliver

(* signalDispatch takes a SIGKILL that nothing precedes *)
LEMMA DeliverTakesKill ==
    ASSUME SignalInv, NEW p \in Procs, Deliver(p), SIGKILL \in pending[p],
           \A s \in pending[p] : s >= SIGKILL
    PROVE  mode'[p] = "zombie"
<1>1. SignalTypes /\ SIGKILL \in Deliverable(p)
  BY DEF SignalInv, GoodMask, Unblockable, Deliverable
<1>2. Dequeue(p) \in pending[p] /\ Dequeue(p) <= SIGKILL /\ Dequeue(p) \in Numbers
  BY <1>1, DequeueDeliverable
<1>3. Dequeue(p) >= SIGKILL
  BY <1>2
<1>4. Dequeue(p) = SIGKILL
  BY <1>2, <1>3 DEF SIGKILL, Numbers
<1>5. ~DeliverNone(p) /\ ~DeliverIgnored(p) /\ ~DeliverStop(p) /\ ~DeliverHandler(p)
  BY <1>1, <1>4, KillTerminates
     DEF DeliverNone, DeliverIgnored, DeliverStop, DeliverHandler
<1>6. DeliverTerm(p)
  BY <1>5 DEF Deliver
<1> QED BY <1>6 DEF DeliverTerm, Left

(* dequeue and signalDispatch never drop a SIGKILL. *)
THEOREM KillAlwaysLasts == Spec => KillLasts
<1>1. SignalInv /\ [Next]_vars => [\A p \in Procs : KillKept(p)]_vars
  <2> SUFFICES ASSUME SignalInv, Next, NEW p \in Procs, SIGKILL \in pending[p]
               PROVE  KillKept(p)
    BY DEF KillKept
  <2>1. Deliver(p) /\ (\A s \in pending[p] : s >= SIGKILL) => mode'[p] = "zombie"
    BY DeliverTakesKill
  <2>2. SIGKILL \in pending'[p] \/ mode'[p] = "zombie"
    <3>1. ASSUME NEW q \in Procs, Deliver(q) PROVE SIGKILL \in pending'[p] \/ mode'[p] = "zombie"
      BY <3>1, DeliverKeepsKill
    <3>2. ASSUME NEW q \in Procs, NEW r \in Procs, NEW s \in Sent, Kill(q, r, s)
          PROVE  SIGKILL \in pending'[p]
      BY <3>2 DEF Kill, Pended, SignalInv, SignalTypes
    <3>3. ASSUME NEW q \in Procs,
                 \/ SigReturn(q) \/ Exec(q) \/ Block(q) \/ Unblock(q) \/ Tick(q) \/ Schedule(q)
                 \/ \E s \in Caught, act \in {"dfl", "ign", "handler"} : SigAction(q, s, act)
                 \/ \E how \in {"block", "unblock", "set"}, set \in Masks : SigProcMask(q, how, set)
                 \/ \E c \in Procs : Fork(q, c)
          PROVE  pending' = pending
      BY <3>3 DEF SigReturn, Exec, Block, Unblock, Tick, Schedule, SigAction, SigProcMask, Fork
    <3> QED BY <3>1, <3>2, <3>3 DEF Next
  <2> QED BY <2>1, <2>2 DEF KillKept
<1> QED BY <1>1, SignalInductive, PTL DEF Spec, KillLasts
=============================================================================
