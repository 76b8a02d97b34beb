---------------------------- MODULE SchedProofs ----------------------------
(***************************************************************************)
(* The queues of the scheduling core are exact, for any number of PCBs and *)
(* semaphores: every runnable PCB is on the ready list once, every waiting *)
(* one is in the one queue it waits in, no token lies beside a waiter, and *)
(* dispatch() never panics.  The same of the futex queues, until a timeout *)
(* runs out, and no wake of a futex is lost.                               *)
(***************************************************************************)
EXTENDS Futex, QueueTheorems, TLAPS

(* ReadyListExact and WaitersExact of the values a handler has built when  *)
(* it reaches dispatch().                                                  *)
ReadyIs(st, rdy) ==
    /\ NoDuplicates(rdy)
    /\ \A p \in Procs : p \in Range(rdy) <=> st[p] = "READY"

RunningIs(st) == \A p \in Procs : st[p] = "RUNNING" => p = running

WaitersAre(st, sq, bl, wo) ==
    /\ NoDuplicates(sq)
    /\ \A p \in Procs : p \in Range(sq) <=> st[p] = "SLEEPING"
    /\ \A s \in Sems : NoDuplicates(bl[s])
    /\ \A p \in Procs, s \in Sems :
         p \in Range(bl[s]) <=> st[p] = "BLOCKED" /\ wo[p] = s
    /\ \A p \in Procs : st[p] = "BLOCKED" <=> wo[p] # NoSem

SameWaiting(st1, st2) ==
    \A p \in Procs : \/ st1[p] = st2[p]
                     \/ {st1[p], st2[p]} \subseteq {"READY", "RUNNING"}

IndInv == TypeOK /\ ReadyListExact /\ WaitersExact /\ NoIdleToken /\ NeverHalts /\ MainAlive

(* The part of it that does not depend on what the waiters wait for.       *)
ReadyInv == TypeOK /\ ReadyListExact /\ NeverHalts /\ MainAlive

(* PCB::dispatch() keeps the ready list exact and finds somebody to run,   *)
(* whatever the handler did to the running PCB before it.                  *)
LEMMA DispatchExact ==
    ASSUME NEW st \in [Procs -> States], NEW rdy \in Seq(Procs), NEW sl \in 0..TimeSlice,
           running \in Procs, ~halted,
           ReadyIs(st, rdy), RunningIs(st), st[Main] \in {"READY", "RUNNING"},
           Dispatch(st, rdy, sl)
    PROVE  /\ state' \in [Procs -> States] /\ running' \in Procs /\ ready' \in Seq(Procs)
           /\ slice' \in 0..TimeSlice
           /\ ReadyListExact'
           /\ halted' = FALSE
           /\ SameWaiting(state', st)
<1> USE SchedConstants
<1>1. CASE rdy = <<>> /\ st[running] = "RUNNING"
  <2>1. state' = st /\ ready' = rdy /\ slice' = sl /\ running' = running /\ halted' = halted
    BY <1>1, Zenon DEF Dispatch
  <2> QED BY <2>1, <1>1 DEF ReadyListExact, ReadyIs, RunningIs, SameWaiting
<1>2. CASE ~(rdy = <<>> /\ st[running] = "RUNNING")
  <2> DEFINE again == st[running] = "RUNNING"
             st1   == IF again THEN [st EXCEPT ![running] = "READY"] ELSE st
             rdy1  == IF again THEN Append(rdy, running) ELSE rdy
             runnable == {i \in 1..Len(rdy1) : st1[rdy1[i]] = "READY"}
             k == Min(runnable)
  <2>1. /\ slice' = 0
        /\ IF runnable = {}
           THEN halted' = TRUE /\ state' = st1 /\ ready' = <<>> /\ UNCHANGED running
           ELSE /\ running' = rdy1[k]
                /\ state' = [st1 EXCEPT ![rdy1[k]] = "RUNNING"]
                /\ ready' = SubSeq(rdy1, k + 1, Len(rdy1))
                /\ UNCHANGED halted
    BY <1>2, Zenon DEF Dispatch
  <2>2. /\ st1 \in [Procs -> States] /\ rdy1 \in Seq(Procs)
        /\ NoDuplicates(rdy1)
        /\ \A p \in Procs : p \in Range(rdy1) <=> st1[p] = "READY"
        /\ \A p \in Procs : st1[p] # "RUNNING"
        /\ SameWaiting(st1, st)
        /\ st1[Main] = "READY"
    <3>1. CASE again
      <4>1. /\ rdy1 \in Seq(Procs) /\ NoDuplicates(rdy1)
            /\ Range(rdy1) = Range(rdy) \cup {running}
        BY <3>1, AppendExact DEF ReadyIs
      <4> QED BY <3>1, <4>1, Zenon DEF ReadyIs, RunningIs, SameWaiting, States
    <3>2. CASE ~again
      BY <3>2 DEF ReadyIs, RunningIs, SameWaiting
    <3> QED BY <3>1, <3>2, Zenon
  <2> HIDE DEF again, st1, rdy1
  <2>3. Len(rdy1) \in Nat /\ DOMAIN rdy1 = 1..Len(rdy1)
        /\ \A i \in 1..Len(rdy1) : rdy1[i] \in Procs /\ rdy1[i] \in Range(rdy1)
    BY <2>2, SeqLength, SeqMember DEF Range
  <2>4. runnable = 1..Len(rdy1)
    BY <2>2, <2>3, Zenon
  <2>5. 1 \in runnable
    <3>1. Main \in Range(rdy1)
      BY <2>2, Zenon
    <3> QED BY <3>1, <2>3, <2>4 DEF Range
  <2>6. k = 1
    <3>1. \A y \in 1..Len(rdy1) : 1 <= y
      BY <2>3
    <3>2. k \in runnable /\ \A y \in runnable : k <= y
      BY <2>4, <2>5, <3>1, Zenon DEF Min
    <3> QED BY <3>1, <3>2, <2>3, <2>4, <2>5
  <2> HIDE DEF k
  <2>7. /\ running' = rdy1[1] /\ state' = [st1 EXCEPT ![rdy1[1]] = "RUNNING"]
        /\ ready' = Tail(rdy1) /\ halted' = halted
    <3>1. rdy1 # <<>>
      BY <2>3, <2>4, <2>5, SeqEmpty
    <3>2. Tail(rdy1) = SubSeq(rdy1, 2, Len(rdy1))
      BY <2>2, <3>1
    <3>3. runnable # {} /\ k + 1 = 2
      BY <2>5, <2>6
    <3> HIDE DEF runnable
    <3> QED BY <2>1, <2>6, <3>2, <3>3, Zenon
  <2>8. /\ Tail(rdy1) \in Seq(Procs) /\ NoDuplicates(Tail(rdy1)) /\ rdy1[1] \in Procs
        /\ Range(Tail(rdy1)) = Range(rdy1) \ {rdy1[1]} /\ rdy1[1] \in Range(rdy1)
    <3>1. rdy1 # <<>>
      BY <2>3, <2>4, <2>5, SeqEmpty
    <3>2. Head(rdy1) = rdy1[1]
      BY <2>2, <3>1, SeqTail, Zenon
    <3> QED BY <2>2, <3>1, <3>2, TailExact
  <2>9. ReadyListExact'
    BY <2>2, <2>7, <2>8, Zenon DEF ReadyListExact
  <2>10. state' \in [Procs -> States] /\ SameWaiting(state', st)
    BY <2>2, <2>7, <2>8 DEF SameWaiting, States
  <2>11. slice' \in 0..TimeSlice
    BY <2>1
  <2> QED BY <2>7, <2>8, <2>9, <2>10, <2>11
<1> QED BY <1>1, <1>2, Zenon

(* A handler that returns without dispatch() left the values exact itself. *)
LEMMA NoSwitchExact ==
    ASSUME NEW st \in [Procs -> States], NEW rdy \in Seq(Procs),
           TypeOK, NeverHalts, ReadyIs(st, rdy),
           \A p \in Procs : p = running <=> st[p] = "RUNNING",
           NoSwitch(st, rdy)
    PROVE  /\ state' \in [Procs -> States] /\ running' \in Procs /\ ready' \in Seq(Procs)
           /\ slice' \in 0..TimeSlice
           /\ ReadyListExact'
           /\ halted' = FALSE
           /\ SameWaiting(state', st)
  BY Zenon DEF NoSwitch, ReadyListExact, ReadyIs, SameWaiting, TypeOK, NeverHalts

(* Dispatching changes nobody's wait.                                      *)
LEMMA WaitersKept ==
    ASSUME NEW st \in [Procs -> States], state' \in [Procs -> States],
           WaitersAre(st, sleepq', blocked', waitingOn'), SameWaiting(state', st)
    PROVE  WaitersExact'
<1>1. \A p \in Procs : /\ state'[p] = "SLEEPING" <=> st[p] = "SLEEPING"
                       /\ state'[p] = "BLOCKED" <=> st[p] = "BLOCKED"
  BY Zenon DEF SameWaiting
<1> QED BY <1>1, Zenon DEF WaitersAre, WaitersExact

(* A PCB that left its queues through kill() waits nowhere.                *)
LEMMA LeaveQueuesExact ==
    ASSUME TypeOK, NoIdleToken, NEW st \in [Procs -> States], NEW p \in Procs,
           WaitersAre(st, sleepq, blocked, waitingOn), LeaveQueues(st, p)
    PROVE  /\ sleepq' \in Seq(Procs) /\ value' \in [Sems -> Nat]
           /\ blocked' \in [Sems -> Seq(Procs)]
           /\ waitingOn' \in [Procs -> Sems \cup {NoSem}]
           /\ WaitersAre(Woken(st, p), sleepq', blocked', waitingOn')
           /\ NoIdleToken'
<1> USE SchedConstants
<1>1. CASE ~Wakeable(st, p)
  BY <1>1, Zenon DEF LeaveQueues, Woken, TypeOK, NoIdleToken, semVars
<1>2. CASE st[p] = "SLEEPING"
  <2>1. waitingOn[p] = NoSem
    BY <1>2, Zenon DEF WaitersAre
  <2>2. /\ blocked' = blocked /\ waitingOn' = [waitingOn EXCEPT ![p] = NoSem]
        /\ sleepq' = Unlink(sleepq, p) /\ value' = value
        /\ Woken(st, p) = [st EXCEPT ![p] = "READY"]
    BY <1>2, <2>1, Zenon DEF LeaveQueues, Woken, Wakeable
  <2>3. /\ sleepq' \in Seq(Procs) /\ NoDuplicates(sleepq')
        /\ Range(sleepq') = Range(sleepq) \ {p}
    BY <2>2, UnlinkExact DEF TypeOK, WaitersAre
  <2>4. WaitersAre(Woken(st, p), sleepq', blocked', waitingOn')
    BY <1>2, <2>1, <2>2, <2>3 DEF WaitersAre, TypeOK
  <2> QED BY <2>2, <2>3, <2>4, Zenon DEF TypeOK, NoIdleToken
<1>3. CASE st[p] = "BLOCKED"
  <2> DEFINE s == waitingOn[p]
  <2>1. s \in Sems
    BY <1>3 DEF WaitersAre, TypeOK
  <2>2. /\ blocked' = [blocked EXCEPT ![s] = Unlink(@, p)]
        /\ waitingOn' = [waitingOn EXCEPT ![p] = NoSem]
        /\ sleepq' = sleepq /\ value' = value
        /\ Woken(st, p) = [st EXCEPT ![p] = "READY"]
    BY <1>3, <2>1, Zenon DEF LeaveQueues, Woken, Wakeable
  <2>3. /\ Unlink(blocked[s], p) \in Seq(Procs) /\ NoDuplicates(Unlink(blocked[s], p))
        /\ Range(Unlink(blocked[s], p)) = Range(blocked[s]) \ {p}
    BY <2>1, UnlinkExact DEF TypeOK, WaitersAre
  <2>4. /\ blocked' \in [Sems -> Seq(Procs)]
        /\ \A t \in Sems : NoDuplicates(blocked'[t]) /\ Range(blocked'[t]) = Range(blocked[t]) \ {p}
    BY <1>3, <2>1, <2>2, <2>3 DEF TypeOK, WaitersAre
  <2>5. WaitersAre(Woken(st, p), sleepq', blocked', waitingOn')
    BY <1>3, <2>2, <2>4 DEF WaitersAre, TypeOK
  <2>6. NoIdleToken'
    BY <1>3, <2>1, <2>2, <2>5 DEF NoIdleToken, WaitersAre, TypeOK, Range
  <2> QED BY <2>2, <2>4, <2>5, <2>6, Zenon DEF TypeOK
<1> QED BY <1>1, <1>2, <1>3, Zenon DEF Wakeable

(* What is left to show of a handler once its dispatch() (or its return)   *)
(* is known to keep the ready list exact.                                  *)
Switched(st) ==
    /\ state' \in [Procs -> States] /\ running' \in Procs /\ ready' \in Seq(Procs)
    /\ slice' \in 0..TimeSlice
    /\ ReadyListExact'
    /\ halted' = FALSE
    /\ SameWaiting(state', st)

WaitTypes ==
    /\ sleepq \in Seq(Procs) /\ value \in [Sems -> Nat]
    /\ blocked \in [Sems -> Seq(Procs)]
    /\ waitingOn \in [Procs -> Sems \cup {NoSem}]

\* The invariant after a step, from its four parts: who runs, who waits where,
\* the tokens and the place of every PCB.
LEMMA Assemble ==
    ASSUME IndInv, NEW st \in [Procs -> States], st[Main] \in {"READY", "RUNNING"},
           Switched(st), WaitersAre(st, sleepq', blocked', waitingOn'), WaitTypes',
           NoIdleToken', at' \in [Procs -> Places], at'[Main] = "user"
    PROVE  IndInv'
<1>1. TypeOK'
  BY Zenon DEF TypeOK, Switched, WaitTypes
<1>2. ReadyListExact' /\ NeverHalts'
  BY Zenon DEF Switched, NeverHalts
<1>3. WaitersExact'
  BY WaitersKept, Zenon DEF Switched
<1>4. MainAlive'
  BY SchedConstants, Zenon DEF MainAlive, Switched, SameWaiting
<1> QED BY <1>1, <1>2, <1>3, <1>4, Zenon DEF IndInv

\* Moving the running PCB to another place of its code keeps main in user code.
LEMMA GotoReady ==
    ASSUME ReadyInv, NEW place \in Places, Goto(place)
    PROVE  at' \in [Procs -> Places] /\ at'[Main] = "user"
  BY SchedConstants, Zenon DEF ReadyInv, TypeOK, MainAlive, Goto, Process, Places

\* The same from the invariant of the scheduling core.
LEMMA GotoExact ==
    ASSUME IndInv, NEW place \in Places, Goto(place)
    PROVE  at' \in [Procs -> Places] /\ at'[Main] = "user"
  BY GotoReady, Zenon DEF IndInv, ReadyInv

(* Who runs and who is ready, in the form the lemmas take.                 *)
LEMMA CurrentReady ==
    ASSUME ReadyInv
    PROVE  /\ state \in [Procs -> States] /\ ready \in Seq(Procs) /\ slice \in 0..TimeSlice
           /\ running \in Procs /\ ~halted
           /\ ReadyIs(state, ready)
           /\ \A p \in Procs : p = running <=> state[p] = "RUNNING"
           /\ state[Main] \in {"READY", "RUNNING"}
  BY Zenon DEF ReadyInv, TypeOK, ReadyListExact, NeverHalts, MainAlive, ReadyIs

(* The exactness of the current state, in the same form.                   *)
LEMMA CurrentExact ==
    ASSUME IndInv
    PROVE  /\ state \in [Procs -> States] /\ ready \in Seq(Procs) /\ slice \in 0..TimeSlice
           /\ running \in Procs /\ ~halted /\ WaitTypes
           /\ ReadyIs(state, ready)
           /\ \A p \in Procs : p = running <=> state[p] = "RUNNING"
           /\ WaitersAre(state, sleepq, blocked, waitingOn)
           /\ state[Main] \in {"READY", "RUNNING"}
  BY Zenon DEF IndInv, TypeOK, ReadyListExact, WaitersExact, NeverHalts, MainAlive, WaitTypes,
         ReadyIs, WaitersAre

(* Its parts: the types,                                                   *)
LEMMA ReadyTypes ==
    ASSUME ReadyInv
    PROVE  /\ state \in [Procs -> States] /\ ready \in Seq(Procs) /\ slice \in 0..TimeSlice
           /\ running \in Procs /\ ~halted
  BY Zenon DEF ReadyInv, TypeOK, NeverHalts

(* the ready list,                                                         *)
LEMMA ReadyNow ==
    ASSUME ReadyInv
    PROVE  ReadyIs(state, ready)
  BY Zenon DEF ReadyInv, ReadyListExact, ReadyIs

(* and who runs.                                                           *)
LEMMA RunningNow ==
    ASSUME ReadyInv
    PROVE  /\ \A p \in Procs : p = running <=> state[p] = "RUNNING"
           /\ running \in Procs /\ state[running] = "RUNNING"
           /\ state[Main] \in {"READY", "RUNNING"}
  BY CurrentReady, Zenon

(* The invariant of the core holds all of it,                              *)
LEMMA ExactReady ==
    ASSUME IndInv
    PROVE  ReadyInv
  BY Zenon DEF IndInv, ReadyInv

(* and the waiters.                                                        *)
LEMMA WaitersNow ==
    ASSUME IndInv
    PROVE  WaitersAre(state, sleepq, blocked, waitingOn) /\ WaitTypes
  BY Zenon DEF IndInv, TypeOK, WaitersExact, WaitTypes, WaitersAre

(* The running process leaves the processor for another state than READY.  *)
LEMMA LeaveReady ==
    ASSUME ReadyInv, running # Main, NEW new \in States \ {"READY", "RUNNING"},
           Dispatch([state EXCEPT ![running] = new], ready, slice)
    PROVE  Switched([state EXCEPT ![running] = new])
<1> DEFINE st == [state EXCEPT ![running] = new]
<1>1. st \in [Procs -> States] /\ ReadyIs(st, ready) /\ RunningIs(st)
      /\ st[Main] \in {"READY", "RUNNING"}
  BY CurrentReady, SchedConstants, Zenon DEF ReadyIs, RunningIs
<1> HIDE DEF st
<1>2. Dispatch(st, ready, slice)
  BY Zenon DEF st
<1>3. Switched(st)
  BY <1>1, <1>2, CurrentReady, DispatchExact, Zenon DEF Switched
<1> QED BY <1>3, Zenon DEF st

(* A PCB that was neither ready nor running is put() on the list.          *)
LEMMA PutReady ==
    ASSUME ReadyInv, NEW p \in Procs, state[p] \notin {"READY", "RUNNING"}
    PROVE  /\ [state EXCEPT ![p] = "READY"] \in [Procs -> States]
           /\ Append(ready, p) \in Seq(Procs)
           /\ ReadyIs([state EXCEPT ![p] = "READY"], Append(ready, p))
           /\ \A r \in Procs : r = running <=> [state EXCEPT ![p] = "READY"][r] = "RUNNING"
           /\ [state EXCEPT ![p] = "READY"][Main] \in {"READY", "RUNNING"}
<1>1. p \notin Range(ready) /\ p # running
  BY CurrentReady, Zenon DEF ReadyIs
<1>2. /\ Append(ready, p) \in Seq(Procs) /\ NoDuplicates(Append(ready, p))
      /\ Range(Append(ready, p)) = Range(ready) \cup {p}
  BY <1>1, CurrentReady, AppendExact DEF ReadyIs
<1> QED BY <1>1, <1>2, CurrentReady, SchedConstants, Zenon DEF ReadyIs, States

\* Both from the invariant of the scheduling core.
LEMMA LeaveProcessor ==
    ASSUME IndInv, running # Main, NEW new \in States \ {"READY", "RUNNING"},
           Dispatch([state EXCEPT ![running] = new], ready, slice)
    PROVE  Switched([state EXCEPT ![running] = new])
<1>1. ReadyInv
  BY Zenon DEF IndInv, ReadyInv
<1> QED BY <1>1, LeaveReady, Zenon

\* The other of the two.
LEMMA PutExact ==
    ASSUME IndInv, NEW p \in Procs, state[p] \notin {"READY", "RUNNING"}
    PROVE  /\ [state EXCEPT ![p] = "READY"] \in [Procs -> States]
           /\ Append(ready, p) \in Seq(Procs)
           /\ ReadyIs([state EXCEPT ![p] = "READY"], Append(ready, p))
           /\ \A r \in Procs : r = running <=> [state EXCEPT ![p] = "READY"][r] = "RUNNING"
           /\ [state EXCEPT ![p] = "READY"][Main] \in {"READY", "RUNNING"}
<1>1. ReadyInv
  BY Zenon DEF IndInv, ReadyInv
<1> QED BY <1>1, PutReady, Zenon

\* A timer tick, with awake, the deletion of garbage and the end of a slice.
LEMMA TickStep ==
    ASSUME IndInv, Tick
    PROVE  IndInv'
<1>1. PICK n \in 0..Len(sleepq), dead \in SUBSET Deletable :
         LET woken == SubSeq(sleepq, 1, n)
             st  == [p \in Procs |-> IF p \in Range(woken) THEN "READY"
                                     ELSE IF p \in dead THEN "NONE" ELSE state[p]]
             rdy == ready \o woken
             sl  == IF slice < TimeSlice THEN slice + 1 ELSE TimeSlice
         IN  /\ sleepq' = SubSeq(sleepq, n + 1, Len(sleepq))
             /\ IF sl >= TimeSlice
                THEN Dispatch(st, rdy, sl)
                ELSE /\ state' = st /\ ready' = rdy /\ slice' = sl
                     /\ UNCHANGED <<running, halted>>
  BY Zenon DEF Tick
<1> DEFINE woken == SubSeq(sleepq, 1, n)
           rest == SubSeq(sleepq, n + 1, Len(sleepq))
           st  == [p \in Procs |-> IF p \in Range(woken) THEN "READY"
                                   ELSE IF p \in dead THEN "NONE" ELSE state[p]]
           rdy == ready \o woken
           sl  == IF slice < TimeSlice THEN slice + 1 ELSE TimeSlice
<1>2. /\ sleepq' = rest
      /\ IF sl >= TimeSlice
         THEN Dispatch(st, rdy, sl)
         ELSE state' = st /\ ready' = rdy /\ slice' = sl /\ UNCHANGED <<running, halted>>
      /\ Goto("kernel") /\ UNCHANGED semVars
  BY <1>1, Zenon DEF Tick
<1>3. /\ woken \in Seq(Procs) /\ rest \in Seq(Procs) /\ NoDuplicates(woken) /\ NoDuplicates(rest)
      /\ Range(woken) \subseteq Range(sleepq) /\ Range(rest) = Range(sleepq) \ Range(woken)
  BY SplitExact, CurrentExact, Zenon DEF WaitTypes, WaitersAre
<1> HIDE DEF woken, rest
<1>4. \A p \in Procs : p \in Range(woken) => state[p] = "SLEEPING"
  BY <1>3, CurrentExact, Zenon DEF WaitersAre
<1>5. Range(ready) \cap Range(woken) = {}
  <2>1. Range(woken) \subseteq Procs
    BY <1>3, SeqRange, Zenon
  <2> QED BY <2>1, <1>4, CurrentExact, Zenon DEF ReadyIs
<1>6. rdy \in Seq(Procs) /\ NoDuplicates(rdy) /\ Range(rdy) = Range(ready) \cup Range(woken)
  BY <1>3, <1>5, ConcatExact, CurrentExact DEF ReadyIs
<1> HIDE DEF rdy
<1>7. \A p \in dead : p \in Procs /\ state[p] = "ZOMBIE"
  BY Zenon DEF Deletable
<1>8. st \in [Procs -> States]
  BY CurrentExact, Zenon DEF States
<1>9. /\ ReadyIs(st, rdy)
      /\ \A p \in Procs : p = running <=> st[p] = "RUNNING"
      /\ st[Main] \in {"READY", "RUNNING"}
  BY <1>4, <1>6, <1>7, CurrentExact, SchedConstants, Zenon DEF ReadyIs
<1>10. WaitersAre(st, rest, blocked, waitingOn)
  BY <1>3, <1>4, <1>7, CurrentExact DEF WaitersAre
<1> HIDE DEF st
<1>11. sl \in 0..TimeSlice
  BY CurrentExact, SchedConstants
<1> HIDE DEF sl
<1>12. Switched(st)
  <2>1. CASE sl >= TimeSlice
    <3>1. Dispatch(st, rdy, sl)
      BY <1>2, <2>1, Zenon
    <3>2. RunningIs(st)
      BY <1>9, Zenon DEF RunningIs
    <3> QED BY <3>1, <3>2, <1>6, <1>8, <1>9, <1>11, CurrentExact, DispatchExact, Zenon DEF Switched
  <2>2. CASE ~(sl >= TimeSlice)
    <3>1. state' = st /\ ready' = rdy /\ slice' = sl /\ running' = running /\ halted' = halted
      BY <1>2, <2>2, Zenon
    <3> QED BY <3>1, <1>6, <1>8, <1>9, <1>11, CurrentExact
            DEF Switched, ReadyListExact, ReadyIs, SameWaiting
  <2> QED BY <2>1, <2>2, Zenon
<1>13. WaitersAre(st, sleepq', blocked', waitingOn') /\ WaitTypes' /\ NoIdleToken'
  BY <1>2, <1>3, <1>10, CurrentExact, Zenon DEF semVars, WaitTypes, IndInv, NoIdleToken
<1>14. at' \in [Procs -> Places] /\ at'[Main] = "user"
  BY <1>2, GotoExact, Zenon DEF Places
<1> QED BY <1>8, <1>9, <1>12, <1>13, <1>14, Assemble, Zenon

\* Creating a PCB makes it READY at the end of the ready list.
LEMMA CreateStep ==
    ASSUME IndInv, NEW p \in Procs, Create(p)
    PROVE  IndInv'
<1> DEFINE st == [state EXCEPT ![p] = "READY"]
<1>1. /\ state[p] = "NONE" /\ running # Main /\ NoSwitch(st, Append(ready, p))
      /\ at' = [at EXCEPT ![p] = "user", ![running] = "kernel"]
      /\ UNCHANGED <<sleepq, semVars>>
  BY Zenon DEF Create, Process
<1>2. /\ st \in [Procs -> States] /\ Append(ready, p) \in Seq(Procs)
      /\ ReadyIs(st, Append(ready, p))
      /\ \A r \in Procs : r = running <=> st[r] = "RUNNING"
      /\ st[Main] \in {"READY", "RUNNING"}
  BY <1>1, PutExact, Zenon
<1>3. WaitersAre(st, sleepq, blocked, waitingOn)
  BY <1>1, CurrentExact DEF WaitersAre
<1> HIDE DEF st
<1>4. Switched(st)
  BY <1>1, <1>2, NoSwitchExact, Zenon DEF Switched, IndInv
<1>5. WaitersAre(st, sleepq', blocked', waitingOn') /\ WaitTypes' /\ NoIdleToken'
  BY <1>1, <1>3, CurrentExact, Zenon DEF semVars, WaitTypes, IndInv, NoIdleToken
<1>6. at' \in [Procs -> Places] /\ at'[Main] = "user"
  BY <1>1, CurrentExact, SchedConstants, Zenon DEF IndInv, TypeOK, Places, MainAlive
<1> QED BY <1>2, <1>4, <1>5, <1>6, Assemble, Zenon

\* PCB::yield puts the running PCB at the end of the ready list.
LEMMA YieldStep ==
    ASSUME IndInv, Yield
    PROVE  IndInv'
<1>1. Switched(state)
  <2>1. RunningIs(state)
    BY CurrentExact, Zenon DEF RunningIs
  <2>2. Dispatch(state, ready, slice)
    BY Zenon DEF Yield
  <2> QED BY <2>1, <2>2, CurrentExact, DispatchExact, Zenon DEF Switched
<1>2. UNCHANGED <<sleepq, semVars>> /\ Goto("kernel")
  BY Zenon DEF Yield
<1>3. WaitersAre(state, sleepq', blocked', waitingOn') /\ WaitTypes' /\ NoIdleToken'
  BY <1>2, CurrentExact, Zenon DEF semVars, WaitTypes, IndInv, NoIdleToken
<1>4. at' \in [Procs -> Places] /\ at'[Main] = "user"
  BY <1>2, GotoExact, Zenon DEF Places
<1> QED BY <1>1, <1>3, <1>4, CurrentExact, Assemble, Zenon

\* PCB::sleep puts the running PCB into the sleep list.
LEMMA SleepStep ==
    ASSUME IndInv, Sleep
    PROVE  IndInv'
<1> DEFINE st == [state EXCEPT ![running] = "SLEEPING"]
<1>1. /\ running # Main /\ Dispatch(st, ready, slice) /\ Goto("sleep") /\ UNCHANGED semVars
      /\ \E i \in 0..Len(sleepq) : sleepq' = LinkAfter(sleepq, i, running)
  BY Zenon DEF Sleep, Process
<1>2. Switched(st)
  <2>1. "SLEEPING" \in States \ {"READY", "RUNNING"}
    BY Zenon DEF States
  <2> QED BY <1>1, <2>1, LeaveProcessor, Zenon
<1>3. /\ sleepq' \in Seq(Procs) /\ NoDuplicates(sleepq')
      /\ Range(sleepq') = Range(sleepq) \cup {running}
  <2>1. running \notin Range(sleepq)
    BY CurrentExact, Zenon DEF WaitersAre
  <2>2. PICK i \in 0..Len(sleepq) : sleepq' = LinkAfter(sleepq, i, running)
    BY <1>1, Zenon
  <2> QED BY <2>1, <2>2, CurrentExact, LinkAfterExact DEF WaitTypes, WaitersAre
<1>4. st \in [Procs -> States] /\ st[Main] \in {"READY", "RUNNING"}
  BY <1>1, CurrentExact, SchedConstants, Zenon DEF States
<1>5. WaitersAre(st, sleepq', blocked', waitingOn')
  BY <1>1, <1>3, CurrentExact DEF WaitersAre, semVars
<1> HIDE DEF st
<1>6. WaitTypes' /\ NoIdleToken'
  BY <1>1, <1>3, CurrentExact, Zenon DEF semVars, WaitTypes, IndInv, NoIdleToken
<1>7. at' \in [Procs -> Places] /\ at'[Main] = "user"
  BY <1>1, GotoExact, Zenon DEF Places
<1> QED BY <1>2, <1>4, <1>5, <1>6, <1>7, Assemble, Zenon

\* Semaphore::wait takes a token or blocks.
LEMMA SemWaitStep ==
    ASSUME IndInv, NEW s \in Sems, SemWait(s)
    PROVE  IndInv'
<1>1. CASE value[s] = 0
  <2> DEFINE st == [state EXCEPT ![running] = "BLOCKED"]
  <2>1. /\ running # Main /\ Dispatch(st, ready, slice) /\ Goto("semwait")
        /\ waitingOn' = [waitingOn EXCEPT ![running] = s]
        /\ blocked' = [blocked EXCEPT ![s] = Append(@, running)]
        /\ value' = value /\ sleepq' = sleepq
    BY <1>1, Zenon DEF SemWait, Process
  <2>2. Switched(st)
    <3>1. "BLOCKED" \in States \ {"READY", "RUNNING"}
      BY Zenon DEF States
    <3> QED BY <2>1, <3>1, LeaveProcessor, Zenon
  <2>3. /\ Append(blocked[s], running) \in Seq(Procs)
        /\ NoDuplicates(Append(blocked[s], running))
        /\ Range(Append(blocked[s], running)) = Range(blocked[s]) \cup {running}
    <3>1. running \notin Range(blocked[s]) /\ blocked[s] \in Seq(Procs) /\ NoDuplicates(blocked[s])
      BY CurrentExact, Zenon DEF WaitersAre, WaitTypes
    <3> QED BY <3>1, CurrentExact, AppendExact
  <2>4. st \in [Procs -> States] /\ st[Main] \in {"READY", "RUNNING"}
    BY <2>1, CurrentExact, SchedConstants, Zenon DEF States
  <2>5. /\ WaitTypes'
        /\ \A t \in Sems : NoDuplicates(blocked'[t])
        /\ \A t \in Sems : t # s => blocked'[t] = blocked[t]
        /\ Range(blocked'[s]) = Range(blocked[s]) \cup {running}
    BY <2>1, <2>3, CurrentExact DEF WaitTypes, WaitersAre
  <2>6. WaitersAre(st, sleepq', blocked', waitingOn')
    <3>1. state[running] = "RUNNING" /\ waitingOn[running] = NoSem /\ NoSem \notin Sems
      BY CurrentExact, SchedConstants, Zenon DEF WaitersAre
    <3>2. \A t \in Sems : running \notin Range(blocked[t])
      BY <3>1, CurrentExact, Zenon DEF WaitersAre
    <3>3. /\ \A q \in Procs : q # running => st[q] = state[q] /\ waitingOn'[q] = waitingOn[q]
          /\ st[running] = "BLOCKED" /\ waitingOn'[running] = s
      BY <2>1, CurrentExact, Zenon DEF WaitTypes
    <3> HIDE DEF st
    <3>4. ASSUME NEW q \in Procs, NEW t \in Sems
          PROVE  q \in Range(blocked'[t]) <=> st[q] = "BLOCKED" /\ waitingOn'[q] = t
      <4>1. q \in Range(blocked[t]) <=> state[q] = "BLOCKED" /\ waitingOn[q] = t
        BY CurrentExact, Zenon DEF WaitersAre
      <4>2. CASE t = s
        BY <2>5, <3>1, <3>3, <4>1, <4>2, Zenon
      <4>3. CASE t # s
        <5>1. blocked'[t] = blocked[t]
          BY <2>5, <4>3, Zenon
        <5>2. CASE q = running
          BY <3>2, <3>3, <4>3, <5>1, <5>2, Zenon
        <5>3. CASE q # running
          BY <3>3, <4>1, <5>1, <5>3, Zenon
        <5> QED BY <5>2, <5>3, Zenon
      <4> QED BY <4>2, <4>3, Zenon
    <3>5. \A q \in Procs : st[q] = "BLOCKED" <=> waitingOn'[q] # NoSem
      BY <3>1, <3>3, CurrentExact DEF WaitersAre
    <3>6. /\ NoDuplicates(sleepq')
          /\ \A q \in Procs : q \in Range(sleepq') <=> st[q] = "SLEEPING"
      BY <2>1, <3>1, <3>3, CurrentExact DEF WaitersAre
    <3>7. \A t \in Sems : NoDuplicates(blocked'[t])
      BY <2>5, Zenon
    <3> QED BY <3>4, <3>5, <3>6, <3>7, Zenon DEF WaitersAre
  <2> HIDE DEF st
  <2>7. NoIdleToken'
    BY <1>1, <2>1, CurrentExact DEF NoIdleToken, IndInv, WaitTypes
  <2>8. at' \in [Procs -> Places] /\ at'[Main] = "user"
    BY <2>1, GotoExact, Zenon DEF Places
  <2> QED BY <2>2, <2>4, <2>5, <2>6, <2>7, <2>8, Assemble, Zenon
<1>2. CASE value[s] # 0
  <2>1. /\ NoSwitch(state, ready) /\ Goto("kernel") /\ value' = [value EXCEPT ![s] = @ - 1]
        /\ UNCHANGED <<blocked, waitingOn, sleepq>>
    BY <1>2, Zenon DEF SemWait
  <2>2. Switched(state)
    BY <2>1, CurrentExact, NoSwitchExact, Zenon DEF Switched, IndInv
  <2>3. WaitersAre(state, sleepq', blocked', waitingOn') /\ WaitTypes' /\ NoIdleToken'
    BY <1>2, <2>1, CurrentExact DEF WaitTypes, IndInv, NoIdleToken
  <2>4. at' \in [Procs -> Places] /\ at'[Main] = "user"
    BY <2>1, GotoExact, Zenon DEF Places
  <2> QED BY <2>2, <2>3, <2>4, CurrentExact, Assemble, Zenon
<1> QED BY <1>1, <1>2, Zenon

\* Semaphore::signal wakes the first waiter or leaves a token.
LEMMA SemSignalStep ==
    ASSUME IndInv, NEW s \in Sems, SemSignal(s)
    PROVE  IndInv'
<1>1. at' \in [Procs -> Places] /\ at'[Main] = "user"
  BY GotoExact, Zenon DEF SemSignal, Places
<1>2. CASE blocked[s] = <<>>
  <2>1. /\ NoSwitch(state, ready) /\ value' = [value EXCEPT ![s] = @ + 1]
        /\ UNCHANGED <<blocked, waitingOn, sleepq>>
    BY <1>2, Zenon DEF SemSignal
  <2>2. Switched(state)
    BY <2>1, CurrentExact, NoSwitchExact, Zenon DEF Switched, IndInv
  <2>3. WaitersAre(state, sleepq', blocked', waitingOn') /\ WaitTypes' /\ NoIdleToken'
    BY <1>2, <2>1, CurrentExact DEF WaitTypes, IndInv, NoIdleToken
  <2> QED BY <1>1, <2>2, <2>3, CurrentExact, Assemble, Zenon
<1>3. CASE blocked[s] # <<>>
  <2> DEFINE p == Head(blocked[s])
             st == [state EXCEPT ![p] = "READY"]
  <2>1. /\ blocked' = [blocked EXCEPT ![s] = Tail(@)]
        /\ waitingOn' = [waitingOn EXCEPT ![p] = NoSem]
        /\ NoSwitch(st, Append(ready, p))
        /\ value' = value /\ sleepq' = sleepq
    BY <1>3, Zenon DEF SemSignal
  <2>2. blocked[s] \in Seq(Procs) /\ NoDuplicates(blocked[s])
    BY CurrentExact, Zenon DEF WaitTypes, WaitersAre
  <2>3. /\ p \in Procs /\ p \in Range(blocked[s])
        /\ Tail(blocked[s]) \in Seq(Procs) /\ NoDuplicates(Tail(blocked[s]))
        /\ Range(Tail(blocked[s])) = Range(blocked[s]) \ {p}
    BY <1>3, <2>2, TailExact, Zenon
  <2> HIDE DEF p
  <2>4. state[p] = "BLOCKED" /\ waitingOn[p] = s
    BY <2>3, CurrentExact, Zenon DEF WaitersAre
  <2>5. /\ st \in [Procs -> States] /\ Append(ready, p) \in Seq(Procs)
        /\ ReadyIs(st, Append(ready, p))
        /\ \A r \in Procs : r = running <=> st[r] = "RUNNING"
        /\ st[Main] \in {"READY", "RUNNING"}
    BY <2>3, <2>4, PutExact, Zenon
  <2>6. /\ WaitTypes'
        /\ \A t \in Sems : /\ NoDuplicates(blocked'[t])
                            /\ Range(blocked'[t]) = Range(blocked[t]) \ {p}
    <3>1. \A t \in Sems : t # s => p \notin Range(blocked[t])
      BY <2>3, <2>4, CurrentExact, Zenon DEF WaitersAre
    <3> QED BY <2>1, <2>3, <3>1, CurrentExact DEF WaitTypes, WaitersAre
  <2>7. WaitersAre(st, sleepq', blocked', waitingOn')
    BY <2>1, <2>3, <2>4, <2>6, CurrentExact, SchedConstants DEF WaitersAre, WaitTypes
  <2> HIDE DEF st
  <2>8. Switched(st)
    BY <2>1, <2>5, NoSwitchExact, Zenon DEF Switched, IndInv
  <2>9. NoIdleToken'
    BY <1>3, <2>1, CurrentExact, Zenon DEF NoIdleToken, IndInv, WaitTypes
  <2> QED BY <1>1, <2>5, <2>6, <2>7, <2>8, <2>9, Assemble, Zenon
<1> QED BY <1>2, <1>3, Zenon

\* The rest of sleep or wait, after the PCB was dispatched again.
LEMMA ResumeStep ==
    ASSUME IndInv, Resume
    PROVE  IndInv'
<1>1. /\ NoSwitch(state, ready)
      /\ waitingOn' \in {waitingOn, [waitingOn EXCEPT ![running] = NoSem]}
      /\ UNCHANGED <<sleepq, value, blocked>>
      /\ Goto(IF at[running] = "stopped" THEN "user" ELSE "kernel")
  BY Zenon DEF Resume
<1>2. waitingOn' = waitingOn
  <2>1. waitingOn[running] = NoSem
    BY CurrentExact, Zenon DEF WaitersAre
  <2> QED BY <1>1, <2>1, CurrentExact, Zenon DEF WaitTypes
<1>3. Switched(state)
  BY <1>1, CurrentExact, NoSwitchExact, Zenon DEF Switched, IndInv
<1>4. WaitersAre(state, sleepq', blocked', waitingOn') /\ WaitTypes' /\ NoIdleToken'
  BY <1>1, <1>2, CurrentExact, Zenon DEF WaitTypes, IndInv, NoIdleToken
<1>5. at' \in [Procs -> Places] /\ at'[Main] = "user"
  BY <1>1, GotoExact, Zenon DEF Places
<1> QED BY <1>3, <1>4, <1>5, CurrentExact, Assemble, Zenon

\* A signal takes its target out of the queue it waits in.
LEMMA KillStep ==
    ASSUME IndInv, NEW p \in Procs, Kill(p)
    PROVE  IndInv'
<1> DEFINE st == Woken(state, p)
           rdy == WokenList(state, ready, p)
<1>1. /\ LeaveQueues(state, p) /\ state' = st /\ ready' = rdy /\ halted' = Hangs(state, p)
      /\ Goto("kernel") /\ running' = running /\ slice' = slice
  BY Zenon DEF Kill
<1>2. halted' = FALSE
  <2>1. ~Hangs(state, p)
    BY CurrentExact, Zenon DEF Hangs, WaitersAre
  <2> QED BY <1>1, <2>1
<1>3. /\ st \in [Procs -> States] /\ rdy \in Seq(Procs) /\ ReadyIs(st, rdy)
      /\ \A r \in Procs : r = running <=> st[r] = "RUNNING"
      /\ st[Main] \in {"READY", "RUNNING"}
  <2>1. CASE Wakeable(state, p)
    <3>1. state[p] \notin {"READY", "RUNNING"}
      BY <2>1, Zenon DEF Wakeable
    <3>2. st = [state EXCEPT ![p] = "READY"] /\ rdy = Append(ready, p)
      BY <2>1, Zenon DEF Woken, WokenList
    <3> HIDE DEF st, rdy
    <3> QED BY <3>1, <3>2, PutExact, Zenon
  <2>2. CASE ~Wakeable(state, p)
    BY <2>2, CurrentExact, Zenon DEF Woken, WokenList
  <2> QED BY <2>1, <2>2, Zenon
<1>4. WaitersAre(st, sleepq', blocked', waitingOn') /\ WaitTypes' /\ NoIdleToken'
  BY <1>1, CurrentExact, LeaveQueuesExact, Zenon DEF IndInv, WaitTypes
<1> HIDE DEF st, rdy
<1>5. Switched(st)
  BY <1>1, <1>2, <1>3, CurrentExact, Zenon DEF Switched, ReadyListExact, ReadyIs, SameWaiting
<1>6. at' \in [Procs -> Places] /\ at'[Main] = "user"
  BY <1>1, GotoExact, Zenon DEF Places
<1> QED BY <1>3, <1>4, <1>5, <1>6, Assemble, Zenon

\* SIGCONT makes a stopped PCB READY.
LEMMA ContinueStep ==
    ASSUME IndInv, NEW p \in Procs, Continue(p)
    PROVE  IndInv'
<1> DEFINE st == [state EXCEPT ![p] = "READY"]
<1>1. /\ state[p] = "STOPPED" /\ NoSwitch(st, Append(ready, p)) /\ Goto("kernel")
      /\ UNCHANGED <<sleepq, semVars>>
  BY Zenon DEF Continue
<1>2. /\ st \in [Procs -> States] /\ Append(ready, p) \in Seq(Procs)
      /\ ReadyIs(st, Append(ready, p))
      /\ \A r \in Procs : r = running <=> st[r] = "RUNNING"
      /\ st[Main] \in {"READY", "RUNNING"}
  BY <1>1, PutExact, Zenon
<1>3. WaitersAre(st, sleepq, blocked, waitingOn)
  BY <1>1, CurrentExact DEF WaitersAre
<1> HIDE DEF st
<1>4. Switched(st)
  BY <1>1, <1>2, NoSwitchExact, Zenon DEF Switched, IndInv
<1>5. WaitersAre(st, sleepq', blocked', waitingOn') /\ WaitTypes' /\ NoIdleToken'
  BY <1>1, <1>3, CurrentExact, Zenon DEF semVars, WaitTypes, IndInv, NoIdleToken
<1>6. at' \in [Procs -> Places] /\ at'[Main] = "user"
  BY <1>1, GotoExact, Zenon DEF Places
<1> QED BY <1>2, <1>4, <1>5, <1>6, Assemble, Zenon

\* The return to user mode.
LEMMA ReturnStep ==
    ASSUME IndInv, Return
    PROVE  IndInv'
<1>1. NoSwitch(state, ready) /\ Goto("user") /\ UNCHANGED <<sleepq, semVars>>
  BY Zenon DEF Return
<1>2. Switched(state)
  BY <1>1, CurrentExact, NoSwitchExact, Zenon DEF Switched, IndInv
<1>3. WaitersAre(state, sleepq', blocked', waitingOn') /\ WaitTypes' /\ NoIdleToken'
  BY <1>1, CurrentExact, Zenon DEF semVars, WaitTypes, IndInv, NoIdleToken
<1>4. at' \in [Procs -> Places] /\ at'[Main] = "user"
  BY <1>1, GotoExact, Zenon DEF Places
<1> QED BY <1>2, <1>3, <1>4, CurrentExact, Assemble, Zenon

\* A stop signal stops the running PCB and wakes its parent.
LEMMA StopStep ==
    ASSUME IndInv, NEW parent \in Procs, Stop(parent)
    PROVE  IndInv'
<1> DEFINE st == [state EXCEPT ![running] = "STOPPED"]
           st1 == Woken(st, parent)
           rdy == WokenList(st, ready, parent)
<1>1. /\ at[running] = "kernel" /\ LeaveQueues(st, parent) /\ Goto("stopped")
      /\ IF Hangs(st, parent)
         THEN halted' = TRUE /\ state' = st /\ UNCHANGED <<running, ready, slice>>
         ELSE Dispatch(st1, rdy, slice)
  BY Zenon DEF Stop
<1>2. running # Main
  BY <1>1, Zenon DEF IndInv, MainAlive
<1>3. /\ st \in [Procs -> States] /\ ReadyIs(st, ready) /\ st[Main] \in {"READY", "RUNNING"}
      /\ \A r \in Procs : st[r] # "RUNNING"
      /\ WaitersAre(st, sleepq, blocked, waitingOn)
  BY <1>2, CurrentExact, SchedConstants DEF States, ReadyIs, WaitersAre
<1> HIDE DEF st
<1>4. ~Hangs(st, parent)
  BY <1>3, Zenon DEF Hangs, WaitersAre
<1>5. /\ st1 \in [Procs -> States] /\ rdy \in Seq(Procs) /\ ReadyIs(st1, rdy)
      /\ RunningIs(st1) /\ st1[Main] \in {"READY", "RUNNING"}
  <2>1. CASE Wakeable(st, parent)
    <3>1. st[parent] # "READY" /\ parent \notin Range(ready)
      BY <1>3, <2>1, Zenon DEF Wakeable, ReadyIs
    <3>2. /\ Append(ready, parent) \in Seq(Procs) /\ NoDuplicates(Append(ready, parent))
          /\ Range(Append(ready, parent)) = Range(ready) \cup {parent}
      BY <1>3, <3>1, CurrentExact, AppendExact DEF ReadyIs
    <3>3. st1 = [st EXCEPT ![parent] = "READY"] /\ rdy = Append(ready, parent)
      BY <2>1, Zenon DEF Woken, WokenList
    <3> HIDE DEF st1, rdy
    <3> QED BY <1>3, <3>2, <3>3, SchedConstants, Zenon DEF ReadyIs, RunningIs, States
  <2>2. CASE ~Wakeable(st, parent)
    BY <1>3, <2>2, CurrentExact, Zenon DEF Woken, WokenList, RunningIs
  <2> QED BY <2>1, <2>2, Zenon
<1>6. WaitersAre(st1, sleepq', blocked', waitingOn') /\ WaitTypes' /\ NoIdleToken'
  BY <1>1, <1>3, LeaveQueuesExact, Zenon DEF IndInv, WaitTypes
<1> HIDE DEF st1, rdy
<1>7. Switched(st1)
  BY <1>1, <1>4, <1>5, CurrentExact, DispatchExact, Zenon DEF Switched
<1>8. at' \in [Procs -> Places] /\ at'[Main] = "user"
  BY <1>1, GotoExact, Zenon DEF Places
<1> QED BY <1>5, <1>6, <1>7, <1>8, Assemble, Zenon

\* Thread::exit leaves the CPU as a zombie.
LEMMA ExitStep ==
    ASSUME IndInv, Exit
    PROVE  IndInv'
<1> DEFINE st == [state EXCEPT ![running] = "ZOMBIE"]
<1>1. /\ at[running] = "kernel" /\ Dispatch(st, ready, slice) /\ Goto("dead")
      /\ UNCHANGED <<sleepq, semVars>>
  BY Zenon DEF Exit
<1>2. running # Main
  BY <1>1, Zenon DEF IndInv, MainAlive
<1>3. Switched(st)
  <2>1. "ZOMBIE" \in States \ {"READY", "RUNNING"}
    BY Zenon DEF States
  <2> QED BY <1>1, <1>2, <2>1, LeaveProcessor, Zenon
<1>4. st \in [Procs -> States] /\ st[Main] \in {"READY", "RUNNING"}
  BY <1>2, CurrentExact, SchedConstants, Zenon DEF States
<1>5. WaitersAre(st, sleepq, blocked, waitingOn)
  BY CurrentExact DEF WaitersAre
<1> HIDE DEF st
<1>6. WaitersAre(st, sleepq', blocked', waitingOn') /\ WaitTypes' /\ NoIdleToken'
  BY <1>1, <1>5, CurrentExact, Zenon DEF semVars, WaitTypes, IndInv, NoIdleToken
<1>7. at' \in [Procs -> Places] /\ at'[Main] = "user"
  BY <1>1, GotoExact, Zenon DEF Places
<1> QED BY <1>3, <1>4, <1>6, <1>7, Assemble, Zenon

\* The state main() leaves when it enables interrupts.
LEMMA SchedInitially ==
    ASSUME Init
    PROVE  IndInv
<1> USE SchedConstants
<1>1. TypeOK
  <2>1. /\ state \in [Procs -> States] /\ at \in [Procs -> Places]
        /\ waitingOn \in [Procs -> Sems \cup {NoSem}]
    <3>1. state \in [Procs -> States]
      BY Zenon DEF Init, States
    <3>2. at \in [Procs -> Places] /\ waitingOn \in [Procs -> Sems \cup {NoSem}]
      BY Zenon DEF Init, Places
    <3> QED BY <3>1, <3>2, Zenon
  <2>2. ready \in Seq(Procs) /\ sleepq \in Seq(Procs) /\ blocked \in [Sems -> Seq(Procs)]
    BY DEF Init
  <2>3. running \in Procs /\ value \in [Sems -> Nat] /\ slice \in 0..TimeSlice
    BY DEF Init
  <2>4. halted \in BOOLEAN
    BY Zenon DEF Init
  <2> QED BY <2>1, <2>2, <2>3, <2>4, Zenon DEF TypeOK
<1>2. ReadyListExact
  BY DEF Init, ReadyListExact, NoDuplicates, Range
<1>3. WaitersExact
  BY DEF Init, WaitersExact, NoDuplicates, Range
<1>4. NoIdleToken /\ NeverHalts /\ MainAlive
  BY Zenon DEF Init, NoIdleToken, NeverHalts, MainAlive
<1> QED BY <1>1, <1>2, <1>3, <1>4, Zenon DEF IndInv

(* The conjunction of the invariants the model checker looks at is         *)
(* inductive: each of them needs the others, above all that a RUNNING PCB  *)
(* is in no queue and that the main thread can always be switched to.      *)
THEOREM SchedInductive == Spec => []IndInv
<1>1. Init => IndInv
  BY SchedInitially, Zenon
<1>2. IndInv /\ [Next]_vars => IndInv'
  <2> SUFFICES ASSUME IndInv, [Next]_vars PROVE IndInv'
    BY Zenon
  <2>1. CASE Tick                                BY <2>1, TickStep, Zenon
  <2>2. CASE \E p \in Procs : Create(p)          BY <2>2, CreateStep, Zenon
  <2>3. CASE Yield                               BY <2>3, YieldStep, Zenon
  <2>4. CASE Sleep                               BY <2>4, SleepStep, Zenon
  <2>5. CASE \E s \in Sems : SemWait(s)          BY <2>5, SemWaitStep, Zenon
  <2>6. CASE \E s \in Sems : SemSignal(s)        BY <2>6, SemSignalStep, Zenon
  <2>7. CASE Resume                              BY <2>7, ResumeStep, Zenon
  <2>8. CASE \E p \in Procs : Kill(p)            BY <2>8, KillStep, Zenon
  <2>9. CASE \E p \in Procs : Continue(p)        BY <2>9, ContinueStep, Zenon
  <2>10. CASE Return                             BY <2>10, ReturnStep, Zenon
  <2>11. CASE \E p \in Procs : Stop(p)           BY <2>11, StopStep, Zenon
  <2>12. CASE Exit                               BY <2>12, ExitStep, Zenon
  <2>13. CASE UNCHANGED vars
    BY <2>13 DEF vars, IndInv, TypeOK, ReadyListExact, WaitersExact, NoIdleToken,
                 NeverHalts, MainAlive
  <2> QED BY <2>1, <2>2, <2>3, <2>4, <2>5, <2>6, <2>7, <2>8, <2>9, <2>10, <2>11, <2>12,
             <2>13, Zenon DEF Next
<1> QED BY <1>1, <1>2, PTL DEF Spec

(* The kernel's bookkeeping keeps its types: Sched!TypeOK. *)
THEOREM SchedTypeCorrect == Spec => []TypeOK
<1>1. IndInv => TypeOK
  BY Zenon DEF IndInv
<1> QED BY <1>1, SchedInductive, PTL

(* No PCB is ever lost from the ready list or linked into it twice.        *)
THEOREM ReadyListAlwaysExact == Spec => []ReadyListExact
<1>1. IndInv => ReadyListExact
  BY Zenon DEF IndInv
<1> QED BY <1>1, SchedInductive, PTL

(* Every waiting PCB is in exactly the queue it waits in, whatever signal()*)
(* awake() and kill() race for it.                                         *)
THEOREM WaitersAlwaysExact == Spec => []WaitersExact
<1>1. IndInv => WaitersExact
  BY Zenon DEF IndInv
<1> QED BY <1>1, SchedInductive, PTL

(* A token never lies beside a waiter.                                     *)
THEOREM TokensNeverIdle == Spec => []NoIdleToken
<1>1. IndInv => NoIdleToken
  BY Zenon DEF IndInv
<1> QED BY <1>1, SchedInductive, PTL

(* The panic of PCB::dispatch() and the unreleased lock of                 *)
(* Scheduler::wakeUp() are unreachable.                                    *)
THEOREM DispatchNeverPanics == Spec => []NeverHalts
<1>1. IndInv => NeverHalts
  BY Zenon DEF IndInv
<1> QED BY <1>1, SchedInductive, PTL

-----------------------------------------------------------------------------
(* Futexes.  The calls of wait() that have not returned, and what refCount *)
(* and the table say of them.                                              *)
Callers(k) == {p \in Procs : at[p] = "futex" /\ call[p].key = k}

FutexCounts ==
    /\ at \in [Procs -> Places]
    /\ table \subseteq Keys
    /\ refCount \in [Keys -> Nat]
    /\ call \in [Procs -> [key : Keys \cup {NoKey}, val : Words \cup {0}]]
    /\ \A p \in Procs : at[p] = "futex" => call[p].key \in Keys
    /\ \A k \in Keys : /\ refCount[k] = Cardinality(Callers(k))
                       /\ refCount[k] > 0 => k \in table

(* The sleep list and the futex queues of given values.  Every wait is one *)
(* for a futex here, and until a timeout runs out it is in the queue that  *)
(* m_waitingOnFutexKey and the arguments of wait() name.                   *)
Waits(st, p) == st[p] \in {"BLOCKED", "SLEEPING"}

SleepersAre(st, sq) ==
    /\ sq \in Seq(Procs) /\ NoDuplicates(sq)
    /\ \A p \in Procs : p \in Range(sq) <=> st[p] = "SLEEPING"

QueuesAre(st, fk, f) ==
    /\ fk \in [Procs -> Keys \cup {NoKey}]
    /\ f \in [Keys -> Seq(Procs)]
    /\ \A k \in Keys : /\ NoDuplicates(f[k])
                       /\ \A p \in Procs : p \in Range(f[k]) <=> Waits(st, p) /\ fk[p] = k

CallsAre(st, a, fk, c) ==
    \A p \in Procs : /\ Waits(st, p) => a[p] = "futex" /\ fk[p] = c[p].key
                     /\ fk[p] # NoKey => a[p] = "futex"
                     /\ a[p] = "futex" => st[p] \in {"READY", "RUNNING"} \/ Waits(st, p)

FutexWaiters ==
    /\ ReadyInv
    /\ SleepersAre(state, sleepq)
    /\ \A p \in Procs : waitingOn[p] = NoSem
    /\ QueuesAre(state, fkey, fq)
    /\ CallsAre(state, at, fkey, call)
    /\ \A k \in Keys : k \in table => refCount[k] > 0

FutexInv ==
    /\ expired \in BOOLEAN /\ word \in [Keys -> Words \cup {0}]
    /\ FutexCounts
    /\ ~expired => FutexWaiters /\ NoLostWake

(* Who waits is the same before and after dispatch().                      *)
LEMMA FutexAssemble ==
    ASSUME NEW st \in [Procs -> States], st[Main] \in {"READY", "RUNNING"}, Switched(st),
           TypeOK, UNCHANGED semVars, \A p \in Procs : waitingOn[p] = NoSem,
           at' \in [Procs -> Places], at'[Main] = "user",
           SleepersAre(st, sleepq'), QueuesAre(st, fkey', fq'),
           CallsAre(st, at', fkey', call'),
           \A k \in Keys : k \in table' => refCount'[k] > 0
    PROVE  FutexWaiters'
<1>1. /\ \A p \in Procs : /\ state'[p] = "SLEEPING" <=> st[p] = "SLEEPING"
                          /\ state'[p] = "BLOCKED" <=> st[p] = "BLOCKED"
                          /\ state'[p] \in {"READY", "RUNNING"} <=> st[p] \in {"READY", "RUNNING"}
      /\ state' \in [Procs -> States]
  BY Zenon DEF Switched, SameWaiting
<1>2. sleepq' \in Seq(Procs)
  BY Zenon DEF SleepersAre
<1>3. ReadyInv'
  <2>1. TypeOK'
    BY <1>2, Zenon DEF TypeOK, Switched, semVars
  <2>2. MainAlive'
    BY <1>1, SchedConstants, Zenon DEF MainAlive
  <2> QED BY <2>1, <2>2, Zenon DEF ReadyInv, Switched, NeverHalts
<1>4. SleepersAre(state', sleepq')
  BY <1>1, Zenon DEF SleepersAre
<1>5. QueuesAre(state', fkey', fq')
  BY <1>1 DEF QueuesAre, Waits
<1>6. CallsAre(state', at', fkey', call')
  BY <1>1, Zenon DEF CallsAre, Waits
<1>7. \A p \in Procs : waitingOn'[p] = NoSem
  BY Zenon DEF semVars
<1> QED BY <1>3, <1>4, <1>5, <1>6, <1>7, Zenon DEF FutexWaiters

(* A step that starts and ends no call of wait() keeps the counts.         *)
LEMMA CountsKept ==
    ASSUME FutexCounts, UNCHANGED <<table, refCount, call>>, at' \in [Procs -> Places],
           \A p \in Procs : at'[p] = "futex" <=> at[p] = "futex"
    PROVE  FutexCounts'
<1>1. \A k \in Keys : Callers(k)' = Callers(k)
  BY Zenon DEF Callers
<1> QED BY <1>1, Zenon DEF FutexCounts

(* The running process goes on elsewhere than in Futex::wait().            *)
LEMMA GotoKeeps ==
    ASSUME ReadyInv, NEW place \in Places \ {"futex"}, Goto(place), at[running] # "futex"
    PROVE  /\ at' \in [Procs -> Places] /\ at'[Main] = "user"
           /\ \A p \in Procs : at'[p] = "futex" <=> at[p] = "futex"
           /\ \A p \in Procs : p # running => at'[p] = at[p]
<1>1. at' \in [Procs -> Places] /\ at'[Main] = "user"
  BY GotoReady, Zenon
<1> QED BY <1>1, Zenon DEF Goto, ReadyInv, TypeOK

(* No wait is lost by a step that changes neither words nor waits.         *)
LEMMA LostWakeKept ==
    ASSUME NoLostWake, FutexCounts, UNCHANGED <<word, call, owed>>, expired' = expired,
           \A p \in Procs : at'[p] = "futex" <=> at[p] = "futex",
           \A p \in Procs : Waits(state', p) => Waits(state, p)
    PROVE  NoLostWake'
<1>1. ASSUME NEW k \in Keys PROVE WaitingOn(k)' \subseteq WaitingOn(k)
  BY Zenon DEF WaitingOn, Waits
<1> QED BY <1>1, Zenon DEF NoLostWake

(* The invariant while no timeout has run out, part by part.               *)
LEMMA FutexCurrent ==
    ASSUME FutexInv, ~expired
    PROVE  /\ ReadyInv /\ TypeOK /\ FutexCounts /\ NoLostWake
           /\ SleepersAre(state, sleepq) /\ QueuesAre(state, fkey, fq)
           /\ CallsAre(state, at, fkey, call)
           /\ \A p \in Procs : waitingOn[p] = NoSem
           /\ \A k \in Keys : k \in table => refCount[k] > 0
           /\ expired = FALSE /\ word \in [Keys -> Words \cup {0}]
  BY Zenon DEF FutexInv, FutexWaiters, ReadyInv

(* Its parts, one by one.                                                  *)
LEMMA FutexReady ==
    ASSUME FutexInv, ~expired
    PROVE  ReadyInv /\ TypeOK
  BY Zenon DEF FutexInv, FutexWaiters, ReadyInv

(* The counts.                                                             *)
LEMMA FutexCounted ==
    ASSUME FutexInv
    PROVE  FutexCounts
  BY Zenon DEF FutexInv

(* The sleep list.                                                         *)
LEMMA FutexSleepers ==
    ASSUME FutexInv, ~expired
    PROVE  SleepersAre(state, sleepq)
  BY Zenon DEF FutexInv, FutexWaiters

(* The futex queues.                                                       *)
LEMMA FutexQueued ==
    ASSUME FutexInv, ~expired
    PROVE  QueuesAre(state, fkey, fq)
  BY Zenon DEF FutexInv, FutexWaiters

(* The calls of wait().                                                    *)
LEMMA FutexCalled ==
    ASSUME FutexInv, ~expired
    PROVE  CallsAre(state, at, fkey, call)
  BY Zenon DEF FutexInv, FutexWaiters

(* No wait is lost so far,                                                 *)
LEMMA FutexAwake ==
    ASSUME FutexInv, ~expired
    PROVE  NoLostWake
  BY Zenon DEF FutexInv

(* nobody waits for a semaphore,                                           *)
LEMMA FutexNoSem ==
    ASSUME FutexInv, ~expired
    PROVE  \A p \in Procs : waitingOn[p] = NoSem
  BY Zenon DEF FutexInv, FutexWaiters

(* a futex of the table has callers,                                       *)
LEMMA FutexTable ==
    ASSUME FutexInv, ~expired
    PROVE  \A k \in Keys : k \in table => refCount[k] > 0
  BY Zenon DEF FutexInv, FutexWaiters

(* and the words have their type.                                          *)
LEMMA FutexWords ==
    ASSUME FutexInv, ~expired
    PROVE  expired = FALSE /\ word \in [Keys -> Words \cup {0}]
  BY Zenon DEF FutexInv

(* The types of the calls and of the queues.                               *)
LEMMA FutexTypes ==
    ASSUME FutexInv, ~expired
    PROVE  /\ at \in [Procs -> Places] /\ table \subseteq Keys /\ refCount \in [Keys -> Nat]
           /\ call \in [Procs -> [key : Keys \cup {NoKey}, val : Words \cup {0}]]
           /\ fkey \in [Procs -> Keys \cup {NoKey}] /\ fq \in [Keys -> Seq(Procs)]
  BY FutexCounted, FutexQueued, Zenon DEF FutexCounts, QueuesAre

(* A timer tick: if anybody is woken, a timeout has run out.               *)
LEMMA FutexTick ==
    ASSUME FutexInv, ~expired, Tick, Frame
    PROVE  FutexInv'
<1>1. PICK n \in 0..Len(sleepq), dead \in SUBSET Deletable :
         LET woken == SubSeq(sleepq, 1, n)
             st  == [p \in Procs |-> IF p \in Range(woken) THEN "READY"
                                     ELSE IF p \in dead THEN "NONE" ELSE state[p]]
             rdy == ready \o woken
             sl  == IF slice < TimeSlice THEN slice + 1 ELSE TimeSlice
         IN  /\ sleepq' = SubSeq(sleepq, n + 1, Len(sleepq))
             /\ IF sl >= TimeSlice
                THEN Dispatch(st, rdy, sl)
                ELSE /\ state' = st /\ ready' = rdy /\ slice' = sl
                     /\ UNCHANGED <<running, halted>>
  BY Zenon DEF Tick
<1> DEFINE woken == SubSeq(sleepq, 1, n)
           rest == SubSeq(sleepq, n + 1, Len(sleepq))
           st  == [p \in Procs |-> IF p \in Range(woken) THEN "READY"
                                   ELSE IF p \in dead THEN "NONE" ELSE state[p]]
           rdy == ready \o woken
           sl  == IF slice < TimeSlice THEN slice + 1 ELSE TimeSlice
<1>2. /\ sleepq' = rest
      /\ IF sl >= TimeSlice
         THEN Dispatch(st, rdy, sl)
         ELSE state' = st /\ ready' = rdy /\ slice' = sl /\ UNCHANGED <<running, halted>>
  BY <1>1, Zenon
<1>3. /\ Goto("kernel") /\ UNCHANGED semVars /\ at[running] = "user"
      /\ UNCHANGED <<word, table, fq, refCount, fkey, call, owed>>
      /\ expired' = (expired \/ \E p \in Procs : TimesOut(p))
  BY Zenon DEF Tick, Interruptible, Frame
<1>4. /\ at' \in [Procs -> Places] /\ at'[Main] = "user"
      /\ \A p \in Procs : at'[p] = "futex" <=> at[p] = "futex"
  <2>1. "kernel" \in Places \ {"futex"}
    BY Zenon DEF Places
  <2> QED BY <1>3, <2>1, FutexCurrent, GotoKeeps, Zenon
<1>5. FutexCounts'
  BY <1>3, <1>4, FutexCurrent, CountsKept, Zenon
<1>6. CASE \E p \in Procs : TimesOut(p)
  BY <1>3, <1>5, <1>6, FutexCurrent, Zenon DEF FutexInv
<1>7. CASE ~\E p \in Procs : TimesOut(p)
  <2>1. expired' = FALSE
    BY <1>3, <1>7, FutexCurrent, Zenon
  <2>2. /\ woken \in Seq(Procs) /\ rest \in Seq(Procs) /\ NoDuplicates(woken) /\ NoDuplicates(rest)
        /\ Range(woken) \subseteq Range(sleepq) /\ Range(rest) = Range(sleepq) \ Range(woken)
    BY SplitExact, FutexCurrent DEF SleepersAre
  <2> HIDE DEF woken, rest
  <2>3. Range(woken) = {}
    <3> SUFFICES ASSUME NEW p \in Range(woken) PROVE FALSE
      BY Zenon
    <3>1. p \in Procs
      BY <2>2, SeqRange, Zenon
    <3>2. state[p] = "SLEEPING" /\ p \in Range(sleepq) /\ p \notin Range(sleepq')
      BY <1>2, <2>2, <3>1, FutexCurrent, Zenon DEF SleepersAre
    <3>3. fkey[p] \in Keys
      BY <3>1, <3>2, FutexCurrent, Zenon DEF CallsAre, Waits, FutexCounts
    <3>4. TimesOut(p)
      BY <3>2, <3>3, FutexConstants, Zenon DEF TimesOut
    <3> QED BY <1>7, <3>1, <3>4, Zenon
  <2>4. rdy \in Seq(Procs) /\ NoDuplicates(rdy) /\ Range(rdy) = Range(ready)
    <3>1. Range(ready) \cap Range(woken) = {} /\ ready \in Seq(Procs) /\ NoDuplicates(ready)
      BY <2>3, FutexCurrent, CurrentReady, Zenon DEF ReadyIs
    <3>2. /\ rdy \in Seq(Procs) /\ NoDuplicates(rdy)
          /\ Range(rdy) = Range(ready) \cup Range(woken)
      BY <2>2, <3>1, ConcatExact
    <3> QED BY <2>3, <3>2, Zenon
  <2> HIDE DEF rdy
  <2>5. \A p \in dead : p \in Procs /\ state[p] = "ZOMBIE"
    BY Zenon DEF Deletable
  <2>6. \A p \in Procs : st[p] = IF p \in dead THEN "NONE" ELSE state[p]
    BY <2>3, Zenon
  <2>7. st \in [Procs -> States]
    BY FutexCurrent, CurrentReady, Zenon DEF States
  <2>8. /\ ReadyIs(st, rdy)
        /\ \A p \in Procs : p = running <=> st[p] = "RUNNING"
        /\ st[Main] \in {"READY", "RUNNING"}
    BY <2>4, <2>5, <2>6, FutexCurrent, CurrentReady, SchedConstants, Zenon DEF ReadyIs
  <2>9. sl \in 0..TimeSlice
    BY FutexCurrent, CurrentReady, SchedConstants
  <2> HIDE DEF st, sl
  <2>10. Switched(st)
    <3>1. CASE sl >= TimeSlice
      <4>1. Dispatch(st, rdy, sl)
        BY <1>2, <3>1, Zenon
      <4>2. RunningIs(st)
        BY <2>8, Zenon DEF RunningIs
      <4> QED BY <4>1, <4>2, <2>4, <2>7, <2>8, <2>9, FutexCurrent, CurrentReady, DispatchExact, Zenon
              DEF Switched
    <3>2. CASE ~(sl >= TimeSlice)
      <4>1. state' = st /\ ready' = rdy /\ slice' = sl /\ running' = running /\ halted' = halted
        BY <1>2, <3>2, Zenon
      <4> QED BY <4>1, <2>4, <2>7, <2>8, <2>9, FutexCurrent, CurrentReady
              DEF Switched, ReadyListExact, ReadyIs, SameWaiting
    <3> QED BY <3>1, <3>2, Zenon
  <2>11. /\ \A p \in Procs : Waits(st, p) <=> Waits(state, p)
         /\ \A p \in Procs : st[p] = "SLEEPING" <=> state[p] = "SLEEPING"
         /\ \A p \in Procs : state[p] # "ZOMBIE" => st[p] = state[p]
    BY <2>5, <2>6, Zenon DEF Waits
  <2>12. SleepersAre(st, sleepq')
    BY <1>2, <2>2, <2>3, <2>11, FutexCurrent, Zenon DEF SleepersAre
  <2>13. QueuesAre(st, fkey', fq')
    BY <1>3, <2>11, FutexCurrent, Zenon DEF QueuesAre
  <2>14. CallsAre(st, at', fkey', call')
    <3>1. \A p \in Procs : at[p] = "futex" => state[p] # "ZOMBIE"
      BY FutexCurrent, Zenon DEF CallsAre, Waits
    <3> QED BY <1>3, <1>4, <2>11, <3>1, FutexCurrent DEF CallsAre
  <2>15. FutexWaiters'
    BY <1>3, <1>4, <2>7, <2>8, <2>10, <2>12, <2>13, <2>14, FutexCurrent, FutexAssemble, Zenon
  <2>16. \A p \in Procs : Waits(state', p) => Waits(state, p)
    BY <2>10, <2>11, Zenon DEF Switched, SameWaiting, Waits
  <2>17. NoLostWake'
    BY <1>3, <1>4, <2>1, <2>16, FutexCurrent, LostWakeKept, Zenon
  <2> QED BY <1>3, <1>5, <2>1, <2>15, <2>17, FutexCurrent, Zenon DEF FutexInv
<1> QED BY <1>6, <1>7, Zenon

(* The steps of the scheduling core that wake nobody.                      *)
LEMMA FutexQuiet ==
    ASSUME FutexInv, ~expired, Frame, UNCHANGED <<sleepq, semVars>>,
           NEW st \in [Procs -> States], st[Main] \in {"READY", "RUNNING"}, Switched(st),
           at' \in [Procs -> Places], at'[Main] = "user",
           \A p \in Procs : at'[p] = "futex" <=> at[p] = "futex",
           \A p \in Procs : Waits(state, p) \/ Waits(st, p) \/ at[p] = "futex" =>
                              st[p] = state[p] \/ {st[p], state[p]} \subseteq {"READY", "RUNNING"}
    PROVE  FutexInv'
<1>1. UNCHANGED <<word, table, fq, refCount, fkey, call, owed>> /\ expired' = expired
  BY FutexCurrent, Zenon DEF Frame, TimesOut
<1>2. FutexCounts'
  BY <1>1, FutexCurrent, CountsKept, Zenon
<1>3. /\ \A p \in Procs : Waits(st, p) <=> Waits(state, p)
      /\ \A p \in Procs : st[p] = "SLEEPING" <=> state[p] = "SLEEPING"
      /\ \A p \in Procs : at[p] = "futex" /\ state[p] \in {"READY", "RUNNING"} =>
                            st[p] \in {"READY", "RUNNING"}
  BY DEF Waits
<1>4. SleepersAre(st, sleepq')
  BY <1>3, FutexCurrent, Zenon DEF SleepersAre
<1>5. QueuesAre(st, fkey', fq')
  BY <1>1, <1>3, FutexCurrent DEF QueuesAre
<1>6. CallsAre(st, at', fkey', call')
  BY <1>1, <1>3, FutexCurrent DEF CallsAre
<1>7. FutexWaiters'
  BY <1>1, <1>4, <1>5, <1>6, FutexCurrent, FutexAssemble, Zenon
<1>8. \A p \in Procs : Waits(state', p) => Waits(state, p)
  BY <1>3, Zenon DEF Switched, SameWaiting, Waits
<1>9. NoLostWake'
  BY <1>1, <1>8, FutexCurrent, LostWakeKept, Zenon
<1> QED BY <1>1, <1>2, <1>7, <1>9, FutexCurrent, Zenon DEF FutexInv

(* A new PCB waits nowhere and is in no call.                              *)
LEMMA FutexCreate ==
    ASSUME FutexInv, ~expired, NEW p \in Procs, Create(p), Frame
    PROVE  FutexInv'
<1> DEFINE st == [state EXCEPT ![p] = "READY"]
<1>1. /\ state[p] = "NONE" /\ running # Main /\ NoSwitch(st, Append(ready, p))
      /\ at' = [at EXCEPT ![p] = "user", ![running] = "kernel"]
      /\ UNCHANGED <<sleepq, semVars>> /\ at[running] \in {"user", "kernel"}
  BY Zenon DEF Create, Process, InKernel
<1>2. /\ st \in [Procs -> States] /\ Append(ready, p) \in Seq(Procs)
      /\ ReadyIs(st, Append(ready, p))
      /\ \A r \in Procs : r = running <=> st[r] = "RUNNING"
      /\ st[Main] \in {"READY", "RUNNING"}
  BY <1>1, PutReady, FutexCurrent, Zenon
<1>3. at[p] # "futex" /\ ~Waits(state, p)
  BY <1>1, FutexCurrent, Zenon DEF CallsAre, Waits
<1>4. \A r \in Procs : r # p => st[r] = state[r]
  BY FutexCurrent, CurrentReady, Zenon
<1>5. st[p] = "READY"
  BY FutexCurrent, CurrentReady, Zenon
<1> HIDE DEF st
<1>6. Switched(st)
  BY <1>1, <1>2, NoSwitchExact, FutexCurrent, Zenon DEF Switched, ReadyInv
<1>7. /\ at' \in [Procs -> Places] /\ at'[Main] = "user"
      /\ \A r \in Procs : at'[r] = "futex" <=> at[r] = "futex"
  BY <1>1, <1>3, FutexCurrent, CurrentReady, SchedConstants, Zenon DEF ReadyInv, TypeOK, Places, MainAlive
<1>8. \A r \in Procs : Waits(state, r) \/ Waits(st, r) \/ at[r] = "futex" =>
                         st[r] = state[r] \/ {st[r], state[r]} \subseteq {"READY", "RUNNING"}
  BY <1>3, <1>4, <1>5, Zenon DEF Waits
<1> QED BY <1>1, <1>2, <1>6, <1>7, <1>8, FutexQuiet, Zenon

(* A yield from outside wait() leaves the queues alone.                    *)
LEMMA FutexYield ==
    ASSUME FutexInv, ~expired, Yield, Frame
    PROVE  FutexInv'
<1>1. Switched(state)
  <2>1. RunningIs(state)
    BY FutexCurrent, CurrentReady, Zenon DEF RunningIs
  <2>2. Dispatch(state, ready, slice)
    BY Zenon DEF Yield
  <2> QED BY <2>1, <2>2, FutexCurrent, CurrentReady, DispatchExact, Zenon DEF Switched
<1>2. UNCHANGED <<sleepq, semVars>> /\ Goto("kernel") /\ at[running] # "futex"
  BY Zenon DEF Yield, InKernel
<1>3. /\ at' \in [Procs -> Places] /\ at'[Main] = "user"
      /\ \A p \in Procs : at'[p] = "futex" <=> at[p] = "futex"
  <2>1. "kernel" \in Places \ {"futex"}
    BY Zenon DEF Places
  <2> QED BY <1>2, <2>1, FutexCurrent, GotoKeeps, Zenon
<1> QED BY <1>1, <1>2, <1>3, FutexCurrent, CurrentReady, FutexQuiet, Zenon

(* So does the return to user mode.                                        *)
LEMMA FutexReturn ==
    ASSUME FutexInv, ~expired, Return, Frame
    PROVE  FutexInv'
<1>1. /\ UNCHANGED <<sleepq, semVars>> /\ Goto("user") /\ at[running] # "futex"
      /\ NoSwitch(state, ready)
  BY Zenon DEF Return
<1>2. Switched(state)
  BY <1>1, FutexCurrent, CurrentReady, NoSwitchExact, Zenon DEF Switched, ReadyInv
<1>3. /\ at' \in [Procs -> Places] /\ at'[Main] = "user"
      /\ \A p \in Procs : at'[p] = "futex" <=> at[p] = "futex"
  <2>1. "user" \in Places \ {"futex"}
    BY Zenon DEF Places
  <2> QED BY <1>1, <2>1, FutexCurrent, GotoKeeps, Zenon
<1> QED BY <1>1, <1>2, <1>3, FutexCurrent, CurrentReady, FutexQuiet, Zenon

(* A process that exits is in no call of wait().                           *)
LEMMA FutexExit ==
    ASSUME FutexInv, ~expired, Exit, Frame
    PROVE  FutexInv'
<1> DEFINE st == [state EXCEPT ![running] = "ZOMBIE"]
<1>1. /\ at[running] = "kernel" /\ Dispatch(st, ready, slice) /\ Goto("dead")
      /\ UNCHANGED <<sleepq, semVars>>
  BY Zenon DEF Exit
<1>2. running # Main
  BY <1>1, FutexCurrent, Zenon DEF ReadyInv, MainAlive
<1>3. Switched(st)
  <2>1. "ZOMBIE" \in States \ {"READY", "RUNNING"}
    BY Zenon DEF States
  <2> QED BY <1>1, <1>2, <2>1, LeaveReady, FutexCurrent, Zenon
<1>4. st \in [Procs -> States] /\ st[Main] \in {"READY", "RUNNING"}
  BY <1>2, FutexCurrent, CurrentReady, SchedConstants, Zenon DEF States
<1>5. /\ \A r \in Procs : r # running => st[r] = state[r]
      /\ st[running] = "ZOMBIE" /\ state[running] = "RUNNING" /\ running \in Procs
  BY FutexCurrent, CurrentReady, Zenon
<1> HIDE DEF st
<1>6. /\ at' \in [Procs -> Places] /\ at'[Main] = "user"
      /\ \A p \in Procs : at'[p] = "futex" <=> at[p] = "futex"
  <2>1. "dead" \in Places \ {"futex"}
    BY Zenon DEF Places
  <2> QED BY <1>1, <2>1, FutexCurrent, GotoKeeps, Zenon
<1>7. \A r \in Procs : Waits(state, r) \/ Waits(st, r) \/ at[r] = "futex" =>
                         st[r] = state[r] \/ {st[r], state[r]} \subseteq {"READY", "RUNNING"}
  BY <1>1, <1>5, Zenon DEF Waits
<1> QED BY <1>1, <1>3, <1>4, <1>6, <1>7, FutexQuiet, Zenon

(* Who changes a word owes the waiters of it a wake.                       *)
LEMMA FutexStore ==
    ASSUME FutexInv, ~expired, NEW k \in Keys, NEW v \in Words, Store(k, v)
    PROVE  FutexInv'
<1>1. /\ word' = [word EXCEPT ![k] = v] /\ owed' = owed \cup {k}
      /\ UNCHANGED <<vars, table, fq, refCount, fkey, call, expired>>
  BY Zenon DEF Store
<1>2. FutexCounts'
  BY <1>1, FutexCurrent, CountsKept, Zenon DEF vars, FutexCounts
<1>3. FutexWaiters'
  <2>1. ReadyInv'
    BY <1>1, FutexCurrent, Zenon DEF vars, semVars, ReadyInv, TypeOK, ReadyListExact, NeverHalts, MainAlive
  <2> QED BY <1>1, <2>1, FutexCurrent, Zenon DEF vars, semVars, FutexWaiters
<1>4. NoLostWake'
  <2>1. \A j \in Keys : WaitingOn(j)' = WaitingOn(j)
    BY <1>1, Zenon DEF vars, WaitingOn
  <2>2. \A j \in Keys : j # k => word'[j] = word[j]
    BY <1>1, FutexCurrent, Zenon
  <2>3. \A j \in Keys : \A p \in WaitingOn(j) : call[p].val # word[j] => j \in owed
    BY FutexCurrent, Zenon DEF NoLostWake
  <2> QED BY <1>1, <2>1, <2>2, <2>3, Zenon DEF NoLostWake
<1> QED BY <1>1, <1>2, <1>3, <1>4, FutexCurrent, Zenon DEF FutexInv

(* FUTEX_EAGAIN: the word has changed, the caller returns.                 *)
LEMMA FutexAgain ==
    ASSUME FutexInv, ~expired, NEW k \in Keys, NEW v \in Words, NEW timed \in BOOLEAN,
           FutexWait(k, v, timed), word[k] # v
    PROVE  FutexInv'
<1>1. /\ NoSwitch(state, ready) /\ Goto("kernel") /\ at[running] # "futex"
      /\ UNCHANGED <<sleepq, semVars>>
      /\ UNCHANGED <<word, table, fq, refCount, fkey, call, owed, expired>>
  BY Zenon DEF FutexWait, Interruptible
<1>2. Frame
  BY <1>1, FutexCurrent, Zenon DEF Frame, TimesOut
<1>3. Switched(state)
  BY <1>1, FutexCurrent, CurrentReady, NoSwitchExact, Zenon DEF Switched, ReadyInv
<1>4. /\ at' \in [Procs -> Places] /\ at'[Main] = "user"
      /\ \A p \in Procs : at'[p] = "futex" <=> at[p] = "futex"
  <2>1. "kernel" \in Places \ {"futex"}
    BY Zenon DEF Places
  <2> QED BY <1>1, <2>1, FutexCurrent, GotoKeeps, Zenon
<1> QED BY <1>1, <1>2, <1>3, <1>4, FutexCurrent, CurrentReady, FutexQuiet, Zenon

(* A call of wait() that starts is one more caller of its key; one that    *)
(* returns is one less.                                                    *)
LEMMA CallerJoins ==
    ASSUME Counting, FutexCounts, NEW p \in Procs, NEW k \in Keys, NEW v \in Words,
           at[p] # "futex", at' = [at EXCEPT ![p] = "futex"],
           call' = [call EXCEPT ![p] = [key |-> k, val |-> v]],
           table' = table \cup {k}, refCount' = [refCount EXCEPT ![k] = @ + 1],
           at' \in [Procs -> Places]
    PROVE  FutexCounts'
<1>1. /\ Callers(k)' = Callers(k) \cup {p} /\ p \notin Callers(k)
      /\ \A j \in Keys : j # k => Callers(j)' = Callers(j)
  BY Zenon DEF Callers, FutexCounts
<1>2. IsFiniteSet(Callers(k))
  BY FutexConstants, Zenon DEF Callers, Counting, PartCount
<1>3. Cardinality(Callers(k)') = Cardinality(Callers(k)) + 1
  <2>1. Cardinality(Callers(k) \cup {p}) = Cardinality(Callers(k)) + 1
    BY <1>1, <1>2, Zenon DEF Counting, AddCount
  <2> QED BY <1>1, <2>1, Zenon
<1>4. refCount' \in [Keys -> Nat] /\ table' \subseteq Keys
  BY DEF FutexCounts
<1>5. call' \in [Procs -> [key : Keys \cup {NoKey}, val : Words \cup {0}]]
  BY Zenon DEF FutexCounts
<1>6. \A q \in Procs : at'[q] = "futex" => call'[q].key \in Keys
  BY Zenon DEF FutexCounts
<1>7. \A j \in Keys : /\ refCount'[j] = Cardinality(Callers(j)')
                      /\ refCount'[j] > 0 => j \in table'
  BY <1>1, <1>3, Zenon DEF FutexCounts
<1> QED BY <1>4, <1>5, <1>6, <1>7, Zenon DEF FutexCounts

(* wait() up to its yield: the caller joins the queue of its key.          *)
LEMMA FutexEnqueue ==
    ASSUME Counting, FutexInv, ~expired, NEW k \in Keys, NEW v \in Words, NEW timed \in BOOLEAN,
           FutexWait(k, v, timed), word[k] = v
    PROVE  FutexInv'
<1> DEFINE new == IF timed THEN "SLEEPING" ELSE "BLOCKED"
           st == [state EXCEPT ![running] = new]
<1>1. /\ running # Main /\ at[running] = "user"
      /\ table' = table \cup {k} /\ refCount' = [refCount EXCEPT ![k] = @ + 1]
      /\ fq' = [fq EXCEPT ![k] = Append(@, running)]
      /\ fkey' = [fkey EXCEPT ![running] = k]
      /\ call' = [call EXCEPT ![running] = [key |-> k, val |-> v]]
      /\ IF timed THEN \E i \in 0..Len(sleepq) : sleepq' = LinkAfter(sleepq, i, running)
         ELSE sleepq' = sleepq
      /\ Goto("futex") /\ Dispatch(st, ready, slice)
      /\ UNCHANGED semVars /\ word' = word /\ owed' = owed /\ expired' = expired
  BY Zenon DEF FutexWait, Process, Interruptible
<1>2. /\ running \in Procs /\ state[running] = "RUNNING" /\ ~Waits(state, running)
      /\ fkey[running] = NoKey
  BY <1>1, FutexCurrent, CurrentReady, Zenon DEF Waits, CallsAre
<1>3. /\ new \in States \ {"READY", "RUNNING"} /\ new \in {"BLOCKED", "SLEEPING"}
      /\ new = "SLEEPING" <=> timed
  BY Zenon DEF States
<1>4. Switched(st)
  <2> HIDE DEF new
  <2> QED BY <1>1, <1>3, FutexCurrent, LeaveReady, Zenon
<1> HIDE DEF new
<1>5. st \in [Procs -> States] /\ st[Main] \in {"READY", "RUNNING"}
  BY <1>1, <1>3, FutexCurrent, CurrentReady, SchedConstants, Zenon
<1>6. st[running] = new /\ \A p \in Procs : p # running => st[p] = state[p]
  BY FutexCurrent, CurrentReady, Zenon
<1> HIDE DEF st
<1>7. /\ at' = [at EXCEPT ![running] = "futex"]
      /\ at' \in [Procs -> Places] /\ at'[Main] = "user"
  <2>1. "futex" \in Places
    BY Zenon DEF Places
  <2> QED BY <1>1, <2>1, FutexCurrent, GotoReady, Zenon DEF Goto, Process
<1>8. FutexCounts'
  BY <1>1, <1>2, <1>7, FutexCurrent, CallerJoins, Zenon
<1>9. SleepersAre(st, sleepq')
  <2>1. running \notin Range(sleepq) /\ sleepq \in Seq(Procs) /\ NoDuplicates(sleepq)
    BY <1>2, FutexCurrent, Zenon DEF SleepersAre
  <2>2. CASE timed
    <3>1. PICK i \in 0..Len(sleepq) : sleepq' = LinkAfter(sleepq, i, running)
      BY <1>1, <2>2, Zenon
    <3>2. /\ sleepq' \in Seq(Procs) /\ NoDuplicates(sleepq')
          /\ Range(sleepq') = Range(sleepq) \cup {running}
      BY <1>2, <2>1, <3>1, LinkAfterExact
    <3> QED BY <1>2, <1>3, <1>6, <2>2, <3>2, FutexCurrent, Zenon DEF SleepersAre
  <2>3. CASE ~timed
    BY <1>1, <1>2, <1>3, <1>6, <2>1, <2>3, FutexCurrent, Zenon DEF SleepersAre
  <2> QED BY <2>2, <2>3, Zenon
<1>10. QueuesAre(st, fkey', fq')
  <2>1. /\ Append(fq[k], running) \in Seq(Procs) /\ NoDuplicates(Append(fq[k], running))
        /\ Range(Append(fq[k], running)) = Range(fq[k]) \cup {running}
    <3>1. fq[k] \in Seq(Procs) /\ NoDuplicates(fq[k]) /\ running \notin Range(fq[k])
      BY <1>2, FutexCurrent, Zenon DEF QueuesAre
    <3> QED BY <1>2, <3>1, AppendExact
  <2>2. /\ fkey' \in [Procs -> Keys \cup {NoKey}] /\ fq' \in [Keys -> Seq(Procs)]
        /\ fkey'[running] = k /\ \A p \in Procs : p # running => fkey'[p] = fkey[p]
        /\ fq'[k] = Append(fq[k], running) /\ \A j \in Keys : j # k => fq'[j] = fq[j]
    BY <1>1, <1>2, <2>1, FutexTypes, Zenon
  <2>3. \A p \in Procs : Waits(st, p) <=> Waits(state, p) \/ p = running
    BY <1>2, <1>3, <1>6, Zenon DEF Waits
  <2>4. ASSUME NEW j \in Keys
        PROVE  /\ NoDuplicates(fq'[j])
               /\ \A p \in Procs : p \in Range(fq'[j]) <=> Waits(st, p) /\ fkey'[p] = j
    <3>1. /\ NoDuplicates(fq[j])
          /\ \A p \in Procs : p \in Range(fq[j]) <=> Waits(state, p) /\ fkey[p] = j
      BY FutexCurrent, Zenon DEF QueuesAre
    <3>2. CASE j = k
      BY <1>2, <2>1, <2>2, <2>3, <3>1, <3>2, Zenon
    <3>3. CASE j # k
      BY <1>2, <2>2, <2>3, <3>1, <3>3, Zenon
    <3> QED BY <3>2, <3>3, Zenon
  <2> QED BY <2>2, <2>4, Zenon DEF QueuesAre
<1>11. CallsAre(st, at', fkey', call')
  <2>1. \A p \in Procs : p # running => /\ at'[p] = at[p] /\ call'[p] = call[p]
                                        /\ fkey'[p] = fkey[p] /\ st[p] = state[p]
    BY <1>1, <1>6, <1>7, FutexTypes, Zenon
  <2>2. at'[running] = "futex" /\ fkey'[running] = k /\ call'[running].key = k /\ Waits(st, running)
    BY <1>1, <1>2, <1>3, <1>6, <1>7, FutexTypes, Zenon DEF Waits
  <2> QED BY <2>1, <2>2, FutexCalled, Zenon DEF CallsAre, Waits
<1>12. \A j \in Keys : j \in table' => refCount'[j] > 0
  <2>1. refCount[k] \in Nat
    BY FutexTypes, Zenon
  <2>2. \A j \in Keys : refCount'[j] = IF j = k THEN refCount[k] + 1 ELSE refCount[j]
    BY <1>1, FutexTypes, Zenon
  <2>3. refCount[k] + 1 > 0
    BY <2>1
  <2> QED BY <1>1, <2>2, <2>3, FutexTable, Zenon
<1>13. FutexWaiters'
  BY <1>1, <1>4, <1>5, <1>7, <1>9, <1>10, <1>11, <1>12, FutexCurrent, FutexAssemble, Zenon
<1>14. NoLostWake'
  <2>1. ASSUME NEW j \in Keys, NEW p \in WaitingOn(j)', call'[p].val # word[j]
        PROVE  j \in owed
    <3>1. p \in Procs /\ Waits(state', p) /\ at'[p] = "futex" /\ call'[p].key = j
      BY Zenon DEF WaitingOn, Waits
    <3>2. p # running
      BY <1>1, <1>2, <2>1, <3>1, FutexCurrent, Zenon DEF FutexCounts
    <3>3. Waits(state, p) /\ at[p] = "futex" /\ call'[p] = call[p]
      <4>2. at'[p] = at[p] /\ call'[p] = call[p]
        BY <1>1, <1>7, <3>1, <3>2, FutexTypes, Zenon
      <4>3. SameWaiting(state', st) /\ st[p] = state[p]
        BY <1>4, <1>6, <3>1, <3>2, Zenon DEF Switched
      <4>4. Waits(state, p)
        BY <3>1, <4>3, Zenon DEF SameWaiting, Waits
      <4> QED BY <3>1, <4>2, <4>4, Zenon
    <3> QED BY <2>1, <3>1, <3>3, FutexCurrent, Zenon DEF NoLostWake, WaitingOn, Waits
  <2> QED BY <1>1, <2>1, Zenon DEF NoLostWake
<1> QED BY <1>1, <1>8, <1>13, <1>14, FutexCurrent, Zenon DEF FutexInv

(* A queue that somebody's wait() refers to is in the table.               *)
LEMMA CallerCounted ==
    ASSUME Counting, FutexCounts, NEW k \in Keys
    PROVE  /\ IsFiniteSet(Callers(k))
           /\ refCount[k] = 0 => Callers(k) = {}
           /\ Callers(k) # {} => refCount[k] > 0 /\ k \in table
<1>1. IsFiniteSet(Callers(k))
  BY FutexConstants, Zenon DEF Callers, Counting, PartCount
<1>2. refCount[k] = 0 <=> Callers(k) = {}
  BY <1>1, Zenon DEF FutexCounts, Counting, EmptyCount
<1>3. refCount[k] \in Nat /\ (refCount[k] > 0 => k \in table)
  BY Zenon DEF FutexCounts
<1> QED BY <1>1, <1>2, <1>3

(* A call of wait() that returns; the queue may go when it was the last.   *)
LEMMA CallerLeaves ==
    ASSUME Counting, FutexCounts, NEW p \in Procs, NEW k \in Keys, at[p] = "futex", call[p].key = k,
           at' = [at EXCEPT ![p] = "kernel"], call' = [call EXCEPT ![p] = NoCall],
           table' = table \/ (refCount[k] = 1 /\ table' = table \ {k}),
           refCount' = [refCount EXCEPT ![k] = @ - 1]
    PROVE  FutexCounts' /\ Callers(k)' = Callers(k) \ {p}
<1>1. /\ Callers(k)' = Callers(k) \ {p} /\ p \in Callers(k)
      /\ \A j \in Keys : j # k => Callers(j)' = Callers(j)
  BY Zenon DEF Callers, FutexCounts, NoCall
<1>2. IsFiniteSet(Callers(k)) /\ refCount[k] > 0 /\ k \in table
  BY <1>1, CallerCounted, Zenon
<1>3. Cardinality(Callers(k)') = Cardinality(Callers(k)) - 1
  <2>1. Callers(k)' = Callers(k) \ {p} /\ p \in Callers(k)
    BY <1>1, Zenon
  <2>2. Cardinality(Callers(k) \ {p}) = Cardinality(Callers(k)) - 1
    BY <1>2, <2>1, Zenon DEF Counting, RemoveCount
  <2> QED BY <2>1, <2>2, Zenon
<1>4. refCount' \in [Keys -> Nat] /\ table' \subseteq Keys
  BY <1>2 DEF FutexCounts
<1>5. call' \in [Procs -> [key : Keys \cup {NoKey}, val : Words \cup {0}]]
  BY Zenon DEF FutexCounts, NoCall
<1>6. \A q \in Procs : at'[q] = "futex" => call'[q].key \in Keys
  BY Zenon DEF FutexCounts
<1>7. \A j \in Keys : refCount'[j] = Cardinality(Callers(j)')
  BY <1>1, <1>3, Zenon DEF FutexCounts
<1>8. \A j \in Keys : refCount'[j] > 0 => j \in table'
  BY <1>2 DEF FutexCounts
<1>9. at' \in [Procs -> Places]
  BY Zenon DEF FutexCounts, Places
<1> QED BY <1>1, <1>4, <1>5, <1>6, <1>7, <1>8, <1>9, Zenon DEF FutexCounts

(* The rest of wait(): the last caller deletes the queue, which is empty.  *)
LEMMA FutexReturnsFromWait ==
    ASSUME Counting, FutexInv, ~expired, FutexResume
    PROVE  FutexInv'
<1>1. PICK k \in Keys : k = call[running].key
  BY FutexCurrent, CurrentReady, Zenon DEF FutexResume, FutexCounts
<1>2. /\ ~halted /\ at[running] = "futex"
      /\ refCount' = [refCount EXCEPT ![k] = @ - 1]
      /\ table' = TableAfter(k, refCount[k] - 1, fq[k])
      /\ fkey' = [fkey EXCEPT ![running] = NoKey]
      /\ call' = [call EXCEPT ![running] = NoCall]
      /\ NoSwitch(state, ready) /\ Goto("kernel")
      /\ UNCHANGED <<sleepq, semVars, word, fq, owed, expired>>
  BY <1>1, Zenon DEF FutexResume
<1>3. /\ running \in Procs /\ state[running] = "RUNNING" /\ ~Waits(state, running)
      /\ running # Main
  BY <1>2, FutexCurrent, CurrentReady, Zenon DEF Waits, ReadyInv, MainAlive
<1>4. /\ at' = [at EXCEPT ![running] = "kernel"]
      /\ at' \in [Procs -> Places] /\ at'[Main] = "user"
  <2>1. "kernel" \in Places
    BY Zenon DEF Places
  <2> QED BY <1>2, <1>3, <2>1, FutexCurrent, GotoReady, Zenon DEF Goto, Process
<1>5. refCount[k] \in Nat /\ (table' = table \/ (refCount[k] = 1 /\ table' = table \ {k}))
  <2>1. refCount[k] \in Nat
    BY FutexTypes, Zenon
  <2>2. refCount[k] - 1 = 0 => refCount[k] = 1
    BY <2>1
  <2> QED BY <1>2, <2>1, <2>2, Zenon DEF TableAfter
<1>6. FutexCounts' /\ Callers(k)' = Callers(k) \ {running}
  BY <1>1, <1>2, <1>3, <1>4, <1>5, FutexCurrent, CallerLeaves, Zenon
<1>7. Switched(state)
  BY <1>2, FutexCurrent, CurrentReady, NoSwitchExact, Zenon DEF Switched, ReadyInv
<1>8. SleepersAre(state, sleepq')
  BY <1>2, FutexCurrent, Zenon DEF SleepersAre
<1>9. QueuesAre(state, fkey', fq')
  <2>1. /\ fkey' \in [Procs -> Keys \cup {NoKey}]
        /\ \A p \in Procs : p # running => fkey'[p] = fkey[p]
    BY <1>2, FutexTypes, Zenon
  <2>2. \A p \in Procs, j \in Keys :
           (Waits(state, p) /\ fkey[p] = j) <=> (Waits(state, p) /\ fkey'[p] = j)
    BY <1>3, <2>1, Zenon
  <2>3. fq' = fq
    BY <1>2, Zenon
  <2>4. ASSUME NEW j \in Keys
        PROVE  /\ NoDuplicates(fq[j])
               /\ \A p \in Procs : p \in Range(fq[j]) <=> Waits(state, p) /\ fkey'[p] = j
    BY <2>2, FutexQueued, Zenon DEF QueuesAre
  <2> QED BY <2>1, <2>3, <2>4, FutexTypes, Zenon DEF QueuesAre
<1>10. CallsAre(state, at', fkey', call')
  <2>1. \A p \in Procs : p # running => /\ at'[p] = at[p] /\ call'[p] = call[p]
                                        /\ fkey'[p] = fkey[p]
    BY <1>2, <1>3, <1>4, FutexTypes, Zenon
  <2>2. at'[running] = "kernel" /\ fkey'[running] = NoKey
    BY <1>2, <1>3, <1>4, FutexTypes, Zenon
  <2> QED BY <1>3, <2>1, <2>2, FutexCalled, Zenon DEF CallsAre
<1>11. \A j \in Keys : j \in table' => refCount'[j] > 0
  <2>1. CASE refCount[k] = 1
    <3>1. refCount'[k] = 0
      <4>1. refCount'[k] = refCount[k] - 1
        BY <1>2, FutexTypes, Zenon
      <4> QED BY <2>1, <4>1
    <3>2. Callers(k)' = {}
      <4>1. IsFiniteSet(Callers(k)')
        BY <1>6, FutexCurrent, CallerCounted, Zenon DEF Counting, PartCount
      <4>2. Cardinality(Callers(k)') = 0
        BY <1>6, <3>1, Zenon DEF FutexCounts
      <4> QED BY <4>1, <4>2, Zenon DEF Counting, EmptyCount
    <3>3. Range(fq[k]) = {}
      <4>1. fq[k] \in Seq(Procs)
        BY <1>3, FutexCurrent, Zenon DEF QueuesAre
      <4>2. \A p \in Procs : p \notin Range(fq[k])
        <5> TAKE p \in Procs
        <5>1. p \in Range(fq[k]) => Waits(state, p) /\ fkey[p] = k
          BY FutexQueued, Zenon DEF QueuesAre
        <5>2. Waits(state, p) => at[p] = "futex" /\ fkey[p] = call[p].key
          BY FutexCalled, Zenon DEF CallsAre
        <5>3. p \in Range(fq[k]) => p \in Callers(k) \ {running}
          BY <1>3, <5>1, <5>2, Zenon DEF Callers
        <5> QED BY <1>6, <3>2, <5>3, Zenon
      <4> QED BY <4>1, <4>2, SeqRange, Zenon
    <3>4. fq[k] = <<>>
      <4>1. fq[k] \in Seq(Procs)
        BY FutexCurrent, Zenon DEF QueuesAre
      <4> QED BY <3>3, <4>1, EmptyRange, Zenon
    <3>5. table' = table \ {k}
      BY <1>2, <2>1, <3>4 DEF TableAfter
    <3> QED BY <1>2, <1>3, <3>5, FutexCurrent, Zenon DEF FutexCounts
  <2>2. CASE refCount[k] # 1
    <3>1. table' = table /\ refCount[k] \in Nat
      BY <1>5, <2>2, Zenon
    <3>2. \A j \in Keys : refCount'[j] = IF j = k THEN refCount[k] - 1 ELSE refCount[j]
      BY <1>2, FutexTypes, Zenon
    <3>3. refCount[k] > 0 => refCount[k] - 1 > 0
      BY <2>2, <3>1
    <3> QED BY <3>1, <3>2, <3>3, FutexTable, Zenon
  <2> QED BY <2>1, <2>2, Zenon
<1>12. FutexWaiters'
  BY <1>2, <1>4, <1>7, <1>8, <1>9, <1>10, <1>11, FutexCurrent, CurrentReady, FutexAssemble, Zenon
<1>13. NoLostWake'
  <2>1. ASSUME NEW j \in Keys, NEW p \in WaitingOn(j)', call'[p].val # word[j]
        PROVE  j \in owed
    <3>1. p \in Procs /\ Waits(state', p) /\ at'[p] = "futex" /\ call'[p].key = j
      BY Zenon DEF WaitingOn, Waits
    <3>2. p # running
      BY <1>3, <1>4, <3>1, FutexCurrent, Zenon DEF FutexCounts
    <3>3. Waits(state, p) /\ at[p] = "futex" /\ call'[p] = call[p]
      BY <1>2, <1>3, <1>4, <3>1, <3>2, FutexCurrent, Zenon DEF NoSwitch, FutexCounts
    <3> QED BY <2>1, <3>1, <3>3, FutexCurrent, Zenon DEF NoLostWake, WaitingOn, Waits
  <2> QED BY <1>2, <2>1, Zenon DEF NoLostWake
<1> QED BY <1>2, <1>6, <1>12, <1>13, FutexCurrent, Zenon DEF FutexInv

(* wake(): the PCBs it pops are READY and in no queue; one that sleeps ends *)
(* the part of a behaviour the queues are exact in.                        *)
LEMMA FutexWakes ==
    ASSUME FutexInv, ~expired, NEW k \in Keys, NEW count \in Counts, FutexWake(k, count)
    PROVE  FutexInv'
<1>1. PICK n : n = IF k \notin table THEN 0 ELSE IF count < Len(fq[k]) THEN count ELSE Len(fq[k])
  BY Zenon
<1>2. PICK popped, sleeping : /\ popped = SubSeq(fq[k], 1, n)
                              /\ sleeping = {p \in Range(popped) : state[p] = "SLEEPING"}
  BY Zenon
<1>3. /\ at[running] = "user"
      /\ fq' = [fq EXCEPT ![k] = SubSeq(@, n + 1, Len(@))]
      /\ table' = IF k \in table THEN TableAfter(k, refCount[k], fq'[k]) ELSE table
      /\ state' = [p \in Procs |-> IF p \in Range(popped) \ sleeping THEN "READY" ELSE state[p]]
      /\ sleeping = {} => sleepq' = sleepq
      /\ ready' = ready \o popped
      /\ halted' = \/ \E p \in sleeping : p \notin Range(sleepq)
                   \/ \E p \in Range(popped) : p \in Range(ready) \cup {running}
      /\ owed' = IF fq'[k] = <<>> THEN owed \ {k} ELSE owed
      /\ expired' = (expired \/ sleeping # {})
      /\ Goto("kernel")
      /\ UNCHANGED <<running, slice, semVars, word, refCount, fkey, call>>
  BY <1>1, <1>2, Zenon DEF FutexWake, Interruptible
<1>4. /\ at' \in [Procs -> Places] /\ at'[Main] = "user"
      /\ \A p \in Procs : at'[p] = "futex" <=> at[p] = "futex"
  <2>1. "kernel" \in Places \ {"futex"}
    BY Zenon DEF Places
  <2> QED BY <1>3, <2>1, FutexCurrent, GotoKeeps, Zenon
<1>5. FutexCounts'
  <2>1. \A j \in Keys : Callers(j)' = Callers(j)
    BY <1>3, <1>4, Zenon DEF Callers
  <2>2. table' \subseteq table /\ \A j \in Keys : j \in table /\ refCount[j] > 0 => j \in table'
    <3>1. table' = table \/ (refCount[k] = 0 /\ table' = table \ {k})
      BY <1>3, Zenon DEF TableAfter
    <3>2. refCount[k] = 0 => ~(refCount[k] > 0)
      OBVIOUS
    <3> QED BY <3>1, <3>2, Zenon
  <2>3. /\ table \subseteq Keys /\ refCount \in [Keys -> Nat]
        /\ call \in [Procs -> [key : Keys \cup {NoKey}, val : Words \cup {0}]]
        /\ \A p \in Procs : at[p] = "futex" => call[p].key \in Keys
        /\ \A j \in Keys : /\ refCount[j] = Cardinality(Callers(j))
                           /\ refCount[j] > 0 => j \in table
    BY FutexCounted, Zenon DEF FutexCounts
  <2>4. refCount' = refCount /\ call' = call /\ table' \subseteq Keys
    BY <1>3, <2>2, <2>3, Zenon
  <2>5. \A j \in Keys : /\ refCount'[j] = Cardinality(Callers(j)')
                        /\ refCount'[j] > 0 => j \in table'
    BY <2>1, <2>2, <2>3, <2>4, Zenon
  <2>6. \A p \in Procs : at'[p] = "futex" => call'[p].key \in Keys
    BY <1>4, <2>3, <2>4, Zenon
  <2> QED BY <1>4, <2>3, <2>4, <2>5, <2>6, Zenon DEF FutexCounts
<1>6. CASE sleeping # {}
  BY <1>3, <1>5, <1>6, FutexCurrent, Zenon DEF FutexInv
<1>7. CASE sleeping = {}
  <2>1. fq[k] \in Seq(Procs) /\ NoDuplicates(fq[k]) /\ Len(fq[k]) \in Nat
    BY FutexCurrent, SeqLength, Zenon DEF QueuesAre
  <2>2. n \in 0..Len(fq[k])
    <3>1. count \in Nat
      BY FutexConstants, Zenon
    <3> QED BY <1>1, <2>1, <3>1
  <2>3. PICK rest : rest = SubSeq(fq[k], n + 1, Len(fq[k]))
    BY Zenon
  <2>4. /\ popped \in Seq(Procs) /\ NoDuplicates(popped) /\ Range(popped) \subseteq Range(fq[k])
        /\ rest \in Seq(Procs) /\ NoDuplicates(rest)
        /\ Range(rest) = Range(fq[k]) \ Range(popped)
    BY <1>2, <2>1, <2>2, <2>3, SplitExact
  <2>5. \A p \in Range(popped) : p \in Procs /\ state[p] = "BLOCKED" /\ fkey[p] = k
    <3>1. Range(popped) \subseteq Procs
      BY <2>4, SeqRange, Zenon
    <3> QED BY <1>2, <1>7, <2>4, <3>1, FutexCurrent, Zenon DEF QueuesAre, Waits
  <2>6. /\ state' \in [Procs -> States]
        /\ \A p \in Procs : state'[p] = IF p \in Range(popped) THEN "READY" ELSE state[p]
    BY <1>3, <1>7, FutexCurrent, CurrentReady, Zenon DEF States
  <2>7. halted' = FALSE
    BY <1>3, <1>7, <2>5, FutexCurrent, CurrentReady, Zenon DEF ReadyIs
  <2>8. /\ ready' \in Seq(Procs) /\ NoDuplicates(ready')
        /\ Range(ready') = Range(ready) \cup Range(popped)
    <3>1. ready \in Seq(Procs) /\ NoDuplicates(ready) /\ Range(ready) \cap Range(popped) = {}
      BY <2>5, FutexCurrent, CurrentReady, Zenon DEF ReadyIs
    <3>2. popped \in Seq(Procs) /\ NoDuplicates(popped) /\ ready' = ready \o popped
      BY <1>3, <2>4, Zenon
    <3> QED BY <3>1, <3>2, ConcatExact
  <2>9. Switched(state')
    <3>1. ReadyListExact'
      <4>1. \A p \in Procs : p \in Range(ready') <=> state'[p] = "READY"
        BY <2>6, <2>8, FutexCurrent, CurrentReady, Zenon DEF ReadyIs
      <4>2. \A p \in Procs : p = running' <=> state'[p] = "RUNNING"
        BY <1>3, <2>5, <2>6, FutexCurrent, CurrentReady, Zenon
      <4> QED BY <2>8, <4>1, <4>2, Zenon DEF ReadyListExact
    <3> QED BY <1>3, <2>6, <2>7, <2>8, <3>1, FutexCurrent, CurrentReady, Zenon DEF Switched, SameWaiting
  <2>10. state'[Main] \in {"READY", "RUNNING"}
    BY <2>6, FutexCurrent, CurrentReady, SchedConstants, Zenon
  <2>11. SleepersAre(state', sleepq')
    BY <1>3, <1>7, <2>5, <2>6, FutexCurrent, Zenon DEF SleepersAre
  <2>12. /\ fq' \in [Keys -> Seq(Procs)] /\ fq'[k] = rest
         /\ \A j \in Keys : j # k => fq'[j] = fq[j]
    BY <1>3, <2>3, <2>4, FutexTypes, Zenon
  <2>13. \A p \in Procs : Waits(state', p) <=> Waits(state, p) /\ p \notin Range(popped)
    BY <2>6, Zenon DEF Waits
  <2>14. QueuesAre(state', fkey', fq')
    <3>1. ASSUME NEW j \in Keys
          PROVE  /\ NoDuplicates(fq'[j])
                 /\ \A p \in Procs : p \in Range(fq'[j]) <=> Waits(state', p) /\ fkey'[p] = j
      <4>1. /\ NoDuplicates(fq[j])
            /\ \A p \in Procs : p \in Range(fq[j]) <=> Waits(state, p) /\ fkey[p] = j
        BY FutexCurrent, Zenon DEF QueuesAre
      <4>2. CASE j = k
        BY <1>3, <2>4, <2>12, <2>13, <4>1, <4>2, Zenon
      <4>3. CASE j # k
        <5>1. fq'[j] = fq[j] /\ fkey' = fkey
          BY <1>3, <2>12, <4>3, Zenon
        <5>2. \A p \in Procs : fkey[p] = j => p \notin Range(popped)
          BY <2>5, <4>3, Zenon
        <5> QED BY <2>13, <4>1, <5>1, <5>2, Zenon
      <4> QED BY <4>2, <4>3, Zenon
    <3> QED BY <1>3, <2>12, <3>1, FutexCurrent, Zenon DEF QueuesAre
  <2>15. CallsAre(state', at', fkey', call')
    BY <1>3, <1>4, <2>6, <2>13, FutexCurrent, Zenon DEF CallsAre
  <2>16. \A j \in Keys : j \in table' => refCount'[j] > 0
    BY <1>3, FutexCurrent, Zenon DEF TableAfter
  <2>17. FutexWaiters'
    BY <1>3, <1>4, <2>6, <2>9, <2>10, <2>11, <2>14, <2>15, <2>16, FutexCurrent, FutexAssemble, Zenon
  <2>18. NoLostWake'
    <3>1. ASSUME NEW j \in Keys, NEW p \in WaitingOn(j)', call'[p].val # word[j]
          PROVE  j \in owed'
      <4>1. p \in Procs /\ Waits(state', p) /\ at'[p] = "futex" /\ call'[p].key = j
        BY Zenon DEF WaitingOn, Waits
      <4>2. j \in owed
        BY <1>3, <1>4, <2>13, <3>1, <4>1, FutexCurrent, Zenon DEF NoLostWake, WaitingOn, Waits
      <4>3. CASE j = k
        <5>1. p \in Range(rest)
          BY <2>12, <2>14, <2>15, <4>1, <4>3, Zenon DEF QueuesAre, CallsAre
        <5>2. rest # <<>>
          BY <2>4, <5>1, EmptyRange, Zenon
        <5> QED BY <1>3, <2>12, <4>2, <5>2, Zenon
      <4>4. CASE j # k
        BY <1>3, <4>2, <4>4, Zenon
      <4> QED BY <4>3, <4>4, Zenon
    <3> QED BY <1>3, <3>1, Zenon DEF NoLostWake
  <2> QED BY <1>3, <1>5, <1>7, <2>17, <2>18, FutexCurrent, Zenon DEF FutexInv
<1> QED BY <1>6, <1>7, Zenon

(* Process::kill: forceRemove() finds the queue the target waits in.       *)
LEMMA FutexKills ==
    ASSUME Counting, FutexInv, ~expired, NEW p \in Procs, FutexKill(p)
    PROVE  FutexInv'
<1>1. /\ LeaveQueues(state, p) /\ state' = Woken(state, p) /\ ready' = WokenList(state, ready, p)
      /\ halted' = Hangs(state, p) /\ Goto("kernel") /\ running' = running /\ slice' = slice
      /\ at[running] \in {"user", "kernel"}
      /\ UNCHANGED <<word, table, refCount, call, owed, expired>>
  BY Zenon DEF FutexKill, Kill, InKernel
<1>2. /\ at' \in [Procs -> Places] /\ at'[Main] = "user"
      /\ \A r \in Procs : at'[r] = "futex" <=> at[r] = "futex"
  <2>1. "kernel" \in Places \ {"futex"} /\ at[running] # "futex"
    BY <1>1, Zenon DEF Places
  <2> QED BY <1>1, <2>1, FutexCurrent, GotoKeeps, Zenon
<1>3. FutexCounts'
  BY <1>1, <1>2, FutexCurrent, CountsKept, Zenon
<1>4. halted' = halted
  <2>1. ~Hangs(state, p) /\ Hangs(state, p) \in BOOLEAN
    BY FutexCurrent, Zenon DEF Hangs, SleepersAre
  <2>2. halted = FALSE
    BY FutexCurrent, CurrentReady, Zenon DEF TypeOK
  <2> QED BY <1>1, <2>1, <2>2, Zenon
<1>5. CASE ~Wakeable(state, p)
  <2>1. UNCHANGED <<sleepq, semVars>> /\ NoSwitch(state, ready) /\ UNCHANGED <<fq, fkey>>
    BY <1>1, <1>4, <1>5, Zenon DEF LeaveQueues, Woken, WokenList, NoSwitch, FutexKill
  <2>2. Frame
    BY <1>1, <2>1, FutexCurrent, Zenon DEF Frame, TimesOut
  <2>3. Switched(state)
    BY <2>1, FutexCurrent, CurrentReady, NoSwitchExact, Zenon DEF Switched, ReadyInv
  <2> QED BY <1>2, <2>1, <2>2, <2>3, FutexCurrent, CurrentReady, FutexQuiet, Zenon
<1>6. CASE Wakeable(state, p)
  <2> DEFINE st == [state EXCEPT ![p] = "READY"]
  <2>1. Waits(state, p) /\ state[p] \notin {"READY", "RUNNING"}
    BY <1>6, Zenon DEF Wakeable, Waits
  <2>2. PICK k \in Keys : k = fkey[p] /\ k \in table
    <3>1. at[p] = "futex" /\ fkey[p] = call[p].key /\ fkey[p] \in Keys
      BY <2>1, FutexCurrent, Zenon DEF CallsAre, FutexCounts
    <3>2. p \in Callers(fkey[p])
      BY <3>1, Zenon DEF Callers
    <3> QED BY <3>1, <3>2, FutexCurrent, CallerCounted, Zenon
  <2>3. /\ fq' = [fq EXCEPT ![k] = Unlink(@, p)] /\ fkey' = [fkey EXCEPT ![p] = NoKey]
    BY <1>6, <2>2, FutexConstants, Zenon DEF FutexKill
  <2>4. /\ UNCHANGED semVars
        /\ sleepq' = IF state[p] = "SLEEPING" THEN Unlink(sleepq, p) ELSE sleepq
    <3>1. waitingOn[p] = NoSem /\ waitingOn \in [Procs -> Sems \cup {NoSem}]
      BY FutexCurrent, Zenon DEF TypeOK
    <3> QED BY <1>1, <1>6, <3>1, Zenon DEF LeaveQueues, semVars
  <2>5. NoSwitch(st, Append(ready, p))
    BY <1>1, <1>4, <1>6, Zenon DEF NoSwitch, Woken, WokenList
  <2>6. /\ st \in [Procs -> States] /\ Append(ready, p) \in Seq(Procs)
        /\ ReadyIs(st, Append(ready, p))
        /\ \A r \in Procs : r = running <=> st[r] = "RUNNING"
        /\ st[Main] \in {"READY", "RUNNING"}
    BY <2>1, PutReady, FutexCurrent, Zenon
  <2>7. st[p] = "READY" /\ \A r \in Procs : r # p => st[r] = state[r]
    BY FutexCurrent, CurrentReady, Zenon
  <2> HIDE DEF st
  <2>8. Switched(st) /\ state' = st
    BY <2>5, <2>6, NoSwitchExact, FutexCurrent, Zenon DEF Switched, ReadyInv, NoSwitch
  <2>9. SleepersAre(st, sleepq')
    <3>1. /\ Unlink(sleepq, p) \in Seq(Procs) /\ NoDuplicates(Unlink(sleepq, p))
          /\ Range(Unlink(sleepq, p)) = Range(sleepq) \ {p}
      BY UnlinkExact, FutexCurrent, Zenon DEF SleepersAre
    <3>2. CASE state[p] = "SLEEPING"
      BY <2>4, <2>7, <3>1, <3>2, FutexCurrent, Zenon DEF SleepersAre
    <3>3. CASE state[p] # "SLEEPING"
      BY <2>4, <2>7, <3>3, FutexCurrent, Zenon DEF SleepersAre
    <3> QED BY <3>2, <3>3, Zenon
  <2>10. /\ Unlink(fq[k], p) \in Seq(Procs) /\ NoDuplicates(Unlink(fq[k], p))
         /\ Range(Unlink(fq[k], p)) = Range(fq[k]) \ {p}
    <3>1. fq[k] \in Seq(Procs) /\ NoDuplicates(fq[k])
      BY FutexQueued, Zenon DEF QueuesAre
    <3> QED BY <3>1, UnlinkExact, Zenon
  <2>11. /\ fkey' \in [Procs -> Keys \cup {NoKey}] /\ fq' \in [Keys -> Seq(Procs)]
         /\ fkey'[p] = NoKey /\ \A r \in Procs : r # p => fkey'[r] = fkey[r]
         /\ fq'[k] = Unlink(fq[k], p) /\ \A j \in Keys : j # k => fq'[j] = fq[j]
    BY <2>3, <2>10, FutexTypes, Zenon
  <2>12. \A r \in Procs : Waits(st, r) <=> Waits(state, r) /\ r # p
    BY <2>7, Zenon DEF Waits
  <2>13. QueuesAre(st, fkey', fq')
    <3>1. ASSUME NEW j \in Keys
          PROVE  /\ NoDuplicates(fq'[j])
                 /\ \A r \in Procs : r \in Range(fq'[j]) <=> Waits(st, r) /\ fkey'[r] = j
      <4>1. /\ NoDuplicates(fq[j])
            /\ \A r \in Procs : r \in Range(fq[j]) <=> Waits(state, r) /\ fkey[r] = j
        BY FutexCurrent, Zenon DEF QueuesAre
      <4>2. CASE j = k
        BY <2>10, <2>11, <2>12, <4>1, <4>2, Zenon
      <4>3. CASE j # k
        BY <2>2, <2>11, <2>12, <4>1, <4>3, Zenon
      <4> QED BY <4>2, <4>3, Zenon
    <3> QED BY <2>11, <3>1, Zenon DEF QueuesAre
  <2>14. CallsAre(st, at', fkey', call')
    <3>1. call' = call
      BY <1>1, Zenon
    <3> QED BY <1>2, <2>7, <2>11, <2>12, <3>1, FutexCalled, Zenon DEF CallsAre
  <2>15. FutexWaiters'
    BY <1>1, <1>2, <2>4, <2>6, <2>8, <2>9, <2>13, <2>14, FutexCurrent, FutexAssemble, Zenon
  <2>16. NoLostWake'
    BY <1>1, <1>2, <2>8, <2>12, FutexCurrent, LostWakeKept, Zenon
  <2> QED BY <1>1, <1>3, <2>15, <2>16, FutexCurrent, Zenon DEF FutexInv
<1> QED BY <1>5, <1>6, Zenon

(* A step that changes nothing keeps the invariant.                        *)
LEMMA FutexStutter ==
    ASSUME FutexInv, UNCHANGED allVars
    PROVE  FutexInv'
<1>1. UNCHANGED <<state, running, ready, slice, sleepq, value, blocked, waitingOn, at, halted>>
      /\ UNCHANGED <<word, table, fq, refCount, fkey, call, owed, expired>>
  BY Zenon DEF allVars, vars, semVars, futexVars
<1>2. FutexCounts'
  BY <1>1, CountsKept, Zenon DEF FutexInv, FutexCounts
<1>3. NoLostWake <=> NoLostWake'
  BY <1>1, Zenon DEF NoLostWake, WaitingOn
<1>4. ReadyInv => ReadyInv'
  BY <1>1, Zenon DEF ReadyInv, TypeOK, ReadyListExact, NeverHalts, MainAlive
<1>5. FutexWaiters => FutexWaiters'
  BY <1>1, <1>4, Zenon DEF FutexWaiters
<1> QED BY <1>1, <1>2, <1>3, <1>5, Zenon DEF FutexInv

-----------------------------------------------------------------------------
INSTANCE FiniteSetTheorems

(* The least of some numbers, as the library has it.                       *)
LEMMA LeastHolds == LeastNumber
<1> SUFFICES ASSUME NEW S \in SUBSET Nat, S # {}
             PROVE  \E x \in S : \A y \in S : x <= y
  BY Zenon DEF LeastNumber
<1>1. PICK x \in S : \A y \in S : ~ (<<y, x>> \in OpToRel(<, Nat))
  BY NatLessThanWellFounded, WFMin, Zenon
<1>2. ASSUME NEW y \in S PROVE x <= y
  <2>1. <<y, x>> \in Nat \X Nat
    BY Zenon
  <2>2. <<y, x>>[1] = y /\ <<y, x>>[2] = x
    BY Zenon
  <2>3. ~(y < x)
    BY <1>1, <2>1, <2>2, Zenon DEF OpToRel
  <2>4. x \in Nat /\ y \in Nat
    BY Zenon
  <2> QED BY ONLY <2>3, <2>4
<1> QED BY <1>2, Zenon

(* The facts about finite sets the steps assume, from the library.         *)
LEMMA CountingHolds == Counting
<1>1. EmptyCount /\ SingleCount /\ IntervalCount
  BY FS_EmptySet, FS_Singleton, FS_CardinalityType, FS_Interval, Zenon
     DEF EmptyCount, SingleCount, IntervalCount
<1>2. AddCount /\ RemoveCount
  BY FS_AddElement, FS_RemoveElement, Zenon DEF AddCount, RemoveCount
<1>3. PartCount /\ UnionCount
  BY FS_Subset, FS_Union, Zenon DEF PartCount, UnionCount
<1>4. LessCount /\ ProductCount
  BY FS_Difference, FS_Product, Zenon DEF LessCount, ProductCount
<1>5. SameCount
  BY FS_Bijection, Zenon DEF SameCount
<1> QED BY <1>1, <1>2, <1>3, <1>4, <1>5, LeastHolds, Zenon DEF Counting

(* At boot nobody waits.                                                   *)
LEMMA FutexStart ==
    ASSUME FutexInit
    PROVE  FutexInv
<1>1. Init /\ table = {} /\ fq = [k \in Keys |-> <<>>] /\ refCount = [k \in Keys |-> 0]
      /\ fkey = [p \in Procs |-> NoKey] /\ call = [p \in Procs |-> NoCall]
      /\ word = [k \in Keys |-> 0] /\ expired = FALSE
  BY Zenon DEF FutexInit
<1>2. IndInv
  BY <1>1, SchedInitially, Zenon
<1>3. at = [p \in Procs |-> "user"] /\ waitingOn = [p \in Procs |-> NoSem] /\ sleepq = <<>>
      /\ \A p \in Procs : state[p] \in {"RUNNING", "READY", "NONE"}
  BY <1>1, Zenon DEF Init
<1>4. FutexCounts
  <2>1. \A k \in Keys : Callers(k) = {}
    BY <1>3, Zenon DEF Callers
  <2>2. Cardinality({}) = 0
    BY FS_EmptySet, Zenon
  <2>3. at \in [Procs -> Places] /\ \A p \in Procs : at[p] # "futex"
    BY <1>3, Zenon DEF Places
  <2>4. call \in [Procs -> [key : Keys \cup {NoKey}, val : Words \cup {0}]]
    BY <1>1, Zenon DEF NoCall
  <2>5. refCount \in [Keys -> Nat] /\ \A k \in Keys : refCount[k] = 0
    BY <1>1, Zenon
  <2>6. \A k \in Keys : refCount[k] = Cardinality(Callers(k))
    BY <2>1, <2>2, <2>5, Zenon
  <2> QED BY <1>1, <2>3, <2>4, <2>5, <2>6 DEF FutexCounts
<1>5. SleepersAre(state, sleepq)
  BY <1>2, <1>3, Zenon DEF SleepersAre, IndInv, TypeOK, WaitersExact
<1>6. QueuesAre(state, fkey, fq)
  <2>1. <<>> \in Seq(Procs) /\ Range(<<>>) = {} /\ NoDuplicates(<<>>)
    <3>1. <<>> \in Seq(Procs) /\ Len(<<>>) = 0
      BY SeqEmpty, Zenon
    <3>2. Range(<<>>) = {}
      BY <3>1, EmptyRange, Zenon
    <3>3. NoDuplicates(<<>>)
      BY <3>1 DEF NoDuplicates
    <3> QED BY <3>1, <3>2, <3>3, Zenon
  <2> QED BY <1>1, <1>3, <2>1, Zenon DEF QueuesAre, Waits
<1>7. CallsAre(state, at, fkey, call)
  BY <1>1, <1>3, Zenon DEF CallsAre, Waits
<1>8. FutexWaiters
  BY <1>1, <1>2, <1>3, <1>5, <1>6, <1>7, Zenon DEF FutexWaiters, IndInv, ReadyInv
<1>9. NoLostWake
  BY <1>3, Zenon DEF NoLostWake, WaitingOn
<1> QED BY <1>1, <1>4, <1>8, <1>9, Zenon DEF FutexInv

(* Until a timeout comes into it every waiter is in the queue of its key,  *)
(* every queue in the table is referred to, and no wake is lost.           *)
THEOREM FutexInductive == FutexSpec => []FutexInv
<1>1. FutexInv /\ [FutexNext]_allVars => FutexInv'
  <2> SUFFICES ASSUME FutexInv, [FutexNext]_allVars PROVE FutexInv'
    BY Zenon
  <2>1. CASE UNCHANGED allVars
    BY <2>1, FutexStutter, Zenon
  <2>2. CASE FutexNext
    <3>1. ~expired
      BY <2>2, Zenon DEF FutexNext
    <3>2. CASE Core
      BY <3>1, <3>2, FutexTick, FutexCreate, FutexYield, FutexReturn, FutexExit, Zenon DEF Core
    <3>3. CASE \E k \in Keys, v \in Words : Store(k, v)
      BY <3>1, <3>3, FutexStore, Zenon
    <3>4. CASE \E k \in Keys, v \in Words, timed \in BOOLEAN : FutexWait(k, v, timed)
      BY <3>1, <3>4, FutexAgain, FutexEnqueue, CountingHolds, Zenon
    <3>5. CASE FutexResume
      BY <3>1, <3>5, FutexReturnsFromWait, CountingHolds, Zenon
    <3>6. CASE \E k \in Keys, count \in Counts : FutexWake(k, count)
      BY <3>1, <3>6, FutexWakes, Zenon
    <3>7. CASE \E p \in Procs : FutexKill(p)
      BY <3>1, <3>7, FutexKills, CountingHolds, Zenon
    <3> QED BY <2>2, <3>2, <3>3, <3>4, <3>5, <3>6, <3>7, Zenon DEF FutexNext
  <2> QED BY <2>1, <2>2, Zenon
<1>2. FutexInit => FutexInv
  BY FutexStart, Zenon
<1> QED BY <1>1, <1>2, PTL DEF FutexSpec

(* Futex::wait, wake, kill() and the waiter itself keep queues, table and  *)
(* reference counts exact, for any number of processes and keys.           *)
THEOREM FutexQueuesStayExact == FutexSpec => []FutexQueuesExact
<1>1. FutexInv => FutexQueuesExact
  <2> SUFFICES ASSUME FutexInv, NEW k \in Keys
               PROVE  /\ ~expired =>
                           /\ NoDuplicates(fq[k])
                           /\ Range(fq[k]) = {p \in Procs : /\ state[p] \in {"BLOCKED", "SLEEPING"}
                                                            /\ fkey[p] = k}
                      /\ refCount[k] = Cardinality(Callers(k))
                      /\ refCount[k] > 0 => k \in table
                      /\ ~expired /\ k \in table => refCount[k] > 0
    BY Zenon DEF FutexQueuesExact, Callers
  <2>1. refCount[k] = Cardinality(Callers(k)) /\ (refCount[k] > 0 => k \in table)
    BY Zenon DEF FutexInv, FutexCounts
  <2>2. ASSUME ~expired
        PROVE  /\ NoDuplicates(fq[k])
               /\ Range(fq[k]) = {p \in Procs : /\ state[p] \in {"BLOCKED", "SLEEPING"}
                                                /\ fkey[p] = k}
    <3>1. fq[k] \in Seq(Procs) /\ NoDuplicates(fq[k])
          /\ \A p \in Procs : p \in Range(fq[k]) <=> Waits(state, p) /\ fkey[p] = k
      BY <2>2, FutexCurrent, Zenon DEF QueuesAre
    <3>2. Range(fq[k]) \subseteq Procs
      BY <3>1, SeqRange, Zenon
    <3> QED BY <3>1, <3>2, Zenon DEF Waits
  <2>3. ~expired /\ k \in table => refCount[k] > 0
    BY FutexCurrent, Zenon
  <2> QED BY <2>1, <2>2, <2>3, Zenon
<1> QED BY <1>1, FutexInductive, PTL

(* Compare and enqueue are one step of Futex::wait, so that whoever waits  *)
(* on a word that has changed is still owed the wake.                      *)
THEOREM FutexLosesNoWake == FutexSpec => []NoLostWake
<1>1. FutexInv => NoLostWake
  BY Zenon DEF FutexInv, NoLostWake
<1> QED BY <1>1, FutexInductive, PTL

=============================================================================
