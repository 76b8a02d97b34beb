---------------------------- MODULE SleepQueue -----------------------------
(***************************************************************************)
(* The Scheduler of kernel/proc/scheduler.cpp: its ready list, which is an *)
(* IntrusiveList, and the sleep list.  Every sleeper holds the ticks it    *)
(* sleeps beyond its predecessor, so that a timer tick only decrements the *)
(* head.  putSleep() walks the list under the lock; the walk is modelled   *)
(* step by step, its links by the position in the list.                    *)
(***************************************************************************)
EXTENDS IntrusiveList

CONSTANTS
    MaxSleep,   \* bound on the sleep times asked for
    TimeMax     \* the largest time_t, 2^64 - 1

ASSUME SleepConstants ==
    /\ MaxSleep \in Nat /\ TimeMax \in Nat /\ MaxSleep <= TimeMax

VARIABLES
    q,          \* the list from m_sleepHead
    rel,        \* m_relativeSleepTime of every PCB
    arg, amount,\* the pcb and sleepTime of the putSleep() that is walking
    pos,        \* its prev is q[pos], its cur is q[pos + 1]
    elapsed,    \* its elapsed
    waking,     \* awake() is in its loop
    left,       \* history: ticks each sleeper still has to sleep as it asked
    due,        \* history: the sum of rel up to and including each sleeper
    exact       \* history: no sleeper was taken out between two others

putVars == <<arg, amount, pos, elapsed>>
sleepVars == <<q, rel, arg, amount, pos, elapsed, waking, left, due, exact>>

Times == 0..TimeMax

SleepTypeOK ==
    /\ TypeOK
    /\ q \in Seq(Pcbs)
    /\ rel \in [Pcbs -> Times]
    /\ arg \in Pcbs \cup {Null}
    /\ amount \in Times /\ elapsed \in Times /\ pos \in Nat
    /\ left \in [Pcbs -> Int] /\ due \in [Pcbs -> Int]
    /\ waking \in BOOLEAN /\ exact \in BOOLEAN

SchedulerInit ==
    /\ Init
    /\ q = <<>>
    /\ rel = [p \in Pcbs |-> 0]
    /\ arg = Null /\ amount = 0 /\ pos = 0 /\ elapsed = 0
    /\ left = [p \in Pcbs |-> 0] /\ due = [p \in Pcbs |-> 0]
    /\ waking = FALSE /\ exact = TRUE

Quiet == arg = Null /\ ~waking

\* time_t is unsigned: a - b wraps
Minus(a, b) == IF b <= a THEN a - b ELSE TimeMax + 1 + a - b

-----------------------------------------------------------------------------
(* The definitions named *Fault are plausible mistakes in the operation    *)
(* that follows them; no specification uses them.                          *)

PutSleepEmpty(p, t) ==
    \* putSleep(p, t), nobody asleep.  sys_nanosleep and Futex::wait call it
    \* only with t > 0; a PCB sleeps once at a time (WaitersExact of Sched).
    /\ Quiet /\ q = <<>> /\ p \notin Range(list)
    /\ q' = <<p>>
    /\ rel' = [rel EXCEPT ![p] = t]
    /\ left' = [left EXCEPT ![p] = t] /\ due' = [due EXCEPT ![p] = t]
    /\ UNCHANGED <<vars, waking, putVars, exact>>

PutSleepStart(p, t) ==
    /\ Quiet /\ q # <<>> /\ p \notin Range(q) \cup Range(list)
    /\ arg' = p /\ amount' = t /\ pos' = 0 /\ elapsed' = 0
    /\ UNCHANGED <<vars, waking, q, rel, left, due, exact>>

WalksOn == pos < Len(q) /\ elapsed + rel[q[pos + 1]] <= amount

PutSleepWalk ==
    /\ arg # Null /\ WalksOn
    /\ elapsed' = elapsed + rel[q[pos + 1]]
    /\ pos' = pos + 1
    /\ UNCHANGED <<vars, waking, q, rel, arg, amount, left, due, exact>>

PutSleepLinkFault ==
    \* the successor keeps its relative time
    /\ arg # Null /\ ~WalksOn
    /\ q' = LinkAfter(q, pos, arg)
    /\ rel' = [rel EXCEPT ![arg] = amount - elapsed]
    /\ left' = [left EXCEPT ![arg] = amount] /\ due' = [due EXCEPT ![arg] = amount]
    /\ arg' = Null /\ amount' = 0 /\ pos' = 0 /\ elapsed' = 0
    /\ UNCHANGED <<vars, waking, exact>>

PutSleepLink ==
    /\ arg # Null /\ ~WalksOn
    /\ LET own == Minus(amount, elapsed)
       IN  rel' = IF pos < Len(q)
                  THEN [rel EXCEPT ![arg] = own, ![q[pos + 1]] = Minus(@, own)]
                  ELSE [rel EXCEPT ![arg] = own]
    /\ q' = LinkAfter(q, pos, arg)
    /\ left' = [left EXCEPT ![arg] = amount] /\ due' = [due EXCEPT ![arg] = amount]
    /\ arg' = Null /\ amount' = 0 /\ pos' = 0 /\ elapsed' = 0
    /\ UNCHANGED <<vars, waking, exact>>

AwakeTick ==
    \* the timer tick
    /\ Quiet /\ q # <<>>
    /\ rel' = [rel EXCEPT ![q[1]] = Minus(@, 1)]
    /\ waking' = TRUE
    /\ left' = [p \in Pcbs |-> IF p \in Range(q) THEN left[p] - 1 ELSE left[p]]
    /\ due' = [p \in Pcbs |-> IF p \in Range(q) THEN due[p] - 1 ELSE due[p]]
    /\ UNCHANGED <<vars, q, putVars, exact>>

AwakePop ==
    \* the sleepers whose time has come leave one by one and become READY
    /\ waking
    /\ IF q # <<>> /\ rel[q[1]] = 0
       THEN q' = Tail(q) /\ Put(q[1]) /\ UNCHANGED waking
       ELSE waking' = FALSE /\ UNCHANGED <<vars, q>>
    /\ UNCHANGED <<rel, putVars, left, due, exact>>

WakeUpFirst(p) ==
    \* wakeUp(p), called by Process::kill and Futex::wake, which then put p
    \* into the ready list; for a PCB that does not sleep see NeverHalts in Sched
    /\ Quiet /\ q # <<>> /\ q[1] = p
    /\ q' = Tail(q)
    /\ rel' = IF Len(q) = 1 THEN [rel EXCEPT ![p] = 0]
              ELSE [rel EXCEPT ![p] = 0, ![q[2]] = @ + rel[p]]
    /\ left' = [left EXCEPT ![p] = 0]
    /\ Put(p)
    /\ UNCHANGED <<waking, putVars, due, exact>>

WakeUpLast(p) ==
    /\ Quiet /\ Len(q) > 1 /\ q[Len(q)] = p
    /\ q' = Unlink(q, p)
    /\ rel' = [rel EXCEPT ![p] = 0]
    /\ left' = [left EXCEPT ![p] = 0]
    /\ Put(p)
    /\ UNCHANGED <<waking, putVars, due, exact>>

WakeUpMiddle(p) ==
    \* the time p had left is added to p itself and then cleared: its
    \* successors are due earlier by it
    /\ Quiet
    /\ \E k \in 2..(Len(q) - 1) :
         /\ q[k] = p
         /\ due' = [x \in Pcbs |-> IF \E j \in (k + 1)..Len(q) : q[j] = x
                                   THEN due[x] - rel[p] ELSE due[x]]
    /\ q' = Unlink(q, p)
    /\ rel' = [rel EXCEPT ![p] = 0]
    /\ left' = [left EXCEPT ![p] = 0]
    /\ exact' = (exact /\ rel[p] = 0)
    /\ Put(p)
    /\ UNCHANGED <<waking, putVars>>

SchedulerPut(p) ==
    \* a PCB that is in neither list becomes READY
    /\ Quiet /\ p \notin Range(q)
    /\ Put(p)
    /\ UNCHANGED sleepVars

SchedulerGet == Quiet /\ Get /\ UNCHANGED sleepVars

SchedulerNext ==
    \/ \E p \in Pcbs, t \in 1..MaxSleep : PutSleepEmpty(p, t) \/ PutSleepStart(p, t)
    \/ PutSleepWalk
    \/ PutSleepLink
    \/ AwakeTick
    \/ AwakePop
    \/ \E p \in Pcbs : WakeUpFirst(p) \/ WakeUpLast(p) \/ WakeUpMiddle(p)
    \/ \E p \in Pcbs : SchedulerPut(p)
    \/ SchedulerGet

SchedulerSpec == SchedulerInit /\ [][SchedulerNext]_<<vars, sleepVars>>

-----------------------------------------------------------------------------
(* Properties *)

(* Nobody sleeps longer than it asked for, whoever is put to sleep or      *)
(* killed meanwhile: the relative times never wrap.  As long as no sleeper *)
(* was taken out between two others, awake() wakes everybody at exactly    *)
(* the tick asked for.                                                     *)
WakesOnTime ==
    /\ waking \/ \A p \in Range(q) : left[p] > 0
    /\ exact => \A p \in Pcbs : p \notin Range(q) => left[p] = 0
=============================================================================
