--------------------------- MODULE InitTestsProofs -------------------------
(***************************************************************************)
(* The invariant of UserSyncProofs, carried over to the whole suite: a     *)
(* test of processes leaves the threads of the other tests alone.          *)
(***************************************************************************)
EXTENDS InitTests, UserSyncProofs

(* In a test of processes the main program of the thread tests stands     *)
(* still at its first instruction.                                         *)
SuiteInv == SyncInv /\ (test \notin SyncTests => ip[Main] = 1)

(* No step changes the test that runs *)
LEMMA TestStays ==
    ASSUME NEW p \in Procs, ProcessStep(p) \/ Preempt(p) \/ Schedule(p)
    PROVE  test' = test
<1>1. CASE Preempt(p) \/ Schedule(p)
  BY <1>1 DEF Preempt, Schedule, progVars
<1>2. CASE Leave(p)
  BY <1>2 DEF Leave, WaitResumes, DeliverTerm, DeliverStop, DeliverOther, Dies, progVars
<1>3. CASE Call(p)
  BY <1>3 DEF Call, Store, Check, Share, CheckShared, Delay, YieldLoop, Fork, Exec, Exit, Dies,
              Wait, FutexSleep, FutexRouse, Pipe, Close, Read, Write, Kill, SigAction,
              SigProcMask, Query, Handler
<1> QED BY <1>1, <1>2, <1>3 DEF ProcessStep

(* A step that leaves the threads alone keeps the invariant *)
LEMMA SuiteSame ==
    ASSUME SuiteInv, test' = test, UNCHANGED syncVars
    PROVE  SuiteInv'
<1>1. ip' = ip /\ lib' = lib /\ word' = word
  BY DEF syncVars
<1>2. Created' = Created
  BY Zenon DEF Created
<1>3. \A x \in Threads : (Holds(x)' <=> Holds(x)) /\ (Past(x)' <=> Past(x))
  BY <1>1, Elsewhere
<1>4. \A x \in Threads : Joined(x)' <=> Joined(x)
  BY <1>1, <1>2 DEF Joined
<1>5. JoinWords => JoinWords'
  BY <1>1, <1>2, <1>3, <1>4 DEF JoinWords
<1> QED BY <1>1, <1>3, <1>5 DEF SuiteInv, SyncInv, SyncTypes, Exclusion

(* The invariant holds in every reachable state *)
LEMMA SuiteInductive == Spec => []SuiteInv
<1>1. Init => SuiteInv
  <2> SUFFICES ASSUME Init PROVE SuiteInv
    OBVIOUS
  <2>1. Start
    BY DEF Init
  <2>2. ip[Main] = 1
    BY <2>1, SyncConstants DEF Start, Actors, Main
  <2> QED BY <2>1, <2>2, SyncStart DEF SuiteInv
<1>2. SuiteInv /\ [Next]_vars => SuiteInv'
  <2> SUFFICES ASSUME SuiteInv, [Next]_vars PROVE SuiteInv'
    OBVIOUS
  <2>1. ASSUME NEW a \in Actors, test \in SyncTests, Step(a) PROVE SuiteInv'
    <3>1. test' = test
      BY <2>1 DEF Step, LockFast, LockContend, LockSleep, LockAgain, UnlockSub, UnlockRelease,
            UnlockWake, SemRead, SemTake, SemSleep, SemAdd, SemWake, Create, ClearJoin, WakeJoin,
            ThreadExit, JoinRead, JoinSleep, LoadCount, StoreCount, SetGlobal, Yield, CheckLocal,
            Put, Get, Arrive, OpenBarrier, CheckPhase, WaitPhase
    <3> QED BY <2>1, <3>1, SyncStep DEF SuiteInv
  <2>2. ASSUME NEW p \in Procs, ProcessStep(p) \/ Preempt(p) \/ Schedule(p), UNCHANGED syncVars
        PROVE  SuiteInv'
    BY <2>2, TestStays, SuiteSame
  <2>3. CASE UNCHANGED vars
    <3>1. test' = test /\ UNCHANGED syncVars
      BY <2>3 DEF vars, progVars
    <3> QED BY <3>1, SuiteSame
  <2> QED BY <2>1, <2>2, <2>3 DEF Next, Runs, Preempted, Chosen
<1> QED BY <1>1, <1>2, PTL DEF Spec

(* mutex_lock and mutex_unlock of user/syscall.h exclude: never are two    *)
(* threads between them, and the word is not 0 while one is, however many  *)
(* threads there are and wherever they are preempted.                      *)
THEOREM MutexAlwaysExclusive == Spec => []MutexExclusive
<1>1. SuiteInv => MutexExclusive
  BY SyncExclusive DEF SuiteInv
<1> QED BY <1>1, SuiteInductive, PTL

(* thread_join returns, and unmaps the thread's stack, only once the       *)
(* thread has stored its join word and is in the futex call or the exit    *)
(* that follow, neither of which uses the stack.                           *)
THEOREM JoinAlwaysSafe == Spec => []JoinSafe
<1>1. SuiteInv => JoinSafe
  <2> SUFFICES ASSUME SuiteInv PROVE JoinSafe
    OBVIOUS
  <2>1. CASE test \in SyncTests
    BY <2>1, SyncJoins DEF SuiteInv
  <2>2. CASE test \notin SyncTests
    <3>1. Created \in {1, 2, N}
      BY DEF Created
    <3>2. \A t \in Threads : ~Joined(t)
      BY <2>2, <3>1, SyncConstants DEF SuiteInv, Joined, Threads
    <3> QED BY <3>2 DEF JoinSafe
  <2> QED BY <2>1, <2>2
<1> QED BY <1>1, SuiteInductive, PTL
=============================================================================
