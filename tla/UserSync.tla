------------------------------ MODULE UserSync -----------------------------
(***************************************************************************)
(* The threads, mutexes and semaphores of user/syscall.h on the kernel's   *)
(* futexes, and the programs of user/init.c that use them: the mutex, the  *)
(* producer/consumer and the barrier tests.                                *)
(*                                                                         *)
(* The timer may take the processor from user code between any two         *)
(* instructions: a step is one access to shared memory or one system call. *)
(* A system call is atomic, and its effect on the scheduler is what Futex  *)
(* shows: FUTEX_WAIT compares and queues, FUTEX_WAKE takes from the head.  *)
(* Running out of memory in thread_create is left out.                     *)
(***************************************************************************)
EXTENDS Integers, Sequences, SequencesExt

CONSTANTS
    N,          \* threads a test creates
    Producers,  \* how many of them produce in the semaphore test
    Iters,      \* iterations of each thread in the mutex test
    Rounds,     \* phases of the barrier, items of each producer
    PipeLen     \* PIPE_LEN

ASSUME SyncConstants ==
    /\ N \in Nat \ {0} /\ Producers \in 1 .. N - 1
    /\ Iters \in Nat \ {0} /\ Rounds \in Nat \ {0} /\ PipeLen \in Nat \ {0}
    /\ (Producers * Rounds) % (N - Producers) = 0

Threads == 1 .. N
Main == 0
Actors == 0 .. N

(* The futex words: the join word of thread t is t *)
Mutex == N + 1
Empty == N + 2
Full == N + 3
BarrierFw == N + 4
Words == 1 .. N + 4

VARIABLES
    test,       \* the test that runs
    ip,         \* the next operation of each actor's program; 0: not created
    i,          \* its loop counter
    lib,        \* where it is within the operation
    c,          \* c, v, old: what the operation has read
    v,          \* v, phase and last of the test's own code
    word,       \* the futex words
    waiters,    \* the futex queues
    data,       \* the tests' global variables
    missed      \* history: somebody went to wait for what had happened already

-----------------------------------------------------------------------------
(* The programs: loop bodies, with the library call or access of each line *)

thread_mutex_increment == << <<"lock", Mutex>>, <<"load">>, <<"store">>, <<"unlock", Mutex>> >>

thread_producer ==
    << <<"wait", Empty>>, <<"lock", Mutex>>, <<"put">>, <<"unlock", Mutex>>, <<"post", Full>> >>

thread_consumer ==
    << <<"wait", Full>>, <<"lock", Mutex>>, <<"get">>, <<"unlock", Mutex>>, <<"post", Empty>> >>

(* What threads do to the variables they share with the test *)
thread_record_tid == << <<"global">>, <<"yield">> >>
thread_write_shared == << <<"global">> >>
thread_tl_write == << <<"global">>, <<"yield">>, <<"local">> >>

thread_barrier ==
    << <<"lock", Mutex>>, <<"arrive">>, <<"unlock", Mutex>>, <<"await", BarrierFw>> >>

(* What __clone_impl does once the thread's function has returned *)
Trampoline(t) == << <<"clear", t>>, <<"wakejoin", t>>, <<"exit">> >>

Produces(t) == t <= Producers

Body(t) ==
    CASE test = "mutex" -> thread_mutex_increment
      [] test = "barrier" -> thread_barrier
      [] test = "semaphore" -> IF Produces(t) THEN thread_producer ELSE thread_consumer
      [] test = "pipeline" -> IF t = 1 THEN thread_producer ELSE thread_consumer
      [] test = "clone_basic" -> thread_record_tid
      [] test = "clone_memory" -> thread_write_shared
      [] test = "clone_local" -> thread_tl_write

(* test_clone_basic, test_clone_shared_memory, test_clone_thread_local *)
CloneTests == {"clone_basic", "clone_memory", "clone_local"}

SyncTests == {"mutex", "semaphore", "pipeline", "barrier"} \cup CloneTests

(* The threads the test creates *)
Created == CASE test = "pipeline" -> 2 [] test \in CloneTests -> 1 [] OTHER -> N

Quota(t) ==
    CASE test = "semaphore" /\ ~Produces(t) -> (Producers * Rounds) \div (N - Producers)
      [] test = "mutex" -> Iters
      [] test \in CloneTests -> 1
      [] OTHER -> Rounds

(* test_mutex_basic, test_semaphore_multi, test_clone_futex_barrier *)
MainOp(k) ==
    CASE k \in 1 .. Created -> <<"create", k>>
      [] k \in Created + 1 .. 2 * Created -> <<"join", k - Created>>
      [] OTHER -> <<"none">>

Op(a) ==
    IF a = Main THEN MainOp(ip[a])
    ELSE IF ip[a] = 0 THEN <<"none">>
    ELSE IF ip[a] <= Len(Body(a)) THEN Body(a)[ip[a]]
    ELSE IF ip[a] <= Len(Body(a)) + 3 THEN Trampoline(a)[ip[a] - Len(Body(a))]
    ELSE <<"none">>

At(a, op, where) == lib[a] = where /\ Op(a)[1] = op
Finished(a) == ip[a] > IF a = Main THEN 2 * Created ELSE Len(Body(a)) + 3

Start ==
    /\ ip = [a \in Actors |-> IF a = Main THEN 1 ELSE 0]
    /\ i = [a \in Actors |-> 0]
    /\ lib = [a \in Actors |-> "start"]
    /\ c = [a \in Actors |-> 0]
    /\ v = [a \in Actors |-> 0]
    /\ word = [w \in Words |-> IF w = Empty THEN PipeLen ELSE 0]
    /\ waiters = [w \in Words |-> <<>>]
    /\ data = [count |-> 0, head |-> 0, tail |-> 0, arrived |-> 0, phase |-> 0, global |-> 0]
    /\ missed = FALSE

Blocked(a) == \E w \in Words : Contains(waiters[w], a)

-----------------------------------------------------------------------------
(* The definitions named *Fault are plausible mistakes in the operation    *)
(* that follows them; no specification uses them.                          *)

(* The operation is over; the end of the body goes back to its beginning   *)
(* until the loop counter has reached its bound.                           *)
Return(a) ==
    /\ LET again == a # Main /\ ip[a] = Len(Body(a)) /\ i[a] + 1 < Quota(a)
           ends == a # Main /\ ip[a] = Len(Body(a)) IN
       /\ ip' = [ip EXCEPT ![a] = IF again THEN 1 ELSE @ + 1]
       /\ i' = [i EXCEPT ![a] = IF ends THEN @ + 1 ELSE @]
    /\ lib' = [lib EXCEPT ![a] = "start"]
    /\ c' = [c EXCEPT ![a] = 0]

Goto(a, where) == lib' = [lib EXCEPT ![a] = where] /\ UNCHANGED <<ip, i>>

(* futex(w, FUTEX_WAIT, val), which leads to label where *)
FutexWait(a, w, val, where) ==
    /\ waiters' = IF word[w] = val THEN [waiters EXCEPT ![w] = Append(@, a)] ELSE waiters
    /\ Goto(a, where)

(* futex(w, FUTEX_WAKE, n) *)
FutexWake(w, n) ==
    waiters' = [waiters EXCEPT ![w] = SubSeq(@, n + 1, Len(@))]

FutexWakeAll(w) == waiters' = [waiters EXCEPT ![w] = <<>>]

-----------------------------------------------------------------------------
(* mutex_lock: 0 free, 1 taken, 2 taken and perhaps waited for *)

LockFast(a) ==
    /\ At(a, "lock", "start")
    /\ IF word[Mutex] = 0
       THEN word' = [word EXCEPT ![Mutex] = 1] /\ Return(a)
       ELSE Goto(a, "contend") /\ c' = [c EXCEPT ![a] = word[Mutex]] /\ UNCHANGED word
    /\ UNCHANGED <<test, v, waiters, data, missed>>

LockContend(a) ==
    \* c == 2 || compare_and_swap(1, 2) != 0
    /\ At(a, "lock", "contend")
    /\ word' = IF c[a] # 2 /\ word[Mutex] = 1 THEN [word EXCEPT ![Mutex] = 2] ELSE word
    /\ Goto(a, IF c[a] = 2 \/ word[Mutex] # 0 THEN "sleep" ELSE "again")
    /\ UNCHANGED <<test, c, v, waiters, data, missed>>

LockSleep(a) ==
    /\ At(a, "lock", "sleep")
    /\ FutexWait(a, Mutex, 2, "again")
    /\ UNCHANGED <<test, c, v, word, data, missed>>

\* who has waited takes the mutex as one that nobody waits for
LockAgainFault(a) ==
    /\ At(a, "lock", "again") /\ ~Blocked(a)
    /\ IF word[Mutex] = 0
       THEN word' = [word EXCEPT ![Mutex] = 1] /\ Return(a)
       ELSE Goto(a, "contend") /\ c' = [c EXCEPT ![a] = word[Mutex]] /\ UNCHANGED word
    /\ UNCHANGED <<test, v, waiters, data, missed>>

LockAgain(a) ==
    /\ At(a, "lock", "again") /\ ~Blocked(a)
    /\ IF word[Mutex] = 0
       THEN word' = [word EXCEPT ![Mutex] = 2] /\ Return(a)
       ELSE Goto(a, "contend") /\ c' = [c EXCEPT ![a] = word[Mutex]] /\ UNCHANGED word
    /\ UNCHANGED <<test, v, waiters, data, missed>>

(* mutex_unlock *)

\* the word is cleared at once, and again by UnlockRelease
UnlockSubFault(a) ==
    /\ At(a, "unlock", "start")
    /\ word' = [word EXCEPT ![Mutex] = 0]
    /\ IF word[Mutex] = 1 THEN Return(a)
       ELSE Goto(a, "release") /\ UNCHANGED c
    /\ UNCHANGED <<test, v, waiters, data, missed>>

UnlockSub(a) ==
    \* fetch_and_sub
    /\ At(a, "unlock", "start")
    /\ word' = [word EXCEPT ![Mutex] = @ - 1]
    /\ IF word[Mutex] = 1 THEN Return(a)
       ELSE Goto(a, "release") /\ UNCHANGED c
    /\ UNCHANGED <<test, v, waiters, data, missed>>

UnlockRelease(a) ==
    /\ At(a, "unlock", "release")
    /\ word' = [word EXCEPT ![Mutex] = 0]
    /\ Goto(a, "wake")
    /\ UNCHANGED <<test, c, v, waiters, data, missed>>

UnlockWake(a) ==
    /\ At(a, "unlock", "wake")
    /\ FutexWake(Mutex, 1)
    /\ Return(a)
    /\ UNCHANGED <<test, v, word, data, missed>>

-----------------------------------------------------------------------------
(* sem_wait, sem_post *)

SemRead(a) ==
    /\ At(a, "wait", "start") /\ ~Blocked(a)
    /\ c' = [c EXCEPT ![a] = word[Op(a)[2]]]
    /\ Goto(a, "take")
    /\ UNCHANGED <<test, v, word, waiters, data, missed>>

\* the count is decremented without looking at it again
SemTakeFault(a) ==
    LET w == Op(a)[2] IN
    /\ At(a, "wait", "take")
    /\ IF c[a] > 0
       THEN word' = [word EXCEPT ![w] = c[a] - 1] /\ Return(a)
       ELSE Goto(a, "sleep") /\ UNCHANGED <<word, c>>
    /\ UNCHANGED <<test, v, waiters, data, missed>>

SemTake(a) ==
    LET w == Op(a)[2] IN
    /\ At(a, "wait", "take")
    /\ IF c[a] > 0 /\ word[w] = c[a]
       THEN word' = [word EXCEPT ![w] = c[a] - 1] /\ Return(a)
       ELSE Goto(a, "sleep") /\ UNCHANGED <<word, c>>
    /\ UNCHANGED <<test, v, waiters, data, missed>>

(* Also taken after a lost race for the last token: c is not 0 then, and   *)
(* the count may be back at c.                                             *)
SemSleep(a) ==
    LET w == Op(a)[2] IN
    /\ At(a, "wait", "sleep")
    /\ FutexWait(a, w, c[a], "start")
    /\ missed' = (missed \/ (c[a] > 0 /\ word[w] = c[a]))
    /\ UNCHANGED <<test, c, v, word, data>>

SemAdd(a) ==
    /\ At(a, "post", "start")
    /\ word' = [word EXCEPT ![Op(a)[2]] = @ + 1]
    /\ Goto(a, "wake")
    /\ UNCHANGED <<test, c, v, waiters, data, missed>>

SemWake(a) ==
    /\ At(a, "post", "wake")
    /\ FutexWake(Op(a)[2], 1)
    /\ Return(a)
    /\ UNCHANGED <<test, v, word, data, missed>>

-----------------------------------------------------------------------------
(* thread_create, the end of a thread, thread_join *)

(* sys_clone with CLONE_THREAD | CLONE_VM: thread t becomes READY at the   *)
(* instruction behind the call, on its own stack.                          *)
CloneThread(a, t) == ip' = [ip EXCEPT ![a] = @ + 1, ![t] = 1]

\* the join word keeps the 0 of its fresh page
CreateFault(a) ==
    LET t == Op(a)[2] IN
    /\ At(a, "create", "start")
    /\ CloneThread(a, t)
    /\ UNCHANGED <<test, i, lib, c, v, word, waiters, data, missed>>

(* The join word is set and the thread cloned *)
Create(a) ==
    LET t == Op(a)[2] IN
    /\ At(a, "create", "start")
    /\ word' = [word EXCEPT ![t] = 1]
    /\ CloneThread(a, t)
    /\ UNCHANGED <<test, i, lib, c, v, waiters, data, missed>>

ClearJoin(a) ==
    /\ At(a, "clear", "start")
    /\ word' = [word EXCEPT ![Op(a)[2]] = 0]
    /\ Return(a)
    /\ UNCHANGED <<test, v, waiters, data, missed>>

(* The word may be unmapped by now: FUTEX_EINVAL, and nobody waits on it *)
WakeJoin(a) ==
    /\ At(a, "wakejoin", "start")
    /\ FutexWakeAll(Op(a)[2])
    /\ Return(a)
    /\ UNCHANGED <<test, v, word, data, missed>>

(* Thread::exit.  It also clears and wakes child_tid, for which nobody in  *)
(* these programs waits.                                                   *)
ThreadExit(a) ==
    /\ At(a, "exit", "start")
    /\ Return(a)
    /\ UNCHANGED <<test, v, word, waiters, data, missed>>

(* thread_join looks at the word; when it is 0 it unmaps the thread's      *)
(* stack and the word.                                                     *)
JoinRead(a) ==
    LET t == Op(a)[2] IN
    /\ At(a, "join", "start") /\ ~Blocked(a)
    /\ IF word[t] = 0 THEN Return(a)
       ELSE Goto(a, "sleep") /\ c' = [c EXCEPT ![a] = word[t]]
    /\ UNCHANGED <<test, v, word, waiters, data, missed>>

JoinSleep(a) ==
    /\ At(a, "join", "sleep")
    /\ FutexWait(a, Op(a)[2], c[a], "start")
    /\ UNCHANGED <<test, c, v, word, data, missed>>

-----------------------------------------------------------------------------
(* The tests' own code *)

(* uint32_t v = g_mutex_count, then g_mutex_count = v + 1 *)
LoadCount(a) ==
    /\ At(a, "load", "start")
    /\ v' = [v EXCEPT ![a] = data.count]
    /\ Return(a)
    /\ UNCHANGED <<test, word, waiters, data, missed>>

StoreCount(a) ==
    /\ At(a, "store", "start")
    /\ data' = [data EXCEPT !.count = v[a] + 1]
    /\ v' = [v EXCEPT ![a] = 0]
    /\ Return(a)
    /\ UNCHANGED <<test, word, waiters, missed>>

(* The thread's tid, or a value; then sched_yield(), and a look whether the *)
(* thread's own stack has kept it                                          *)
SetGlobal(a) ==
    /\ At(a, "global", "start")
    /\ data' = [data EXCEPT !.global = a]
    /\ v' = [v EXCEPT ![a] = a]
    /\ Return(a)
    /\ UNCHANGED <<test, word, waiters, missed>>

Yield(a) ==
    /\ At(a, "yield", "start")
    /\ Return(a)
    /\ UNCHANGED <<test, v, word, waiters, data, missed>>

CheckLocal(a) ==
    /\ At(a, "local", "start")
    /\ data' = IF v[a] = a THEN data ELSE [data EXCEPT !.global = 0]
    /\ Return(a)
    /\ UNCHANGED <<test, v, word, waiters, missed>>

Put(a) ==
    /\ At(a, "put", "start")
    /\ data' = [data EXCEPT !.tail = @ + 1]
    /\ Return(a)
    /\ UNCHANGED <<test, v, word, waiters, missed>>

Get(a) ==
    /\ At(a, "get", "start")
    /\ data' = [data EXCEPT !.head = @ + 1, !.count = @ + 1]
    /\ Return(a)
    /\ UNCHANGED <<test, v, word, waiters, missed>>

(* v: the phase the thread is in; -1 for the last one to arrive *)
LastToArrive == -1

Arrive(a) ==
    /\ At(a, "arrive", "start")
    /\ LET last == (data.arrived + 1) % N = 0 IN
       /\ data' = [data EXCEPT !.arrived = @ + 1, !.phase = IF last THEN @ + 1 ELSE @]
       /\ v' = [v EXCEPT ![a] = IF last THEN LastToArrive ELSE data.phase]
    /\ Return(a)
    /\ UNCHANGED <<test, word, waiters, missed>>

OpenBarrier(a) ==
    /\ At(a, "await", "start") /\ v[a] = LastToArrive
    /\ FutexWakeAll(BarrierFw)
    /\ v' = [v EXCEPT ![a] = 0]
    /\ Return(a)
    /\ UNCHANGED <<test, word, data, missed>>

(* while (g_barrier_phase == phase) *)
CheckPhase(a) ==
    /\ At(a, "await", "start") /\ v[a] # LastToArrive /\ ~Blocked(a)
    /\ IF data.phase # v[a]
       THEN Return(a) /\ v' = [v EXCEPT ![a] = 0]
       ELSE Goto(a, "sleep") /\ UNCHANGED <<c, v>>
    /\ UNCHANGED <<test, word, waiters, data, missed>>

(* The word is 0 throughout, whatever the phase *)
WaitPhase(a) ==
    /\ At(a, "await", "sleep")
    /\ FutexWait(a, BarrierFw, v[a], "start")
    /\ missed' = (missed \/ (word[BarrierFw] = v[a] /\ data.phase # v[a]))
    /\ UNCHANGED <<test, c, v, word, data>>

-----------------------------------------------------------------------------
Step(a) ==
    \/ LockFast(a) \/ LockContend(a) \/ LockSleep(a) \/ LockAgain(a)
    \/ UnlockSub(a) \/ UnlockRelease(a) \/ UnlockWake(a)
    \/ SemRead(a) \/ SemTake(a) \/ SemSleep(a) \/ SemAdd(a) \/ SemWake(a)
    \/ Create(a) \/ ClearJoin(a) \/ WakeJoin(a) \/ ThreadExit(a) \/ JoinRead(a) \/ JoinSleep(a)
    \/ LoadCount(a) \/ StoreCount(a) \/ SetGlobal(a) \/ Yield(a) \/ CheckLocal(a) \/ Put(a) \/ Get(a)
    \/ Arrive(a) \/ OpenBarrier(a) \/ CheckPhase(a) \/ WaitPhase(a)

-----------------------------------------------------------------------------
TypeOK ==
    /\ test \in SyncTests
    /\ ip \in [Actors -> 0 .. 2 * N + 9] /\ i \in [Actors -> Nat]
    /\ lib \in [Actors -> {"start", "contend", "sleep", "again", "release", "wake", "take"}]
    /\ c \in [Actors -> Nat] /\ v \in [Actors -> Nat \cup {LastToArrive}]
    /\ word \in [Words -> Nat] /\ waiters \in [Words -> Seq(Actors)]
    /\ missed \in BOOLEAN

(* Between the return of mutex_lock and the first access of mutex_unlock a *)
(* thread owns the mutex.                                                  *)
Owns(t) ==
    \/ Op(t)[1] \in {"load", "store", "put", "get", "arrive"}
    \/ At(t, "unlock", "start")

(* mutex_lock and mutex_unlock exclude: however the timer interleaves      *)
(* them, no two threads are in the critical section, and while one is the  *)
(* word says so.                                                           *)
MutexExclusive ==
    \A s, t \in Threads : Owns(s) => word[Mutex] # 0 /\ (Owns(t) => s = t)

(* sem_wait and sem_post count: a producer that holds an empty slot finds  *)
(* one, a consumer that holds a full slot finds an item.  No thread of the *)
(* barrier test leaves round r before all N threads have arrived in it.    *)
BuffersAndBarriersHold ==
    \A t \in Threads : /\ Op(t)[1] = "put" => data.tail - data.head < PipeLen
                       /\ Op(t)[1] = "get" => data.head < data.tail
                       /\ test = "barrier" => data.arrived >= N * i[t]

Joined(t) == t <= Created /\ ip[Main] > Created + t

(* thread_join unmaps the thread's stack and join word only when the       *)
(* thread has made its last access to both: all it still does is the wake  *)
(* and the exit, from registers.                                           *)
JoinSafe ==
    \A t \in Threads : Joined(t) => Finished(t) \/ Op(t)[1] \in {"wakejoin", "exit"}

(* What the tests check() at their end *)
ChecksHold ==
    CASE test = "mutex" -> data.count = N * Iters
      [] test = "semaphore" -> data.head = data.tail /\ data.count = Producers * Rounds
      [] test = "pipeline" -> data.head = data.tail /\ data.count = Rounds
      [] test \in CloneTests -> data.global = 1
      [] test = "barrier" -> data.phase = Rounds /\ data.arrived = N * Rounds
=============================================================================
