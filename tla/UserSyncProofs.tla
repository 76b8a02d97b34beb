--------------------------- MODULE UserSyncProofs --------------------------
(***************************************************************************)
(* The mutex of user/syscall.h excludes and thread_join waits for the end  *)
(* of a thread, in the tests of user/init.c with any number of threads,    *)
(* items and rounds.                                                       *)
(***************************************************************************)
EXTENDS UserSync, TLAPS

Kind(a) == Op(a)[1]
Guarded == {"load", "store", "put", "get", "arrive"}
Bodies == {thread_mutex_increment, thread_producer, thread_consumer, thread_barrier,
           thread_record_tid, thread_write_shared, thread_tl_write}

(* From the end of mutex_lock to the store that releases the mutex *)
Holds(t) == Owns(t) \/ At(t, "unlock", "release")

(* The thread has stored 0 in its join word *)
Past(t) == ip[t] > Len(Body(t)) + 1

Labels == {"start", "contend", "sleep", "again", "release", "wake", "take"}

SyncTypes ==
    /\ ip \in [Actors -> Nat] /\ lib \in [Actors -> Labels] /\ word \in [Words -> Int]

Exclusion ==
    \A s, t \in Threads : Holds(s) => word[Mutex] \in {1, 2} /\ (Holds(t) => s = t)

(* A created thread's join word is 1 until it stores 0 there *)
JoinWords ==
    /\ ip[Main] > 0
    /\ \A t \in Threads : /\ t <= Created /\ t < ip[Main] => ip[t] > 0
                          /\ ip[t] > 0 => Past(t) \/ word[t] = 1
                          /\ Joined(t) => Past(t)

SyncInv == SyncTypes /\ Exclusion /\ (test \in SyncTests => JoinWords)

-----------------------------------------------------------------------------
(* The programs: what mutex_lock guards, and mutex_unlock, follow only a   *)
(* mutex_lock or each other; semaphores are other words than the mutex.    *)
Paired(b) ==
    /\ Len(b) \in 1..5
    /\ b[1][1] \notin Guarded \cup {"unlock"}
    /\ \A k \in 1..Len(b) :
         /\ b[k][1] \notin Guarded \cup {"lock"} /\ k < Len(b) =>
                b[k + 1][1] \notin Guarded \cup {"unlock"}
         /\ b[k][1] \in {"wait", "post"} => b[k][2] \in {Empty, Full}
         /\ b[k][1] \notin {"create", "join", "clear", "wakejoin", "exit", "none"}

(* Every program of the tests is of that form *)
LEMMA BodiesPaired == \A b \in Bodies : Paired(b)
<1>1. Paired(thread_mutex_increment)
  BY DEF Paired, Guarded, thread_mutex_increment
<1>2. Paired(thread_producer)
  BY DEF Paired, Guarded, thread_producer
<1>3. Paired(thread_consumer)
  BY DEF Paired, Guarded, thread_consumer
<1>4. Paired(thread_barrier)
  BY DEF Paired, Guarded, thread_barrier
<1>5. Paired(thread_record_tid) /\ Paired(thread_write_shared) /\ Paired(thread_tl_write)
  BY DEF Paired, Guarded, thread_record_tid, thread_write_shared, thread_tl_write
<1> QED BY <1>1, <1>2, <1>3, <1>4, <1>5 DEF Bodies

(* The program of every thread is one of them *)
LEMMA BodyPaired ==
    ASSUME test \in SyncTests, NEW t \in Threads
    PROVE  Paired(Body(t))
<1>1. Body(t) \in Bodies
  BY DEF Body, Bodies, SyncTests, CloneTests
<1> QED BY <1>1, BodiesPaired

(* Where a thread is in its program, by the operation it is about to do *)
Located(t) ==
    /\ ip[t] = 0 => Op(t) = <<"none">>
    /\ ip[t] \in 1..Len(Body(t)) => Op(t) = Body(t)[ip[t]]
    /\ ip[t] = Len(Body(t)) + 1 => Op(t) = <<"clear", t>>
    /\ ip[t] = Len(Body(t)) + 2 => Op(t) = <<"wakejoin", t>>
    /\ ip[t] = Len(Body(t)) + 3 => Op(t) = <<"exit">>
    /\ ip[t] > Len(Body(t)) + 3 => Op(t) = <<"none">>

(* What a thread that is in its program, or past it, is about to do *)
LEMMA ThreadOp == \A t \in Threads : test \in SyncTests /\ ip[t] \in Nat => Located(t)
<1> SUFFICES ASSUME NEW t \in Threads, test \in SyncTests, ip[t] \in Nat PROVE Located(t)
  OBVIOUS
<1>1. Len(Body(t)) \in 1..5
  BY BodyPaired DEF Paired
<1>2. t # Main
  BY DEF Threads, Main
<1>3. Trampoline(t)[1] = <<"clear", t>> /\ Trampoline(t)[2] = <<"wakejoin", t>>
      /\ Trampoline(t)[3] = <<"exit">>
  BY DEF Trampoline
<1>4. ip[t] = 0 => Op(t) = <<"none">>
  BY <1>2 DEF Op
<1>5. ip[t] \in 1..Len(Body(t)) => Op(t) = Body(t)[ip[t]]
  BY <1>1, <1>2 DEF Op
<1>6. ASSUME NEW k \in 1..3, ip[t] = Len(Body(t)) + k PROVE Op(t) = Trampoline(t)[k]
  <2>1. /\ ip[t] # 0 /\ ~(ip[t] <= Len(Body(t))) /\ ip[t] <= Len(Body(t)) + 3
        /\ ip[t] - Len(Body(t)) = k
    BY <1>1, <1>6
  <2> QED BY <2>1, <1>2 DEF Op
<1>7. ip[t] > Len(Body(t)) + 3 => Op(t) = <<"none">>
  <2>1. ip[t] > Len(Body(t)) + 3 =>
           ip[t] # 0 /\ ~(ip[t] <= Len(Body(t))) /\ ~(ip[t] <= Len(Body(t)) + 3)
    BY <1>1
  <2> QED BY <2>1, <1>2 DEF Op
<1>8. 1 \in 1..3 /\ 2 \in 1..3 /\ 3 \in 1..3
  OBVIOUS
<1>9. /\ ip[t] = Len(Body(t)) + 1 => Op(t) = <<"clear", t>>
      /\ ip[t] = Len(Body(t)) + 2 => Op(t) = <<"wakejoin", t>>
      /\ ip[t] = Len(Body(t)) + 3 => Op(t) = <<"exit">>
  BY <1>3, <1>6, <1>8, Zenon
<1> QED BY <1>4, <1>5, <1>7, <1>9, Zenon DEF Located

(* The same in the next state *)
LEMMA ThreadOpNext == (\A t \in Threads : test \in SyncTests /\ ip[t] \in Nat => Located(t))'
BY ThreadOp, PTL

-----------------------------------------------------------------------------
(* A thread that another one's step leaves where it is *)
LEMMA Elsewhere ==
    ASSUME test' = test, NEW x \in Threads, ip'[x] = ip[x], lib'[x] = lib[x]
    PROVE  /\ Op(x)' = Op(x) /\ Body(x)' = Body(x)
           /\ Holds(x)' <=> Holds(x)
           /\ Past(x)' <=> Past(x)
<1>1. Body(x)' = Body(x)
  BY Zenon DEF Body, Produces
<1>2. x # Main
  BY DEF Threads, Main
<1>3. Op(x)' = Op(x)
  BY <1>1, <1>2, Zenon DEF Op, Trampoline
<1>4. Holds(x)' <=> Holds(x)
  BY <1>3, Zenon DEF Holds, Owns, At
<1>5. Past(x)' <=> Past(x)
  BY <1>1, Zenon DEF Past
<1> QED BY <1>1, <1>3, <1>4, <1>5

(* A step within an operation of the library *)
LEMMA AfterGoto ==
    ASSUME SyncTypes, test' = test, NEW t \in Threads, NEW where \in Labels, Goto(t, where)
    PROVE  /\ ip' = ip /\ lib' \in [Actors -> Labels] /\ lib'[t] = where
           /\ \A x \in Actors \ {t} : lib'[x] = lib[x]
           /\ Op(t)' = Op(t) /\ (Past(t)' <=> Past(t))
<1>1. t \in Actors /\ t # Main
  BY SyncConstants DEF Threads, Actors, Main
<1>2. /\ ip' = ip /\ lib' \in [Actors -> Labels] /\ lib'[t] = where
      /\ \A x \in Actors \ {t} : lib'[x] = lib[x]
  BY <1>1 DEF Goto, SyncTypes
<1>3. Body(t)' = Body(t)
  BY Zenon DEF Body, Produces
<1>4. Op(t)' = Op(t)
  BY <1>1, <1>2, <1>3, Zenon DEF Op, Trampoline
<1>5. Past(t)' <=> Past(t)
  BY <1>2, <1>3, Zenon DEF Past
<1> QED BY <1>2, <1>4, <1>5

(* The end of an operation.  Only mutex_lock and what it guards lead to    *)
(* guarded accesses.                                                       *)
LEMMA AfterReturn ==
    ASSUME SyncTypes, test \in SyncTests, test' = test, NEW t \in Threads, ip[t] > 0, Return(t)
    PROVE  /\ ip' \in [Actors -> Nat] /\ lib' \in [Actors -> Labels] /\ lib'[t] = "start"
           /\ \A x \in Actors \ {t} : ip'[x] = ip[x] /\ lib'[x] = lib[x]
           /\ ip'[t] > 0
           /\ Past(t) \/ Kind(t) = "clear" => Past(t)'
           /\ Kind(t) \notin Guarded \cup {"lock"} => ~Holds(t)'
<1> DEFINE L == Len(Body(t))
<1>1. t \in Actors /\ t # Main /\ ip[t] \in Nat
  BY SyncConstants DEF Threads, Actors, Main, SyncTypes
<1>2. Body(t)' = Body(t)
  BY Zenon DEF Body, Produces
<1>3. Paired(Body(t)) /\ L \in 1..5
  BY BodyPaired DEF Paired
<1>4. /\ ip' \in [Actors -> Nat] /\ lib' \in [Actors -> Labels] /\ lib'[t] = "start"
      /\ \A x \in Actors \ {t} : ip'[x] = ip[x] /\ lib'[x] = lib[x]
      /\ ip'[t] = ip[t] + 1 \/ (ip'[t] = 1 /\ ip[t] = L)
  <2>1. lib' = [lib EXCEPT ![t] = "start"]
    BY DEF Return
  <2>2. \/ ip' = [ip EXCEPT ![t] = ip[t] + 1]
        \/ ip' = [ip EXCEPT ![t] = 1] /\ ip[t] = L
    BY Zenon DEF Return
  <2>3. /\ lib' \in [Actors -> Labels] /\ lib'[t] = "start"
        /\ \A x \in Actors \ {t} : lib'[x] = lib[x]
    BY <1>1, <2>1 DEF SyncTypes, Labels
  <2>4. CASE ip' = [ip EXCEPT ![t] = ip[t] + 1]
    BY <1>1, <2>3, <2>4 DEF SyncTypes
  <2>5. CASE ip' = [ip EXCEPT ![t] = 1] /\ ip[t] = L
    BY <1>1, <2>3, <2>5 DEF SyncTypes
  <2> QED BY <2>2, <2>4, <2>5
<1>5. Located(t) /\ Located(t)'
  <2>1. ip'[t] \in Nat /\ test' \in SyncTests
    BY <1>1, <1>4
  <2> QED BY <1>1, <2>1, ThreadOp, ThreadOpNext
<1>6. ip'[t] > 0
  BY <1>1, <1>4
<1>7. Past(t) \/ Kind(t) = "clear" => Past(t)'
  <2>1. Past(t) => Past(t)'
    BY <1>1, <1>2, <1>3, <1>4 DEF Past
  <2>2. ip[t] \in 1..L => Kind(t) # "clear"
    BY <1>3, <1>5 DEF Kind, Located, Paired
  <2>3. Kind(t) = "clear" => ip[t] > L
    BY <1>1, <1>3, <2>2
  <2>4. ip[t] > L => Past(t)'
    BY <1>1, <1>2, <1>3, <1>4 DEF Past
  <2> QED BY <2>1, <2>3, <2>4
<1>8. ASSUME Kind(t) \notin Guarded \cup {"lock"} PROVE ~Holds(t)'
  <2>1. Kind(t)' \notin Guarded \cup {"unlock"}
    <3>1. CASE ip'[t] = 1
      <4>1. Op(t)' = Body(t)[1]
        BY <1>2, <1>3, <1>5, <3>1 DEF Located
      <4> QED BY <1>3, <4>1 DEF Kind, Paired
    <3>2. CASE ip'[t] = ip[t] + 1 /\ ip[t] < L
      <4>1. /\ ip[t] \in 1..L /\ ip[t] < L /\ Op(t) = Body(t)[ip[t]]
            /\ Op(t)' = Body(t)[ip[t] + 1]
        BY <1>1, <1>2, <1>3, <1>5, <3>2 DEF Located
      <4> QED BY <1>3, <1>8, <4>1 DEF Kind, Paired
    <3>3. CASE ip'[t] = ip[t] + 1 /\ ip[t] >= L
      <4>1. \/ ip'[t] = L + 1 \/ ip'[t] = L + 2 \/ ip'[t] = L + 3 \/ ip'[t] > L + 3
        BY <1>1, <1>3, <3>3
      <4>2. Kind(t)' \in {"clear", "wakejoin", "exit", "none"}
        BY <1>2, <1>5, <4>1 DEF Located, Kind
      <4> QED BY <4>2 DEF Guarded
    <3> QED BY <1>1, <1>3, <1>4, <3>1, <3>2, <3>3
  <2> QED BY <2>1 DEF Holds, Owns, At, Kind, Guarded
<1> QED BY <1>4, <1>6, <1>7, <1>8

-----------------------------------------------------------------------------
(* Three ways in which a step of t can keep the exclusion: it takes        *)
(* nothing and the word stays what it was for a holder; it finds the word  *)
(* 0, so that nobody holds the mutex; it gives the mutex up.               *)
LEMMA KeepExclusion ==
    ASSUME Exclusion, NEW t \in Threads,
           \A x \in Threads \ {t} : Holds(x)' <=> Holds(x),
           \/ /\ Holds(t)' => Holds(t)
              /\ word'[Mutex] = word[Mutex] \/ word'[Mutex] \in {1, 2}
           \/ word[Mutex] = 0 /\ word'[Mutex] \in {1, 2}
           \/ Holds(t) /\ ~Holds(t)'
    PROVE  Exclusion'
<1> SUFFICES ASSUME NEW x \in Threads, NEW y \in Threads, Holds(x)'
             PROVE  word'[Mutex] \in {1, 2} /\ (Holds(y)' => x = y)
  BY DEF Exclusion
<1>1. CASE /\ Holds(t)' => Holds(t)
           /\ word'[Mutex] = word[Mutex] \/ word'[Mutex] \in {1, 2}
  <2>1. Holds(x) /\ (Holds(y)' => Holds(y))
    BY <1>1
  <2> QED BY <1>1, <2>1 DEF Exclusion
<1>2. CASE word[Mutex] = 0 /\ word'[Mutex] \in {1, 2}
  <2>1. \A z \in Threads : ~Holds(z)
    BY <1>2 DEF Exclusion
  <2> QED BY <1>2, <2>1
<1>3. CASE Holds(t) /\ ~Holds(t)'
  BY <1>3 DEF Exclusion
<1> QED BY <1>1, <1>2, <1>3

(* A step of thread t keeps the join words *)
LEMMA KeepJoinWords ==
    ASSUME JoinWords, test' = test, NEW t \in Threads, ip'[Main] = ip[Main], ip[t] > 0, ip'[t] > 0,
           \A x \in Threads \ {t} : (Past(x)' <=> Past(x)) /\ ip'[x] = ip[x] /\ word'[x] = word[x],
           Past(t) => Past(t)', Past(t)' \/ word'[t] = word[t]
    PROVE  JoinWords'
<1>1. Created' = Created
  BY Zenon DEF Created
<1>2. \A x \in Threads : Joined(x)' <=> Joined(x)
  BY <1>1 DEF Joined
<1> QED BY <1>1, <1>2 DEF JoinWords

(* A step that is over with the word w other than the mutex, if with any, *)
(* and is not within what the mutex guards.                                *)
Aside(t) ==
    /\ test' = test
    /\ Kind(t) \notin Guarded \cup {"lock", "unlock"}
    /\ Return(t) \/ \E where \in Labels : Goto(t, where)
    /\ word' \in [Words -> Int]
    /\ word'[Mutex] = word[Mutex]
    /\ \A x \in Threads : word'[x] = word[x] \/ (x = t /\ Kind(t) = "clear" /\ Return(t))

(* Who is about to do something has been created *)
LEMMA Started ==
    ASSUME SyncTypes, test \in SyncTests, NEW t \in Threads, Kind(t) # "none"
    PROVE  ip[t] \in Nat /\ ip[t] > 0 /\ t \in Actors /\ t # Main /\ Mutex \in Words /\ t \in Words
<1>1. t \in Actors /\ t # Main /\ Mutex \in Words /\ t \in Words
  BY SyncConstants DEF Threads, Actors, Main, Mutex, Words
<1>2. ip[t] \in Nat
  BY <1>1 DEF SyncTypes
<1>3. ip[t] = 0 => Kind(t) = "none"
  BY <1>2, ThreadOp DEF Located, Kind
<1> QED BY <1>1, <1>2, <1>3

(* Thread t moves, and nobody else does *)
LEMMA Moved ==
    ASSUME SyncTypes, test \in SyncTests, test' = test, NEW t \in Threads, Kind(t) # "none",
           Return(t) \/ \E where \in Labels : Goto(t, where)
    PROVE  /\ ip' \in [Actors -> Nat] /\ lib' \in [Actors -> Labels]
           /\ ip'[Main] = ip[Main] /\ ip'[t] > 0 /\ (Past(t) => Past(t)')
           /\ \A x \in Threads \ {t} : /\ Holds(x)' <=> Holds(x)
                                       /\ Past(x)' <=> Past(x)
                                       /\ ip'[x] = ip[x]
<1>1. /\ ip[t] \in Nat /\ ip[t] > 0 /\ t \in Actors /\ t # Main
      /\ Main \in Actors /\ Threads \subseteq Actors
  BY Started, SyncConstants DEF Threads, Actors, Main
<1>2. /\ ip' \in [Actors -> Nat] /\ lib' \in [Actors -> Labels]
      /\ \A x \in Actors \ {t} : ip'[x] = ip[x] /\ lib'[x] = lib[x]
      /\ ip'[t] > 0 /\ (Past(t) => Past(t)')
  <2>1. CASE Return(t)
    BY <1>1, <2>1, AfterReturn
  <2>2. CASE \E where \in Labels : Goto(t, where)
    BY <1>1, <2>2, AfterGoto DEF SyncTypes
  <2> QED BY <2>1, <2>2
<1>3. \A x \in Threads \ {t} : (Holds(x)' <=> Holds(x)) /\ (Past(x)' <=> Past(x))
  BY <1>1, <1>2, Elsewhere
<1> QED BY <1>1, <1>2, <1>3

(* A step that has to do neither with the mutex nor with a join word *)
LEMMA AsideStep ==
    ASSUME SyncInv, test \in SyncTests, NEW t \in Threads, Kind(t) # "none", Aside(t)
    PROVE  SyncInv'
<1>1. SyncTypes /\ Exclusion /\ JoinWords
  BY DEF SyncInv
<1>2. /\ ip' \in [Actors -> Nat] /\ lib' \in [Actors -> Labels]
      /\ ip'[Main] = ip[Main] /\ ip'[t] > 0 /\ (Past(t) => Past(t)')
      /\ \A x \in Threads \ {t} : /\ Holds(x)' <=> Holds(x)
                                  /\ Past(x)' <=> Past(x)
                                  /\ ip'[x] = ip[x]
  BY <1>1, Moved DEF Aside
<1>3. ip[t] > 0
  BY <1>1, Started
<1>4. ~Holds(t)'
  <2>1. CASE Return(t)
    BY <1>1, <1>3, <2>1, AfterReturn DEF Aside
  <2>2. CASE \E where \in Labels : Goto(t, where)
    <3>1. Op(t)' = Op(t)
      BY <1>1, <2>2, AfterGoto DEF Aside
    <3>2. Kind(t)' = Kind(t)
      BY <3>1 DEF Kind
    <3> QED BY <3>2 DEF Aside, Holds, Owns, At, Kind, Guarded
  <2> QED BY <2>1, <2>2 DEF Aside
<1>5. Exclusion'
  BY <1>1, <1>2, <1>4, KeepExclusion DEF Aside
<1>6. Past(t)' \/ word'[t] = word[t]
  <2>1. Kind(t) = "clear" /\ Return(t) => Past(t)'
    BY <1>1, <1>3, AfterReturn DEF Aside
  <2> QED BY <2>1 DEF Aside
<1>7. \A x \in Threads \ {t} : word'[x] = word[x]
  BY DEF Aside
<1>8. JoinWords'
  BY <1>1, <1>2, <1>3, <1>6, <1>7, KeepJoinWords DEF Aside
<1> QED BY <1>2, <1>5, <1>8 DEF SyncInv, SyncTypes, Aside

(* The words of the operations, and what threads never do *)
LEMMA OpWords ==
    ASSUME SyncTypes, test \in SyncTests, NEW t \in Threads
    PROVE  /\ Kind(t) \in {"wait", "post"} => Op(t)[2] \in {Empty, Full}
           /\ Kind(t) = "clear" => Op(t)[2] = t
           /\ Kind(t) \notin {"create", "join"}
<1> DEFINE L == Len(Body(t))
<1>1. ip[t] \in Nat
  BY SyncConstants DEF SyncTypes, Threads, Actors
<1>2. Located(t) /\ Paired(Body(t)) /\ L \in 1..5
  BY <1>1, ThreadOp, BodyPaired DEF Paired
<1>3. CASE ip[t] \in 1..L
  BY <1>2, <1>3 DEF Located, Paired, Kind
<1>4. CASE ip[t] \notin 1..L
  <2>1. Op(t) \in {<<"none">>, <<"clear", t>>, <<"wakejoin", t>>, <<"exit">>}
    <3>1. ip[t] = 0 \/ ip[t] = L + 1 \/ ip[t] = L + 2 \/ ip[t] = L + 3 \/ ip[t] > L + 3
      BY <1>1, <1>2, <1>4
    <3> QED BY <1>2, <3>1, Zenon DEF Located
  <2> QED BY <2>1 DEF Kind
<1> QED BY <1>3, <1>4

(* The words are different ones *)
LEMMA Apart ==
    /\ {Empty, Full, BarrierFw, Mutex} \subseteq Words /\ Threads \subseteq Words
    /\ Mutex \notin {Empty, Full} /\ Mutex \notin Threads
    /\ Empty \notin Threads /\ Full \notin Threads
BY SyncConstants DEF Empty, Full, BarrierFw, Mutex, Words, Threads

(* sem_wait and sem_post *)
LEMMA SemStep ==
    ASSUME SyncInv, test \in SyncTests, NEW t \in Threads,
           SemRead(t) \/ SemTake(t) \/ SemSleep(t) \/ SemAdd(t) \/ SemWake(t)
    PROVE  SyncInv'
<1>1. SyncTypes /\ test' = test
  BY DEF SyncInv, SemRead, SemTake, SemSleep, SemAdd, SemWake
<1>2. Kind(t) \in {"wait", "post"}
  BY DEF SemRead, SemTake, SemSleep, SemAdd, SemWake, At, Kind
<1>3. Op(t)[2] \in {Empty, Full}
  BY <1>1, <1>2, OpWords
<1>4. Return(t) \/ \E where \in Labels : Goto(t, where)
  BY DEF SemRead, SemTake, SemSleep, SemAdd, SemWake, FutexWait, Labels
<1>5. word' = word \/ \E n \in Int : word' = [word EXCEPT ![Op(t)[2]] = n]
  <2>1. word[Op(t)[2]] \in Int
    BY <1>1, <1>3, Apart DEF SyncTypes
  <2>2. CASE SemTake(t)
    <3>1. word' = word \/ (word[Op(t)[2]] = c[t] /\ word' = [word EXCEPT ![Op(t)[2]] = c[t] - 1])
      BY <2>2 DEF SemTake
    <3>2. word' = word \/ word' = [word EXCEPT ![Op(t)[2]] = word[Op(t)[2]] - 1]
      BY <3>1
    <3> QED BY <2>1, <3>2
  <2>3. CASE SemAdd(t)
    <3>1. word' = [word EXCEPT ![Op(t)[2]] = word[Op(t)[2]] + 1]
      BY <2>3 DEF SemAdd
    <3>2. word[Op(t)[2]] + 1 \in Int
      BY <2>1
    <3> QED BY <3>1, <3>2
  <2>4. CASE SemRead(t) \/ SemSleep(t) \/ SemWake(t)
    BY <2>4 DEF SemRead, SemSleep, SemWake
  <2> QED BY <2>2, <2>3, <2>4
<1>6. /\ word' \in [Words -> Int] /\ word'[Mutex] = word[Mutex]
      /\ \A x \in Threads : word'[x] = word[x]
  BY <1>1, <1>3, <1>5, Apart DEF SyncTypes
<1>7. Aside(t)
  BY <1>1, <1>2, <1>4, <1>6 DEF Aside, Guarded
<1> QED BY <1>2, <1>7, AsideStep

(* The end of a thread, the barrier, and the tests of clone *)
LEMMA OtherStep ==
    ASSUME SyncInv, test \in SyncTests, NEW t \in Threads,
           \/ ClearJoin(t) \/ WakeJoin(t) \/ ThreadExit(t) \/ SetGlobal(t) \/ Yield(t)
           \/ CheckLocal(t) \/ OpenBarrier(t) \/ CheckPhase(t) \/ WaitPhase(t)
    PROVE  SyncInv'
<1>1. SyncTypes /\ test' = test
  BY DEF SyncInv, ClearJoin, WakeJoin, ThreadExit, SetGlobal, Yield, CheckLocal,
         OpenBarrier, CheckPhase, WaitPhase
<1>2. Kind(t) \in {"clear", "wakejoin", "exit", "global", "yield", "local", "await"}
  BY DEF ClearJoin, WakeJoin, ThreadExit, SetGlobal, Yield, CheckLocal,
         OpenBarrier, CheckPhase, WaitPhase, At, Kind
<1>3. Return(t) \/ \E where \in Labels : Goto(t, where)
  BY DEF ClearJoin, WakeJoin, ThreadExit, SetGlobal, Yield, CheckLocal,
         OpenBarrier, CheckPhase, WaitPhase, FutexWait, Labels
<1>4. \/ word' = word
      \/ Kind(t) = "clear" /\ Return(t) /\ word' = [word EXCEPT ![t] = 0]
  <2>1. CASE ClearJoin(t)
    <3>1. Kind(t) = "clear" /\ Return(t) /\ word' = [word EXCEPT ![Op(t)[2]] = 0]
      BY <2>1 DEF ClearJoin, At, Kind
    <3>2. Op(t)[2] = t
      BY <1>1, <3>1, OpWords
    <3> QED BY <3>1, <3>2
  <2>2. CASE ~ClearJoin(t)
    BY <2>2 DEF WakeJoin, ThreadExit, SetGlobal, Yield, CheckLocal,
                OpenBarrier, CheckPhase, WaitPhase
  <2> QED BY <2>1, <2>2
<1>5. /\ word' \in [Words -> Int] /\ word'[Mutex] = word[Mutex]
      /\ \A x \in Threads : word'[x] = word[x] \/ (x = t /\ Kind(t) = "clear" /\ Return(t))
  BY <1>1, <1>4, Apart DEF SyncTypes
<1>6. Aside(t)
  BY <1>1, <1>2, <1>3, <1>5 DEF Aside, Guarded
<1> QED BY <1>2, <1>6, AsideStep

(* What a step of t within the mutex operations or what they guard keeps,  *)
(* given that it keeps the exclusion.                                      *)
LEMMA WithMutex ==
    ASSUME SyncInv, test \in SyncTests, test' = test, NEW t \in Threads, Kind(t) # "none",
           Return(t) \/ \E where \in Labels : Goto(t, where),
           NEW n \in Int, word' = [word EXCEPT ![Mutex] = n],
           \/ (Holds(t)' => Holds(t)) /\ n \in {word[Mutex], 1, 2}
           \/ word[Mutex] = 0 /\ n \in {1, 2}
           \/ Holds(t) /\ ~Holds(t)'
    PROVE  SyncInv'
<1>1. SyncTypes /\ Exclusion /\ JoinWords
  BY DEF SyncInv
<1>2. /\ ip' \in [Actors -> Nat] /\ lib' \in [Actors -> Labels]
      /\ ip'[Main] = ip[Main] /\ ip'[t] > 0 /\ (Past(t) => Past(t)')
      /\ \A x \in Threads \ {t} : /\ Holds(x)' <=> Holds(x)
                                  /\ Past(x)' <=> Past(x)
                                  /\ ip'[x] = ip[x]
  BY <1>1, Moved
<1>3. ip[t] > 0
  BY <1>1, Started
<1>4. /\ word' \in [Words -> Int] /\ word'[Mutex] = n
      /\ \A x \in Threads : word'[x] = word[x]
  BY <1>1, Apart DEF SyncTypes
<1>5. Exclusion'
  BY <1>1, <1>2, <1>4, KeepExclusion
<1>6. JoinWords'
  BY <1>1, <1>2, <1>3, <1>4, KeepJoinWords
<1> QED BY <1>2, <1>4, <1>5, <1>6 DEF SyncInv, SyncTypes

(* A step that leaves all words alone *)
LEMMA SameWord ==
    ASSUME SyncTypes, word' = word
    PROVE  word[Mutex] \in Int /\ word' = [word EXCEPT ![Mutex] = word[Mutex]]
BY Apart DEF SyncTypes

(* mutex_lock *)
LEMMA LockStep ==
    ASSUME SyncInv, test \in SyncTests, NEW t \in Threads,
           LockFast(t) \/ LockContend(t) \/ LockSleep(t) \/ LockAgain(t)
    PROVE  SyncInv'
<1>1. SyncTypes /\ test' = test
  BY DEF SyncInv, LockFast, LockContend, LockSleep, LockAgain
<1>2. Kind(t) = "lock"
  BY DEF LockFast, LockContend, LockSleep, LockAgain, At, Kind
<1>3. Return(t) \/ \E where \in Labels : Goto(t, where)
  BY DEF LockFast, LockContend, LockSleep, LockAgain, FutexWait, Labels
<1>4. (\E where \in Labels : Goto(t, where)) => ~Holds(t)'
  <2> SUFFICES ASSUME NEW where \in Labels, Goto(t, where) PROVE ~Holds(t)'
    OBVIOUS
  <2>1. Op(t)' = Op(t)
    BY <1>1, AfterGoto
  <2>2. Kind(t)' = "lock"
    BY <1>2, <2>1 DEF Kind
  <2> QED BY <2>2 DEF Holds, Owns, At, Kind
<1>5. CASE word' = word /\ \E where \in Labels : Goto(t, where)
  <2>1. word[Mutex] \in Int /\ word' = [word EXCEPT ![Mutex] = word[Mutex]]
    BY <1>1, <1>5, SameWord
  <2> QED BY <1>1, <1>2, <1>4, <1>5, <2>1, WithMutex
<1>6. CASE word' = [word EXCEPT ![Mutex] = 2] /\ \E where \in Labels : Goto(t, where)
  <2>1. 2 \in Int /\ 2 \in {word[Mutex], 1, 2} /\ Kind(t) # "none"
    BY <1>2
  <2> QED BY <1>1, <1>4, <1>6, <2>1, WithMutex, Zenon
<1>7. CASE word[Mutex] = 0 /\ \E n \in {1, 2} : word' = [word EXCEPT ![Mutex] = n]
  <2>1. PICK n \in {1, 2} : word' = [word EXCEPT ![Mutex] = n]
    BY <1>7
  <2>2. n \in Int /\ Kind(t) # "none"
    BY <1>2
  <2> QED BY <1>1, <1>3, <1>7, <2>1, <2>2, WithMutex, Zenon
<1>8. CASE LockFast(t) \/ LockAgain(t)
  BY <1>5, <1>7, <1>8 DEF LockFast, LockAgain, Labels
<1>9. CASE LockContend(t)
  BY <1>5, <1>6, <1>9 DEF LockContend, Labels
<1>10. CASE LockSleep(t)
  BY <1>5, <1>10 DEF LockSleep, FutexWait, Labels
<1> QED BY <1>8, <1>9, <1>10

(* mutex_unlock.  The word is 1 or 2 before the subtraction, since t holds *)
(* the mutex.                                                              *)
LEMMA UnlockStep ==
    ASSUME SyncInv, test \in SyncTests, NEW t \in Threads,
           UnlockSub(t) \/ UnlockRelease(t) \/ UnlockWake(t)
    PROVE  SyncInv'
<1>1. SyncTypes /\ Exclusion /\ test' = test
  BY DEF SyncInv, UnlockSub, UnlockRelease, UnlockWake
<1>2. Kind(t) = "unlock" /\ Kind(t) \notin Guarded \cup {"lock", "none"}
  BY DEF UnlockSub, UnlockRelease, UnlockWake, At, Kind, Guarded
<1>3. ip[t] > 0
  BY <1>1, <1>2, Started
<1>4. Return(t) => ~Holds(t)'
  BY <1>1, <1>2, <1>3, AfterReturn
<1>5. CASE UnlockSub(t)
  <2>1. Holds(t) /\ word[Mutex] \in {1, 2}
    BY <1>1, <1>5 DEF UnlockSub, Holds, Owns, Exclusion
  <2>2. CASE word[Mutex] = 1
    <3>1. Return(t) /\ word' = [word EXCEPT ![Mutex] = 0]
      BY <1>5, <2>2 DEF UnlockSub
    <3>2. 0 \in Int /\ Kind(t) # "none"
      BY <1>2
    <3> QED BY <1>1, <1>4, <2>1, <3>1, <3>2, WithMutex, Zenon
  <2>3. CASE word[Mutex] = 2
    <3>1. Goto(t, "release") /\ "release" \in Labels /\ word' = [word EXCEPT ![Mutex] = 1]
      BY <1>5, <2>3 DEF UnlockSub, Labels
    <3>2. 1 \in Int /\ 1 \in {word[Mutex], 1, 2} /\ Kind(t) # "none"
      BY <1>2
    <3> QED BY <1>1, <2>1, <3>1, <3>2, WithMutex, Zenon
  <2> QED BY <2>1, <2>2, <2>3
<1>6. CASE UnlockRelease(t)
  <2>1. /\ Holds(t) /\ Goto(t, "wake") /\ "wake" \in Labels
        /\ word' = [word EXCEPT ![Mutex] = 0]
    BY <1>6 DEF UnlockRelease, Holds, Labels
  <2>2. Op(t)' = Op(t) /\ lib'[t] = "wake"
    BY <1>1, <2>1, AfterGoto
  <2>3. ~Holds(t)'
    BY <1>2, <2>2 DEF Holds, Owns, At, Kind, Guarded
  <2>4. 0 \in Int /\ Kind(t) # "none"
    BY <1>2
  <2> QED BY <1>1, <2>1, <2>3, <2>4, WithMutex, Zenon
<1>7. CASE UnlockWake(t)
  <2>1. Return(t) /\ word' = word
    BY <1>7 DEF UnlockWake
  <2>2. word[Mutex] \in Int /\ word' = [word EXCEPT ![Mutex] = word[Mutex]]
    BY <1>1, <2>1, SameWord
  <2> QED BY <1>1, <1>2, <1>4, <2>1, <2>2, WithMutex
<1> QED BY <1>5, <1>6, <1>7

(* What the mutex guards *)
LEMMA GuardedStep ==
    ASSUME SyncInv, test \in SyncTests, NEW t \in Threads,
           LoadCount(t) \/ StoreCount(t) \/ Put(t) \/ Get(t) \/ Arrive(t)
    PROVE  SyncInv'
<1>1. SyncTypes /\ test' = test /\ word' = word /\ Return(t)
  BY DEF SyncInv, LoadCount, StoreCount, Put, Get, Arrive
<1>2. Kind(t) # "none" /\ Holds(t)
  BY DEF LoadCount, StoreCount, Put, Get, Arrive, At, Kind, Holds, Owns
<1>3. word[Mutex] \in Int /\ word' = [word EXCEPT ![Mutex] = word[Mutex]]
  BY <1>1, SameWord
<1> QED BY <1>1, <1>2, <1>3, WithMutex

(* The main program only creates and joins *)
LEMMA MainOps ==
    ASSUME test \in SyncTests, ip[Main] \in Nat
    PROVE  /\ Created \in 1..N
           /\ Kind(Main) \in {"create", "join", "none"}
           /\ Kind(Main) = "create" => ip[Main] \in 1..Created /\ Op(Main)[2] = ip[Main]
           /\ Kind(Main) = "join" =>
                 ip[Main] \in Created + 1 .. 2 * Created /\ Op(Main)[2] = ip[Main] - Created
<1>1. Created \in 1..N
  <2>1. Created \in {1, 2, N}
    BY DEF Created
  <2> QED BY <2>1, SyncConstants
<1>2. Op(Main) = MainOp(ip[Main])
  BY DEF Op
<1>3. \/ ip[Main] \in 1..Created /\ Op(Main) = <<"create", ip[Main]>>
      \/ /\ ip[Main] \in Created + 1 .. 2 * Created
         /\ Op(Main) = <<"join", ip[Main] - Created>>
      \/ Op(Main) = <<"none">>
  BY <1>2 DEF MainOp
<1> QED BY <1>1, <1>3 DEF Kind

(* thread_create and thread_join.  A join that returns has read 0 in the   *)
(* word of a thread that was created: the thread has stored it.            *)
LEMMA MainStep ==
    ASSUME SyncInv, test \in SyncTests, Step(Main)
    PROVE  SyncInv'
<1>1. SyncTypes /\ Exclusion /\ JoinWords
  BY DEF SyncInv
<1>2. /\ Main \in Actors /\ Main \notin Threads /\ Threads \subseteq Actors
      /\ ip[Main] \in Nat /\ ip[Main] > 0
  BY <1>1, SyncConstants DEF SyncTypes, JoinWords, Threads, Actors, Main
<1>3. Create(Main) \/ JoinRead(Main) \/ JoinSleep(Main)
  <2>1. Kind(Main) \in {"create", "join", "none"}
    BY <1>2, MainOps
  <2> QED BY <2>1 DEF Step, Kind, At, LockFast, LockContend, LockSleep, LockAgain, UnlockSub,
                UnlockRelease, UnlockWake, SemRead, SemTake, SemSleep, SemAdd, SemWake, ClearJoin,
                WakeJoin, ThreadExit, LoadCount, StoreCount, SetGlobal, Yield, CheckLocal, Put, Get,
                Arrive, OpenBarrier, CheckPhase, WaitPhase
<1>4. test' = test /\ Created' = Created
  <2>1. test' = test
    BY <1>3 DEF Create, JoinRead, JoinSleep
  <2> QED BY <2>1, Zenon DEF Created
<1>5. CASE Create(Main)
  <2>1. PICK t \in Threads : t = Op(Main)[2] /\ t = ip[Main] /\ t <= Created /\ Created \in 1..N
    <3>1. Kind(Main) = "create"
      BY <1>5 DEF Create, At, Kind
    <3> QED BY <1>2, <3>1, MainOps, SyncConstants DEF Threads
  <2>2. /\ word' = [word EXCEPT ![t] = 1]
        /\ ip' = [ip EXCEPT ![Main] = @ + 1, ![t] = 1] /\ lib' = lib
    BY <1>5, <2>1 DEF Create, CloneThread
  <2>3. SyncTypes'
    BY <1>1, <1>2, <2>1, <2>2, Apart DEF SyncTypes
  <2>4. /\ word'[Mutex] = word[Mutex] /\ word'[t] = 1 /\ ip'[t] = 1 /\ ip'[Main] = ip[Main] + 1
        /\ \A x \in Threads \ {t} : ip'[x] = ip[x] /\ lib'[x] = lib[x] /\ word'[x] = word[x]
    BY <1>1, <1>2, <2>1, <2>2, Apart DEF SyncTypes
  <2>5. \A x \in Threads \ {t} : (Holds(x)' <=> Holds(x)) /\ (Past(x)' <=> Past(x))
    BY <1>4, <2>4, Elsewhere
  <2>6. ~Holds(t)'
    <3>1. Located(t)' /\ Paired(Body(t)) /\ Body(t)' = Body(t)
      <4>1. test' \in SyncTests /\ ip'[t] \in Nat
        BY <1>4, <2>4
      <4>2. Body(t)' = Body(t)
        BY <1>4, Zenon DEF Body, Produces
      <4> QED BY <2>1, <4>1, <4>2, ThreadOpNext, BodyPaired
    <3>2. Op(t)' = Body(t)[1]
      BY <2>4, <3>1 DEF Located, Paired
    <3> QED BY <3>1, <3>2 DEF Paired, Holds, Owns, At, Guarded
  <2>7. Exclusion'
    BY <1>1, <2>1, <2>4, <2>5, <2>6, KeepExclusion
  <2>8. JoinWords'
    <3>1. ip'[Main] > 0
      BY <1>2, <2>4
    <3>2. ASSUME NEW x \in Threads
          PROVE  /\ x <= Created /\ x < ip'[Main] => ip'[x] > 0
                 /\ ip'[x] > 0 => Past(x)' \/ word'[x] = 1
                 /\ Joined(x)' => Past(x)'
      <4>1. CASE x = t
        BY <1>2, <1>4, <2>1, <2>4, <4>1 DEF Joined, Threads
      <4>2. CASE x # t
        <5>1. Joined(x)' => Joined(x)
          BY <1>2, <1>4, <2>1, <2>4, SyncConstants DEF Joined, Threads
        <5>2. x < ip'[Main] => x < ip[Main]
          BY <1>2, <2>1, <2>4, <4>2 DEF Threads
        <5> QED BY <1>1, <2>4, <2>5, <4>2, <5>1, <5>2 DEF JoinWords
      <4> QED BY <4>1, <4>2
    <3> QED BY <1>4, <3>1, <3>2 DEF JoinWords
  <2> QED BY <2>3, <2>7, <2>8 DEF SyncInv
<1>6. ASSUME JoinRead(Main) \/ JoinSleep(Main) PROVE SyncInv'
  <2>1. PICK t \in Threads :
           t = Op(Main)[2] /\ t <= Created /\ ip[Main] = Created + t /\ Created \in 1..N
    <3>1. Kind(Main) = "join"
      BY <1>6 DEF JoinRead, JoinSleep, At, Kind
    <3> QED BY <1>2, <3>1, MainOps, SyncConstants DEF Threads
  <2>2. /\ word' = word
        /\ \/ /\ ip' = ip /\ \E where \in Labels : lib' = [lib EXCEPT ![Main] = where]
           \/ /\ word[t] = 0 /\ ip' = [ip EXCEPT ![Main] = @ + 1]
              /\ lib' = [lib EXCEPT ![Main] = "start"]
    BY <1>6, <2>1 DEF JoinRead, JoinSleep, FutexWait, Goto, Return, Labels
  <2>3. /\ SyncTypes' /\ \A x \in Threads : ip'[x] = ip[x] /\ lib'[x] = lib[x]
        /\ ip'[Main] = ip[Main] \/ (ip'[Main] = ip[Main] + 1 /\ word[t] = 0)
    BY <1>1, <1>2, <2>2 DEF SyncTypes, Labels
  <2>4. \A x \in Threads : (Holds(x)' <=> Holds(x)) /\ (Past(x)' <=> Past(x))
    BY <1>4, <2>3, Elsewhere
  <2>5. Exclusion'
    BY <1>1, <2>1, <2>2, <2>4 DEF Exclusion
  <2>6. ip'[Main] # ip[Main] => Past(t)
    BY <1>1, <1>2, <2>1, <2>3 DEF JoinWords, Threads
  <2>7. JoinWords'
    <3>1. \A x \in Threads : Joined(x)' => Joined(x) \/ (x = t /\ ip'[Main] # ip[Main])
      BY <1>2, <1>4, <2>1, <2>3 DEF Joined, Threads
    <3>2. \A x \in Threads : x <= Created => x < ip[Main]
      BY <1>2, <2>1 DEF Threads
    <3> QED BY <1>1, <1>2, <1>4, <2>2, <2>3, <2>4, <2>6, <3>1, <3>2 DEF JoinWords
  <2> QED BY <2>3, <2>5, <2>7 DEF SyncInv
<1> QED BY <1>3, <1>5, <1>6

(* Any step of any actor *)
LEMMA SyncStep ==
    ASSUME SyncInv, test \in SyncTests, NEW a \in Actors, Step(a)
    PROVE  SyncInv'
<1>1. CASE a = Main
  BY <1>1, MainStep
<1>2. CASE a # Main
  <2>1. a \in Threads
    BY <1>2 DEF Actors, Threads, Main
  <2>2. ~Create(a) /\ ~JoinRead(a) /\ ~JoinSleep(a)
    <3>1. Kind(a) \notin {"create", "join"}
      BY <2>1, OpWords DEF SyncInv
    <3> QED BY <3>1 DEF Create, JoinRead, JoinSleep, At, Kind
  <2> QED BY <2>1, <2>2, LockStep, UnlockStep, SemStep, OtherStep, GuardedStep DEF Step
<1> QED BY <1>1, <1>2

(* The beginning of a test *)
LEMMA SyncStart ==
    ASSUME Start
    PROVE  SyncInv
<1>1. SyncTypes /\ Threads \subseteq Actors /\ Main \in Actors /\ Main \notin Threads
  BY SyncConstants DEF Start, SyncTypes, Labels, Actors, Main, Words, Empty, Threads
<1>2. ip[Main] = 1 /\ \A t \in Threads : ip[t] = 0
  BY <1>1 DEF Start
<1>3. \A t \in Threads : Op(t) = <<"none">>
  BY <1>1, <1>2 DEF Op
<1>4. \A t \in Threads : ~Holds(t)
  BY <1>3 DEF Holds, Owns, At
<1>5. Created \in 1..N
  <2>1. Created \in {1, 2, N}
    BY DEF Created
  <2> QED BY <2>1, SyncConstants
<1>6. JoinWords
  BY <1>2, <1>5, SyncConstants DEF JoinWords, Joined, Threads
<1> QED BY <1>1, <1>4, <1>6 DEF SyncInv, Exclusion

(* The invariant implies the exclusion *)
LEMMA SyncExclusive ==
    ASSUME SyncInv
    PROVE  MutexExclusive
<1>1. \A t \in Threads : Owns(t) => Holds(t)
  BY DEF Holds
<1> QED BY <1>1 DEF SyncInv, Exclusion, MutexExclusive

(* A thread that was joined has stored its join word: it is past its program *)
LEMMA SyncJoins ==
    ASSUME SyncInv, test \in SyncTests
    PROVE  JoinSafe
<1> SUFFICES ASSUME NEW t \in Threads, Joined(t)
             PROVE  Finished(t) \/ Op(t)[1] \in {"wakejoin", "exit"}
  BY DEF JoinSafe
<1>1. Past(t) /\ ip[t] \in Nat /\ t # Main
  BY SyncConstants DEF SyncInv, SyncTypes, JoinWords, Threads, Actors, Main
<1>2. Located(t) /\ Len(Body(t)) \in 1..5
  BY <1>1, ThreadOp, BodyPaired DEF Paired
<1>3. ip[t] = Len(Body(t)) + 2 \/ ip[t] = Len(Body(t)) + 3 \/ ip[t] > Len(Body(t)) + 3
  BY <1>1, <1>2 DEF Past
<1> QED BY <1>1, <1>2, <1>3 DEF Located, Finished
=============================================================================
