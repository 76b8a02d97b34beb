-------------------------------- MODULE Pipe -------------------------------
(***************************************************************************)
(* A pipe (kernel/fs/pipe/pipe.cpp), the descriptor tables that refer to   *)
(* it (kernel/fs/fd_table.cpp, file.cpp) and the calls that create, copy   *)
(* and drop descriptors: pipe2, dup, dup3, close, fork, clone(CLONE_THREAD)*)
(* and exit.                                                               *)
(*                                                                         *)
(* There is one pipe at a time and every descriptor is an end of it.  A    *)
(* read of an empty pipe and a write to a full one loop over PCB::yield(): *)
(* the caller stays READY, and a turn of its loop is one step.             *)
(***************************************************************************)
EXTENDS Naturals, Sequences, FiniteSets, FiniteSetsExt

CONSTANTS
    Actors,     \* threads of control: a process's own, or a cloned thread
    Root, NoTable,
    MaxFds,     \* FdTable::MAX_FDS
    Size,       \* PIPE_BUF_SIZE
    ReadLens, WriteLens,    \* the lengths given to read() and write()
    Bytes,
    MaxRefs     \* bound of m_refCount

ASSUME PipeConstants ==
    /\ Root \in Actors /\ NoTable \notin Actors /\ IsFiniteSet(Actors) /\ Bytes # {}
    /\ MaxFds \in Nat /\ Size \in Nat \ {0}
    /\ ReadLens \cup WriteLens \subseteq Nat \ {0} /\ MaxRefs \in Nat \ {0}

VARIABLES
    table,      \* the table an actor uses: its own, or its process's
    fds,        \* m_fds, per table; "free", "r" or "w"
    refs,       \* FdTable::m_refCount; 0: deleted
    pipe,       \* the PipeInode: m_buf, m_head, m_tail, m_count, m_readers,
                \* m_writers, and whether it is allocated
    call,       \* the read, write or exit an actor is in the middle of
    out,        \* history: the bytes the last read() delivered
    stop        \* "hang": spinning on a lock for ever;
                \* "freed": a File somebody works on was deleted

vars == <<table, fds, refs, pipe, call, out, stop>>

Fds == 0 .. MaxFds - 1
NoCall == [op |-> "none", fd |-> 0, len |-> 0, src |-> <<>>]
NoPipe == [live |-> FALSE, buf |-> [i \in 0 .. Size - 1 |-> CHOOSE b \in Bytes : TRUE],
           head |-> 0, tail |-> 0, count |-> 0, readers |-> 0, writers |-> 0]

Init ==
    /\ table = [a \in Actors |-> IF a = Root THEN Root ELSE NoTable]
    /\ fds = [a \in Actors |-> [i \in Fds |-> "free"]]
    /\ refs = [a \in Actors |-> IF a = Root THEN 1 ELSE 0]
    /\ pipe = NoPipe
    /\ call = [a \in Actors |-> NoCall]
    /\ out = <<>> /\ stop = "no"

(* a is in user mode, and the kernel is sane *)
Idle(a) == stop = "no" /\ table[a] # NoTable /\ call[a] = NoCall
In(a, op) == stop = "no" /\ table[a] # NoTable /\ call[a].op = op

(* An Actors entry that can become a new process, or a new thread *)
Unused(a) == table[a] = NoTable /\ refs[a] = 0

(* exitGroup() holds m_lock while it waits for the threads to go *)
Locked(p) == call[p].op = "exit"

IsThread(t, p) == t # p /\ table[t] = p

(* How many of the descriptors in a function are the end e of the pipe *)
Ends(f, e) == Cardinality({i \in DOMAIN f : f[i] = e})

(* The definitions named *Fault are plausible mistakes in the operation    *)
(* that follows them; no specification uses them.                          *)

-----------------------------------------------------------------------------
(* PipeInode::onOpen and onClose, for several descriptors at once *)

\* the readers are not counted
OnOpenFault(pi, f) == [pi EXCEPT !.writers = @ + Ends(f, "w")]

(* A copy of the descriptors f is made *)
OnOpen(pi, f) ==
    [pi EXCEPT !.readers = @ + Ends(f, "r"), !.writers = @ + Ends(f, "w")]

Less(n, m) == IF n > m THEN n - m ELSE 0

(* The descriptors f are closed; the last one deletes the pipe *)
OnClose(pi, f) ==
    LET r == Less(pi.readers, Ends(f, "r"))
        w == Less(pi.writers, Ends(f, "w")) IN
    IF r = 0 /\ w = 0 THEN NoPipe
    ELSE [pi EXCEPT !.readers = r, !.writers = w]

-----------------------------------------------------------------------------
(* The descriptor table *)

FreeFds(p) == {i \in Fds : fds[p][i] = "free"}

(* FdTable::alloc takes the lowest free entry *)
Lowest(p) == Min(FreeFds(p))

(* A File of table p is deleted: its users, other than a, are left with a  *)
(* dangling pointer.                                                       *)
InUse(a, p, fd) == \E u \in Actors \ {a} : table[u] = p /\ call[u].op \in {"read", "write"}
                                                     /\ call[u].fd = fd
Freed(a, p, fd) == IF InUse(a, p, fd) THEN "freed" ELSE "no"

(* sys_pipe2: both descriptors, or none *)
Pipe2(a) ==
    /\ Idle(a) /\ ~pipe.live
    /\ LET p == table[a]
           first == Lowest(p)
           second == Min(FreeFds(p) \ {first}) IN
       /\ Cardinality(FreeFds(p)) >= 2
       /\ fds' = [fds EXCEPT ![p][first] = "r", ![p][second] = "w"]
       /\ pipe' = [NoPipe EXCEPT !.live = TRUE, !.readers = 1, !.writers = 1]
    /\ UNCHANGED <<table, refs, call, out, stop>>

(* sys_dup.  With a full table the copy is closed again. *)
Dup(a, fd) ==
    /\ Idle(a)
    /\ LET p == table[a] IN
       /\ fds[p][fd] # "free" /\ FreeFds(p) # {}
       /\ fds' = [fds EXCEPT ![p][Lowest(p)] = fds[p][fd]]
       /\ pipe' = OnOpen(pipe, <<fds[p][fd]>>)
    /\ UNCHANGED <<table, refs, call, out, stop>>

(* sys_dup3: the copy is opened before what new refers to is closed *)
Dup3(a, old, new) ==
    /\ Idle(a) /\ old # new
    /\ LET p == table[a] IN
       /\ fds[p][old] # "free"
       /\ fds' = [fds EXCEPT ![p][new] = fds[p][old]]
       /\ pipe' = OnClose(OnOpen(pipe, <<fds[p][old]>>), <<fds[p][new]>>)
       /\ stop' = Freed(a, p, new)
    /\ UNCHANGED <<table, refs, call, out>>

(* FdTable::close *)
Close(a, fd) ==
    /\ Idle(a)
    /\ LET p == table[a] IN
       /\ fds[p][fd] # "free"
       /\ fds' = [fds EXCEPT ![p][fd] = "free"]
       /\ pipe' = OnClose(pipe, <<fds[p][fd]>>)
       /\ stop' = Freed(a, p, fd)
    /\ UNCHANGED <<table, refs, call, out>>

(* fork() and cloneThread() end with m_lock.acquire() on the process: with *)
(* the lock held by exitGroup() they spin for ever, interrupts off.        *)
Hang == stop' = "hang" /\ UNCHANGED <<table, fds, refs, pipe, call, out>>

(* Process::fork: FdTable::clone copies every File *)
Fork(a, c) ==
    /\ Idle(a) /\ Unused(c)
    /\ IF Locked(table[a]) THEN Hang
       ELSE /\ table' = [table EXCEPT ![c] = c]
            /\ fds' = [fds EXCEPT ![c] = fds[table[a]]]
            /\ refs' = [refs EXCEPT ![c] = 1]
            /\ pipe' = IF pipe.live THEN OnOpen(pipe, fds[table[a]]) ELSE pipe
            /\ UNCHANGED <<call, out, stop>>

(* Process::cloneThread: the thread takes a reference to the table, which  *)
(* Thread::exit does not give back.                                        *)
CloneThread(a, t) ==
    /\ Idle(a) /\ Unused(t) /\ refs[table[a]] < MaxRefs
    /\ IF Locked(table[a]) THEN Hang
       ELSE /\ table' = [table EXCEPT ![t] = table[a]]
            /\ refs' = [refs EXCEPT ![table[a]] = @ + 1]
            /\ UNCHANGED <<fds, pipe, call, out, stop>>

-----------------------------------------------------------------------------
(* Leaving *)

(* Thread::exit by the thread itself *)
ThreadExit(t) ==
    /\ Idle(t) /\ table[t] # t
    /\ table' = [table EXCEPT ![t] = NoTable]
    /\ UNCHANGED <<fds, refs, pipe, call, out, stop>>

(* One turn of the loop of exitGroup(): t->exit(0) ends the thread and     *)
(* then yields on behalf of the caller.                                    *)
ExitGroupThread(p, t) ==
    /\ (Idle(p) \/ In(p, "exit")) /\ IsThread(t, p)
    /\ table' = [table EXCEPT ![t] = NoTable]
    /\ call' = [call EXCEPT ![t] = NoCall, ![p] = [NoCall EXCEPT !.op = "exit"]]
    /\ UNCHANGED <<fds, refs, pipe, out, stop>>

(* Process::exit of a process without threads: clear() releases the table, *)
(* and the last reference closes every descriptor.                         *)
Exit(p) ==
    /\ (Idle(p) \/ In(p, "exit")) /\ table[p] = p
    /\ ~ \E t \in Actors : IsThread(t, p)
    /\ table' = [table EXCEPT ![p] = NoTable]
    /\ call' = [call EXCEPT ![p] = NoCall]
    /\ refs' = [refs EXCEPT ![p] = @ - 1]
    /\ IF refs[p] = 1
       THEN /\ fds' = [fds EXCEPT ![p] = [i \in Fds |-> "free"]]
            /\ pipe' = OnClose(pipe, fds[p])
       ELSE UNCHANGED <<fds, pipe>>
    /\ UNCHANGED <<out, stop>>

(* Process::exit, by sys_exit, with a thread left: t->exit(0) in clear()   *)
(* yields when the caller is a ZOMBIE already, and never returns to it.    *)
ExitLeavesThread(p, t) ==
    /\ Idle(p) /\ IsThread(t, p)
    /\ table' = [table EXCEPT ![p] = NoTable, ![t] = NoTable]
    /\ call' = [call EXCEPT ![t] = NoCall]
    /\ UNCHANGED <<fds, refs, pipe, out, stop>>

-----------------------------------------------------------------------------
(* PipeInode::read and write *)

At(i) == i % Size

(* the n oldest bytes *)
Oldest(pi, n) == [k \in 1..n |-> pi.buf[At(pi.tail + k - 1)]]

\* the tail moves one byte too far
TakeFault(pi, n) == [pi EXCEPT !.tail = At(@ + n + 1), !.count = @ - n]

Take(pi, n) == [pi EXCEPT !.tail = At(@ + n), !.count = @ - n]

Store(pi, s) ==
    [pi EXCEPT
        !.buf = [i \in DOMAIN @ |->
                    IF \E k \in DOMAIN s : At(pi.head + k - 1) = i
                    THEN s[CHOOSE k \in DOMAIN s : At(pi.head + k - 1) = i] ELSE @[i]],
        !.head = At(@ + Len(s)), !.count = @ + Len(s)]

\* the end of file is not noticed
ReadTurnFault(a, fd, len) ==
    LET n == Min({len, pipe.count}) IN
    /\ IF pipe.count > 0
       THEN /\ out' = Oldest(pipe, n) /\ pipe' = Take(pipe, n)
            /\ call' = [call EXCEPT ![a] = NoCall]
       ELSE /\ call' = [call EXCEPT ![a] = [NoCall EXCEPT !.op = "read", !.fd = fd, !.len = len]]
            /\ UNCHANGED <<pipe, out>>
    /\ UNCHANGED <<table, fds, refs, stop>>

(* One turn of the loop of read(): bytes, end of file, or yield *)
ReadTurn(a, fd, len) ==
    LET n == Min({len, pipe.count}) IN
    /\ IF pipe.count > 0
       THEN /\ out' = Oldest(pipe, n) /\ pipe' = Take(pipe, n)
            /\ call' = [call EXCEPT ![a] = NoCall]
       ELSE /\ call' = [call EXCEPT ![a] =
                          IF pipe.writers = 0 THEN NoCall
                          ELSE [NoCall EXCEPT !.op = "read", !.fd = fd, !.len = len]]
            /\ UNCHANGED <<pipe, out>>
    /\ UNCHANGED <<table, fds, refs, stop>>

(* The turns of write() up to its next yield.  Without readers it returns  *)
(* early with SIGPIPE pending; whether that ends the process is up to its  *)
(* handlers, so that Exit may follow or not.                               *)
WriteTurn(a, fd, src) ==
    LET n == Min({Len(src), Size - pipe.count}) IN
    /\ IF pipe.readers = 0
       THEN call' = [call EXCEPT ![a] = NoCall] /\ UNCHANGED pipe
       ELSE /\ pipe' = Store(pipe, SubSeq(src, 1, n))
            /\ call' = [call EXCEPT ![a] =
                          IF n = Len(src) THEN NoCall
                          ELSE [NoCall EXCEPT !.op = "write", !.fd = fd,
                                              !.src = SubSeq(src, n + 1, Len(src))]]
    /\ UNCHANGED <<table, fds, refs, out, stop>>

Read(a, fd, len) ==
    Idle(a) /\ fds[table[a]][fd] = "r" /\ ReadTurn(a, fd, len)

Write(a, fd, src) ==
    Idle(a) /\ fds[table[a]][fd] = "w" /\ WriteTurn(a, fd, src)

ReadAgain(a) == In(a, "read") /\ ReadTurn(a, call[a].fd, call[a].len)

WriteAgain(a) == In(a, "write") /\ WriteTurn(a, call[a].fd, call[a].src)

Next ==
    \E a \in Actors :
        \/ Pipe2(a)
        \/ \E fd \in Fds : Dup(a, fd)
        \/ \E old, new \in Fds : Dup3(a, old, new)
        \/ \E fd \in Fds : Close(a, fd)
        \/ \E c \in Actors : Fork(a, c)
        \/ \E t \in Actors : CloneThread(a, t)
        \/ ThreadExit(a)
        \/ \E t \in Actors : ExitGroupThread(a, t)
        \/ Exit(a)
        \/ \E t \in Actors : ExitLeavesThread(a, t)
        \/ \E fd \in Fds, len \in ReadLens : Read(a, fd, len)
        \/ \E fd \in Fds, len \in WriteLens : \E src \in [1..len -> Bytes] : Write(a, fd, src)
        \/ ReadAgain(a)
        \/ WriteAgain(a)

Spec == Init /\ [][Next]_vars

(* A yielding actor goes to the tail of the ready list, and the list is    *)
(* served round robin: every loop gets its next turn.                      *)
FairSpec == Spec /\ \A a \in Actors : WF_vars(ReadAgain(a)) /\ WF_vars(WriteAgain(a))

-----------------------------------------------------------------------------
(* m_readers and m_writers are the numbers of open descriptors of each     *)
(* kind in all tables, however they were copied and dropped: an end of     *)
(* file or a broken pipe is never reported while a peer is left.           *)
Open(e) == {x \in Actors \X Fds : refs[x[1]] > 0 /\ fds[x[1]][x[2]] = e}
CountsExact ==
    /\ pipe.readers = Cardinality(Open("r"))
    /\ pipe.writers = Cardinality(Open("w"))

(* The ring buffer with m_head, m_tail and m_count is a stream of bytes:   *)
(* what read() delivers is what write() stored, in that order, also when   *)
(* writers and readers take turns in the middle of their calls.            *)
Stream == INSTANCE ByteStream WITH stream <- Oldest(pipe, pipe.count)
StreamSpec == Stream!Spec

(* Once no living process has the other end, a reader that loops on the    *)
(* empty pipe sees the end of file, and a writer that loops on the full    *)
(* one is sent SIGPIPE: neither loops for ever.  The exception is a table  *)
(* that outlives its process, held by a reference its threads left behind. *)
Held(e) == \E a \in Actors : table[a] # NoTable /\ \E i \in Fds : fds[table[a]][i] = e
Leaked == \E p \in Actors : refs[p] > 0 /\ \A a \in Actors : table[a] # p
HangupSeen ==
    \A a \in Actors :
        /\ (In(a, "read") /\ ~Held("w")) ~> (~In(a, "read") \/ Leaked)
        /\ (In(a, "write") /\ ~Held("r")) ~> (~In(a, "write") \/ Leaked)
=============================================================================
