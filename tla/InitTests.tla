----------------------------- MODULE InitTests -----------------------------
(***************************************************************************)
(* The tests of user/init.c that are about several processes, run on the   *)
(* process tree and the signals of the kernel: fork, exit and wait4 are    *)
(* steps of ProcessTree and of Signals at once, and so are kill() and the  *)
(* delivery of a signal that ends or stops its process.                    *)
(*                                                                         *)
(* A test is a record of programs, one for the test function and one for   *)
(* each kind of child; a program is the sequence of the calls and checks   *)
(* of the source.  Loops over many children are cut to two.                *)
(*                                                                         *)
(* The suite is these tests and those of UserSync: one is chosen, and the  *)
(* machine of the other kind stands still.                                 *)
(***************************************************************************)
EXTENDS UserSync

CONSTANT MaxPid     \* pids are 0 .. MaxPid; init has 0

Procs == 0 .. MaxPid
Root == 0
NoProc == -1
AnyPid == -2

SIGKILL == 9
SIGUSR1 == 10
SIGUSR2 == 12
SIGTERM == 15
SIGCHLD == 17
SIGCONT == 18
SIGSTOP == 19

VARIABLES
    role,           \* the program of each process
    pc, kids,       \* where each process is, the pids that fork() gave it
    mem,            \* a variable of the process: what its handlers have counted
    shared, queue,  \* a MAP_SHARED page, and the futex queue of its first word
    fifo,           \* the pipe: chunks held, processes with each end open
    result,         \* how a process ended, as wait4 reports it
    bad,            \* history: processes that saw a check fail
    tangled,        \* history: see Waited and Delay
    ran,            \* the running process got on since it has the cpu
    \* ProcessTree
    status, parent, children, tokens, reaped, sibling, garbage, call, ret, odd,
    \* Signals
    cpu, mode, pending, mask, action, frames

Tree == INSTANCE ProcessTree WITH Targets <- {AnyPid}
Sig == INSTANCE Signals WITH
        Sent <- {}, Caught <- {SIGUSR1, SIGUSR2, SIGCHLD, SIGCONT}, Masks <- {},
        SaMask <- {}, MaxFrames <- 2

progVars == <<test, role, pc, kids, mem, shared, queue, fifo, result, bad, tangled>>
treeVars == <<status, children, tokens, reaped, sibling, garbage, call, ret, odd>>
sigVars == <<cpu, mode, pending, mask, action, frames>>
syncVars == <<ip, i, lib, c, v, word, waiters, data, missed>>
vars == <<progVars, ran, parent, treeVars, sigVars, syncVars>>

-----------------------------------------------------------------------------
(* The operations of a program *)

fork(r) == [op |-> "fork", role |-> r]
execve(r) == [op |-> "execve", role |-> r]
exit(n) == [op |-> "exit", code |-> n, otherwise |-> n]
exitOk(n) == [op |-> "exit", code |-> n, otherwise |-> 1]

(* The status words of Process::wait, and the other results of wait4 *)
Exited(n) == (n % 256) * 256
Signaled(s) == s % 128
Fails == -1
Again == -2
Reaped == 0 .. Exited(255)
Anything == Fails .. Exited(255)

(* child: the number of the fork(); 0 stands for -1, or for the caller *)
waitpid(k, expected) == [op |-> "wait", child |-> k, nohang |-> FALSE, expected |-> expected]
waitnohang(k, expected) == [op |-> "wait", child |-> k, nohang |-> TRUE, expected |-> expected]
kill(k, s) == [op |-> "kill", child |-> k, sig |-> s]
signal(s, act) == [op |-> "signal", sig |-> s, act |-> act]
sigprocmask(how, set) == [op |-> "mask", how |-> how, set |-> set]
sigpending == [op |-> "sigpending"]
checkaction(s, act) == [op |-> "checkaction", sig |-> s, act |-> act]
checkmask(set) == [op |-> "checkmask", set |-> set]
getppid == [op |-> "getppid"]

(* Plain memory: the process's own, and the shared page *)
store(n) == [op |-> "store", val |-> n]
check(set) == [op |-> "check", set |-> set]
share(n) == [op |-> "share", val |-> n]
checkshared(n) == [op |-> "checkshared", val |-> n]
count == [op |-> "count"]
checkcount(n) == [op |-> "checkcount", val |-> n]

futexwait(val, expected) == [op |-> "futexwait", val |-> val, expected |-> expected]
futexwake(n, woken) == [op |-> "futexwake", n |-> n, woken |-> woken]

(* A pipe that holds one chunk.  read() adds what it got to the variable;  *)
(* readall goes on until the end of the stream.                            *)
pipe == [op |-> "pipe"]
close(end) == [op |-> "close", end |-> end]
write == [op |-> "write"]
read(expected) == [op |-> "read", expected |-> expected]
readall == [op |-> "readall"]

(* A counting loop that is to last until something has happened, and the   *)
(* loops around sched_yield().                                             *)
delay(until) == [op |-> "delay", until |-> until]
yieldUntil(n) == [op |-> "yieldUntil", val |-> n]

-----------------------------------------------------------------------------
(* The tests *)

test_fork_basic ==
    [main |-> << fork("child"), waitpid(1, {Exited(42)}) >>, child |-> << exit(42) >>]

test_fork_memory ==
    [main |-> << store(9), fork("stores"), waitpid(1, Anything), check({9}),
                 fork("stores"), waitpid(2, Anything), check({9}),
                 store(1), fork("sees"), waitpid(3, {Exited(34)}), check({1}) >>,
     stores |-> << store(0), exit(0) >>,
     sees |-> << store(2), check({2}), exitOk(34) >>]

test_fork_chain ==
    [main |-> << fork("middle"), waitpid(1, {Exited(0)}) >>,
     middle |-> << fork("leaf"), waitpid(1, {Exited(77)}), exitOk(0) >>,
     leaf |-> << exit(77) >>]

test_wait_no_children == [main |-> << waitpid(0, {Fails}), waitpid(1, {Fails}) >>]

test_exit_codes ==
    [main |-> << fork("one"), waitpid(1, {Exited(1)}), fork("full"), waitpid(2, {Exited(255)}) >>,
     one |-> << exit(1) >>, full |-> << exit(255) >>]

(* A re-executed init sees a pid above 1 and exits at once *)
test_execve ==
    [main |-> << fork("child"), waitpid(1, {Exited(0)}),
                 fork("missing"), waitpid(2, {Exited(123)}),
                 fork("null"), waitpid(3, {Exited(124)}) >>,
     child |-> << execve("init"), exit(200) >>, init |-> << exit(0) >>,
     missing |-> << execve(""), exit(123) >>, null |-> << execve(""), exit(124) >>]

test_fork_bomb ==
    [main |-> << fork("child"), fork("child"), waitpid(1, Reaped), waitpid(2, Reaped) >>,
     child |-> << exit(0) >>]

test_fork_mmap_shared ==
    [main |-> << share(1), fork("child"), waitpid(1, {Exited(0)}), checkshared(2) >>,
     child |-> << checkshared(1), share(2), exitOk(0) >>]

fork_tree ==
    [main |-> << fork("node"), waitpid(1, Anything) >>,
     node |-> << fork("leaf"), fork("leaf"), waitpid(1, Anything), waitpid(2, Anything), exit(0) >>,
     leaf |-> << exit(0) >>]

test_getppid ==
    [main |-> << fork("child"), waitpid(1, {Exited(0)}) >>, child |-> << getppid, exitOk(0) >>]

test_futex_basic ==
    [main |-> << share(0), fork("child"), delay("asleep"), share(1), futexwake(1, 1),
                 waitpid(1, {Exited(0)}), futexwait(0, {Fails}), futexwake(1, 0) >>,
     child |-> << futexwait(0, {0, Fails}), checkshared(1), exitOk(0) >>]

test_futex_multi_wake ==
    [main |-> << share(0), fork("child"), fork("child"), delay("asleep"), futexwake(1, 1),
                 futexwake(MaxPid, 1), waitpid(1, Anything), waitpid(2, Anything), checkcount(2) >>,
     child |-> << futexwait(0, {0, Fails}), count, exit(0) >>]

test_futex_eagain_race ==
    [main |-> << share(4), futexwait(0, {Fails}), fork("child"), delay("asleep"), share(9),
                 futexwake(1, 1), waitpid(1, {Exited(0)}) >>,
     child |-> << futexwait(4, {0}), exitOk(0) >>]

test_signal_basic ==
    [main |-> << signal(SIGUSR1, "handler"), kill(0, SIGUSR1), check({1}), signal(SIGUSR1, "dfl") >>]

test_signal_ign ==
    [main |-> << signal(SIGUSR2, "ign"), kill(0, SIGUSR2), check({0}), signal(SIGUSR2, "dfl") >>]

test_sigaction_unblockable == [main |-> << signal(SIGKILL, "handler"), signal(SIGSTOP, "handler") >>]

test_sigaction_oldact ==
    [main |-> << signal(SIGUSR1, "handler"), checkaction(SIGUSR1, "handler"),
                 signal(SIGUSR1, "handler"), signal(SIGUSR1, "dfl") >>]

test_sigaction_query ==
    [main |-> << signal(SIGUSR1, "handler"), checkaction(SIGUSR1, "handler"),
                 signal(SIGUSR1, "dfl") >>]

test_sigprocmask ==
    [main |-> << signal(SIGUSR1, "handler"), sigprocmask("block", {SIGUSR1}), kill(0, SIGUSR1),
                 check({0}), sigprocmask("unblock", {SIGUSR1}), check({1}) >>]

test_sigprocmask_setmask ==
    [main |-> << checkmask({}), sigprocmask("set", 1 .. 31), sigprocmask("set", {}), checkmask({}) >>]

test_sigpending ==
    [main |-> << signal(SIGUSR2, "handler"), sigprocmask("block", {SIGUSR2}), kill(0, SIGUSR2),
                 sigpending, check({0}), sigprocmask("unblock", {SIGUSR2}),
                 check({1}) >>]

test_signal_multiple ==
    [main |-> << signal(SIGUSR1, "handler"), kill(0, SIGUSR1), kill(0, SIGUSR1), check(1 .. 2) >>]

test_sigterm_default ==
    [main |-> << fork("child"), waitpid(1, {Signaled(SIGTERM)}) >>,
     child |-> << kill(0, SIGTERM), exit(200) >>]

test_sigkill_uncatchable ==
    [main |-> << signal(SIGKILL, "handler"), checkmask({}), sigprocmask("block", {SIGKILL}),
                 fork("child"), waitpid(1, {Signaled(SIGKILL)}) >>,
     child |-> << signal(SIGKILL, "handler"), kill(0, SIGKILL), exit(77) >>]

test_signal_fork_inherit ==
    [main |-> << signal(SIGUSR1, "handler"), sigprocmask("block", {SIGUSR1}), kill(0, SIGUSR1),
                 fork("child"), sigprocmask("unblock", {SIGUSR1}), waitpid(1, {Exited(0)}) >>,
     child |-> << store(0), sigprocmask("unblock", {SIGUSR1}), delay("nothing"), check({0}),
                  exitOk(0) >>]

test_signal_exec_reset ==
    [main |-> << fork("child"), waitpid(1, {Exited(0)}) >>,
     child |-> << signal(SIGUSR1, "handler"), execve("init"), exit(99) >>,
     init |-> << exit(0) >>]

test_sigchld ==
    [main |-> << signal(SIGCHLD, "handler"), fork("child"), waitpid(1, Anything),
                 delay("nothing"), check({1}) >>,
     child |-> << exit(0) >>]

test_signal_stress ==
    [main |-> << fork("child"), fork("child"), kill(1, SIGTERM), kill(2, SIGTERM),
                 waitpid(1, {Signaled(SIGTERM)}), waitpid(2, {Signaled(SIGTERM)}) >>,
     child |-> << yieldUntil(1) >>]

(* The parts that use a pipe, one after the other *)
test_pipe ==
    [main |-> << pipe, close("rd"), close("wr"),
                 pipe, write, read({1}), close("rd"), close("wr"),
                 pipe, fork("sends"), close("wr"), store(0), readall, close("rd"),
                 waitpid(1, {Exited(0)}), check({1}),
                 pipe, write, close("wr"), read({1}), read({0}), close("rd"),
                 pipe, fork("floods"), close("wr"), store(0), readall, close("rd"),
                 waitpid(2, Anything), check({2}) >>,
     sends |-> << close("rd"), write, close("wr"), exit(0) >>,
     floods |-> << close("rd"), write, write, close("wr"), exit(0) >>]

test_wait_wnohang ==
    [main |-> << fork("child"), waitnohang(1, {Again}), waitpid(1, {Exited(0)}),
                 waitnohang(1, {Fails}) >>,
     child |-> << delay("asked"), exit(0) >>]

test_sigstop_sigcont ==
    [main |-> << fork("child"), delay("looping"), kill(1, SIGSTOP), delay("stopped"),
                 kill(1, SIGCONT), waitpid(1, {Exited(55)}) >>,
     child |-> << signal(SIGCONT, "handler"), yieldUntil(1), exit(55) >>]

Tests ==
    [fork_basic |-> test_fork_basic, fork_memory |-> test_fork_memory,
     fork_chain |-> test_fork_chain, wait_no_children |-> test_wait_no_children,
     exit_codes |-> test_exit_codes, execve |-> test_execve, fork_bomb |-> test_fork_bomb,
     fork_mmap_shared |-> test_fork_mmap_shared, fork_tree |-> fork_tree,
     getppid |-> test_getppid, futex_basic |-> test_futex_basic,
     futex_multi_wake |-> test_futex_multi_wake, futex_eagain_race |-> test_futex_eagain_race,
     signal_basic |-> test_signal_basic, signal_ign |-> test_signal_ign,
     sigaction_unblockable |-> test_sigaction_unblockable, sigprocmask |-> test_sigprocmask,
     sigprocmask_setmask |-> test_sigprocmask_setmask, sigpending |-> test_sigpending,
     signal_multiple |-> test_signal_multiple, sigterm_default |-> test_sigterm_default,
     sigkill_uncatchable |-> test_sigkill_uncatchable,
     signal_fork_inherit |-> test_signal_fork_inherit,
     signal_exec_reset |-> test_signal_exec_reset, sigchld |-> test_sigchld,
     signal_stress |-> test_signal_stress, wait_wnohang |-> test_wait_wnohang,
     sigstop_sigcont |-> test_sigstop_sigcont,
     sigaction_oldact |-> test_sigaction_oldact, sigaction_query |-> test_sigaction_query,
     pipe |-> test_pipe]

Code(p) == Tests[test][role[p]]
Done(p) == pc[p] > Len(Code(p))
Now(p) == IF Done(p) THEN [op |-> "none"] ELSE Code(p)[pc[p]]

Boot ==
    /\ Tree!Init /\ Sig!Init
    /\ role = [p \in Procs |-> "main"] /\ pc = [p \in Procs |-> 1]
    /\ kids = [p \in Procs |-> <<>>] /\ mem = [p \in Procs |-> 0]
    /\ shared = [fw |-> 0, counter |-> 0] /\ queue = <<>>
    /\ fifo = [held |-> 0, rd |-> {}, wr |-> {}]
    /\ result = [p \in Procs |-> 0]
    /\ bad = {} /\ tangled = FALSE /\ ran = FALSE

-----------------------------------------------------------------------------
(* One step of a process that has the cpu and runs no handler *)

Does(p, op) == Sig!Calls(p) /\ frames[p] = <<>> /\ Now(p).op = op
Proceed(p) == pc' = [pc EXCEPT ![p] = @ + 1]
Verdict(p, ok) == bad' = IF ok THEN bad ELSE bad \cup {p}

(* The child or the caller that an operation is about *)
Pid(p, k, self) ==
    IF k = 0 THEN self ELSE IF k \in DOMAIN kids[p] THEN kids[p][k] ELSE NoProc

(* A call that does nothing but report *)
Reports(p) ==
    /\ mode' = [mode EXCEPT ![p] = "leaving"]
    /\ UNCHANGED <<parent, treeVars, cpu, pending, mask, action, frames>>

(* The process's own memory, and the shared page *)
Store(p) ==
    /\ Does(p, "store") /\ Proceed(p)
    /\ mem' = [mem EXCEPT ![p] = Now(p).val]
    /\ UNCHANGED <<test, role, kids, shared, queue, fifo, result, bad, tangled, parent, treeVars, sigVars>>

Check(p) ==
    /\ Does(p, "check") /\ Proceed(p)
    /\ Verdict(p, mem[p] \in Now(p).set)
    /\ UNCHANGED <<test, role, kids, mem, shared, queue, fifo, result, tangled, parent, treeVars, sigVars>>

Share(p) ==
    /\ Does(p, "share") \/ Does(p, "count")
    /\ Proceed(p)
    /\ shared' = IF Now(p).op = "share" THEN [shared EXCEPT !.fw = Now(p).val]
                                       ELSE [shared EXCEPT !.counter = @ + 1]
    /\ UNCHANGED <<test, role, kids, mem, queue, fifo, result, bad, tangled, parent, treeVars, sigVars>>

CheckShared(p) ==
    /\ Does(p, "checkshared") \/ Does(p, "checkcount")
    /\ Proceed(p)
    /\ Verdict(p, Now(p).val = IF Now(p).op = "checkshared" THEN shared.fw ELSE shared.counter)
    /\ UNCHANGED <<test, role, kids, mem, shared, queue, fifo, result, tangled, parent, treeVars, sigVars>>

(* What the author of a counting loop relies on when it is over *)
Expected(p, until) ==
    CASE until = "asleep" -> \A k \in DOMAIN kids[p] : mode[kids[p][k]] = "blocked"
      [] until = "asked" -> pc[parent[p]] > 2
      [] until = "looping" -> Now(kids[p][1]).op = "yieldUntil"
      [] until = "stopped" -> mode[kids[p][1]] = "stopped"
      [] until = "nothing" -> TRUE

Delay(p) ==
    /\ Does(p, "delay") /\ Proceed(p)
    /\ tangled' = (tangled \/ ~Expected(p, Now(p).until))
    /\ UNCHANGED <<test, role, kids, mem, shared, queue, fifo, result, bad, parent, treeVars, sigVars>>

(* sched_yield() in a loop *)
YieldLoop(p) ==
    /\ Does(p, "yieldUntil")
    /\ IF mem[p] = Now(p).val
       THEN Proceed(p) /\ UNCHANGED <<parent, sigVars>>
       ELSE Sig!Tick(p) /\ cpu' = NoProc /\ UNCHANGED pc
    /\ UNCHANGED <<test, role, kids, mem, shared, queue, fifo, result, bad, tangled, treeVars>>

-----------------------------------------------------------------------------
(* Processes *)

Fork(p) ==
    LET new == Min({x \in Procs : status[x] = "none"}) IN
    /\ Does(p, "fork")
    /\ Tree!Fork(p, new) /\ Sig!Fork(p, new)
    /\ role' = [role EXCEPT ![new] = Now(p).role]
    /\ pc' = [pc EXCEPT ![p] = @ + 1, ![new] = 1]
    /\ kids' = [kids EXCEPT ![p] = Append(@, new)]
    /\ mem' = [mem EXCEPT ![new] = mem[p]]
    /\ fifo' = [fifo EXCEPT !.rd = IF p \in @ THEN @ \cup {new} ELSE @,
                            !.wr = IF p \in @ THEN @ \cup {new} ELSE @]
    /\ UNCHANGED <<test, shared, queue, result, bad, tangled>>

(* A path that cannot be opened leaves the caller as it is *)
Exec(p) ==
    /\ Does(p, "execve")
    /\ IF Now(p).role = ""
       THEN Reports(p) /\ Proceed(p) /\ UNCHANGED <<role, mem>>
       ELSE /\ Sig!Exec(p)
            /\ role' = [role EXCEPT ![p] = Now(p).role]
            /\ pc' = [pc EXCEPT ![p] = 1] /\ mem' = [mem EXCEPT ![p] = 0]
            /\ UNCHANGED treeVars
    /\ UNCHANGED <<test, kids, shared, queue, fifo, result, bad, tangled>>

(* Process::exit: the semaphore of the parent and of init first, then the  *)
(* SIGCHLD, which finds the parent awake.                                  *)
Dies(p, st) ==
    /\ Tree!Exit(p)
    /\ result' = [result EXCEPT ![p] = st]
    /\ fifo' = [fifo EXCEPT !.rd = @ \ {p}, !.wr = @ \ {p}]
    /\ pending' = [x \in Procs |-> IF x = p THEN {}
                                   ELSE IF x = parent[p] THEN Sig!Pended(x, SIGCHLD)
                                   ELSE pending[x]]
    /\ mode' = [x \in Procs |-> IF x = p THEN "zombie"
                                ELSE IF status[x] = "waiting" /\ status'[x] = "woken" THEN "leaving"
                                ELSE IF x = parent[p] THEN Sig!Woken(x, SIGCHLD)
                                ELSE mode[x]]
    /\ cpu' = NoProc
    /\ mask' = [mask EXCEPT ![p] = {}] /\ frames' = [frames EXCEPT ![p] = <<>>]
    /\ action' = [action EXCEPT ![p] = [s \in DOMAIN @ |-> "dfl"]]
    /\ UNCHANGED <<test, role, pc, kids, mem, shared, queue, bad, tangled>>

Exit(p) ==
    /\ Does(p, "exit")
    /\ Dies(p, Exited(IF p \in bad THEN Now(p).otherwise ELSE Now(p).code))

(* What wait4 has returned, and whether that was expected.                 *)
(* Tangled: it gave up although it had been asked for a child that exists. *)
Waited(p) ==
    LET taken == reaped' \ reaped
        r == CASE ret' = "child" -> result[CHOOSE z \in taken : TRUE]
               [] ret' = "again" -> Again
               [] OTHER -> Fails
    IN /\ Proceed(p)
       /\ Verdict(p, r \in Now(p).expected)
       /\ tangled' = (tangled \/ ret' = "error")

Wait(p) ==
    /\ Does(p, "wait")
    /\ Tree!WaitCall(p, Pid(p, Now(p).child, AnyPid), Now(p).nohang)
    /\ IF status'[p] = "waiting"
       THEN Sig!Block(p) /\ UNCHANGED <<pc, bad, tangled>>
       ELSE /\ Waited(p)
            /\ mode' = [mode EXCEPT ![p] = "leaving"]
            /\ UNCHANGED <<cpu, pending, mask, action, frames>>
    /\ UNCHANGED <<test, role, kids, mem, shared, queue, fifo, result>>

(* The waiter has the cpu again, still in the kernel *)
WaitResumes(p) ==
    /\ cpu = p /\ Tree!WaitResumes(p) /\ Waited(p)
    /\ UNCHANGED <<test, role, kids, mem, shared, queue, fifo, result, sigVars>>

-----------------------------------------------------------------------------
(* Futexes *)

FutexSleep(p) ==
    /\ Does(p, "futexwait")
    /\ IF shared.fw = Now(p).val
       THEN /\ queue' = Append(queue, p) /\ Sig!Block(p)
            /\ UNCHANGED <<pc, bad, treeVars>>
       ELSE /\ Reports(p) /\ Proceed(p) /\ Verdict(p, Fails \in Now(p).expected)
            /\ UNCHANGED queue
    /\ UNCHANGED <<test, role, kids, mem, shared, fifo, result, tangled>>

(* The woken ones return 0; they proceed here and leave the kernel later *)
FutexRouse(p) ==
    LET n == Min({Now(p).n, Len(queue)})
        woken == ToSet(SubSeq(queue, 1, n))
    IN
    /\ Does(p, "futexwake")
    /\ queue' = SubSeq(queue, n + 1, Len(queue))
    /\ mode' = [x \in Procs |-> IF x \in woken \cup {p} THEN "leaving" ELSE mode[x]]
    /\ pc' = [x \in Procs |-> IF x \in woken \cup {p} THEN pc[x] + 1 ELSE pc[x]]
    /\ bad' = bad \cup {x \in woken : 0 \notin Now(x).expected}
                  \cup (IF n = Now(p).woken THEN {} ELSE {p})
    /\ UNCHANGED <<test, role, kids, mem, shared, fifo, result, tangled, parent, treeVars,
                   cpu, pending, mask, action, frames>>

-----------------------------------------------------------------------------
(* Pipes, as ByteStream has them *)

Pipe(p) ==
    /\ Does(p, "pipe") /\ Proceed(p) /\ Reports(p)
    /\ fifo' = [held |-> 0, rd |-> {p}, wr |-> {p}]
    /\ UNCHANGED <<test, role, kids, mem, shared, queue, result, bad, tangled>>

Close(p) ==
    /\ Does(p, "close") /\ Proceed(p) /\ Reports(p)
    /\ fifo' = IF Now(p).end = "rd" THEN [fifo EXCEPT !.rd = @ \ {p}]
                                    ELSE [fifo EXCEPT !.wr = @ \ {p}]
    /\ UNCHANGED <<test, role, kids, mem, shared, queue, result, bad, tangled>>

(* PCB::yield() within read() and write(): the process is READY, and looks *)
(* again without having left the kernel.                                   *)
LooksAgain(p) ==
    /\ mode' = [mode EXCEPT ![p] = "resumed"] /\ cpu' = NoProc
    /\ UNCHANGED <<pc, parent, treeVars, pending, mask, action, frames>>

Read(p) ==
    /\ Does(p, "read") \/ Does(p, "readall")
    /\ IF fifo.held = 0 /\ fifo.wr # {}
       THEN LooksAgain(p) /\ UNCHANGED <<mem, fifo, bad>>
       ELSE /\ Reports(p)
            /\ mem' = [mem EXCEPT ![p] = @ + fifo.held]
            /\ fifo' = [fifo EXCEPT !.held = 0]
            /\ IF Now(p).op = "readall"
               THEN (IF fifo.held = 0 THEN Proceed(p) ELSE UNCHANGED pc) /\ UNCHANGED bad
               ELSE Proceed(p) /\ Verdict(p, fifo.held \in Now(p).expected)
    /\ UNCHANGED <<test, role, kids, shared, queue, result, tangled>>

(* No test writes to a pipe without readers *)
Write(p) ==
    /\ Does(p, "write")
    /\ IF fifo.held = 1 THEN LooksAgain(p) /\ UNCHANGED fifo
       ELSE Reports(p) /\ Proceed(p) /\ fifo' = [fifo EXCEPT !.held = 1]
    /\ UNCHANGED <<test, role, kids, mem, shared, queue, result, bad, tangled>>

-----------------------------------------------------------------------------
(* Signals *)

(* kill() also takes a waiter out of the queue of its semaphore *)
Kill(p) ==
    LET q == Pid(p, Now(p).child, p) IN
    /\ Does(p, "kill") /\ Proceed(p)
    /\ IF mode[q] = "zombie" THEN Reports(p)
       ELSE /\ Sig!Kill(p, q, Now(p).sig)
            /\ IF status[q] = "waiting" THEN Tree!Kill(q) ELSE UNCHANGED treeVars
    /\ UNCHANGED <<test, role, kids, mem, shared, queue, fifo, result, bad, tangled>>

(* sigaction() refuses the two that cannot be caught, and the tests expect *)
(* it to.                                                                  *)
SigAction(p) ==
    /\ Does(p, "signal") /\ Proceed(p)
    /\ IF Now(p).sig \in Sig!Unblockable THEN Reports(p)
       ELSE Sig!SigAction(p, Now(p).sig, Now(p).act) /\ UNCHANGED treeVars
    /\ UNCHANGED <<test, role, kids, mem, shared, queue, fifo, result, bad, tangled>>

SigProcMask(p) ==
    /\ Does(p, "mask") /\ Proceed(p)
    /\ Sig!SigProcMask(p, Now(p).how, Now(p).set)
    /\ UNCHANGED <<test, role, kids, mem, shared, queue, fifo, result, bad, tangled, treeVars>>

(* sigpending(), sigaction() and sigprocmask() for the old value, getppid() *)
Query(p) ==
    /\ Does(p, "sigpending") \/ Does(p, "checkaction") \/ Does(p, "checkmask") \/ Does(p, "getppid")
    /\ Proceed(p) /\ Reports(p)
    /\ Verdict(p, CASE Now(p).op = "sigpending" -> TRUE
                    [] Now(p).op = "checkaction" -> Sig!Action(p, Now(p).sig) = Now(p).act
                    [] Now(p).op = "checkmask" -> mask[p] = Now(p).set
                    [] Now(p).op = "getppid" -> parent[p] = Root)
    /\ UNCHANGED <<test, role, kids, mem, shared, queue, fifo, result, tangled>>

(* sig_record, handler_sigchld, handler_sigcont: count, and return through *)
(* the trampoline                                                          *)
Handler(p) ==
    /\ Sig!SigReturn(p)
    /\ mem' = [mem EXCEPT ![p] = @ + 1]
    /\ UNCHANGED <<test, role, pc, kids, shared, queue, fifo, result, bad, tangled, treeVars>>

(* signalDispatch when the process leaves the kernel *)
DeliverTerm(p) ==
    /\ status[p] = "live" /\ Sig!Delivers(p, "term")
    /\ Dies(p, Signaled(Sig!Dequeue(p)))

DeliverStop(p) ==
    /\ status[p] = "live" /\ Sig!DeliverStop(p)
    /\ IF status[parent[p]] = "waiting" THEN Tree!Kill(parent[p])
       ELSE UNCHANGED <<treeVars, parent>>
    /\ UNCHANGED progVars

DeliverOther(p) ==
    /\ status[p] = "live"
    /\ Sig!DeliverNone(p) \/ Sig!DeliverIgnored(p) \/ Sig!DeliverHandler(p)
    /\ UNCHANGED <<progVars, treeVars>>

(* The timer.  A process that has done nothing since it was chosen would   *)
(* as well have been chosen later: it is not preempted.                    *)
Preempt(p) ==
    /\ ran /\ ran' = FALSE
    /\ Sig!Tick(p)
    /\ UNCHANGED <<progVars, treeVars>>

Schedule(p) ==
    /\ Sig!Schedule(p) /\ ran' = FALSE
    /\ UNCHANGED <<progVars, treeVars>>

-----------------------------------------------------------------------------
Call(p) ==
    \/ Store(p) \/ Check(p) \/ Share(p) \/ CheckShared(p) \/ Delay(p) \/ YieldLoop(p)
    \/ Fork(p) \/ Exec(p) \/ Exit(p) \/ Wait(p) \/ FutexSleep(p) \/ FutexRouse(p)
    \/ Pipe(p) \/ Close(p) \/ Read(p) \/ Write(p)
    \/ Kill(p) \/ SigAction(p) \/ SigProcMask(p) \/ Query(p) \/ Handler(p)

Leave(p) == WaitResumes(p) \/ DeliverTerm(p) \/ DeliverStop(p) \/ DeliverOther(p)

(* What a process does while it has the cpu *)
ProcessStep(p) ==
    \/ Call(p) /\ ran' = TRUE
    \/ Leave(p) /\ ran' = (ran \/ pending'[p] # pending[p])

-----------------------------------------------------------------------------
Init ==
    /\ test \in SyncTests \cup DOMAIN Tests
    /\ Start /\ Boot

(* Thread a, or process a, gets on: its test is of one kind only *)
Runs(a) ==
    \/ /\ test \in SyncTests /\ a \in Actors /\ Step(a)
       /\ UNCHANGED <<role, pc, kids, mem, shared, queue, fifo, result, bad, tangled, ran, parent,
                      treeVars, sigVars>>
    \/ /\ test \in DOMAIN Tests /\ a \in Procs /\ ProcessStep(a)
       /\ UNCHANGED syncVars

Preempted(p) == test \in DOMAIN Tests /\ Preempt(p) /\ UNCHANGED syncVars
Chosen(p) == test \in DOMAIN Tests /\ p \in Procs /\ Schedule(p) /\ UNCHANGED syncVars

Next ==
    \/ \E a \in Actors \cup Procs : Runs(a)
    \/ \E p \in Procs : Preempted(p) \/ Chosen(p)

(* A READY thread or process is chosen again: the timer preempts and the   *)
(* ready list is first in, first out (Sched, ReadyRuns).                   *)
Spec ==
    Init /\ [][Next]_vars
    /\ \A a \in Actors \cup Procs : WF_vars(Runs(a)) /\ SF_vars(Chosen(a))

-----------------------------------------------------------------------------
(* The tests that have several children at once, or rely on how long a     *)
(* counting loop lasts                                                     *)
Loose ==
    {"fork_bomb", "fork_tree", "futex_basic", "futex_multi_wake", "futex_eagain_race",
     "signal_stress", "wait_wnohang", "sigstop_sigcont"}

(* No check of init.c fails, in any schedule, unless a wait4 for one child *)
(* took the token of another or a counting loop was over too early; and    *)
(* that befalls only the tests that leave it to chance.  A child that ends *)
(* or is killed at any point is reported to its parent with its status,    *)
(* whatever signals come meanwhile; handlers run before the next check.    *)
ProcessChecksPass ==
    /\ tangled => test \in Loose
    /\ ~tangled => Root \notin bad

(* Every test comes to its end, with its checks true, unless a thread has  *)
(* gone to wait for what had happened already (SemSleep, WaitPhase) or the *)
(* test was tangled as above: no lock, unlock, create, join, exit, wake or *)
(* signal is lost.                                                         *)
TestsEnd ==
    <>(\/ test \in SyncTests /\ (missed \/ (Finished(Main) /\ ChecksHold))
       \/ test \in DOMAIN Tests /\ (tangled \/ Done(Root)))
=============================================================================
