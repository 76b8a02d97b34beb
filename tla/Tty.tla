--------------------------------- MODULE Tty -------------------------------
(***************************************************************************)
(* The terminal: the console's ring that the UART interrupt fills          *)
(* (kernel/io/console/console.cpp) and the line discipline of the one      *)
(* TTYInode (kernel/io/terminal/tty_inode.cpp), with several readers,      *)
(* signals to the foreground process group and ioctl() at any time.        *)
(*                                                                         *)
(* The kernel is not preempted and takes interrupts only in user mode or   *)
(* when idle: cpu is the reader that executes read() at the moment, and it *)
(* gives way only where Semaphore::wait blocks.  Echo is left out.         *)
(***************************************************************************)
EXTENDS Naturals, Sequences, FiniteSets, SequencesExt

CONSTANTS
    Readers, Nobody,
    Pgid,       \* the process group of each reader
    RingSize,   \* Console::BUFFER_SIZE
    LineSize,   \* TTYInode::BUFFER_SIZE
    Modes,      \* the settings of ICANON and ISIG given to ioctl()
    Lens,       \* the lengths given to read()
    MaxTyped    \* bound on the characters that arrive

ASSUME TtyConstants ==
    /\ Nobody \notin Readers /\ Pgid \in [Readers -> Nat \ {0}]
    /\ RingSize \in Nat \ {0, 1} /\ LineSize \in Nat \ {0}
    /\ Modes \subseteq BOOLEAN \X BOOLEAN
    /\ Lens \subseteq Nat \ {0} /\ MaxTyped \in Nat

(* VINTR (as VQUIT and VSUSP), VEOF, VERASE, the end of a line, all others *)
Kinds == {"intr", "eof", "erase", "nl", "x"}

VARIABLES
    ring,       \* m_buffer from m_head to m_tail; a character and its number
    value, blocked, \* Console::m_sem
    ready,      \* readers whose Semaphore::block() may return
    cpu,        \* the reader that runs in read(), or Nobody
    call, len,  \* per reader: its branch of read() and how many bytes to go
    line,       \* m_lineBuffer up to m_lineLen
    canonical, isig, fgPgid,    \* m_canonical, ISIG of m_termios, m_fgPgid
    typed,      \* how many characters were typed
    used,       \* history: what the canonical reads took from the ring
    delivered,  \* history: what they returned
    solo, raw   \* history: one reader at a time and no line too long;
                \* read() in raw mode

consoleVars == <<ring, value>>
lineVars == <<canonical, isig, fgPgid>>
vars == <<ring, value, blocked, ready, cpu, call, len, line, canonical, isig, fgPgid,
          typed, used, delivered, solo, raw>>

Init ==
    /\ ring = <<>> /\ value = 0 /\ blocked = <<>> /\ ready = {} /\ cpu = Nobody
    /\ call = [a \in Readers |-> "none"] /\ len = [a \in Readers |-> 0]
    /\ line = <<>>
    /\ canonical = TRUE /\ isig = TRUE /\ fgPgid = 0
    /\ typed = 0 /\ used = <<>> /\ delivered = <<>>
    /\ solo = TRUE /\ raw = FALSE

-----------------------------------------------------------------------------
(* The definitions named *Fault are plausible mistakes in the operation    *)
(* that follows them; no specification uses them.                          *)

(* The characters that have come into the ring, up to a raw read *)
Arrivals == IF raw THEN 0 ELSE Len(used) + Len(ring)

(* Console::interruptHandler, one character.  A full ring drops it. *)

\* the semaphore is signalled only when the ring was empty
InterruptFault(k) ==
    /\ cpu = Nobody /\ typed < MaxTyped /\ Len(ring) < RingSize - 1
    /\ typed' = typed + 1
    /\ ring' = Append(ring, [n |-> Arrivals + 1, k |-> k])
    /\ IF ring # <<>> THEN UNCHANGED <<value, blocked, ready>>
       ELSE IF blocked = <<>> THEN value' = value + 1 /\ UNCHANGED <<blocked, ready>>
       ELSE /\ blocked' = Tail(blocked) /\ ready' = ready \cup {Head(blocked)}
            /\ UNCHANGED value
    /\ UNCHANGED <<cpu, call, len, line, lineVars, used, delivered, solo, raw>>

Interrupt(k) ==
    /\ cpu = Nobody /\ typed < MaxTyped /\ Len(ring) < RingSize - 1
    /\ typed' = typed + 1
    /\ ring' = Append(ring, [n |-> Arrivals + 1, k |-> k])
    /\ IF blocked = <<>> THEN value' = value + 1 /\ UNCHANGED <<blocked, ready>>
       ELSE /\ blocked' = Tail(blocked) /\ ready' = ready \cup {Head(blocked)}
            /\ UNCHANGED value
    /\ UNCHANGED <<cpu, call, len, line, lineVars, used, delivered, solo, raw>>

InterruptDrops ==
    /\ cpu = Nobody /\ typed < MaxTyped /\ Len(ring) = RingSize - 1
    /\ typed' = typed + 1
    /\ UNCHANGED <<ring, value, blocked, ready, cpu, call, len, line, lineVars,
                   used, delivered, solo, raw>>

(* Process::kill for the processes ps: forceRemove, and READY.  The one    *)
(* that runs is not BLOCKED.                                               *)
ForceWake(ps, others) ==
    /\ blocked' = SelectSeq(blocked, LAMBDA a : a \notin ps)
    /\ ready' = others \cup {a \in ps : Contains(blocked, a)}

(* kill() by anybody: the woken reader has no character and no token *)
Kill(a) ==
    /\ cpu = Nobody /\ Contains(blocked, a)
    /\ ForceWake({a}, ready)
    /\ UNCHANGED <<ring, value, cpu, call, len, line, lineVars,
                   typed, used, delivered, solo, raw>>

(* ioctl(TCSETS), ioctl(TIOCSPGRP) *)
SetTermios(c, s) ==
    /\ cpu = Nobody /\ <<c, s>> # <<canonical, isig>>
    /\ canonical' = c /\ isig' = s
    /\ UNCHANGED <<ring, value, blocked, ready, cpu, call, len, line, fgPgid,
                   typed, used, delivered, solo, raw>>

SetForeground(g) ==
    /\ cpu = Nobody /\ g # fgPgid
    /\ fgPgid' = g
    /\ UNCHANGED <<ring, value, blocked, ready, cpu, call, len, line, canonical, isig,
                   typed, used, delivered, solo, raw>>

-----------------------------------------------------------------------------
(* TTYInode::read *)

Leave(a) ==
    /\ cpu' = Nobody
    /\ call' = [call EXCEPT ![a] = "none"] /\ len' = [len EXCEPT ![a] = 0]

(* The end of the canonical branch, for the line l: what fits is copied,   *)
(* the remainder moves to the front.                                       *)

\* the remainder is counted from the bytes asked for
DeliverFault(a, l, n) ==
    LET bytes == IF n < Len(l) THEN n ELSE Len(l) IN
    /\ line' = SubSeq(l, IF bytes < Len(l) THEN bytes ELSE bytes + 1, Len(l))
    /\ delivered' = IF raw THEN <<>> ELSE delivered \o SubSeq(l, 1, bytes)
    /\ Leave(a)

Deliver(a, l, n) ==
    LET bytes == IF n < Len(l) THEN n ELSE Len(l) IN
    /\ line' = SubSeq(l, bytes + 1, Len(l))
    /\ delivered' = IF raw THEN <<>> ELSE delivered \o SubSeq(l, 1, bytes)
    /\ Leave(a)

Inside == {a \in Readers : call[a] # "none"}

(* read() is entered.  Bytes of a line, whosever it is, are taken at once *)
ReadCanonical(a, n) ==
    /\ cpu = Nobody /\ call[a] = "none" /\ canonical
    /\ IF line # <<>> THEN Deliver(a, line, n)
       ELSE /\ cpu' = a
            /\ call' = [call EXCEPT ![a] = "canonical"] /\ len' = [len EXCEPT ![a] = n]
            /\ UNCHANGED <<line, delivered>>
    /\ solo' = (solo /\ Inside = {})
    /\ UNCHANGED <<ring, value, blocked, ready, lineVars, typed, used, raw>>

ReadRaw(a, n) ==
    /\ cpu = Nobody /\ call[a] = "none" /\ ~canonical
    /\ cpu' = a
    /\ call' = [call EXCEPT ![a] = "raw"] /\ len' = [len EXCEPT ![a] = n]
    /\ raw' = TRUE /\ used' = <<>> /\ delivered' = <<>>
    /\ UNCHANGED <<ring, value, blocked, ready, line, lineVars, typed, solo>>

(* The body of the canonical loop, for the character c *)

Signals(c) == c.k = "intr" /\ isig /\ fgPgid > 0

\* the line typed so far survives the signal
EditFault(c) ==
    CASE c.k = "erase" -> IF line = <<>> THEN line ELSE Front(line)
      [] Signals(c) \/ (canonical /\ c.k = "eof") -> line
      [] OTHER -> IF Len(line) < LineSize THEN Append(line, c.n) ELSE line

Edit(c) ==
    CASE Signals(c) -> <<>>
      [] canonical /\ c.k = "eof" -> line
      [] c.k = "erase" -> IF line = <<>> THEN line ELSE Front(line)
      [] OTHER -> IF Len(line) < LineSize THEN Append(line, c.n) ELSE line

EndsLine(c) == c.k = "nl" \/ (canonical /\ c.k = "eof")

(* what the character meant when it was read *)
Meaning(c) ==
    IF (c.k = "intr" /\ ~Signals(c)) \/ (c.k = "eof" /\ ~canonical) THEN "x" ELSE c.k

TakeCanonical(a, c, others) ==
    /\ call[a] = "canonical"
    /\ IF EndsLine(c) THEN Deliver(a, Edit(c), len[a])
       ELSE cpu' = a /\ line' = Edit(c) /\ UNCHANGED <<call, len, delivered>>
    /\ ForceWake(IF Signals(c) THEN {b \in Readers : Pgid[b] = fgPgid} ELSE {}, others)
    /\ used' = IF raw THEN <<>> ELSE Append(used, Meaning(c))
    /\ solo' = (solo /\ (Meaning(c) \in {"x", "nl"} => Len(line) < LineSize))

TakeRaw(a, others) ==
    /\ call[a] = "raw"
    /\ IF len[a] = 1 THEN Leave(a)
       ELSE cpu' = a /\ len' = [len EXCEPT ![a] = @ - 1] /\ UNCHANGED call
    /\ ready' = others
    /\ UNCHANGED <<blocked, line, used, delivered, solo>>

(* Console::kgetc after Semaphore::wait: the ring may be empty.  others    *)
(* are the READY readers.                                                  *)
Take(a, others) ==
    /\ IF ring = <<>>
       THEN /\ cpu' = a /\ ready' = others
            /\ UNCHANGED <<ring, blocked, call, len, line, used, delivered, solo>>
       ELSE /\ ring' = Tail(ring)
            /\ TakeCanonical(a, Head(ring), others) \/ TakeRaw(a, others)
    /\ UNCHANGED <<lineVars, typed, raw>>

(* Semaphore::wait: a token is there, or the reader blocks *)
Getc(a) ==
    /\ cpu = a /\ value > 0
    /\ value' = value - 1
    /\ Take(a, ready)

Block(a) ==
    /\ cpu = a /\ value = 0
    /\ cpu' = Nobody /\ blocked' = Append(blocked, a)
    /\ UNCHANGED <<ring, value, ready, call, len, line, lineVars,
                   typed, used, delivered, solo, raw>>

(* Semaphore::block() returns, after a signal() or a kill() *)
Resume(a) ==
    /\ cpu = Nobody /\ a \in ready
    /\ Take(a, ready \ {a})
    /\ UNCHANGED value

Groups == {0} \cup {Pgid[a] : a \in Readers}

Next ==
    \/ \E k \in Kinds : Interrupt(k)
    \/ InterruptDrops
    \/ \E m \in Modes : SetTermios(m[1], m[2])
    \/ \E g \in Groups : SetForeground(g)
    \/ \E a \in Readers :
        \/ Kill(a)
        \/ \E n \in Lens : ReadCanonical(a, n) \/ ReadRaw(a, n)
        \/ Getc(a) \/ Block(a) \/ Resume(a)

Spec == Init /\ [][Next]_vars

(* A running reader goes on, and a READY one is dispatched (Sched,         *)
(* ReadyRuns).                                                             *)
FairSpec == Spec /\ \A a \in Readers : WF_vars(Getc(a) \/ Block(a)) /\ WF_vars(Resume(a))

-----------------------------------------------------------------------------
(* The lines a typist means *)

SameLine(i, j) == \A k \in i .. j - 1 : used[k] \notin {"nl", "eof"}

Occurs(kind, i, j) == Cardinality({k \in i .. j : used[k] = kind})

(* an erase takes the nearest character before it that is still there *)
Erased(i) ==
    \E j \in i + 1 .. Len(used) :
        SameLine(i, j) /\ Occurs("erase", i + 1, j) > Occurs("x", i + 1, j)

Cancelled(i) == \E j \in i + 1 .. Len(used) : SameLine(i, j) /\ used[j] = "intr"

Meant(i) == used[i] = "nl" \/ (used[i] = "x" /\ ~Erased(i) /\ ~Cancelled(i))

(* One reader at a time, in canonical mode, gets what was meant and no     *)
(* more: what read() has returned, followed by the line it holds, are the  *)
(* characters that no erase and no interrupt has taken back, whatever the  *)
(* lengths asked for, the signals and the changes of mode and group        *)
(* between the reads.                                                      *)
Got == delivered \o line
LinesAsTyped ==
    solo /\ ~raw => Got = SetToSortSeq({i \in DOMAIN used : Meant(i)}, <)

(* With several readers a read may return part of a line another one is    *)
(* collecting, yet no character is delivered twice or out of order.        *)
InOrder == ~raw => \A i, j \in DOMAIN Got : i < j => Got[i] < Got[j]

(* A character in the ring is taken as long as somebody reads: no token of *)
(* m_sem is lost between the interrupt, the readers and kill(), which      *)
(* takes readers out of the semaphore's queue.                             *)
InputTaken == (ring # <<>> /\ Inside # {}) ~> (ring = <<>> \/ Inside = {})
============================================================================
