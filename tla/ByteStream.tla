---------------------------- MODULE ByteStream -----------------------------
(***************************************************************************)
(* What a pipe promises: a bounded stream of bytes, delivered in the order *)
(* in which they were written, none lost, none twice.                      *)
(***************************************************************************)
EXTENDS Naturals, Sequences

CONSTANTS Bytes, Size

VARIABLES
    stream,     \* written and not read yet, oldest first
    out         \* what the last read() that found bytes delivered

vars == <<stream, out>>

Init == stream = <<>> /\ out = <<>>

Send ==
    \E n \in 1..Size : \E s \in [1..n -> Bytes] :
        /\ Len(stream) + n <= Size
        /\ stream' = stream \o s
        /\ UNCHANGED out

Receive ==
    \E n \in 1..Len(stream) :
        /\ out' = SubSeq(stream, 1, n)
        /\ stream' = SubSeq(stream, n + 1, Len(stream))

(* the last descriptor of the pipe is closed *)
Discard == stream' = <<>> /\ UNCHANGED out

Next == Send \/ Receive \/ Discard

Spec == Init /\ [][Next]_vars
=============================================================================
