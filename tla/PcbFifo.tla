------------------------------ MODULE PcbFifo ------------------------------
(***************************************************************************)
(* What the kernel's intrusive lists of PCBs promise their users: first    *)
(* in, first out, and a member can be taken out wherever it stands.        *)
(***************************************************************************)
EXTENDS Queues

CONSTANTS Pcbs, Null

VARIABLES
    q,      \* the members, oldest first
    got     \* what the last get() returned

vars == <<q, got>>

Init == q = <<>> /\ got = Null

Put(p) ==
    /\ p \notin Range(q)
    /\ q' = Append(q, p)
    /\ UNCHANGED got

Get ==
    IF q = <<>> THEN got' = Null /\ UNCHANGED q
    ELSE got' = Head(q) /\ q' = Tail(q)

Remove(p) == q' = Unlink(q, p) /\ UNCHANGED got

Next ==
    \/ \E p \in Pcbs : Put(p)
    \/ Get
    \/ \E p \in Pcbs : Remove(p)

Spec == Init /\ [][Next]_vars
=============================================================================
