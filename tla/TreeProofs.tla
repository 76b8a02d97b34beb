----------------------------- MODULE TreeProofs ----------------------------
(***************************************************************************)
(* The process tree, with any number of processes: the lists of children   *)
(* and the parent pointers stay in step, the tokens of m_selfSem match the *)
(* zombies, and no waiter is stuck.                                        *)
(***************************************************************************)
EXTENDS ProcessTree, QueueTheorems, TLAPS

-----------------------------------------------------------------------------
(* Lists.  A list of members of S that holds nobody twice.                 *)
Once(S, q) == q \in Seq(S) /\ NoDuplicates(q)

(* Two such lists one after the other, with nobody in both.                *)
LEMMA JoinLists ==
    ASSUME NEW S, NEW q, Once(S, q), NEW r, Once(S, r), Range(q) \cap Range(r) = {}
    PROVE  Once(S, q \o r) /\ Range(q \o r) = Range(q) \cup Range(r)
BY ConcatExact DEF Once

(* A list of one.                                                          *)
LEMMA OneList ==
    ASSUME NEW S, NEW x \in S
    PROVE  Once(S, <<x>>) /\ Range(<<x>>) = {x}
BY DEF Once, Range, NoDuplicates

(* The children are handed over one by one, each to the head.              *)
LEMMA ReverseList ==
    ASSUME NEW S, NEW q, Once(S, q)
    PROVE  Once(S, Reversed(q)) /\ Range(Reversed(q)) = Range(q)
<1>1. q \in Seq(S) /\ NoDuplicates(q)
  BY Zenon DEF Once
<1>2. PICK n \in Nat : n = Len(q) /\ DOMAIN q = 1..n /\ \A i \in 1..n : q[i] \in S
  BY <1>1
<1>3. PICK t : t = Reversed(q)
  BY Zenon
<1>4. \A i \in 1..n : (n - i) + 1 \in 1..n /\ (n - ((n - i) + 1)) + 1 = i
  OBVIOUS
<1>5. t = [i \in 1..n |-> q[(n - i) + 1]]
  BY <1>2, <1>3, Zenon DEF Reversed
<1>6. DOMAIN t = 1..n /\ \A i \in 1..n : t[i] = q[(n - i) + 1] /\ t[i] \in S
  BY <1>2, <1>4, <1>5, Zenon
<1>7. t \in Seq(S)
  BY <1>2, <1>4, <1>5
<1>8. Range(t) = Range(q)
  <2>1. \A i \in 1..n : t[i] \in Range(q)
    BY <1>2, <1>4, <1>6, Zenon DEF Range
  <2>2. \A i \in 1..n : q[i] = t[(n - i) + 1]
    BY <1>4, <1>6, Zenon
  <2>3. \A i \in 1..n : q[i] \in Range(t)
    BY <1>4, <1>6, <2>2, Zenon DEF Range
  <2> QED BY <1>2, <1>6, <2>1, <2>3 DEF Range
<1>9. NoDuplicates(t)
  <2> SUFFICES ASSUME NEW i \in 1..n, NEW j \in 1..n, t[i] = t[j] PROVE i = j
    BY <1>6 DEF NoDuplicates
  <2>1. PICK x \in 1..n, y \in 1..n : x = (n - i) + 1 /\ y = (n - j) + 1
    BY <1>4, Zenon
  <2>2. q[x] = q[y]
    BY <1>6, <2>1, Zenon
  <2>3. x = y
    BY <1>1, <1>2, <2>2, Zenon DEF NoDuplicates
  <2> QED BY <2>1, <2>3
<1> QED BY <1>3, <1>7, <1>8, <1>9, Zenon DEF Once

(* wait() unlinks a child.                                                 *)
LEMMA DropList ==
    ASSUME NEW S, NEW q, Once(S, q), NEW x
    PROVE  Once(S, Unlink(q, x)) /\ Range(Unlink(q, x)) = Range(q) \ {x}
BY UnlinkExact, Zenon DEF Once

-----------------------------------------------------------------------------
(* The tree.  A process that has not exited has a parent that has not      *)
(* exited; the lists are what the parent pointers say; the dead have no    *)
(* children, and who is not allocated has no tokens.                       *)
States == {"none", "live", "waiting", "woken", "zombie"}

Active(p) == status[p] \in {"live", "waiting", "woken"}

TreeTyped ==
    /\ status \in [Procs -> States]
    /\ parent \in [Procs -> Procs \cup {NoProc}]
    /\ children \in [Procs -> Seq(Procs)]
    /\ tokens \in [Procs -> Nat]
    /\ call \in [Procs -> [pid : Procs \cup {AnyPid}, nohang : BOOLEAN]]
    /\ reaped \subseteq Procs /\ garbage \subseteq Procs

ListsAre(ch, st, pa, re) ==
    /\ \A p \in Procs : Once(Procs, ch[p])
    /\ \A p, c \in Procs : c \in Range(ch[p]) <=> pa[c] = p /\ st[c] # "none" /\ c \notin re

Parents ==
    /\ Active(Root) /\ parent[Root] = NoProc
    /\ \A x \in Procs : parent[x] # x
    /\ \A x \in Procs : Active(x) /\ x # Root => parent[x] \in Procs /\ Active(parent[x])

Dead ==
    /\ \A x \in reaped \cup garbage : IsZombie(x)
    /\ \A x \in Procs : ~Active(x) => children[x] = <<>>
    /\ \A x \in Procs : status[x] = "none" => tokens[x] = 0

TreeInv == TreeTyped /\ ListsAre(children, status, parent, reaped) /\ Parents /\ Dead

(* The tree of a new machine.                                              *)
LEMMA TreeStart ==
    ASSUME Init
    PROVE  TreeInv
<1>1. Root \in Procs /\ NoProc \notin Procs
  BY TreeConstants, Zenon
<1>2. TreeTyped
  BY <1>1 DEF Init, TreeTyped, States, NoCall
<1>3. ListsAre(children, status, parent, reaped)
  <2>1. Once(Procs, <<>>) /\ Range(<<>>) = {}
    BY DEF Once, NoDuplicates, Range
  <2>2. \A p \in Procs : children[p] = <<>> /\ parent[p] = NoProc
    BY Zenon DEF Init
  <2> QED BY <1>1, <2>1, <2>2, Zenon DEF ListsAre
<1>4. Parents
  BY <1>1, Zenon DEF Init, Parents, Active
<1>5. Dead
  BY Zenon DEF Init, Dead, Active
<1> QED BY <1>2, <1>3, <1>4, <1>5, Zenon DEF TreeInv

(* A step that moves nobody in the tree and changes states only among the  *)
(* active ones.                                                            *)
LEMMA QuietTree ==
    ASSUME TreeInv, UNCHANGED <<parent, children, reaped, garbage>>,
           status' \in [Procs -> States], tokens' \in [Procs -> Nat],
           call' \in [Procs -> [pid : Procs \cup {AnyPid}, nohang : BOOLEAN]],
           \A x \in Procs : status'[x] = status[x] \/ (Active(x) /\ Active(x)'),
           \A x \in Procs : ~Active(x) => tokens'[x] = tokens[x]
    PROVE  TreeInv'
<1>1. TreeTyped'
  BY Zenon DEF TreeInv, TreeTyped
<1>2. \A x \in Procs : /\ Active(x)' <=> Active(x)
                       /\ status'[x] = "none" <=> status[x] = "none"
                       /\ status'[x] = "zombie" <=> status[x] = "zombie"
  BY Zenon DEF Active
<1>3. ListsAre(children, status, parent, reaped)'
  BY <1>2, Zenon DEF TreeInv, ListsAre
<1>4. Parents'
  BY <1>2, TreeConstants, Zenon DEF TreeInv, Parents
<1>5. Dead'
  <2>1. \A x \in Procs : status[x] = "none" => ~Active(x)
    BY Zenon DEF Active
  <2> QED BY <1>2, <2>1, Zenon DEF TreeInv, TreeTyped, Dead, IsZombie
<1> QED BY <1>1, <1>3, <1>4, <1>5, Zenon DEF TreeInv

(* Process::fork.                                                          *)
LEMMA TreeFork ==
    ASSUME TreeInv, NEW p \in Procs, NEW c \in Procs, Fork(p, c)
    PROVE  TreeInv'
<1>1. /\ status[p] = "live" /\ status[c] = "none" /\ p # c /\ NoProc \notin Procs
      /\ status' = [status EXCEPT ![c] = "live"] /\ parent' = [parent EXCEPT ![c] = p]
      /\ children' = [children EXCEPT ![p] = <<c>> \o children[p]]
      /\ UNCHANGED <<tokens, reaped, sibling, garbage, call, ret, odd>>
  BY TreeConstants, Zenon DEF Fork
<1>2. /\ status \in [Procs -> States] /\ parent \in [Procs -> Procs \cup {NoProc}]
      /\ children \in [Procs -> Seq(Procs)]
  BY Zenon DEF TreeInv, TreeTyped
<1>3. /\ c \notin reaped /\ c \notin garbage
  BY <1>1, Zenon DEF TreeInv, Dead, IsZombie
<1>4. /\ \A q \in Procs : Once(Procs, children[q]) /\ c \notin Range(children[q])
      /\ \A q, x \in Procs : x \in Range(children[q]) <=>
            parent[x] = q /\ status[x] # "none" /\ x \notin reaped
  BY <1>1, Zenon DEF TreeInv, ListsAre
<1>5. Once(Procs, <<c>> \o children[p]) /\ Range(<<c>> \o children[p]) = {c} \cup Range(children[p])
  <2>1. Once(Procs, <<c>>) /\ Range(<<c>>) = {c}
    BY OneList, Zenon
  <2>2. PICK r : r = children[p]
    BY Zenon
  <2>3. Once(Procs, r) /\ Range(<<c>>) \cap Range(r) = {}
    BY <1>4, <2>1, <2>2
  <2>4. PICK o : o = <<c>>
    BY Zenon
  <2>5. Once(Procs, o \o r) /\ Range(o \o r) = Range(o) \cup Range(r)
    BY <2>1, <2>3, <2>4, JoinLists
  <2> QED BY <2>1, <2>2, <2>4, <2>5, Zenon
<1>6. TreeTyped'
  <2>1. <<c>> \o children[p] \in Seq(Procs)
    BY <1>5, Zenon DEF Once
  <2> QED BY <1>1, <1>2, <2>1, Zenon DEF TreeInv, TreeTyped, States
<1>7. ListsAre(children, status, parent, reaped)'
  <2>1. \A q \in Procs : Once(Procs, children'[q])
    BY <1>1, <1>2, <1>4, <1>5
  <2>2. ASSUME NEW q \in Procs, NEW x \in Procs
        PROVE  x \in Range(children'[q]) <=>
                 parent'[x] = q /\ status'[x] # "none" /\ x \notin reaped'
    <3>3. /\ x # c => parent'[x] = parent[x] /\ status'[x] = status[x]
          /\ x = c => parent'[x] = p /\ status'[x] = "live" /\ x \notin reaped
          /\ reaped' = reaped
      BY <1>1, <1>2, <1>3, Zenon
    <3>1. CASE q = p
      <4>1. Range(children'[q]) = {c} \cup Range(children[q])
        BY <1>1, <1>2, <1>5, <3>1, Zenon
      <4> QED BY <1>4, <3>1, <3>3, <4>1, Zenon
    <3>2. CASE q # p
      BY <1>1, <1>2, <1>3, <1>4, <3>2
    <3> QED BY <3>1, <3>2, Zenon
  <2> QED BY <2>1, <2>2, Zenon DEF ListsAre
<1>8. \A x \in Procs : Active(x)' <=> Active(x) \/ x = c
  BY <1>1, <1>2, Zenon DEF Active
<1>9. ~Active(c) /\ Active(p)
  BY <1>1, Zenon DEF Active
<1>10. Parents'
  <2>1. Active(Root) /\ parent[Root] = NoProc /\ Root \in Procs
    BY TreeConstants, Zenon DEF TreeInv, Parents
  <2>2. Active(Root)' /\ parent'[Root] = NoProc
    BY <1>1, <1>2, <1>8, <1>9, <2>1, Zenon
  <2>3. \A x \in Procs : parent'[x] # x
    BY <1>1, <1>2, Zenon DEF TreeInv, Parents
  <2>4. ASSUME NEW x \in Procs, Active(x)', x # Root
        PROVE  parent'[x] \in Procs /\ Active(parent[x])'
    <3>1. PICK q \in Procs : q = parent'[x] /\ Active(q)
      <4>1. CASE x = c
        BY <1>1, <1>2, <1>9, <4>1, Zenon
      <4>2. CASE x # c
        BY <1>1, <1>2, <1>8, <2>4, <4>2, Zenon DEF TreeInv, Parents
      <4> QED BY <4>1, <4>2, Zenon
    <3>2. Active(q)'
      BY <1>8, <3>1, Zenon
    <3> QED BY <3>1, <3>2, Zenon DEF Active
  <2> QED BY <2>2, <2>3, <2>4, Zenon DEF Parents
<1>11. Dead'
  <2>1. \A x \in reaped \cup garbage : x # c /\ x \in Procs /\ status[x] = "zombie"
    BY <1>3, Zenon DEF TreeInv, TreeTyped, Dead, IsZombie
  <2>2. \A x \in Procs : ~Active(x) => children[x] = <<>>
    BY Zenon DEF TreeInv, Dead
  <2>3. \A x \in Procs : status[x] = "none" => tokens[x] = 0
    BY Zenon DEF TreeInv, Dead
  <2>4. \A x \in reaped' \cup garbage' : status'[x] = "zombie"
    BY <1>1, <1>2, <2>1, Zenon
  <2>5. \A x \in Procs : ~Active(x)' => children'[x] = <<>>
    BY <1>1, <1>2, <1>8, <1>9, <2>2, Zenon
  <2>6. \A x \in Procs : status'[x] = "none" => tokens'[x] = 0
    BY <1>1, <1>2, <2>3, Zenon
  <2> QED BY <2>4, <2>5, <2>6, Zenon DEF Dead, IsZombie
<1> QED BY <1>6, <1>7, <1>10, <1>11, Zenon DEF TreeInv

(* The zombies in a list, by their positions.                              *)
ZombiesIn(q, st) == Cardinality({i \in DOMAIN q : st[q[i]] = "zombie"})

(* There are finitely many.                                                *)
LEMMA ZombiesCount ==
    ASSUME Counting, NEW q \in Seq(Procs), NEW st
    PROVE  /\ IsFiniteSet({i \in DOMAIN q : st[q[i]] = "zombie"})
           /\ ZombiesIn(q, st) \in Nat
<1>1. IsFiniteSet(DOMAIN q)
  <2>1. DOMAIN q = 1 .. Len(q) /\ 1 \in Int /\ Len(q) \in Int
    OBVIOUS
  <2> QED BY <2>1, Zenon DEF Counting, IntervalCount
<1>2. IsFiniteSet({i \in DOMAIN q : st[q[i]] = "zombie"})
  BY <1>1, Zenon DEF Counting, PartCount
<1> QED BY <1>2, Zenon DEF ZombiesIn, Counting, EmptyCount

(* What the exit of p does, semaphore by semaphore.                        *)
LEMMA ExitSignals ==
    ASSUME Counting, TreeInv, NEW p \in Procs, Exit(p), NEW x \in Procs
    PROVE  /\ SelfSignals(p, x) \in Nat /\ tokens[x] \in Nat /\ Zombies(p) \in Nat
           /\ x # Root /\ x # parent[p] => SelfSignals(p, x) = 0
           /\ Wakes(p, x) => /\ SelfSignals(p, x) > 0 /\ x # p /\ status[x] = "waiting"
                             /\ status'[x] = "woken"
                             /\ tokens'[x] = tokens[x] + SelfSignals(p, x) - 1
           /\ ~Wakes(p, x) => tokens'[x] = tokens[x] + SelfSignals(p, x)
           /\ ~Wakes(p, x) /\ x # p => status'[x] = status[x]
           /\ x = p => status'[x] = "zombie"
<1>1. tokens \in [Procs -> Nat] /\ status \in [Procs -> States] /\ children \in [Procs -> Seq(Procs)]
  BY Zenon DEF TreeInv, TreeTyped
<1>2. Zombies(p) = ZombiesIn(children[p], status)
  BY Zenon DEF Zombies, ZombiesIn, IsZombie
<1>3. Zombies(p) \in Nat
  <2>1. PICK q \in Seq(Procs) : q = children[p]
    BY <1>1, Zenon
  <2>2. ZombiesIn(q, status) \in Nat
    BY ZombiesCount, Zenon
  <2> QED BY <1>2, <2>1, <2>2, Zenon
<1>4. SelfSignals(p, x) \in Nat /\ (x # Root /\ x # parent[p] => SelfSignals(p, x) = 0)
  BY <1>3 DEF SelfSignals
<1>5. /\ tokens'[x] = tokens[x] + SelfSignals(p, x) - (IF Wakes(p, x) THEN 1 ELSE 0)
      /\ status'[x] = IF x = p THEN "zombie" ELSE IF Wakes(p, x) THEN "woken" ELSE status[x]
      /\ status[p] = "live"
  BY Zenon DEF Exit
<1>6. Wakes(p, x) => SelfSignals(p, x) > 0 /\ status[x] = "waiting"
  BY Zenon DEF Wakes
<1>7. tokens[x] \in Nat
  BY <1>1, Zenon
<1> QED BY <1>3, <1>4, <1>5, <1>6, <1>7

(* Process::exit: the children go to Root.                                 *)
LEMMA TreeExit ==
    ASSUME Counting, TreeInv, NEW p \in Procs, Exit(p)
    PROVE  TreeInv'
<1> DEFINE kids == Range(children[p])
<1>1. /\ p # Root /\ status[p] = "live" /\ Root \in Procs /\ NoProc \notin Procs
      /\ children' = [children EXCEPT ![p] = <<>>, ![Root] = Adopted(p)]
      /\ garbage' = garbage \cup {p} /\ UNCHANGED <<reaped, call>>
  BY TreeConstants, Zenon DEF Exit
<1>2. /\ status \in [Procs -> States] /\ parent \in [Procs -> Procs \cup {NoProc}]
      /\ children \in [Procs -> Seq(Procs)] /\ reaped \subseteq Procs /\ garbage \subseteq Procs
      /\ tokens \in [Procs -> Nat]
  BY Zenon DEF TreeInv, TreeTyped
<1>3. /\ \A q \in Procs : Once(Procs, children[q])
      /\ \A q, x \in Procs : x \in Range(children[q]) <=>
            parent[x] = q /\ status[x] # "none" /\ x \notin reaped
  BY Zenon DEF TreeInv, ListsAre
<1>4. /\ Active(Root) /\ parent[Root] = NoProc /\ (\A x \in Procs : parent[x] # x)
      /\ \A x \in Procs : Active(x) /\ x # Root => parent[x] \in Procs /\ Active(parent[x])
  BY Zenon DEF TreeInv, Parents
<1>5. /\ \A x \in reaped \cup garbage : status[x] = "zombie"
      /\ \A x \in Procs : ~Active(x) => children[x] = <<>>
      /\ \A x \in Procs : status[x] = "none" => tokens[x] = 0
  BY Zenon DEF TreeInv, Dead, IsZombie
<1>6. \A c \in Procs : /\ c \in kids => parent'[c] = Root
                       /\ c \notin kids => parent'[c] = parent[c]
  BY Zenon DEF Exit
<1>7. parent' \in [Procs -> Procs \cup {NoProc}]
  BY <1>1, <1>2, Zenon DEF Exit
<1>8. \A x \in Procs : /\ status'[x] = "none" <=> status[x] = "none"
                       /\ status[x] = "zombie" => status'[x] = "zombie"
                       /\ Active(x)' <=> Active(x) /\ x # p
                       /\ status'[x] \in States
  <2> TAKE x \in Procs
  <2>1. /\ Wakes(p, x) => x # p /\ status[x] = "waiting" /\ status'[x] = "woken"
        /\ ~Wakes(p, x) /\ x # p => status'[x] = status[x]
        /\ x = p => status'[x] = "zombie"
    BY ExitSignals, Zenon
  <2>2. status[x] \in States
    BY <1>2, Zenon
  <2> QED BY <1>1, <2>1, <2>2, Zenon DEF Active, States
<1>9. TreeTyped' /\ \A x \in Procs : status'[x] = "none" => tokens'[x] = 0
  <2>1. \A x \in Procs : /\ tokens'[x] \in Nat
                         /\ status'[x] = "none" => tokens'[x] = 0
    <3> TAKE x \in Procs
    <3>1. /\ SelfSignals(p, x) \in Nat /\ tokens[x] \in Nat
          /\ x # Root /\ x # parent[p] => SelfSignals(p, x) = 0
          /\ Wakes(p, x) => /\ SelfSignals(p, x) > 0 /\ status[x] = "waiting"
                            /\ tokens'[x] = tokens[x] + SelfSignals(p, x) - 1
          /\ ~Wakes(p, x) => tokens'[x] = tokens[x] + SelfSignals(p, x)
      BY ExitSignals, Zenon
    <3>2. tokens'[x] \in Nat
      BY <3>1
    <3>3. status'[x] = "none" => x # Root /\ x # parent[p] /\ status[x] = "none"
      BY <1>1, <1>4, <1>8, Zenon DEF Active
    <3> QED BY <1>5, <3>1, <3>2, <3>3
  <2>2. tokens' \in [Procs -> Nat]
    BY <2>1, Zenon DEF Exit
  <2>3. status' \in [Procs -> States]
    BY <1>8, Zenon DEF Exit
  <2>4. Adopted(p) \in Seq(Procs)
    <3>1. PICK a \in Seq(Procs), b \in Seq(Procs) : a = children[p] /\ b = children[Root] /\ Once(Procs, a)
      BY <1>1, <1>2, <1>3, Zenon
    <3>2. Reversed(a) \in Seq(Procs)
      BY <3>1, ReverseList, Zenon DEF Once
    <3>3. PICK c \in Seq(Procs) : c = Reversed(a)
      BY <3>2, Zenon
    <3>4. c \o b \in Seq(Procs)
      OBVIOUS
    <3> QED BY <3>1, <3>3, <3>4, Zenon DEF Adopted
  <2>5. children' \in [Procs -> Seq(Procs)]
    <3>1. PICK a \in Seq(Procs), b \in Seq(Procs) : a = Adopted(p) /\ b = <<>>
      <4>1. <<>> \in Seq(Procs)
        OBVIOUS
      <4> QED BY <2>4, <4>1, Zenon
    <3>2. children' = [children EXCEPT ![p] = b, ![Root] = a]
      BY <1>1, <3>1, Zenon
    <3> QED BY <1>1, <1>2, <3>2, Zenon
  <2>6. call' \in [Procs -> [pid : Procs \cup {AnyPid}, nohang : BOOLEAN]]
    BY <1>1, Zenon DEF TreeInv, TreeTyped
  <2> QED BY <1>1, <1>2, <1>7, <2>1, <2>2, <2>3, <2>5, <2>6, Zenon DEF TreeTyped
<1>10. Once(Procs, Adopted(p)) /\ Range(Adopted(p)) = kids \cup Range(children[Root])
  <2>1. PICK a, b : a = children[p] /\ b = children[Root]
    BY Zenon
  <2>2. Once(Procs, a) /\ Once(Procs, b)
    BY <1>1, <1>3, <2>1, Zenon
  <2>3. Range(a) \cap Range(b) = {}
    <3>1. Range(a) \subseteq Procs /\ Range(b) \subseteq Procs
      BY <2>2 DEF Once, Range
    <3> QED BY <1>1, <1>3, <2>1, <3>1
  <2>4. PICK c : c = Reversed(a) /\ Once(Procs, c) /\ Range(c) = Range(a)
    BY <2>2, ReverseList, Zenon
  <2>5. Once(Procs, c \o b) /\ Range(c \o b) = Range(c) \cup Range(b)
    BY <2>2, <2>3, <2>4, JoinLists
  <2> QED BY <2>1, <2>4, <2>5, Zenon DEF Adopted
<1>11. /\ children'[p] = <<>> /\ children'[Root] = Adopted(p)
       /\ \A q \in Procs : q # p /\ q # Root => children'[q] = children[q]
  BY <1>1, <1>2, Zenon
<1> HIDE DEF kids
<1>12. ListsAre(children, status, parent, reaped)'
  <2>1. Once(Procs, <<>>) /\ Range(<<>>) = {}
    BY DEF Once, NoDuplicates, Range
  <2>2. \A q \in Procs : Once(Procs, children'[q])
    BY <1>3, <1>10, <1>11, <2>1
  <2>3. \A x \in Procs : x \in kids <=> parent[x] = p /\ status[x] # "none" /\ x \notin reaped
    BY <1>3, Zenon DEF kids
  <2>4. ASSUME NEW q \in Procs, NEW x \in Procs
        PROVE  x \in Range(children'[q]) <=>
                 parent'[x] = q /\ status'[x] # "none" /\ x \notin reaped'
    <3>1. CASE q = p
      BY <1>1, <1>6, <1>8, <1>11, <2>1, <2>3, <3>1
    <3>2. CASE q = Root
      BY <1>1, <1>3, <1>6, <1>8, <1>10, <1>11, <2>3, <3>2
    <3>3. CASE q # p /\ q # Root
      <4>1. Range(children'[q]) = Range(children[q])
        BY <1>11, <3>3, Zenon
      <4>2. x \in Range(children[q]) <=> parent[x] = q /\ status[x] # "none" /\ x \notin reaped
        BY <1>3, Zenon
      <4>3. parent'[x] = q <=> parent[x] = q /\ x \notin kids
        BY <1>6, <2>3, <3>3, Zenon
      <4>4. (status'[x] = "none" <=> status[x] = "none") /\ reaped' = reaped
        BY <1>1, <1>8, Zenon
      <4>5. parent[x] = q => x \notin kids
        BY <2>3, <3>3, Zenon
      <4> QED BY <4>1, <4>2, <4>3, <4>4, <4>5, Zenon
    <3> QED BY <3>1, <3>2, <3>3, Zenon
  <2> QED BY <2>2, <2>4, Zenon DEF ListsAre
<1>13. Parents'
  <2>1. \A x \in Procs : x \in kids <=> parent[x] = p /\ status[x] # "none" /\ x \notin reaped
    BY <1>3, Zenon DEF kids
  <2>2. Root \notin kids
    BY <1>1, <1>4, <2>1, Zenon
  <2>3. Active(Root)' /\ parent'[Root] = NoProc
    BY <1>1, <1>4, <1>6, <1>8, <2>2, Zenon
  <2>4. \A x \in Procs : parent'[x] # x
    BY <1>4, <1>6, <2>2, Zenon
  <2>5. ASSUME NEW x \in Procs, Active(x)', x # Root
        PROVE  parent'[x] \in Procs /\ Active(parent[x])'
    <3>1. PICK q \in Procs : q = parent'[x] /\ Active(q) /\ q # p
      <4>1. CASE x \in kids
        BY <1>1, <1>4, <1>6, <4>1, Zenon
      <4>2. CASE x \notin kids
        <5>1. Active(x) /\ status[x] # "none" /\ x \notin reaped
          BY <1>5, <1>8, <2>5, Zenon DEF Active
        <5> QED BY <1>4, <1>6, <2>1, <2>5, <4>2, <5>1, Zenon
      <4> QED BY <4>1, <4>2, Zenon
    <3>2. Active(q)'
      BY <1>8, <3>1, Zenon
    <3> QED BY <3>1, <3>2, Zenon DEF Active
  <2> QED BY <2>3, <2>4, <2>5, Zenon DEF Parents
<1>14. Dead'
  <2>1. \A x \in reaped' \cup garbage' : status'[x] = "zombie"
    <3> TAKE x \in reaped' \cup garbage'
    <3>1. x \in Procs /\ (x = p \/ status[x] = "zombie")
      BY <1>1, <1>2, <1>5, Zenon
    <3>2. x = p => status'[x] = "zombie"
      BY <3>1, ExitSignals, Zenon
    <3> QED BY <1>8, <3>1, <3>2, Zenon
  <2>2. \A x \in Procs : ~Active(x)' => children'[x] = <<>>
    BY <1>4, <1>5, <1>8, <1>11, Zenon
  <2> QED BY <1>9, <2>1, <2>2, Zenon DEF Dead, IsZombie
<1> QED BY <1>9, <1>12, <1>13, <1>14, Zenon DEF TreeInv

(* The part of wait() behind m_selfSem.                                    *)
LEMMA ReapFinds ==
    ASSUME Counting, TreeInv, NEW p \in Procs, NEW pid, Reap(p, pid)
    PROVE  /\ UNCHANGED <<parent, garbage>>
           /\ Reapable(p, pid) = {} => UNCHANGED <<children, reaped>> /\ ret' = "error"
           /\ Reapable(p, pid) # {} =>
                /\ ret' = "child"
                /\ \E i \in DOMAIN children[p] :
                     /\ i \in Reapable(p, pid) /\ children[p][i] \in Procs
                     /\ status[children[p][i]] = "zombie"
                     /\ children' = [children EXCEPT ![p] = Unlink(children[p], children[p][i])]
                     /\ reaped' = reaped \cup {children[p][i]}
<1>1. children \in [Procs -> Seq(Procs)]
  BY Zenon DEF TreeInv, TreeTyped
<1>2. UNCHANGED <<parent, garbage>>
  BY Zenon DEF Reap
<1>3. Reapable(p, pid) = {} => UNCHANGED <<children, reaped>> /\ ret' = "error"
  BY Zenon DEF Reap
<1>4. ASSUME Reapable(p, pid) # {}
      PROVE  \E i \in DOMAIN children[p] :
                     /\ i \in Reapable(p, pid) /\ children[p][i] \in Procs
                     /\ status[children[p][i]] = "zombie"
                     /\ children' = [children EXCEPT ![p] = Unlink(children[p], children[p][i])]
                     /\ reaped' = reaped \cup {children[p][i]}
  <2>1. Reapable(p, pid) \subseteq Nat
    BY <1>1 DEF Reapable
  <2>2. Min(Reapable(p, pid)) \in Reapable(p, pid)
    BY <1>4, <2>1, Zenon DEF Counting, LeastNumber, Min
  <2>3. PICK i \in DOMAIN children[p] : i = Min(Reapable(p, pid)) /\ i \in Reapable(p, pid)
    BY <2>2, Zenon DEF Reapable
  <2>4. status[children[p][i]] = "zombie"
    BY <2>3, Zenon DEF Reapable, IsZombie
  <2>5. children[p][i] \in Procs
    BY <1>1, <2>3
  <2>6. /\ children' = [children EXCEPT ![p] = Unlink(children[p], children[p][i])]
        /\ reaped' = reaped \cup {children[p][i]}
    BY <1>4, <2>3, Zenon DEF Reap
  <2> QED BY <2>3, <2>4, <2>5, <2>6, Zenon
<1>5. Reapable(p, pid) # {} => ret' = "child"
  BY Zenon DEF Reap
<1> QED BY <1>2, <1>3, <1>4, <1>5, Zenon

(* wait() takes a zombie out of the list of its parent and marks it.       *)
LEMMA TreeReap ==
    ASSUME Counting, TreeInv, NEW p \in Procs, Active(p), NEW pid, Reap(p, pid),
           status' \in [Procs -> States], tokens' \in [Procs -> Nat],
           call' \in [Procs -> [pid : Procs \cup {AnyPid}, nohang : BOOLEAN]],
           \A x \in Procs : status'[x] = status[x] \/ (Active(x) /\ Active(x)'),
           \A x \in Procs : ~Active(x) => tokens'[x] = tokens[x]
    PROVE  TreeInv'
<1>1. CASE Reapable(p, pid) = {}
  <2>1. UNCHANGED <<parent, garbage, children, reaped>>
    BY <1>1, ReapFinds, Zenon
  <2> QED BY <2>1, QuietTree, Zenon
<1>2. CASE Reapable(p, pid) # {}
  <2>1. PICK i \in DOMAIN children[p] :
               /\ children[p][i] \in Procs /\ status[children[p][i]] = "zombie"
               /\ children' = [children EXCEPT ![p] = Unlink(children[p], children[p][i])]
               /\ reaped' = reaped \cup {children[p][i]}
    BY <1>2, ReapFinds, Zenon
  <2>2. UNCHANGED <<parent, garbage>>
    BY ReapFinds, Zenon
  <2>3. PICK z \in Procs : z = children[p][i] /\ status[z] = "zombie" /\ reaped' = reaped \cup {z}
    BY <2>1, Zenon
  <2>4. /\ status \in [Procs -> States] /\ parent \in [Procs -> Procs \cup {NoProc}]
        /\ children \in [Procs -> Seq(Procs)] /\ reaped \subseteq Procs /\ garbage \subseteq Procs
    BY Zenon DEF TreeInv, TreeTyped
  <2>5. /\ \A q \in Procs : Once(Procs, children[q])
        /\ \A q, x \in Procs : x \in Range(children[q]) <=>
              parent[x] = q /\ status[x] # "none" /\ x \notin reaped
    BY Zenon DEF TreeInv, ListsAre
  <2>6. PICK l : l = Unlink(children[p], children[p][i]) /\ Once(Procs, l) /\ Range(l) = Range(children[p]) \ {z}
    <3>1. PICK q : q = children[p]
      BY Zenon
    <3>2. Once(Procs, q) /\ i \in DOMAIN q /\ z = q[i]
      BY <2>3, <2>5, <3>1, Zenon
    <3>3. Once(Procs, Unlink(q, q[i])) /\ Range(Unlink(q, q[i])) = Range(q) \ {q[i]}
      BY <3>2, DropList
    <3> QED BY <3>1, <3>2, <3>3, Zenon
  <2>7. /\ children'[p] = l /\ \A q \in Procs : q # p => children'[q] = children[q]
    BY <2>1, <2>4, <2>6, Zenon
  <2>8. TreeTyped'
    <3>1. l \in Seq(Procs) /\ children' = [children EXCEPT ![p] = l]
      BY <2>1, <2>6, Zenon DEF Once
    <3> QED BY <2>2, <2>3, <2>4, <3>1, Zenon DEF TreeTyped
  <2>9. \A x \in Procs : /\ Active(x)' <=> Active(x)
                         /\ status'[x] = "none" <=> status[x] = "none"
                         /\ status'[x] = "zombie" <=> status[x] = "zombie"
    BY Zenon DEF Active
  <2>10. parent[z] = p
    <3>1. z \in Range(children[p])
      BY <2>3, Zenon DEF Range
    <3> QED BY <2>5, <3>1, Zenon
  <2>11. ListsAre(children, status, parent, reaped)'
    <3>1. \A q \in Procs : Once(Procs, children'[q])
      BY <2>5, <2>6, <2>7
    <3>2. ASSUME NEW q \in Procs, NEW x \in Procs
          PROVE  x \in Range(children'[q]) <=>
                   parent'[x] = q /\ status'[x] # "none" /\ x \notin reaped'
      <4>1. x \in Range(children[q]) <=> parent[x] = q /\ status[x] # "none" /\ x \notin reaped
        BY <2>5, Zenon
      <4>2. parent'[x] = parent[x] /\ (status'[x] = "none" <=> status[x] = "none")
            /\ (x \in reaped' <=> x \in reaped \/ x = z)
        BY <2>2, <2>3, <2>9, Zenon
      <4>3. CASE q = p
        BY <2>6, <2>7, <4>1, <4>2, <4>3, Zenon
      <4>4. CASE q # p
        BY <2>7, <2>10, <4>1, <4>2, <4>4, Zenon
      <4> QED BY <4>3, <4>4, Zenon
    <3> QED BY <3>1, <3>2, Zenon DEF ListsAre
  <2>12. Parents'
    BY <2>2, <2>9, TreeConstants, Zenon DEF TreeInv, Parents
  <2>13. Dead'
    <3>1. /\ \A x \in reaped \cup garbage : status[x] = "zombie"
          /\ \A x \in Procs : ~Active(x) => children[x] = <<>>
          /\ \A x \in Procs : status[x] = "none" => tokens[x] = 0
      BY Zenon DEF TreeInv, Dead, IsZombie
    <3>2. \A x \in reaped' \cup garbage' : status'[x] = "zombie"
      BY <2>2, <2>3, <2>4, <2>9, <3>1, Zenon
    <3>3. \A x \in Procs : ~Active(x)' => children'[x] = <<>>
      BY <2>7, <2>9, <3>1, Zenon
    <3>4. \A x \in Procs : status'[x] = "none" => tokens'[x] = 0
      <4>1. \A x \in Procs : status[x] = "none" => ~Active(x)
        BY Zenon DEF Active
      <4> QED BY <2>9, <3>1, <4>1, Zenon
    <3> QED BY <3>2, <3>3, <3>4, Zenon DEF Dead, IsZombie
  <2> QED BY <2>8, <2>11, <2>12, <2>13, Zenon DEF TreeInv
<1> QED BY <1>1, <1>2, Zenon

(* PCBGarbage::clear deletes only who was waited for.                      *)
LEMMA TreeClear ==
    ASSUME TreeInv, GarbageClear
    PROVE  TreeInv'
<1>1. PICK dead \in SUBSET Procs : dead = {p \in Procs : SafeToDelete(p)}
  BY Zenon
<1>2. /\ status' = [p \in Procs |-> IF p \in dead THEN "none" ELSE status[p]]
      /\ parent' = [p \in Procs |-> IF p \in dead THEN NoProc ELSE parent[p]]
      /\ tokens' = [p \in Procs |-> IF p \in dead THEN 0 ELSE tokens[p]]
      /\ garbage' = garbage \ dead /\ reaped' = reaped \ dead
      /\ UNCHANGED <<children, call>>
  BY <1>1, Zenon DEF GarbageClear
<1>3. dead \subseteq reaped
  BY <1>1, Zenon DEF SafeToDelete
<1>4. /\ status \in [Procs -> States] /\ parent \in [Procs -> Procs \cup {NoProc}]
      /\ tokens \in [Procs -> Nat] /\ reaped \subseteq Procs /\ garbage \subseteq Procs
      /\ NoProc \notin Procs
  BY TreeConstants, Zenon DEF TreeInv, TreeTyped
<1>5. /\ \A x \in reaped \cup garbage : status[x] = "zombie"
      /\ \A x \in Procs : ~Active(x) => children[x] = <<>>
      /\ \A x \in Procs : status[x] = "none" => tokens[x] = 0
  BY Zenon DEF TreeInv, Dead, IsZombie
<1>6. TreeTyped'
  BY <1>2, <1>4, Zenon DEF TreeInv, TreeTyped, States
<1>7. \A x \in Procs : Active(x)' <=> Active(x)
  BY <1>2, <1>3, <1>5, Zenon DEF Active
<1>8. ListsAre(children, status, parent, reaped)'
  BY <1>2, <1>3, <1>4, Zenon DEF TreeInv, ListsAre
<1>9. Parents'
  <2>1. \A x \in dead : ~Active(x)
    BY <1>3, <1>5, Zenon DEF Active
  <2>2. /\ Active(Root) /\ parent[Root] = NoProc /\ Root \in Procs /\ (\A x \in Procs : parent[x] # x)
        /\ \A x \in Procs : Active(x) /\ x # Root => parent[x] \in Procs /\ Active(parent[x])
    BY TreeConstants, Zenon DEF TreeInv, Parents
  <2>3. ASSUME NEW x \in Procs, Active(x)', x # Root
        PROVE  parent'[x] \in Procs /\ Active(parent[x])'
    <3>1. PICK q \in Procs : q = parent'[x] /\ Active(q)
      BY <1>2, <1>7, <2>1, <2>2, <2>3, Zenon
    <3>2. Active(q)'
      BY <1>7, <3>1, Zenon
    <3> QED BY <3>1, <3>2, Zenon DEF Active
  <2>4. Active(Root)' /\ parent'[Root] = NoProc /\ \A x \in Procs : parent'[x] # x
    BY <1>2, <1>4, <1>7, <2>2, Zenon
  <2> QED BY <2>3, <2>4, Zenon DEF Parents
<1>10. Dead'
  BY <1>2, <1>4, <1>5, <1>7, Zenon DEF Dead, IsZombie
<1> QED BY <1>6, <1>8, <1>9, <1>10, Zenon DEF TreeInv

(* wait() without a child to take, blocking, taking a token, or resuming.  *)
LEMMA TreeWaits ==
    ASSUME Counting, TreeInv, NEW p \in Procs, NEW pid \in Targets, NEW nohang \in BOOLEAN,
           WaitCall(p, pid, nohang)
    PROVE  TreeInv'
<1>1. /\ status \in [Procs -> States] /\ tokens \in [Procs -> Nat]
      /\ call \in [Procs -> [pid : Procs \cup {AnyPid}, nohang : BOOLEAN]]
      /\ pid \in Procs \cup {AnyPid}
  BY TreeConstants, Zenon DEF TreeInv, TreeTyped
<1>2. CASE WaitNoChild(p, pid) \/ WaitNoHang(p, pid)
  <2>1. UNCHANGED <<status, parent, children, tokens, reaped, garbage, call>>
    BY <1>2, Zenon DEF WaitNoChild, WaitNoHang
  <2> QED BY <1>1, <2>1, QuietTree, Zenon
<1>3. CASE WaitTakes(p, pid, nohang)
  <2>1. /\ status[p] = "live" /\ tokens[p] > 0 /\ tokens' = [tokens EXCEPT ![p] = tokens[p] - 1]
        /\ Reap(p, pid) /\ UNCHANGED <<status, call>>
    BY <1>3, Zenon DEF WaitTakes, HasChild
  <2>2. Active(p) /\ tokens' \in [Procs -> Nat] /\ \A x \in Procs : ~Active(x) => tokens'[x] = tokens[x]
    BY <1>1, <2>1 DEF Active
  <2> QED BY <1>1, <2>1, <2>2, TreeReap, Zenon
<1>4. CASE WaitBlocks(p, pid, nohang)
  <2>1. /\ status[p] = "live" /\ status' = [status EXCEPT ![p] = "waiting"]
        /\ call' = [call EXCEPT ![p] = [pid |-> pid, nohang |-> nohang]]
        /\ UNCHANGED <<parent, children, tokens, reaped, garbage>>
    BY <1>4, Zenon DEF WaitBlocks, HasChild
  <2>2. status' \in [Procs -> States] /\ \A x \in Procs : status'[x] = status[x] \/ (Active(x) /\ Active(x)')
    BY <1>1, <2>1, Zenon DEF Active, States
  <2>3. call' \in [Procs -> [pid : Procs \cup {AnyPid}, nohang : BOOLEAN]]
    BY <1>1, <2>1, Zenon
  <2> QED BY <1>1, <2>1, <2>2, <2>3, QuietTree, Zenon
<1> QED BY <1>2, <1>3, <1>4, Zenon DEF WaitCall

(* The waiter is dispatched again.                                         *)
LEMMA TreeResumes ==
    ASSUME Counting, TreeInv, NEW p \in Procs, WaitResumes(p)
    PROVE  TreeInv'
<1>1. /\ status \in [Procs -> States] /\ tokens \in [Procs -> Nat]
      /\ call \in [Procs -> [pid : Procs \cup {AnyPid}, nohang : BOOLEAN]]
  BY Zenon DEF TreeInv, TreeTyped
<1>2. /\ status[p] = "woken" /\ status' = [status EXCEPT ![p] = "live"]
      /\ call' = [call EXCEPT ![p] = NoCall] /\ Reap(p, call[p].pid) /\ tokens' = tokens
  BY Zenon DEF WaitResumes
<1>3. /\ status' \in [Procs -> States] /\ Active(p)
      /\ \A x \in Procs : status'[x] = status[x] \/ (Active(x) /\ Active(x)')
  BY <1>1, <1>2, Zenon DEF Active, States
<1>4. call' \in [Procs -> [pid : Procs \cup {AnyPid}, nohang : BOOLEAN]]
  BY <1>1, <1>2, Zenon DEF NoCall
<1> QED BY <1>1, <1>2, <1>3, <1>4, TreeReap, Zenon

(* Process::kill of a waiter.                                              *)
LEMMA TreeKill ==
    ASSUME TreeInv, NEW p \in Procs, Kill(p)
    PROVE  TreeInv'
<1>1. /\ status \in [Procs -> States] /\ tokens \in [Procs -> Nat]
      /\ call \in [Procs -> [pid : Procs \cup {AnyPid}, nohang : BOOLEAN]]
  BY Zenon DEF TreeInv, TreeTyped
<1>2. /\ status[p] = "waiting" /\ status' = [status EXCEPT ![p] = "woken"]
      /\ UNCHANGED <<parent, children, tokens, reaped, garbage, call>>
  BY Zenon DEF Kill
<1>3. /\ status' \in [Procs -> States]
      /\ \A x \in Procs : status'[x] = status[x] \/ (Active(x) /\ Active(x)')
  BY <1>1, <1>2, Zenon DEF Active, States
<1> QED BY <1>1, <1>2, <1>3, QuietTree, Zenon

(* Every step keeps the tree.                                              *)
LEMMA TreeStep ==
    ASSUME Counting, TreeInv, [Next]_vars
    PROVE  TreeInv'
<1>1. CASE UNCHANGED vars
  <2>1. /\ status \in [Procs -> States] /\ tokens \in [Procs -> Nat]
        /\ call \in [Procs -> [pid : Procs \cup {AnyPid}, nohang : BOOLEAN]]
    BY Zenon DEF TreeInv, TreeTyped
  <2>2. UNCHANGED <<status, parent, children, tokens, reaped, garbage, call>>
    BY <1>1, Zenon DEF vars
  <2> QED BY <2>1, <2>2, QuietTree, Zenon
<1>2. CASE \E p, c \in Procs : Fork(p, c)
  BY <1>2, TreeFork, Zenon
<1>3. CASE \E p \in Procs : Exit(p)
  BY <1>3, TreeExit, Zenon
<1>4. CASE \E p \in Procs, pid \in Targets, nohang \in BOOLEAN : WaitCall(p, pid, nohang)
  BY <1>4, TreeWaits, Zenon
<1>5. CASE \E p \in Procs : WaitResumes(p)
  BY <1>5, TreeResumes, Zenon
<1>6. CASE \E p \in Procs : Kill(p)
  BY <1>6, TreeKill, Zenon
<1>7. CASE GarbageClear
  BY <1>7, TreeClear, Zenon
<1> QED BY <1>1, <1>2, <1>3, <1>4, <1>5, <1>6, <1>7, Zenon DEF Next

-----------------------------------------------------------------------------
(* Tokens.  Who a parent has yet to wait for, by the parent pointers.      *)
Corpses(st, pa, re, p) == {c \in Procs : pa[c] = p /\ st[c] = "zombie" /\ c \notin re}

(* They are as many as the zombies in its list.                            *)
LEMMA CorpsesCount ==
    ASSUME Counting, NEW ch, NEW st, NEW pa, NEW re, ListsAre(ch, st, pa, re), NEW p \in Procs
    PROVE  /\ IsFiniteSet(Corpses(st, pa, re, p))
           /\ Cardinality(Corpses(st, pa, re, p)) = ZombiesIn(ch[p], st)
           /\ ZombiesIn(ch[p], st) \in Nat
<1>1. PICK q \in Seq(Procs) : q = ch[p] /\ NoDuplicates(q)
  BY Zenon DEF ListsAre, Once
<1>2. PICK I : I = {i \in DOMAIN q : st[q[i]] = "zombie"}
  BY Zenon
<1>3. PICK T : T = Corpses(st, pa, re, p)
  BY Zenon
<1>4. IsFiniteSet(I) /\ ZombiesIn(q, st) \in Nat /\ ZombiesIn(q, st) = Cardinality(I)
  BY <1>2, ZombiesCount, Zenon DEF ZombiesIn
<1>5. \A c \in Procs : (\E i \in DOMAIN q : c = q[i]) <=>
          pa[c] = p /\ st[c] # "none" /\ c \notin re
  BY <1>1 DEF ListsAre, Range
<1>6. \A i \in DOMAIN q : q[i] \in Procs
  BY <1>1
<1>7. \A i \in I : q[i] \in T
  BY <1>2, <1>3, <1>5, <1>6, Zenon DEF Corpses
<1>8. \A c \in T : \E i \in I : q[i] = c
  BY <1>2, <1>3, <1>5 DEF Corpses
<1>9. \A i, j \in I : q[i] = q[j] => i = j
  BY <1>1, <1>2 DEF NoDuplicates
<1>10. PICK f : f = [i \in I |-> q[i]]
  BY Zenon
<1>11. f \in [I -> T] /\ (\A i, j \in I : f[i] = f[j] => i = j) /\ \A c \in T : \E i \in I : f[i] = c
  BY <1>7, <1>8, <1>9, <1>10, Zenon
<1>12. IsInjective(f)
  BY <1>11, Zenon DEF IsInjective
<1>13. ExistsBijection(I, T)
  BY <1>11, <1>12, Zenon DEF ExistsBijection, Bijection, Injection, Surjection
<1>14. IsFiniteSet(T) /\ Cardinality(T) = Cardinality(I)
  BY <1>4, <1>13, Zenon DEF Counting, SameCount
<1> QED BY <1>1, <1>3, <1>4, <1>14, Zenon

Unwaited(p) == Corpses(status, parent, reaped, p)

(* The same before and after a step.                                       *)
LEMMA UnwaitedCount ==
    ASSUME Counting, TreeInv, TreeInv', NEW p \in Procs
    PROVE  /\ IsFiniteSet(Unwaited(p)) /\ Cardinality(Unwaited(p)) = Zombies(p)
           /\ IsFiniteSet(Unwaited(p)') /\ Cardinality(Unwaited(p)') = Zombies(p)'
           /\ Zombies(p) \in Nat /\ Zombies(p)' \in Nat
<1>1. /\ Zombies(p) = ZombiesIn(children[p], status)
      /\ Zombies(p)' = ZombiesIn(children'[p], status')
  BY Zenon DEF Zombies, ZombiesIn, IsZombie
<1>2. /\ Unwaited(p) = Corpses(status, parent, reaped, p)
      /\ Unwaited(p)' = Corpses(status', parent', reaped', p)
  BY Zenon DEF Unwaited
<1>3. ListsAre(children, status, parent, reaped) /\ ListsAre(children', status', parent', reaped')
  BY Zenon DEF TreeInv
<1>4. /\ IsFiniteSet(Corpses(status, parent, reaped, p))
      /\ Cardinality(Corpses(status, parent, reaped, p)) = ZombiesIn(children[p], status)
      /\ ZombiesIn(children[p], status) \in Nat
  BY <1>3, CorpsesCount, Zenon
<1>5. /\ IsFiniteSet(Corpses(status', parent', reaped', p))
      /\ Cardinality(Corpses(status', parent', reaped', p)) = ZombiesIn(children'[p], status')
      /\ ZombiesIn(children'[p], status') \in Nat
  BY <1>3, CorpsesCount, Zenon
<1> QED BY <1>1, <1>2, <1>4, <1>5, Zenon

(* A parent that has exited or is not there has nobody to wait for.        *)
LEMMA NoneUnwaited ==
    ASSUME TreeInv, NEW p \in Procs, ~Active(p)
    PROVE  Unwaited(p) = {}
<1>1. children[p] = <<>>
  BY Zenon DEF TreeInv, Dead
<1>2. Range(<<>>) = {}
  BY DEF Range
<1>3. \A c \in Procs : ~(parent[c] = p /\ status[c] # "none" /\ c \notin reaped)
  BY <1>1, <1>2, Zenon DEF TreeInv, ListsAre
<1> QED BY <1>3, Zenon DEF Unwaited, Corpses

(* The tokens a process may still use, with the one a woken waiter         *)
(* carries.                                                                *)
Credit(p) == tokens[p] + (IF status[p] = "woken" THEN 1 ELSE 0)

(* Without a wait() for one pid a process has a token for each of its      *)
(* zombies, perhaps more (a killed waiter returns without using one), so   *)
(* who waits has none of either.  Without signals it has no more.          *)
Covered ==
    "pid" \notin odd =>
        \A p \in Procs :
            /\ Active(p) => Zombies(p) <= Credit(p)
            /\ status[p] = "waiting" => tokens[p] = 0 /\ ~call[p].nohang
            /\ status[p] \in {"waiting", "woken"} => call[p].pid = AnyPid

Balanced == odd = {} => ret # "error" /\ \A p \in Procs : Active(p) => Credit(p) = Zombies(p)

TokenInv == TreeInv /\ Covered /\ Balanced

(* Credit and zombies are numbers.                                         *)
LEMMA CreditCounts ==
    ASSUME Counting, TreeInv, TreeInv', NEW p \in Procs
    PROVE  /\ Credit(p) \in Nat /\ Credit(p)' \in Nat
           /\ Zombies(p) \in Nat /\ Zombies(p)' \in Nat
           /\ tokens[p] \in Nat /\ tokens'[p] \in Nat
<1>1. tokens[p] \in Nat /\ tokens'[p] \in Nat
  BY Zenon DEF TreeInv, TreeTyped
<1> QED BY <1>1, UnwaitedCount DEF Credit

(* A step that leaves alone what the ledger is about, for everybody that   *)
(* is active after it.                                                     *)
LEMMA LedgerKept ==
    ASSUME Counting, TokenInv, TreeInv', odd' = odd, odd' = {} => ret' # "error",
           NEW same, same \subseteq Procs,
           \A x \in same : /\ Zombies(x)' = Zombies(x) /\ tokens'[x] = tokens[x]
                           /\ status'[x] = status[x] /\ call'[x] = call[x],
           \A x \in Procs \ same :
              Active(x)' => status'[x] = "live" /\ Zombies(x)' = tokens'[x]
    PROVE  TokenInv'
<1>1. Covered'
  <2> SUFFICES ASSUME "pid" \notin odd', NEW x \in Procs
               PROVE  /\ Active(x)' => Zombies(x)' <= Credit(x)'
                      /\ status'[x] = "waiting" => tokens'[x] = 0 /\ ~call'[x].nohang
                      /\ status'[x] \in {"waiting", "woken"} => call'[x].pid = AnyPid
    BY Zenon DEF Covered
  <2>1. TreeInv /\ Covered
    BY Zenon DEF TokenInv
  <2>2. Zombies(x)' \in Nat /\ tokens'[x] \in Nat
    BY <2>1, CreditCounts, Zenon
  <2>3. CASE x \in same
    BY <2>1, <2>3 DEF Covered, Active, Credit
  <2>4. CASE x \notin same
    <3>1. Active(x)' => status'[x] = "live" /\ Zombies(x)' = tokens'[x]
      BY <2>4, Zenon
    <3>2. status'[x] \in {"waiting", "woken"} => Active(x)'
      BY Zenon DEF Active
    <3>3. ~(status'[x] \in {"waiting", "woken"})
      BY <3>1, <3>2, Zenon
    <3> QED BY <2>2, <3>1, <3>3 DEF Credit
  <2> QED BY <2>3, <2>4, Zenon
<1>2. Balanced'
  <2> SUFFICES ASSUME odd' = {}, NEW x \in Procs, Active(x)'
               PROVE  Credit(x)' = Zombies(x)'
    BY Zenon DEF Balanced
  <2>1. TreeInv /\ Balanced
    BY Zenon DEF TokenInv
  <2>2. Zombies(x)' \in Nat /\ tokens'[x] \in Nat
    BY <2>1, CreditCounts, Zenon
  <2>3. CASE x \in same
    BY <2>1, <2>3 DEF Balanced, Active, Credit
  <2>4. CASE x \notin same
    <3>1. status'[x] = "live" /\ Zombies(x)' = tokens'[x]
      BY <2>4, Zenon
    <3> QED BY <2>2, <3>1 DEF Credit
  <2> QED BY <2>3, <2>4, Zenon
<1> QED BY <1>1, <1>2, Zenon DEF TokenInv

(* The same members to wait for, the same number of zombies.               *)
LEMMA SameUnwaited ==
    ASSUME Counting, TreeInv, TreeInv', NEW p \in Procs, Unwaited(p)' = Unwaited(p)
    PROVE  Zombies(p)' = Zombies(p)
BY UnwaitedCount, Zenon

(* A forked child starts without tokens, and nobody has died.              *)
LEMMA TokensFork ==
    ASSUME Counting, TokenInv, TreeInv', NEW p \in Procs, NEW c \in Procs, Fork(p, c)
    PROVE  TokenInv'
<1>1. /\ status[c] = "none" /\ status' = [status EXCEPT ![c] = "live"]
      /\ parent' = [parent EXCEPT ![c] = p]
      /\ UNCHANGED <<tokens, reaped, call, ret, odd>>
  BY Zenon DEF Fork
<1>2. TreeInv /\ (odd = {} => ret # "error")
  BY Zenon DEF TokenInv, Balanced
<1>3. status \in [Procs -> States] /\ parent \in [Procs -> Procs \cup {NoProc}]
  BY <1>2, Zenon DEF TreeInv, TreeTyped
<1>4. \A x \in Procs : /\ x # c => status'[x] = status[x] /\ parent'[x] = parent[x]
                       /\ x = c => status'[x] = "live"
  BY <1>1, <1>3, Zenon
<1>5. ASSUME NEW x \in Procs PROVE Unwaited(x)' = Unwaited(x)
  BY <1>1, <1>4 DEF Unwaited, Corpses
<1>6. \A x \in Procs : Zombies(x)' = Zombies(x)
  BY <1>2, <1>5, SameUnwaited, Zenon
<1>7. ~Active(c) /\ tokens[c] = 0
  BY <1>1, <1>2, Zenon DEF Active, TreeInv, Dead
<1>8. Zombies(c) = 0
  <2>1. Unwaited(c) = {}
    BY <1>2, <1>7, NoneUnwaited, Zenon
  <2>2. Cardinality(Unwaited(c)) = Zombies(c)
    BY <1>2, UnwaitedCount, Zenon
  <2> QED BY <2>1, <2>2, Zenon DEF Counting, EmptyCount
<1>9. PICK same : same = Procs \ {c}
  BY Zenon
<1>10. \A x \in same : /\ Zombies(x)' = Zombies(x) /\ tokens'[x] = tokens[x]
                       /\ status'[x] = status[x] /\ call'[x] = call[x]
  BY <1>1, <1>4, <1>6, <1>9, Zenon
<1>11. \A x \in Procs \ same : Active(x)' => status'[x] = "live" /\ Zombies(x)' = tokens'[x]
  BY <1>1, <1>4, <1>6, <1>7, <1>8, <1>9, Zenon
<1> QED BY <1>1, <1>2, <1>9, <1>10, <1>11, LedgerKept, Zenon

(* The collector deletes who has been waited for.                          *)
LEMMA TokensClear ==
    ASSUME Counting, TokenInv, TreeInv', GarbageClear
    PROVE  TokenInv'
<1>1. PICK dead : dead = {p \in Procs : SafeToDelete(p)}
  BY Zenon
<1>2. /\ status' = [p \in Procs |-> IF p \in dead THEN "none" ELSE status[p]]
      /\ parent' = [p \in Procs |-> IF p \in dead THEN NoProc ELSE parent[p]]
      /\ tokens' = [p \in Procs |-> IF p \in dead THEN 0 ELSE tokens[p]]
      /\ reaped' = reaped \ dead /\ UNCHANGED <<call, ret, odd>>
  BY <1>1, Zenon DEF GarbageClear
<1>3. dead \subseteq reaped /\ dead \subseteq Procs
  BY <1>1, Zenon DEF SafeToDelete
<1>4. TreeInv /\ (odd = {} => ret # "error")
  BY Zenon DEF TokenInv, Balanced
<1>5. ASSUME NEW x \in Procs PROVE Unwaited(x)' = Unwaited(x)
  BY <1>2, <1>3, Zenon DEF Unwaited, Corpses
<1>6. \A x \in Procs : Zombies(x)' = Zombies(x)
  BY <1>4, <1>5, SameUnwaited, Zenon
<1>7. PICK same : same = Procs \ dead
  BY Zenon
<1>8. \A x \in same : /\ Zombies(x)' = Zombies(x) /\ tokens'[x] = tokens[x]
                      /\ status'[x] = status[x] /\ call'[x] = call[x]
  BY <1>2, <1>6, <1>7, Zenon
<1>9. \A x \in Procs \ same : ~Active(x)'
  BY <1>2, <1>7, Zenon DEF Active
<1> QED BY <1>2, <1>4, <1>7, <1>8, <1>9, LedgerKept, Zenon

(* The exit of p gives every other process as many zombies as signals.     *)
LEMMA ExitZombies ==
    ASSUME Counting, TreeInv, TreeInv', NEW p \in Procs, Exit(p), NEW x \in Procs, x # p
    PROVE  Zombies(x)' = Zombies(x) + SelfSignals(p, x)
<1>1. /\ p # Root /\ status[p] = "live" /\ Root \in Procs /\ reaped' = reaped
      /\ parent' = [c \in Procs |-> IF c \in Range(children[p]) THEN Root ELSE parent[c]]
  BY TreeConstants, Zenon DEF Exit
<1>2. \A c \in Procs : c \in Range(children[p]) <=>
          parent[c] = p /\ status[c] # "none" /\ c \notin reaped
  BY Zenon DEF TreeInv, ListsAre
<1>3. p \notin reaped /\ parent[p] # p
  BY <1>1, Zenon DEF TreeInv, Parents, Dead, IsZombie
<1>4. \A c \in Procs : status'[c] = "zombie" <=> status[c] = "zombie" \/ c = p
  <2> SUFFICES ASSUME NEW c \in Procs PROVE status'[c] = "zombie" <=> status[c] = "zombie" \/ c = p
    BY Zenon
  <2>1. /\ Wakes(p, c) => c # p /\ status[c] = "waiting" /\ status'[c] = "woken"
        /\ ~Wakes(p, c) /\ c # p => status'[c] = status[c]
        /\ c = p => status'[c] = "zombie"
    BY ExitSignals
  <2> QED BY <2>1, Zenon
<1>5. PICK own : own = IF parent[p] = x THEN {p} ELSE {}
  BY Zenon
<1>6. PICK left : left = IF x = Root THEN Unwaited(p) ELSE {}
  BY Zenon
<1>7. Unwaited(x)' = (Unwaited(x) \cup left) \cup own
  <2>1. \A c \in Procs : c \in Unwaited(x)' <=>
            /\ (IF parent[c] = p /\ status[c] # "none" /\ c \notin reaped
                THEN Root ELSE parent[c]) = x
            /\ status[c] = "zombie" \/ c = p
            /\ c \notin reaped
    BY <1>1, <1>2, <1>4, Zenon DEF Unwaited, Corpses
  <2>2. \A c \in Procs : /\ c \in Unwaited(x) <=> parent[c] = x /\ status[c] = "zombie" /\ c \notin reaped
                         /\ c \in Unwaited(p) <=> parent[c] = p /\ status[c] = "zombie" /\ c \notin reaped
    BY Zenon DEF Unwaited, Corpses
  <2>3. Unwaited(x)' \subseteq Procs /\ Unwaited(x) \subseteq Procs /\ Unwaited(p) \subseteq Procs
    BY Zenon DEF Unwaited, Corpses
  <2>4. ASSUME NEW c \in Procs PROVE c \in Unwaited(x)' <=> c \in (Unwaited(x) \cup left) \cup own
    <3>1. CASE c = p
      BY <1>1, <1>3, <1>5, <1>6, <2>1, <2>2, <3>1, Zenon
    <3>2. CASE c # p
      BY <1>1, <1>3, <1>5, <1>6, <2>1, <2>2, <3>2, Zenon
    <3> QED BY <3>1, <3>2, Zenon
  <2>5. (Unwaited(x) \cup left) \cup own \subseteq Procs
    BY <1>5, <1>6, <2>3, Zenon
  <2> QED BY <2>3, <2>4, <2>5, Zenon
<1>8. PICK U, V : U = Unwaited(x) /\ V = Unwaited(p)
  BY Zenon
<1>9. /\ IsFiniteSet(U) /\ Cardinality(U) = Zombies(x) /\ Zombies(x) \in Nat
      /\ IsFiniteSet(V) /\ Cardinality(V) = Zombies(p) /\ Zombies(p) \in Nat
      /\ Cardinality(Unwaited(x)') = Zombies(x)'
  BY <1>8, UnwaitedCount, Zenon
<1>10. U \cap V = {} /\ p \notin U /\ p \notin V
  BY <1>1, <1>8, Zenon DEF Unwaited, Corpses
<1>11. PICK W : W = U \cup left
  BY Zenon
<1>12. /\ IsFiniteSet(W) /\ p \notin W
       /\ Cardinality(W) = Zombies(x) + (IF x = Root THEN Zombies(p) ELSE 0)
  <2>1. CASE x = Root
    <3>1. W = U \cup V
      BY <1>6, <1>8, <1>11, <2>1, Zenon
    <3>2. IsFiniteSet(U \cup V) /\ Cardinality(U \cup V) = Cardinality(U) + Cardinality(V) - Cardinality(U \cap V)
      BY <1>9, Zenon DEF Counting, UnionCount
    <3>3. Cardinality(U \cap V) = 0
      BY <1>10, Zenon DEF Counting, EmptyCount
    <3> QED BY <1>9, <1>10, <2>1, <3>1, <3>2, <3>3
  <2>2. CASE x # Root
    BY <1>6, <1>9, <1>10, <1>11, <2>2
  <2> QED BY <2>1, <2>2, Zenon
<1>13. Cardinality(W \cup own) = Cardinality(W) + (IF x = parent[p] THEN 1 ELSE 0)
  <2>1. CASE x = parent[p]
    <3>1. W \cup own = W \cup {p}
      BY <1>5, <2>1, Zenon
    <3>2. Cardinality(W \cup {p}) = Cardinality(W) + 1
      BY <1>12, Zenon DEF Counting, AddCount
    <3> QED BY <2>1, <3>1, <3>2, Zenon
  <2>2. CASE x # parent[p]
    <3>1. W \cup own = W
      BY <1>5, <2>2, Zenon
    <3>2. Cardinality(W) \in Nat
      BY <1>12, Zenon DEF Counting, EmptyCount
    <3> QED BY <2>2, <3>1, <3>2
  <2> QED BY <2>1, <2>2, Zenon
<1>14. Zombies(x)' = Cardinality(W \cup own)
  BY <1>7, <1>8, <1>9, <1>11, Zenon
<1> QED BY <1>9, <1>12, <1>13, <1>14 DEF SelfSignals

(* Process::exit keeps the ledger.                                         *)
LEMMA TokensExit ==
    ASSUME Counting, TokenInv, TreeInv', NEW p \in Procs, Exit(p)
    PROVE  TokenInv'
<1>1. TreeInv /\ Covered /\ Balanced /\ UNCHANGED <<call, ret, odd>> /\ status[p] = "live"
  BY Zenon DEF TokenInv, Exit
<1>2. ASSUME NEW x \in Procs, Active(x)'
      PROVE  /\ x # p /\ Active(x)
             /\ Zombies(x)' = Zombies(x) + SelfSignals(p, x)
             /\ Credit(x)' = Credit(x) + SelfSignals(p, x)
             /\ SelfSignals(p, x) \in Nat /\ Credit(x) \in Nat /\ Zombies(x) \in Nat
             /\ status'[x] \in {"waiting", "woken"} => status[x] \in {"waiting", "woken"}
             /\ status'[x] = "waiting" => status[x] = "waiting" /\ tokens'[x] = tokens[x]
  <2>1. /\ SelfSignals(p, x) \in Nat /\ tokens[x] \in Nat
        /\ Wakes(p, x) => /\ SelfSignals(p, x) > 0 /\ x # p /\ status[x] = "waiting"
                          /\ status'[x] = "woken"
                          /\ tokens'[x] = tokens[x] + SelfSignals(p, x) - 1
        /\ ~Wakes(p, x) => tokens'[x] = tokens[x] + SelfSignals(p, x)
        /\ ~Wakes(p, x) /\ x # p => status'[x] = status[x]
        /\ x = p => status'[x] = "zombie"
    BY <1>1, ExitSignals, Zenon
  <2>2. x # p
    BY <1>2, <2>1, Zenon DEF Active
  <2>3. Zombies(x)' = Zombies(x) + SelfSignals(p, x) /\ Credit(x) \in Nat /\ Zombies(x) \in Nat
    BY <1>1, <2>2, ExitZombies, CreditCounts, Zenon
  <2>4. CASE Wakes(p, x)
    BY <2>1, <2>2, <2>3, <2>4 DEF Active, Credit
  <2>5. CASE ~Wakes(p, x)
    <3>1. status'[x] = "waiting" => SelfSignals(p, x) = 0
      BY <2>1, <2>2, <2>5 DEF Wakes
    <3>2. status'[x] = status[x] /\ tokens'[x] = tokens[x] + SelfSignals(p, x)
      BY <2>1, <2>2, <2>5, Zenon
    <3>3. Credit(x)' = Credit(x) + SelfSignals(p, x)
      BY <2>1, <3>2 DEF Credit
    <3>4. Active(x)
      BY <1>2, <3>2, Zenon DEF Active
    <3> QED BY <2>1, <2>2, <2>3, <3>1, <3>2, <3>3, <3>4
  <2> QED BY <2>4, <2>5, Zenon
<1>3. Covered'
  <2> SUFFICES ASSUME "pid" \notin odd', NEW x \in Procs
               PROVE  /\ Active(x)' => Zombies(x)' <= Credit(x)'
                      /\ status'[x] = "waiting" => tokens'[x] = 0 /\ ~call'[x].nohang
                      /\ status'[x] \in {"waiting", "woken"} => call'[x].pid = AnyPid
    BY Zenon DEF Covered
  <2>1. status'[x] \in {"waiting", "woken"} => Active(x)'
    BY Zenon DEF Active
  <2>2. /\ Active(x) => Zombies(x) <= Credit(x)
        /\ status[x] = "waiting" => tokens[x] = 0 /\ ~call[x].nohang
        /\ status[x] \in {"waiting", "woken"} => call[x].pid = AnyPid
    BY <1>1, Zenon DEF Covered
  <2>3. CASE Active(x)'
    <3>1. Zombies(x)' <= Credit(x)'
      BY <1>2, <2>2, <2>3
    <3>2. /\ status'[x] = "waiting" => tokens'[x] = 0 /\ ~call'[x].nohang
          /\ status'[x] \in {"waiting", "woken"} => call'[x].pid = AnyPid
      BY <1>1, <1>2, <2>2, <2>3, Zenon
    <3> QED BY <3>1, <3>2, Zenon
  <2> QED BY <2>1, <2>3, Zenon
<1>4. Balanced'
  BY <1>1, <1>2, Zenon DEF Balanced
<1> QED BY <1>3, <1>4, Zenon DEF TokenInv

(* wait(-1) has something to take exactly when there is a zombie.          *)
LEMMA AnyReapable ==
    ASSUME Counting, TreeInv, NEW p \in Procs
    PROVE  Zombies(p) \in Nat /\ (Reapable(p, AnyPid) = {} <=> Zombies(p) = 0)
<1>1. PICK q \in Seq(Procs) : q = children[p]
  BY Zenon DEF TreeInv, TreeTyped
<1>2. PICK I : I = {i \in DOMAIN q : status[q[i]] = "zombie"}
  BY Zenon
<1>3. IsFiniteSet(I) /\ ZombiesIn(q, status) \in Nat
  BY <1>2, ZombiesCount, Zenon
<1>4. Zombies(p) = Cardinality(I) /\ Zombies(p) = ZombiesIn(q, status)
  BY <1>1, <1>2, Zenon DEF Zombies, ZombiesIn, IsZombie
<1>5. Reapable(p, AnyPid) = I
  BY <1>1, <1>2, Zenon DEF Reapable, IsZombie
<1>6. Cardinality(I) = 0 <=> I = {}
  BY <1>3, Zenon DEF Counting, EmptyCount
<1> QED BY <1>3, <1>4, <1>5, <1>6, Zenon

(* The part of wait(-1) behind m_selfSem takes one zombie, if there is     *)
(* one, and none from anybody else.                                        *)
LEMMA ReapZombies ==
    ASSUME Counting, TreeInv, TreeInv', NEW p \in Procs, Reap(p, AnyPid),
           \A x \in Procs : status'[x] = "zombie" <=> status[x] = "zombie"
    PROVE  /\ \A x \in Procs : x # p => Zombies(x)' = Zombies(x)
           /\ Zombies(p) = 0 => Zombies(p)' = 0
           /\ Zombies(p) # 0 => Zombies(p)' = Zombies(p) - 1 /\ ret' = "child"
           /\ Zombies(p) \in Nat
<1>1. parent' = parent /\ Zombies(p) \in Nat /\ (Reapable(p, AnyPid) = {} <=> Zombies(p) = 0)
  BY ReapFinds, AnyReapable, Zenon
<1>2. CASE Zombies(p) = 0
  <2>1. reaped' = reaped
    BY <1>1, <1>2, ReapFinds, Zenon
  <2>2. \A x \in Procs : Unwaited(x)' = Unwaited(x)
    BY <1>1, <2>1, Zenon DEF Unwaited, Corpses
  <2>3. \A x \in Procs : Zombies(x)' = Zombies(x)
    BY <2>2, SameUnwaited, Zenon
  <2> QED BY <1>1, <1>2, <2>3, Zenon
<1>3. CASE Zombies(p) # 0
  <2>1. /\ ret' = "child"
        /\ \E i \in DOMAIN children[p] :
             /\ children[p][i] \in Procs /\ status[children[p][i]] = "zombie"
             /\ reaped' = reaped \cup {children[p][i]}
    BY <1>1, <1>3, ReapFinds, Zenon
  <2>2. PICK z \in Procs : /\ status[z] = "zombie" /\ reaped' = reaped \cup {z}
                           /\ z \in Range(children[p])
    BY <2>1, Zenon DEF Range
  <2>3. z \in Unwaited(p)
    BY <2>2, Zenon DEF TreeInv, ListsAre, Unwaited, Corpses
  <2>4. \A x \in Procs : x # p => Unwaited(x)' = Unwaited(x)
    BY <1>1, <2>2, <2>3, Zenon DEF Unwaited, Corpses
  <2>5. Unwaited(p)' = Unwaited(p) \ {z}
    BY <1>1, <2>2, <2>3, Zenon DEF Unwaited, Corpses
  <2>6. \A x \in Procs : x # p => Zombies(x)' = Zombies(x)
    BY <2>4, SameUnwaited, Zenon
  <2>7. /\ IsFiniteSet(Unwaited(p)) /\ Cardinality(Unwaited(p)) = Zombies(p)
        /\ Cardinality(Unwaited(p)') = Zombies(p)'
    BY UnwaitedCount, Zenon
  <2>8. Cardinality(Unwaited(p) \ {z}) = Cardinality(Unwaited(p)) - 1
    BY <2>3, <2>7, Zenon DEF Counting, RemoveCount
  <2> QED BY <1>1, <1>3, <2>1, <2>5, <2>6, <2>7, <2>8, Zenon
<1> QED BY <1>2, <1>3, Zenon

(* A step that spends one of p's tokens on a reaping, when it had one.     *)
LEMMA TokensSpent ==
    ASSUME Counting, TokenInv, TreeInv', NEW p \in Procs, Active(p), Reap(p, AnyPid), odd' = odd,
           Credit(p) > 0, Credit(p)' = Credit(p) - 1, status'[p] = "live",
           \A x \in Procs : x # p => /\ status'[x] = status[x] /\ tokens'[x] = tokens[x]
                                     /\ call'[x] = call[x]
    PROVE  TokenInv'
<1>1. TreeInv /\ Covered /\ Balanced
  BY Zenon DEF TokenInv
<1>2. \A x \in Procs : status'[x] = "zombie" <=> status[x] = "zombie"
  BY Zenon DEF Active
<1>3. /\ \A x \in Procs : x # p => Zombies(x)' = Zombies(x)
      /\ Zombies(p) = 0 => Zombies(p)' = 0
      /\ Zombies(p) # 0 => Zombies(p)' = Zombies(p) - 1 /\ ret' = "child"
      /\ Zombies(p) \in Nat
  BY <1>1, <1>2, ReapZombies, Zenon
<1>4. Credit(p) \in Nat
  BY <1>1, CreditCounts, Zenon
<1>5. \A x \in Procs : x # p => Credit(x)' = Credit(x) /\ (Active(x)' <=> Active(x))
  BY Zenon DEF Credit, Active
<1>6. Covered'
  <2> SUFFICES ASSUME "pid" \notin odd', NEW x \in Procs
               PROVE  /\ Active(x)' => Zombies(x)' <= Credit(x)'
                      /\ status'[x] = "waiting" => tokens'[x] = 0 /\ ~call'[x].nohang
                      /\ status'[x] \in {"waiting", "woken"} => call'[x].pid = AnyPid
    BY Zenon DEF Covered
  <2>1. CASE x = p
    <3>1. Zombies(p) <= Credit(p)
      BY <1>1, Zenon DEF Covered
    <3>2. Zombies(p)' <= Credit(p)'
      BY <1>3, <1>4, <3>1
    <3> QED BY <2>1, <3>2, Zenon
  <2>2. CASE x # p
    <3>1. /\ Active(x) => Zombies(x) <= Credit(x)
          /\ status[x] = "waiting" => tokens[x] = 0 /\ ~call[x].nohang
          /\ status[x] \in {"waiting", "woken"} => call[x].pid = AnyPid
      BY <1>1, Zenon DEF Covered
    <3>2. Active(x)' => Zombies(x)' <= Credit(x)'
      BY <1>3, <1>5, <2>2, <3>1, Zenon
    <3> QED BY <2>2, <3>1, <3>2, Zenon
  <2> QED BY <2>1, <2>2, Zenon
<1>7. Balanced'
  <2> SUFFICES ASSUME odd = {}
               PROVE  ret' # "error" /\ \A x \in Procs : Active(x)' => Credit(x)' = Zombies(x)'
    BY Zenon DEF Balanced
  <2>1. \A x \in Procs : Active(x) => Credit(x) = Zombies(x)
    BY <1>1, Zenon DEF Balanced
  <2>2. Credit(p) = Zombies(p)
    BY <2>1, Zenon
  <2>3. ret' = "child" /\ Credit(p)' = Zombies(p)'
    BY <1>3, <1>4, <2>2
  <2> QED BY <1>3, <1>5, <2>1, <2>3, Zenon
<1> QED BY <1>6, <1>7, Zenon DEF TokenInv

(* Once a wait() named a pid the ledger claims nothing.                    *)
LEMMA TokensVoid ==
    ASSUME TreeInv', "pid" \in odd'
    PROVE  TokenInv'
<1>1. odd' # {}
  BY Zenon
<1> QED BY <1>1, Zenon DEF TokenInv, Covered, Balanced

(* A step that only returns from wait().                                   *)
LEMMA TokensReturn ==
    ASSUME Counting, TokenInv, TreeInv', UNCHANGED <<status, children, tokens, call, odd>>,
           ret' = ret \/ ret' \in {"nochild", "again"}
    PROVE  TokenInv'
<1>1. \A x \in Procs : Zombies(x)' = Zombies(x)
  BY Zenon DEF Zombies, IsZombie
<1>2. odd' = {} => ret' # "error"
  BY Zenon DEF TokenInv, Balanced
<1>3. PICK same : same = Procs
  BY Zenon
<1>4. \A x \in same : /\ Zombies(x)' = Zombies(x) /\ tokens'[x] = tokens[x]
                      /\ status'[x] = status[x] /\ call'[x] = call[x]
  BY <1>1, <1>3, Zenon
<1>5. \A x \in Procs \ same : Active(x)' => status'[x] = "live" /\ Zombies(x)' = tokens'[x]
  BY <1>3, Zenon
<1> QED BY <1>2, <1>3, <1>4, <1>5, LedgerKept, Zenon

(* wait() keeps the ledger.                                                *)
LEMMA TokensWait ==
    ASSUME Counting, TokenInv, TreeInv', NEW p \in Procs, NEW pid \in Targets, NEW nohang \in BOOLEAN,
           WaitCall(p, pid, nohang)
    PROVE  TokenInv'
<1>1. TreeInv /\ Covered /\ Balanced
  BY Zenon DEF TokenInv
<1>2. status \in [Procs -> States] /\ tokens \in [Procs -> Nat]
      /\ call \in [Procs -> [pid : Procs \cup {AnyPid}, nohang : BOOLEAN]]
  BY <1>1, Zenon DEF TreeInv, TreeTyped
<1>3. CASE WaitNoChild(p, pid) \/ WaitNoHang(p, pid)
  BY <1>3, TokensReturn, Zenon DEF WaitNoChild, WaitNoHang
<1>4. CASE WaitTakes(p, pid, nohang)
  <2>1. /\ status[p] = "live" /\ tokens[p] > 0 /\ tokens' = [tokens EXCEPT ![p] = tokens[p] - 1]
        /\ Reap(p, pid) /\ UNCHANGED <<status, call>> /\ odd' = Named(pid)
    BY <1>4, Zenon DEF WaitTakes, HasChild
  <2>2. CASE pid # AnyPid
    BY <2>1, <2>2, TokensVoid, Zenon DEF Named
  <2>3. CASE pid = AnyPid
    <3>1. odd' = odd /\ Reap(p, AnyPid) /\ Active(p) /\ status'[p] = "live"
      BY <2>1, <2>3, Zenon DEF Named, Active
    <3>2. Credit(p) > 0 /\ Credit(p)' = Credit(p) - 1
      BY <1>2, <2>1 DEF Credit
    <3>3. \A x \in Procs : x # p => /\ status'[x] = status[x] /\ tokens'[x] = tokens[x]
                                    /\ call'[x] = call[x]
      BY <1>2, <2>1, Zenon
    <3> QED BY <3>1, <3>2, <3>3, TokensSpent, Zenon
  <2> QED BY <2>2, <2>3, Zenon
<1>5. CASE WaitBlocks(p, pid, nohang)
  <2>1. /\ status[p] = "live" /\ tokens[p] = 0 /\ (nohang => Reapable(p, pid) # {})
        /\ status' = [status EXCEPT ![p] = "waiting"]
        /\ call' = [call EXCEPT ![p] = [pid |-> pid, nohang |-> nohang]]
        /\ UNCHANGED <<parent, children, tokens, reaped, garbage, ret>> /\ odd' = Named(pid)
    BY <1>5, Zenon DEF WaitBlocks, HasChild
  <2>2. CASE pid # AnyPid
    BY <2>1, <2>2, TokensVoid, Zenon DEF Named
  <2>3. CASE pid = AnyPid
    <3>1. odd' = odd
      BY <2>1, <2>3, Zenon DEF Named
    <3>2. \A x \in Procs : x # p => status'[x] = status[x] /\ call'[x] = call[x]
      BY <1>2, <2>1, Zenon
    <3>3. status'[p] = "waiting" /\ call'[p].pid = AnyPid /\ call'[p].nohang = nohang
      BY <1>2, <2>1, <2>3, Zenon
    <3>4. \A x \in Procs : Unwaited(x)' = Unwaited(x)
      <4>1. \A x \in Procs : status'[x] = "zombie" <=> status[x] = "zombie"
        BY <2>1, <3>2, <3>3, Zenon
      <4> QED BY <2>1, <4>1, Zenon DEF Unwaited, Corpses
    <3>5. \A x \in Procs : Zombies(x)' = Zombies(x)
      BY <1>1, <3>4, SameUnwaited, Zenon
    <3>6. \A x \in Procs : Credit(x)' = Credit(x) /\ (Active(x)' <=> Active(x))
      <4>1. \A x \in Procs : status'[x] = "woken" <=> status[x] = "woken"
        BY <2>1, <3>2, <3>3, Zenon
      <4>2. \A x \in Procs : Credit(x)' = Credit(x)
        BY <2>1, <4>1, Zenon DEF Credit
      <4>3. \A x \in Procs : Active(x)' <=> Active(x)
        BY <2>1, <3>2, <3>3, Zenon DEF Active
      <4> QED BY <4>2, <4>3, Zenon
    <3>7. Covered'
      <4> SUFFICES ASSUME "pid" \notin odd', NEW x \in Procs
                   PROVE  /\ Active(x)' => Zombies(x)' <= Credit(x)'
                          /\ status'[x] = "waiting" => tokens'[x] = 0 /\ ~call'[x].nohang
                          /\ status'[x] \in {"waiting", "woken"} => call'[x].pid = AnyPid
        BY Zenon DEF Covered
      <4>1. /\ Active(x) => Zombies(x) <= Credit(x)
            /\ status[x] = "waiting" => tokens[x] = 0 /\ ~call[x].nohang
            /\ status[x] \in {"waiting", "woken"} => call[x].pid = AnyPid
        BY <1>1, <3>1, Zenon DEF Covered
      <4>2. Active(x)' => Zombies(x)' <= Credit(x)'
        BY <3>5, <3>6, <4>1, Zenon
      <4>3. CASE x = p
        <5>1. Credit(p) = 0 /\ Active(p)
          BY <1>2, <2>1 DEF Credit, Active
        <5>2. Zombies(p) = 0 /\ Reapable(p, AnyPid) = {}
          BY <1>1, <4>1, <4>3, <5>1, AnyReapable
        <5>3. ~nohang
          BY <2>1, <2>3, <5>2, Zenon
        <5> QED BY <2>1, <3>3, <4>2, <4>3, <5>3, Zenon
      <4>4. CASE x # p
        BY <2>1, <3>2, <4>1, <4>2, <4>4, Zenon
      <4> QED BY <4>3, <4>4, Zenon
    <3>8. Balanced'
      BY <1>1, <2>1, <3>1, <3>5, <3>6, Zenon DEF Balanced
    <3> QED BY <3>7, <3>8, Zenon DEF TokenInv
  <2> QED BY <2>2, <2>3, Zenon
<1> QED BY <1>3, <1>4, <1>5, Zenon DEF WaitCall

(* A woken waiter carries the token it spends.                             *)
LEMMA TokensResume ==
    ASSUME Counting, TokenInv, TreeInv', NEW p \in Procs, WaitResumes(p)
    PROVE  TokenInv'
<1>1. TreeInv /\ Covered
  BY Zenon DEF TokenInv
<1>2. status \in [Procs -> States] /\ tokens \in [Procs -> Nat]
      /\ call \in [Procs -> [pid : Procs \cup {AnyPid}, nohang : BOOLEAN]]
  BY <1>1, Zenon DEF TreeInv, TreeTyped
<1>3. /\ status[p] = "woken" /\ status' = [status EXCEPT ![p] = "live"]
      /\ call' = [call EXCEPT ![p] = NoCall] /\ Reap(p, call[p].pid)
      /\ tokens' = tokens /\ odd' = odd
  BY Zenon DEF WaitResumes
<1>4. CASE "pid" \in odd
  BY <1>3, <1>4, TokensVoid, Zenon
<1>5. CASE "pid" \notin odd
  <2>1. call[p].pid = AnyPid
    BY <1>1, <1>3, <1>5, Zenon DEF Covered
  <2>2. Reap(p, AnyPid) /\ Active(p) /\ status'[p] = "live"
    BY <1>2, <1>3, <2>1, Zenon DEF Active
  <2>3. Credit(p) > 0 /\ Credit(p)' = Credit(p) - 1
    BY <1>2, <1>3, <2>2 DEF Credit
  <2>4. \A x \in Procs : x # p => /\ status'[x] = status[x] /\ tokens'[x] = tokens[x]
                                  /\ call'[x] = call[x]
    BY <1>2, <1>3, Zenon
  <2> QED BY <1>3, <2>2, <2>3, <2>4, TokensSpent, Zenon
<1> QED BY <1>4, <1>5, Zenon

(* A killed waiter is given a token that nobody signalled.                 *)
LEMMA TokensKill ==
    ASSUME Counting, TokenInv, TreeInv', NEW p \in Procs, Kill(p)
    PROVE  TokenInv'
<1>1. TreeInv /\ Covered
  BY Zenon DEF TokenInv
<1>2. status \in [Procs -> States]
  BY <1>1, Zenon DEF TreeInv, TreeTyped
<1>3. /\ status[p] = "waiting" /\ status' = [status EXCEPT ![p] = "woken"]
      /\ odd' = odd \cup {"signal"} /\ UNCHANGED <<parent, children, tokens, reaped, call>>
  BY Zenon DEF Kill
<1>4. \A x \in Procs : /\ x # p => status'[x] = status[x]
                       /\ x = p => status'[x] = "woken"
  BY <1>2, <1>3, Zenon
<1>5. \A x \in Procs : Unwaited(x)' = Unwaited(x)
  <2>1. \A x \in Procs : status'[x] = "zombie" <=> status[x] = "zombie"
    BY <1>3, <1>4, Zenon
  <2> QED BY <1>3, <2>1, Zenon DEF Unwaited, Corpses
<1>6. Covered'
  <2> SUFFICES ASSUME "pid" \notin odd', NEW x \in Procs
               PROVE  /\ Active(x)' => Zombies(x)' <= Credit(x)'
                      /\ status'[x] = "waiting" => tokens'[x] = 0 /\ ~call'[x].nohang
                      /\ status'[x] \in {"waiting", "woken"} => call'[x].pid = AnyPid
    BY Zenon DEF Covered
  <2>1. /\ Active(x) => Zombies(x) <= Credit(x)
        /\ status[x] = "waiting" => tokens[x] = 0 /\ ~call[x].nohang
        /\ status[x] \in {"waiting", "woken"} => call[x].pid = AnyPid
    BY <1>1, <1>3, Zenon DEF Covered
  <2>2. Zombies(x)' = Zombies(x) /\ Zombies(x) \in Nat /\ tokens[x] \in Nat
    BY <1>1, <1>5, SameUnwaited, CreditCounts, Zenon
  <2>3. CASE x = p
    <3>1. Active(x) /\ Credit(x) = tokens[x] /\ Credit(x)' = tokens[x] + 1
      BY <1>3, <1>4, <2>2, <2>3 DEF Active, Credit
    <3> QED BY <1>3, <1>4, <2>1, <2>2, <2>3, <3>1
  <2>4. CASE x # p
    BY <1>3, <1>4, <2>1, <2>2, <2>4, Zenon DEF Active, Credit
  <2> QED BY <2>3, <2>4, Zenon
<1>7. Balanced'
  <2>1. odd' # {}
    BY <1>3, Zenon
  <2> QED BY <2>1, Zenon DEF Balanced
<1> QED BY <1>6, <1>7, Zenon DEF TokenInv

(* The ledger of a new machine.                                            *)
LEMMA TokensStart ==
    ASSUME Counting, Init
    PROVE  TokenInv
<1>1. TreeInv
  BY TreeStart, Zenon
<1>2. /\ \A p \in Procs : children[p] = <<>> /\ tokens[p] = 0 /\ status[p] \in {"live", "none"}
      /\ ret = "none"
  BY Zenon DEF Init
<1>3. \A p \in Procs : Credit(p) = 0
  BY <1>2 DEF Credit
<1>4. \A p \in Procs : Zombies(p) = 0
  <2>1. \A p \in Procs : Reapable(p, AnyPid) = {}
    BY <1>2 DEF Reapable
  <2> QED BY <1>1, <2>1, AnyReapable, Zenon
<1> QED BY <1>1, <1>2, <1>3, <1>4 DEF TokenInv, Covered, Balanced

(* Every step keeps the ledger.                                            *)
LEMMA TokensStep ==
    ASSUME Counting, TokenInv, [Next]_vars
    PROVE  TokenInv'
<1>1. TreeInv'
  BY TreeStep, Zenon DEF TokenInv
<1>2. CASE UNCHANGED vars
  BY <1>1, <1>2, TokensReturn, Zenon DEF vars
<1>3. CASE \E p, c \in Procs : Fork(p, c)
  BY <1>1, <1>3, TokensFork, Zenon
<1>4. CASE \E p \in Procs : Exit(p)
  BY <1>1, <1>4, TokensExit, Zenon
<1>5. CASE \E p \in Procs, pid \in Targets, nohang \in BOOLEAN : WaitCall(p, pid, nohang)
  BY <1>1, <1>5, TokensWait, Zenon
<1>6. CASE \E p \in Procs : WaitResumes(p)
  BY <1>1, <1>6, TokensResume, Zenon
<1>7. CASE \E p \in Procs : Kill(p)
  BY <1>1, <1>7, TokensKill, Zenon
<1>8. CASE GarbageClear
  BY <1>1, <1>8, TokensClear, Zenon
<1> QED BY <1>2, <1>3, <1>4, <1>5, <1>6, <1>7, <1>8, Zenon DEF Next

-----------------------------------------------------------------------------
INSTANCE FiniteSetTheorems

(* The least of some numbers, as the library has it.                       *)
LEMMA LeastHolds == LeastNumber
<1> SUFFICES ASSUME NEW S \in SUBSET Nat, S # {}
             PROVE  \E x \in S : \A y \in S : x <= y
  BY Zenon DEF LeastNumber
<1>1. PICK x \in S : \A y \in S : ~ (<<y, x>> \in OpToRel(<, Nat))
  BY NatLessThanWellFounded, WFMin, Zenon
<1>2. ASSUME NEW y \in S PROVE x <= y
  <2>1. <<y, x>> \in Nat \X Nat
    BY Zenon
  <2>2. <<y, x>>[1] = y /\ <<y, x>>[2] = x
    BY Zenon
  <2>3. ~(y < x)
    BY <1>1, <2>1, <2>2, Zenon DEF OpToRel
  <2>4. x \in Nat /\ y \in Nat
    BY Zenon
  <2> QED BY ONLY <2>3, <2>4
<1> QED BY <1>2, Zenon

(* The facts about finite sets the steps assume, from the library.         *)
LEMMA CountingHolds == Counting
<1>1. EmptyCount /\ SingleCount /\ IntervalCount
  BY FS_EmptySet, FS_Singleton, FS_CardinalityType, FS_Interval, Zenon
     DEF EmptyCount, SingleCount, IntervalCount
<1>2. AddCount /\ RemoveCount
  BY FS_AddElement, FS_RemoveElement, Zenon DEF AddCount, RemoveCount
<1>3. PartCount /\ UnionCount
  BY FS_Subset, FS_Union, Zenon DEF PartCount, UnionCount
<1>4. LessCount /\ ProductCount
  BY FS_Difference, FS_Product, Zenon DEF LessCount, ProductCount
<1>5. SameCount
  BY FS_Bijection, Zenon DEF SameCount
<1> QED BY <1>1, <1>2, <1>3, <1>4, <1>5, LeastHolds, Zenon DEF Counting

(* However forks, exits, waits and deletions interleave, the lists and the *)
(* parent pointers stay in step.                                           *)
THEOREM TreeInductive == Spec => []TreeInv
<1>1. Init => TreeInv
  BY TreeStart, CountingHolds, Zenon
<1>2. TreeInv /\ [Next]_vars => TreeInv'
  BY TreeStep, CountingHolds, Zenon
<1> QED BY <1>1, <1>2, PTL DEF Spec

(* Every process that nobody has waited for is in the list of its          *)
(* m_parent, once, and in no other; the parent of a process that has not   *)
(* exited has not exited; and the collector deletes nobody that a list, a  *)
(* parent pointer or the garbage list leads to.                            *)
THEOREM TreeStaysExact == Spec => []TreeExact
<1>1. TreeInv => TreeExact
  <2> SUFFICES ASSUME TreeInv PROVE TreeExact
    BY Zenon
  <2>1. /\ \A p \in Procs : Once(Procs, children[p])
        /\ \A p, c \in Procs : c \in Range(children[p]) <=>
              parent[c] = p /\ status[c] # "none" /\ c \notin reaped
    BY Zenon DEF TreeInv, ListsAre
  <2>2. \A x \in Procs : Active(x) /\ x # Root => parent[x] \in Procs /\ Active(parent[x])
    BY Zenon DEF TreeInv, Parents
  <2>3. \A x \in reaped \cup garbage : IsZombie(x)
    BY Zenon DEF TreeInv, Dead
  <2>4. \A p \in Procs : NoDuplicates(children[p])
    BY <2>1, Zenon DEF Once
  <2>5. \A p, c \in Procs : c \in Listed(p) <=>
            parent[c] = p /\ status[c] # "none" /\ c \notin reaped
    BY <2>1, Zenon DEF Listed
  <2>6. \A c \in Procs :
          /\ status[c] \in {"live", "waiting", "woken"} /\ c # Root
               => status[parent[c]] \in {"live", "waiting", "woken"}
          /\ c \in reaped => IsZombie(c)
    BY <2>2, <2>3, Zenon DEF Active
  <2>7. ASSUME NEW p \in Procs, status[p] = "none"
        PROVE  /\ p \notin garbage
               /\ \A q \in Procs : /\ p \notin Listed(q)
                                   /\ status[q] \notin {"none", "zombie"} => parent[q] # p
    <3>1. p \notin garbage
      BY <2>3, <2>7, Zenon DEF IsZombie
    <3>2. \A q \in Procs : p \notin Listed(q)
      BY <2>5, <2>7, Zenon
    <3>3. ASSUME NEW q \in Procs, status[q] \notin {"none", "zombie"} PROVE parent[q] # p
      <4>1. Active(q)
        BY <3>3, Zenon DEF TreeInv, TreeTyped, States, Active
      <4>2. CASE q = Root
        BY <4>2, TreeConstants, Zenon DEF TreeInv, Parents
      <4>3. CASE q # Root
        BY <2>2, <2>7, <4>1, <4>3, Zenon DEF Active
      <4> QED BY <4>2, <4>3, Zenon
    <3> QED BY <3>1, <3>2, <3>3, Zenon
  <2> QED BY <2>4, <2>5, <2>6, <2>7, Zenon DEF TreeExact
<1> QED BY <1>1, TreeInductive, PTL

(* The ledger holds in every state, for any number of processes.           *)
THEOREM TokenInductive == Spec => []TokenInv
<1>1. Init => TokenInv
  BY TokensStart, CountingHolds, Zenon
<1>2. TokenInv /\ [Next]_vars => TokenInv'
  BY TokensStep, CountingHolds, Zenon
<1> QED BY <1>1, <1>2, PTL DEF Spec

(* While every wait() is for any child and no signal wakes a waiter, each  *)
(* process has as many tokens as zombies in its list, the one a woken      *)
(* waiter carries included, and no wait() returns with nothing to reap.    *)
THEOREM TokensStayMatched == Spec => []TokensMatchZombies
<1>1. TokenInv => TokensMatchZombies
  BY Zenon DEF TokenInv, Balanced, TokensMatchZombies, Active, Credit
<1> QED BY <1>1, TokenInductive, PTL

(* While no wait() names a pid, nobody sleeps in wait() over a zombie it   *)
(* could take, and nobody at all with WNOHANG, whoever is killed.          *)
THEOREM NobodyStuckInWait == Spec => []NoStuckWaiter
<1>1. TokenInv => NoStuckWaiter
  <2> SUFFICES ASSUME TokenInv, "pid" \notin odd, NEW p \in Procs, status[p] = "waiting"
               PROVE  Reapable(p, call[p].pid) = {} /\ ~call[p].nohang
    BY Zenon DEF NoStuckWaiter
  <2>1. TreeInv /\ Covered
    BY Zenon DEF TokenInv
  <2>2. /\ Zombies(p) <= Credit(p) /\ tokens[p] = 0 /\ ~call[p].nohang /\ call[p].pid = AnyPid
    BY <2>1, Zenon DEF Covered, Active
  <2>3. Credit(p) = 0
    BY <2>2 DEF Credit
  <2>4. Zombies(p) \in Nat /\ (Reapable(p, AnyPid) = {} <=> Zombies(p) = 0)
    BY <2>1, AnyReapable, CountingHolds, Zenon
  <2> QED BY <2>2, <2>3, <2>4
<1> QED BY <1>1, TokenInductive, PTL

=============================================================================
