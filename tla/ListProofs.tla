----------------------------- MODULE ListProofs ----------------------------
(***************************************************************************)
(* The pointers of the intrusive lists represent their members, for any    *)
(* set of PCBs, and the lists implement PcbFifo; the relative times of the *)
(* Scheduler's sleep list wake everybody on time.                          *)
(***************************************************************************)
EXTENDS SleepQueue, QueueTheorems, TLAPS

ListInv == TypeOK /\ Represents /\ WalkInv

-----------------------------------------------------------------------------
(* Facts about a represented list that several actions need.               *)
LEMMA Represented ==
    ASSUME TypeOK, Represents
    PROVE  /\ Len(list) \in Nat /\ DOMAIN list = 1..Len(list)
           /\ \A i \in 1..Len(list) : list[i] \in Pcbs /\ list[i] \in Range(list)
           /\ \A p \in Range(list) : \E i \in 1..Len(list) : list[i] = p
           /\ Range(list) \subseteq Pcbs
           /\ head = Null <=> list = <<>>
           /\ tail = Null <=> list = <<>>
           /\ list # <<>> => Len(list) \in 1..Len(list) /\ 1 \in 1..Len(list)
<1>1. list \in Seq(Pcbs)
  BY Zenon DEF TypeOK
<1>2. Len(list) \in Nat /\ DOMAIN list = 1..Len(list) /\ \A i \in 1..Len(list) : list[i] \in Pcbs
  BY <1>1, SeqLength, SeqMember, Zenon
<1>3. list # <<>> => Len(list) # 0
  BY <1>1, SeqEmpty, Zenon
<1>4. list # <<>> => Len(list) \in 1..Len(list) /\ 1 \in 1..Len(list)
  BY <1>2, <1>3
<1>5. (head = Null <=> list = <<>>) /\ (tail = Null <=> list = <<>>)
  BY <1>2, <1>4, ListConstants, Zenon DEF Represents
<1> QED BY <1>2, <1>4, <1>5 DEF Range

\* put() keeps the pointers spelling the queue: the new PCB goes behind tail.
LEMMA PutRepresents ==
    ASSUME ListInv, NEW p \in Pcbs, Put(p)
    PROVE  ListInv'
<1> DEFINE n == Len(list)
<1>1. TypeOK /\ Represents /\ cur = Null
  BY Zenon DEF ListInv, Put, WalkInv, Idle
<1>2. /\ list' \in Seq(Pcbs) /\ NoDuplicates(list') /\ Range(list') = Range(list) \cup {p}
  BY <1>1, AppendExact DEF Put, TypeOK, Represents
<1>3. /\ Len(list') = n + 1 /\ list'[n + 1] = p
      /\ \A i \in 1..n : list'[i] = list[i]
  BY <1>1, SeqAppend DEF Put, TypeOK
<1>4. list' # <<>>
  <2>1. Len(list') # 0
    BY <1>1, <1>3, Represented
  <2> QED BY <1>2, <2>1, SeqEmpty, Zenon
<1>5. CASE list = <<>>
  <2>1. /\ n = 0 /\ tail = Null /\ head' = p /\ tail' = p /\ next' = [next EXCEPT ![p] = Null]
        /\ target' = target /\ cur' = cur /\ got' = got /\ target = Null
    BY <1>1, <1>5, Represented, Zenon DEF Put, walkVars, Idle
  <2>2. \A x \in Pcbs : next'[x] = Null
    BY <1>1, <1>5, <2>1 DEF Represents, TypeOK, Range
  <2>3. TypeOK'
    BY <1>1, <1>2, <2>1, Zenon DEF TypeOK, Link
  <2>4. Represents'
    BY <1>2, <1>3, <1>4, <2>1, <2>2 DEF Represents
  <2> QED BY <1>1, <2>1, <2>3, <2>4, Zenon DEF ListInv, WalkInv, Idle
<1>6. CASE list # <<>>
  <2>1. /\ tail = list[n] /\ tail \in Pcbs /\ tail # Null /\ n \in Nat \ {0} /\ tail # p
    BY <1>1, <1>6, Represented, ListConstants DEF Represents, Put
  <2>2. /\ head' = head /\ tail' = p /\ next' = [next EXCEPT ![p] = Null, ![tail] = p]
        /\ target' = target /\ cur' = cur /\ got' = got /\ target = Null
    BY <2>1, Zenon DEF Put, walkVars, Idle
  <2>3. TypeOK'
    BY <1>1, <1>2, <2>1, <2>2, Zenon DEF TypeOK, Link
  <2>4. /\ next'[tail] = p /\ next'[p] = Null
        /\ \A x \in Pcbs : x # tail /\ x # p => next'[x] = next[x]
    BY <1>1, <2>1, <2>2, Zenon DEF TypeOK
  <2>5. \A x \in Pcbs : x \notin Range(list') => next'[x] = Null
    <3>1. tail \in Range(list)
      BY <1>1, <2>1, Represented, Zenon
    <3> QED BY <1>1, <1>2, <2>4, <3>1, Zenon DEF Represents
  <2>6. ASSUME NEW i \in 1..Len(list')
        PROVE  next'[list'[i]] = IF i = Len(list') THEN Null ELSE list'[i + 1]
    <3>1. CASE i = n + 1
      BY <1>3, <2>4, <3>1, Zenon
    <3>2. CASE i = n
      <4>1. i \in 1..n /\ i # n + 1
        BY <2>1, <3>2
      <4> QED BY <1>3, <2>1, <2>4, <3>2, <4>1, Zenon
    <3>3. CASE i # n /\ i # n + 1
      <4>1. i \in 1..n /\ i + 1 \in 1..n /\ n \in 1..n
        BY <1>3, <2>1, <3>3
      <4>2. list[i] # tail /\ list[i] # p /\ list[i] \in Pcbs
        BY <1>1, <2>1, <3>3, <4>1, Represented DEF Represents, NoDuplicates, Put
      <4>3. next[list[i]] = list[i + 1]
        BY <1>1, <3>3, <4>1, Zenon DEF Represents
      <4> QED BY <1>3, <2>4, <3>3, <4>1, <4>2, <4>3, Zenon
    <3> QED BY <3>1, <3>2, <3>3, Zenon
  <2>7. head' = list'[1]
    BY <1>1, <1>3, <1>6, <2>2, Represented, Zenon DEF Represents
  <2>8. Represents'
    BY <1>2, <1>3, <1>4, <2>2, <2>5, <2>6, <2>7, Zenon DEF Represents
  <2> QED BY <1>1, <2>2, <2>3, <2>8, Zenon DEF ListInv, WalkInv, Idle
<1> QED BY <1>5, <1>6, Zenon

(* A represented list, with its length named: what the index arguments     *)
(* below need of it and no more.                                           *)
Shape(n) ==
    /\ n \in Nat
    /\ \A i \in 1..n : list[i] \in Pcbs
    /\ \A i, j \in 1..n : list[i] = list[j] => i = j
    /\ \A i \in 1..n : i # n => next[list[i]] = list[i + 1]
    /\ n # 0 => next[list[n]] = Null

\* What Represents says about head, tail and the links, by position.
LEMMA ShapeOf ==
    ASSUME TypeOK, Represents
    PROVE  \E n : /\ n = Len(list) /\ Shape(n) /\ (list = <<>> <=> n = 0)
                  /\ n # 0 => head = list[1] /\ tail = list[n]
<1> WITNESS Len(list)
<1>1. list \in Seq(Pcbs)
  BY Zenon DEF TypeOK
<1>2. list = <<>> <=> Len(list) = 0
  BY <1>1, SeqEmpty, Zenon
<1>3. Len(list) # 0 => next[list[Len(list)]] = Null
  BY <1>2, Represented, Zenon DEF Represents
<1>4. Len(list) # 0 => head = list[1] /\ tail = list[Len(list)]
  BY <1>2, Zenon DEF Represents
<1> QED BY <1>2, <1>3, <1>4, Represented, Zenon DEF Represents, Shape, NoDuplicates

(* The other direction, for the values after a step.                       *)
LEMMA RepresentsFrom ==
    ASSUME list' \in Seq(Pcbs), NoDuplicates(list'), NEW m, m = Len(list'),
           \A i \in 1..m : i # m => next'[list'[i]] = list'[i + 1],
           m # 0 => next'[list'[m]] = Null,
           m # 0 => head' = list'[1] /\ tail' = list'[m],
           m = 0 => head' = Null /\ tail' = Null,
           \A p \in Pcbs : p \notin Range(list') => next'[p] = Null
    PROVE  Represents'
<1>1. list' = <<>> <=> m = 0
  BY SeqEmpty, Zenon
<1>2. m \in Nat
  BY SeqLength, Zenon
<1>3. \A i \in 1..m : next'[list'[i]] = IF i = m THEN Null ELSE list'[i + 1]
  BY <1>2
<1> QED BY <1>1, <1>3, Zenon DEF Represents

(* get(), and forceRemove() of the first member.                           *)
DropFirst ==
    /\ head' = next[head]
    /\ tail' = IF next[head] = Null THEN Null ELSE tail
    /\ next' = [next EXCEPT ![head] = Null]
    /\ list' = Tail(list)

\* Dropping the head, as get() and forceRemove of the head do, keeps the invariant.
LEMMA FirstLeaves ==
    ASSUME ListInv, list # <<>>, DropFirst, got' \in Link, Idle, UNCHANGED walkVars
    PROVE  ListInv'
<1>1. TypeOK /\ Represents /\ cur = Null /\ target = Null /\ cur' = Null /\ target' = Null
  BY Zenon DEF ListInv, WalkInv, Idle, walkVars
<1>2. PICK n : n = Len(list) /\ Shape(n) /\ n # 0 /\ head = list[1] /\ tail = list[n]
  BY <1>1, ShapeOf, Zenon
<1>3. /\ list' \in Seq(Pcbs) /\ NoDuplicates(list') /\ Range(list') = Range(list) \ {list[1]}
  BY <1>1, TailExact, TailAt, Zenon DEF DropFirst, TypeOK, Represents
<1>4. Len(list') = n - 1 /\ \A i \in 1..(n - 1) : list'[i] = list[i + 1]
  BY <1>1, <1>2, TailAt, Zenon DEF DropFirst, TypeOK
<1>5. n \in Nat /\ n - 1 \in Nat /\ 1 \in 1..n /\ n \in 1..n
  BY <1>2 DEF Shape
<1>6. head \in Pcbs /\ list[n] \in Pcbs
  BY <1>2, <1>5, Zenon DEF Shape
<1>7. TypeOK'
  BY <1>1, <1>3, <1>6, Zenon DEF DropFirst, TypeOK, Link
<1>8. next'[head] = Null /\ \A x \in Pcbs : x # head => next'[x] = next[x]
  BY <1>1, <1>6, Zenon DEF DropFirst, TypeOK
<1>9. \A x \in Pcbs : x \notin Range(list') => next'[x] = Null
  BY <1>1, <1>2, <1>3, <1>8, Zenon DEF Represents
<1>10. ASSUME NEW i \in 1..(n - 1)
       PROVE  /\ i # n - 1 => next'[list'[i]] = list'[i + 1]
              /\ i = n - 1 => next'[list'[i]] = Null
  <2>1. i + 1 \in 1..n /\ i + 1 # 1 /\ (i # n - 1 => i + 1 \in 1..(n - 1) /\ i + 1 # n)
    BY <1>5
  <2>2. list'[i] = list[i + 1] /\ list[i + 1] # head /\ list[i + 1] \in Pcbs
    BY <1>2, <1>4, <1>5, <2>1, Zenon DEF Shape
  <2>3. next'[list'[i]] = next[list[i + 1]]
    BY <1>8, <2>2, Zenon
  <2>4. CASE i # n - 1
    <3>1. next[list[i + 1]] = list[i + 1 + 1] /\ list'[i + 1] = list[i + 1 + 1]
      BY <1>2, <1>4, <2>1, <2>4, Zenon DEF Shape
    <3> QED BY <2>3, <2>4, <3>1, Zenon
  <2>5. CASE i = n - 1
    <3>1. i + 1 = n
      BY <1>5, <2>5
    <3> QED BY <1>2, <2>3, <2>5, <3>1, Zenon DEF Shape
  <2> QED BY <2>4, <2>5, Zenon
<1>11. CASE n = 1
  <2>1. head' = Null /\ tail' = Null /\ Len(list') = 0
    BY <1>2, <1>4, <1>11 DEF DropFirst, Shape
  <2>2. \A i \in 1..0 : FALSE
    OBVIOUS
  <2>3. Represents'
    BY <1>3, <1>9, <2>1, <2>2, RepresentsFrom, Zenon
  <2> QED BY <1>1, <1>7, <2>3, Zenon DEF ListInv, WalkInv, Idle
<1>12. CASE n # 1
  <2>1. 1 \in 1..(n - 1) /\ n - 1 \in 1..(n - 1) /\ n - 1 + 1 = n /\ 2 \in 1..n
    BY <1>2, <1>5, <1>12
  <2>2. next[head] = list[2] /\ list[2] # Null
    BY <1>2, <1>5, <1>12, <2>1, ListConstants DEF Shape
  <2>3. head' = list[2] /\ tail' = list[n]
    BY <1>2, <2>2, Zenon DEF DropFirst
  <2>4. list'[1] = list[2] /\ list'[n - 1] = list[n]
    BY <1>4, <2>1
  <2>5. Represents'
    BY <1>2, <1>3, <1>4, <1>9, <1>10, <1>12, <2>1, <2>3, <2>4, RepresentsFrom
  <2> QED BY <1>1, <1>7, <2>5, Zenon DEF ListInv, WalkInv, Idle
<1> QED BY <1>11, <1>12, Zenon

(* forceRemove() of a later member, found behind the cursor.               *)
LEMMA LaterLeaves ==
    ASSUME ListInv, RemoveLink
    PROVE  ListInv'
<1>1. /\ TypeOK /\ Represents
      /\ target # Null /\ target \in Pcbs /\ cur # Null /\ next[cur] = target
      /\ next' = [next EXCEPT ![cur] = next[target], ![target] = Null]
      /\ tail' = IF tail = target THEN cur ELSE tail
      /\ list' = Unlink(list, target)
      /\ target' = Null /\ cur' = Null /\ head' = head /\ got' = got
  BY Zenon DEF ListInv, RemoveLink, Idle, TypeOK, Link
<1>2. PICK n : n = Len(list) /\ Shape(n) /\ (n # 0 => head = list[1] /\ tail = list[n])
  BY <1>1, ShapeOf, Zenon
<1>3. PICK k \in 1..n : cur = list[k] /\ \A j \in 1..k : list[j] # target
  BY <1>1, <1>2, Zenon DEF ListInv, WalkInv, Idle
<1>4. n \in Nat /\ k # n /\ target = list[k + 1] /\ cur \in Pcbs
  BY <1>1, <1>2, <1>3 DEF Shape
<1>5. /\ k + 1 \in 1..n /\ k \in 1..(n - 1) /\ n - 1 \in 1..(n - 1) /\ 1 \in 1..(n - 1)
      /\ n \in 1..n /\ n # 0 /\ n - 1 # 0 /\ n - 1 + 1 = n /\ k # k + 1 /\ 1 < k + 1
  BY <1>4
<1>6. cur # target
  BY <1>2, <1>3, <1>4, <1>5, Zenon DEF Shape
<1>7. /\ list' \in Seq(Pcbs) /\ NoDuplicates(list') /\ Range(list') = Range(list) \ {target}
  BY <1>1, UnlinkExact DEF TypeOK, Represents
<1>8. /\ Len(list') = n - 1
      /\ \A i \in 1..(n - 1) : list'[i] = IF i < k + 1 THEN list[i] ELSE list[i + 1]
  <2>1. list \in Seq(Pcbs) /\ NoDuplicates(list)
    BY <1>1, Zenon DEF TypeOK, Represents
  <2>2. /\ Len(Unlink(list, list[k + 1])) = n - 1
        /\ \A i \in 1..(n - 1) :
              Unlink(list, list[k + 1])[i] = IF i < k + 1 THEN list[i] ELSE list[i + 1]
    <3>1. list \in Seq(Pcbs) /\ NoDuplicates(list) /\ k + 1 \in 1..Len(list) /\ n = Len(list)
      BY <1>2, <1>5, <2>1, Zenon
    <3> QED BY <3>1, UnlinkAt, Zenon
  <2> QED BY <1>1, <1>4, <2>2, Zenon
<1>9. TypeOK'
  BY <1>1, <1>4, <1>7, Zenon DEF TypeOK, Link
<1>10. /\ next'[cur] = next[target] /\ next'[target] = Null
       /\ \A x \in Pcbs : x # cur /\ x # target => next'[x] = next[x]
  BY <1>1, <1>4, <1>6, Zenon DEF TypeOK
<1>11. \A x \in Pcbs : x \notin Range(list') => next'[x] = Null
  <2>1. cur \in Range(list)
    BY <1>1, <1>2, <1>3, Represented, Zenon
  <2> QED BY <1>1, <1>7, <1>10, <2>1, Zenon DEF Represents
<1>12. ASSUME NEW i \in 1..(n - 1)
       PROVE  /\ i # n - 1 => next'[list'[i]] = list'[i + 1]
              /\ i = n - 1 => next'[list'[i]] = Null
  <2>1. /\ i \in 1..n /\ i + 1 \in 1..n /\ i # n
        /\ i # n - 1 => i + 1 \in 1..(n - 1) /\ i + 1 # n
        /\ i = n - 1 => i + 1 = n
    BY <1>4
  <2>2. CASE i = k
    <3>1. list'[i] = cur
      BY <1>3, <1>5, <1>8, <2>2
    <3>2. next'[list'[i]] = next[list[i + 1]]
      BY <1>4, <1>10, <2>2, <3>1, Zenon
    <3>3. i # n - 1 => list'[i + 1] = list[i + 1 + 1]
      <4>1. ~(i + 1 < k + 1)
        BY <1>4, <2>2
      <4> QED BY <1>8, <2>1, <4>1, Zenon
    <3> QED BY <1>2, <2>1, <3>2, <3>3 DEF Shape
  <2>3. CASE i < k
    <3>1. i < k + 1 /\ i + 1 < k + 1 /\ i # n - 1 /\ i # k /\ i # k + 1
      BY <1>4, <1>5, <2>1, <2>3
    <3>2. list'[i] = list[i] /\ list'[i + 1] = list[i + 1]
      BY <1>8, <2>1, <3>1, Zenon
    <3>3. list[i] # cur /\ list[i] # target /\ list[i] \in Pcbs
      BY <1>2, <1>3, <1>4, <1>5, <2>1, <3>1, Zenon DEF Shape
    <3>4. next[list[i]] = list[i + 1]
      BY <1>2, <2>1, Zenon DEF Shape
    <3> QED BY <1>10, <3>1, <3>2, <3>3, <3>4, Zenon
  <2>4. CASE i > k
    <3>1. ~(i < k + 1) /\ ~(i + 1 < k + 1) /\ i + 1 # k /\ i + 1 # k + 1
      BY <1>4, <2>1, <2>4
    <3>2. list'[i] = list[i + 1] /\ (i # n - 1 => list'[i + 1] = list[i + 1 + 1])
      BY <1>8, <2>1, <3>1, Zenon
    <3>3. list[i + 1] # cur /\ list[i + 1] # target /\ list[i + 1] \in Pcbs
      BY <1>2, <1>3, <1>4, <1>5, <2>1, <3>1, Zenon DEF Shape
    <3>4. next'[list'[i]] = next[list[i + 1]]
      BY <1>10, <3>2, <3>3, Zenon
    <3> QED BY <1>2, <2>1, <3>2, <3>4 DEF Shape
  <2> QED BY <1>4, <2>1, <2>2, <2>3, <2>4
<1>13. head' = list'[1]
  BY <1>1, <1>2, <1>5, <1>8, Zenon
<1>14. tail' = list'[n - 1]
  <2>1. CASE k + 1 = n
    <3>1. tail' = cur /\ k = n - 1 /\ n - 1 < k + 1
      BY <1>1, <1>2, <1>4, <1>5, <2>1
    <3> QED BY <1>3, <1>5, <1>8, <3>1, Zenon
  <2>2. CASE k + 1 # n
    <3>1. ~(n - 1 < k + 1)
      BY <1>4, <1>5, <2>2
    <3>2. list[n] # target
      BY <1>2, <1>4, <1>5, <2>2, Zenon DEF Shape
    <3>3. list'[n - 1] = list[n]
      BY <1>5, <1>8, <3>1, Zenon
    <3> QED BY <1>1, <1>2, <1>5, <3>2, <3>3, Zenon
  <2> QED BY <2>1, <2>2, Zenon
<1>15. Represents'
  BY <1>5, <1>7, <1>8, <1>11, <1>12, <1>13, <1>14, RepresentsFrom, Zenon
<1> QED BY <1>1, <1>9, <1>15, Zenon DEF ListInv, WalkInv, Idle

(* The cursor of forceRemove() moves to the next member, or off the end.   *)
LEMMA WalkAdvances ==
    ASSUME ListInv, RemoveWalk
    PROVE  WalkInv'
<1>1. /\ TypeOK /\ Represents /\ target # Null /\ cur # Null /\ next[cur] # target
      /\ cur' = next[cur] /\ target' = target /\ list' = list
  BY Zenon DEF ListInv, RemoveWalk, Idle
<1>2. PICK n : n = Len(list) /\ Shape(n)
  BY <1>1, ShapeOf, Zenon
<1>3. PICK k \in 1..n : cur = list[k] /\ \A j \in 1..k : list[j] # target
  BY <1>1, <1>2, Zenon DEF ListInv, WalkInv, Idle
<1>4. n \in Nat
  BY <1>2, Zenon DEF Shape
<1>5. CASE k = n
  <2>1. cur' = Null
    BY <1>1, <1>2, <1>3, <1>4, <1>5 DEF Shape
  <2>2. target \notin Range(list)
    BY <1>1, <1>2, <1>3, <1>5, Represented, Zenon
  <2> QED BY <1>1, <2>1, <2>2, Zenon DEF WalkInv, Idle
<1>6. CASE k # n
  <2>1. k + 1 \in 1..n /\ \A j \in 1..(k + 1) : j = k + 1 \/ j \in 1..k
    BY <1>4, <1>6
  <2>2. cur' = list[k + 1] /\ cur' # Null
    BY <1>1, <1>2, <1>3, <1>6, <2>1, ListConstants DEF Shape
  <2>3. \A j \in 1..(k + 1) : list[j] # target
    BY <1>1, <1>3, <2>1, <2>2, Zenon
  <2> QED BY <1>1, <1>2, <2>1, <2>2, <2>3, Zenon DEF WalkInv, Idle
<1> QED BY <1>5, <1>6, Zenon

\* forceRemove starts its walk at the head, with its argument still ahead.
LEMMA WalkBegins ==
    ASSUME ListInv, NEW p \in Pcbs, RemoveStart(p)
    PROVE  WalkInv'
<1>1. /\ TypeOK /\ Represents /\ head # p /\ p # Null
      /\ cur' = head /\ target' = p /\ list' = list
  BY ListConstants, Zenon DEF ListInv, RemoveStart
<1>2. CASE list = <<>>
  <2>1. cur' = Null /\ p \notin Range(list)
    BY <1>1, <1>2, Represented DEF Range
  <2> QED BY <1>1, <2>1, Zenon DEF WalkInv, Idle
<1>3. CASE list # <<>>
  <2>1. PICK n : n = Len(list) /\ Shape(n) /\ n # 0 /\ head = list[1]
    BY <1>1, <1>3, ShapeOf, Zenon
  <2>2. 1 \in 1..n /\ \A j \in 1..1 : j = 1
    BY <2>1 DEF Shape
  <2>3. cur' # Null
    BY <1>1, <2>1, <2>2, ListConstants DEF Shape
  <2> QED BY <1>1, <2>1, <2>2, <2>3, Zenon DEF WalkInv, Idle
<1> QED BY <1>2, <1>3, Zenon

\* Every call on the list, and every step of a walk, keeps the invariant.
LEMMA ListStep ==
    ASSUME ListInv, [Next]_vars
    PROVE  ListInv'
<1>1. TypeOK /\ Represents /\ WalkInv
  BY Zenon DEF ListInv
<1>2. CASE \E p \in Pcbs : Put(p)
  BY <1>2, PutRepresents, Zenon
<1>3. CASE Get
  <2>1. CASE head = Null
    <3>1. UNCHANGED <<head, tail, next, list, target, cur>> /\ got' = Null
      BY <1>3, <2>1, Zenon DEF Get, walkVars
    <3> QED BY <1>1, <3>1, Zenon DEF ListInv, TypeOK, Link, Represents, WalkInv, Idle
  <2>2. CASE head # Null
    <3>1. DropFirst /\ got' = head /\ Idle /\ UNCHANGED walkVars
      BY <1>3, <2>2, Zenon DEF Get, DropFirst
    <3>2. list # <<>> /\ got' \in Link
      BY <1>1, <2>2, <3>1, Represented, Zenon DEF TypeOK
    <3> QED BY <3>1, <3>2, FirstLeaves, Zenon
  <2> QED BY <2>1, <2>2, Zenon
<1>4. CASE \E p \in Pcbs : RemoveHead(p)
  <2>1. PICK p \in Pcbs : RemoveHead(p)
    BY <1>4, Zenon
  <2>2. list # <<>> /\ list[1] = p /\ head = p
    BY <1>1, <2>1, Represented, ListConstants DEF RemoveHead, Represents
  <2>3. Unlink(list, p) = Tail(list)
    BY <1>1, <2>2, UnlinkHead, Zenon DEF TypeOK, Represents
  <2>4. DropFirst /\ got' \in Link /\ Idle /\ UNCHANGED walkVars
    BY <1>1, <2>1, <2>2, <2>3, Zenon DEF RemoveHead, DropFirst, TypeOK
  <2> QED BY <2>2, <2>4, FirstLeaves, Zenon
<1>5. CASE \E p \in Pcbs : RemoveStart(p)
  <2>1. PICK p \in Pcbs : RemoveStart(p)
    BY <1>5, Zenon
  <2>2. WalkInv'
    BY <2>1, WalkBegins, Zenon
  <2>3. TypeOK' /\ Represents'
    BY <1>1, <2>1, Zenon DEF RemoveStart, TypeOK, Link, Represents
  <2> QED BY <2>2, <2>3, Zenon DEF ListInv
<1>6. CASE RemoveWalk
  <2>1. cur \in Pcbs
    BY <1>1, <1>6, Zenon DEF RemoveWalk, TypeOK, Link
  <2>2. TypeOK' /\ Represents'
    BY <1>1, <1>6, <2>1, Zenon DEF RemoveWalk, TypeOK, Link, Represents
  <2> QED BY <1>6, <2>2, WalkAdvances, Zenon DEF ListInv
<1>7. CASE RemoveLink
  BY <1>7, LaterLeaves, Zenon
<1>8. CASE RemoveAbsent
  BY <1>1, <1>8, Zenon DEF RemoveAbsent, ListInv, TypeOK, Link, Represents, WalkInv, Idle
<1>9. CASE UNCHANGED vars
  BY <1>1, <1>9, Zenon DEF vars, ListInv, TypeOK, Represents, WalkInv, Idle
<1> QED BY <1>2, <1>3, <1>4, <1>5, <1>6, <1>7, <1>8, <1>9, Zenon DEF Next

(* The instance has its own copy of Unlink.                                *)
LEMMA SameUnlink ==
    ASSUME NEW s, NEW p
    PROVE  Fifo!Unlink(s, p) = Unlink(s, p)
  BY Zenon DEF Unlink, Fifo!Unlink, Range, Fifo!Range

\* An empty list satisfies the invariant.
LEMMA ListInit == Init => ListInv
<1> SUFFICES ASSUME Init PROVE ListInv
  BY Zenon
<1>1. TypeOK
  BY DEF Init, TypeOK, Link
<1>2. Represents
  BY DEF Init, Represents, NoDuplicates
<1> QED BY <1>1, <1>2, Zenon DEF Init, ListInv, WalkInv, Idle

\* The pointers spell the queue and a walk of forceRemove is on its way to its
\* argument at all times: the inductive invariant of the list.
THEOREM ListInductive == Spec => []ListInv
  BY ListInit, ListStep, PTL DEF Spec

(* The pointers of ProcList, Semaphore and FutexQueue spell their members  *)
(* at all times: IntrusiveList!Represents.                                 *)
THEOREM ListRepresents == Spec => []Represents
<1>1. ListInv => Represents
  BY Zenon DEF ListInv
<1> QED BY <1>1, ListInductive, PTL

(* Every step of the pointer code is a step of the abstract queue or leaves*)
(* it alone: get() returns the oldest member, forceRemove() takes out its  *)
(* argument and nobody else.                                               *)
THEOREM ListIsFifo == Spec => FifoSpec
<1>1. Init => Fifo!Init
  BY Zenon DEF Init, Fifo!Init
<1>2. ListInv /\ [Next]_vars => [Fifo!Next]_(Fifo!vars)
  <2> SUFFICES ASSUME ListInv, [Next]_vars
               PROVE  [Fifo!Next]_(Fifo!vars)
    BY Zenon
  <2>1. TypeOK /\ Represents /\ WalkInv
    BY Zenon DEF ListInv
  <2>2. ASSUME NEW p \in Pcbs, Put(p) PROVE Fifo!Put(p)
    BY <2>2, Zenon DEF Put, Fifo!Put, Range, Fifo!Range
  <2>3. CASE Get
    <3>1. CASE head = Null
      BY <2>1, <2>3, <3>1, Represented, Zenon DEF Get, Fifo!Get, Fifo!Next
    <3>2. CASE head # Null
      <4>1. list # <<>> /\ head = list[1]
        BY <2>1, <3>2, Represented, Zenon DEF Represents
      <4>2. Head(list) = list[1]
        BY <2>1, <4>1, TailAt, Zenon DEF TypeOK
      <4> QED BY <2>3, <3>2, <4>1, <4>2, Zenon DEF Get, Fifo!Get, Fifo!Next
    <3> QED BY <3>1, <3>2, Zenon
  <2>4. ASSUME NEW p \in Pcbs, RemoveHead(p) PROVE Fifo!Remove(p)
    BY <2>4, SameUnlink, Zenon DEF RemoveHead, Fifo!Remove
  <2>5. CASE RemoveLink
    <3>1. target \in Pcbs
      BY <2>1, <2>5, Zenon DEF RemoveLink, Idle, TypeOK, Link
    <3>2. Fifo!Remove(target)
      BY <2>5, SameUnlink, Zenon DEF RemoveLink, Fifo!Remove
    <3> QED BY <3>1, <3>2, Zenon DEF Fifo!Next
  <2>6. CASE \/ \E p \in Pcbs : RemoveStart(p)
             \/ RemoveWalk \/ RemoveAbsent \/ UNCHANGED vars
    BY <2>6, Zenon DEF RemoveStart, RemoveWalk, RemoveAbsent, vars, Fifo!vars
  <2> QED BY <2>2, <2>3, <2>4, <2>5, <2>6, Zenon DEF Next, Fifo!Next
<1> QED BY <1>1, <1>2, ListInductive, PTL DEF Spec, Fifo!Spec, FifoSpec

-----------------------------------------------------------------------------
(* The sleep list.  The time a sleeper is due is the sum of the relative   *)
(* times up to its own, so it is that of its predecessor plus its own.     *)

SleepTimes ==
    \A i \in 1..Len(q) :
        /\ due[q[i]] = (IF i = 1 THEN 0 ELSE due[q[i - 1]]) + rel[q[i]]
        /\ due[q[i]] \in 0..MaxSleep /\ due[q[i]] <= left[q[i]]
        /\ ~waking => due[q[i]] > 0
        /\ \A j \in i..Len(q) : due[q[i]] <= due[q[j]]

SleepExact ==
    exact => /\ \A p \in Range(q) : left[p] = due[p]
             /\ \A p \in Pcbs : p \notin Range(q) => left[p] = 0

(* The walk of putSleep() has passed what is due before its argument *)
Walking ==
    arg # Null =>
        /\ ~waking /\ q # <<>> /\ arg \notin Range(q) \cup Range(list)
        /\ amount \in 1..MaxSleep /\ pos \in 0..Len(q)
        /\ elapsed = (IF pos = 0 THEN 0 ELSE due[q[pos]]) /\ elapsed <= amount

SleepInv ==
    /\ SleepTypeOK /\ ListInv /\ Idle
    /\ NoDuplicates(q) /\ Range(q) \cap Range(list) = {}
    /\ SleepTimes /\ SleepExact /\ Walking

(* A represented sleep list, by position *)
LEMMA Sleepers ==
    ASSUME SleepInv
    PROVE  /\ q \in Seq(Pcbs) /\ Len(q) \in Nat /\ (q = <<>> <=> Len(q) = 0)
           /\ \A i \in 1..Len(q) : /\ q[i] \in Pcbs /\ q[i] \in Range(q)
                                   /\ rel[q[i]] \in Nat /\ rel[q[i]] <= due[q[i]]
                                   /\ due[q[i]] \in Nat
           /\ \A p \in Range(q) : p \in Pcbs /\ \E i \in 1..Len(q) : q[i] = p
           /\ \A i, j \in 1..Len(q) : q[i] = q[j] => i = j
           /\ rel \in [Pcbs -> Nat] /\ left \in [Pcbs -> Int] /\ due \in [Pcbs -> Int]
           /\ 1 \in 1..Len(q) => rel[q[1]] = due[q[1]]
<1>1. q \in Seq(Pcbs) /\ NoDuplicates(q) /\ SleepTimes
      /\ rel \in [Pcbs -> Times] /\ left \in [Pcbs -> Int] /\ due \in [Pcbs -> Int]
  BY Zenon DEF SleepInv, SleepTypeOK
<1>2. Len(q) \in Nat /\ DOMAIN q = 1..Len(q) /\ \A i \in 1..Len(q) : q[i] \in Pcbs
  BY <1>1, SeqLength, SeqMember, Zenon
<1>3. q = <<>> <=> Len(q) = 0
  BY <1>1, SeqEmpty, Zenon
<1>4. rel \in [Pcbs -> Nat]
  BY <1>1, SleepConstants DEF Times
<1>5. \A i \in 1..Len(q) : due[q[i]] \in Nat /\ rel[q[i]] \in Nat
  BY <1>1, <1>2, <1>4 DEF SleepTimes
<1>7. ASSUME NEW i \in 1..Len(q) PROVE rel[q[i]] <= due[q[i]]
  <2>1. i = 1 \/ i - 1 \in 1..Len(q)
    BY <1>2
  <2>2. due[q[i]] = (IF i = 1 THEN 0 ELSE due[q[i - 1]]) + rel[q[i]]
    BY <1>1, Zenon DEF SleepTimes
  <2> QED BY <1>5, <2>1, <2>2
<1>8. 1 \in 1..Len(q) => rel[q[1]] = due[q[1]]
  BY <1>1, <1>5 DEF SleepTimes
<1>9. /\ \A i \in 1..Len(q) : q[i] \in Range(q)
      /\ \A p \in Range(q) : p \in Pcbs /\ \E i \in 1..Len(q) : q[i] = p
  BY <1>2, Zenon DEF Range
<1>10. \A i, j \in 1..Len(q) : q[i] = q[j] => i = j
  BY <1>1, Zenon DEF NoDuplicates
<1> QED BY <1>1, <1>2, <1>3, <1>4, <1>5, <1>7, <1>8, <1>9, <1>10, Zenon

(* putSleep() of the first sleeper *)
LEMMA PutSleepEmptyStep ==
    ASSUME SleepInv, NEW p \in Pcbs, NEW t \in 1..MaxSleep, PutSleepEmpty(p, t)
    PROVE  SleepInv'
<1>1. /\ q' = <<p>> /\ rel' = [rel EXCEPT ![p] = t] /\ left' = [left EXCEPT ![p] = t]
      /\ due' = [due EXCEPT ![p] = t] /\ q = <<>> /\ p \notin Range(list)
      /\ UNCHANGED <<vars, waking, putVars, exact>> /\ arg = Null
  BY Zenon DEF PutSleepEmpty, Quiet
<1>2. /\ q' \in Seq(Pcbs) /\ Len(q') = 1 /\ q'[1] = p
      /\ NoDuplicates(q') /\ Range(q') = {p} /\ Range(q) = {}
  BY <1>1 DEF NoDuplicates, Range
<1>3. t \in Times /\ t \in Nat /\ t > 0
  BY SleepConstants DEF Times
<1>4. rel'[p] = t /\ due'[p] = t /\ left'[p] = t
  BY <1>1, Zenon DEF SleepInv, SleepTypeOK
<1>5. SleepTypeOK' /\ ListInv' /\ Idle'
  BY <1>1, <1>2, <1>3 DEF SleepInv, SleepTypeOK, ListInv, TypeOK, Represents, WalkInv, Idle,
     vars, putVars
<1>6. SleepTimes'
  BY <1>2, <1>3, <1>4 DEF SleepTimes
<1>7. SleepExact'
  BY <1>1, <1>2, <1>4, Zenon DEF SleepInv, SleepExact, SleepTypeOK
<1>8. Walking' /\ Range(q') \cap Range(list') = {}
  BY <1>1, <1>2, Zenon DEF Walking, putVars, vars
<1> QED BY <1>2, <1>5, <1>6, <1>7, <1>8, Zenon DEF SleepInv

(* putSleep() starts to walk, and walks on *)
LEMMA PutSleepWalks ==
    ASSUME SleepInv,
           (\E p \in Pcbs, t \in 1..MaxSleep : PutSleepStart(p, t)) \/ PutSleepWalk
    PROVE  SleepInv'
<1>1. UNCHANGED <<vars, waking, q, rel, left, due, exact>>
  BY Zenon DEF PutSleepStart, PutSleepWalk
<1>2. /\ ListInv' /\ Idle' /\ NoDuplicates(q') /\ Range(q') \cap Range(list') = {}
      /\ SleepTimes' /\ SleepExact'
  BY <1>1, Zenon DEF SleepInv, ListInv, TypeOK, Represents, WalkInv, Idle, vars, SleepTimes,
              SleepExact
<1>3. CASE PutSleepWalk
  <2>1. /\ arg # Null /\ arg' = arg /\ amount' = amount /\ pos' = pos + 1
        /\ elapsed' = elapsed + rel[q[pos + 1]]
        /\ pos < Len(q) /\ elapsed + rel[q[pos + 1]] <= amount
    BY <1>3, Zenon DEF PutSleepWalk, WalksOn
  <2>2. /\ ~waking /\ q # <<>> /\ arg \notin Range(q) \cup Range(list)
        /\ amount \in 1..MaxSleep /\ pos \in 0..Len(q) /\ elapsed = IF pos = 0 THEN 0 ELSE due[q[pos]]
    BY <2>1, Zenon DEF SleepInv, Walking
  <2>3. Len(q) \in Nat
    BY Sleepers, Zenon
  <2>4. pos + 1 \in 1..Len(q) /\ pos + 1 \in Nat /\ pos + 1 # 0 /\ pos + 1 - 1 = pos
        /\ (pos + 1 = 1 <=> pos = 0)
    BY <2>1, <2>2, <2>3
  <2>5. /\ due[q[pos + 1]] = (IF pos = 0 THEN 0 ELSE due[q[pos]]) + rel[q[pos + 1]]
        /\ due[q[pos + 1]] \in 0..MaxSleep
    <3>1. PICK i \in 1..Len(q) : i = pos + 1
      BY <2>4, Zenon
    <3>2. i - 1 = pos /\ (i = 1 <=> pos = 0)
      BY <2>2, <2>3, <3>1
    <3>3. /\ due[q[i]] = (IF i = 1 THEN 0 ELSE due[q[i - 1]]) + rel[q[i]]
          /\ due[q[i]] \in 0..MaxSleep
      BY Zenon DEF SleepInv, SleepTimes
    <3> QED BY <3>1, <3>2, <3>3, Zenon
  <2>6. elapsed' = due[q[pos + 1]] /\ elapsed' \in Times /\ elapsed' <= amount
    BY <2>1, <2>2, <2>4, <2>5, SleepConstants DEF Times
  <2>7. Walking'
    BY <1>1, <2>1, <2>2, <2>3, <2>4, <2>6 DEF Walking, vars
  <2>8. SleepTypeOK'
    BY <1>1, <2>1, <2>4, <2>6, Zenon DEF SleepInv, SleepTypeOK, TypeOK, vars
  <2> QED BY <1>2, <2>7, <2>8, Zenon DEF SleepInv
<1>4. CASE \E p \in Pcbs, t \in 1..MaxSleep : PutSleepStart(p, t)
  <2>1. PICK p \in Pcbs, t \in 1..MaxSleep : PutSleepStart(p, t)
    BY <1>4, Zenon
  <2>2. /\ arg' = p /\ amount' = t /\ pos' = 0 /\ elapsed' = 0 /\ q # <<>> /\ ~waking
        /\ p \notin Range(q) \cup Range(list)
    BY <2>1, Zenon DEF PutSleepStart, Quiet
  <2>3. Len(q) \in Nat /\ t \in Times /\ 0 \in Times /\ t \in Nat /\ t > 0
    BY Sleepers, SleepConstants DEF Times
  <2>4. Walking'
    BY <1>1, <2>2, <2>3 DEF Walking, vars
  <2>5. SleepTypeOK'
    BY <1>1, <2>2, <2>3, Zenon DEF SleepInv, SleepTypeOK, TypeOK, vars
  <2> QED BY <1>2, <2>4, <2>5, Zenon DEF SleepInv
<1> QED BY <1>3, <1>4, Zenon

(* putSleep() links its argument in: what its predecessors sleep is no     *)
(* longer than it does, and its successor sleeps longer.                   *)
LEMMA PutSleepLinkStep ==
    ASSUME SleepInv, PutSleepLink
    PROVE  SleepInv'
<1>1. /\ q \in Seq(Pcbs) /\ Len(q) \in Nat /\ (q = <<>> <=> Len(q) = 0)
      /\ rel \in [Pcbs -> Nat] /\ left \in [Pcbs -> Int] /\ due \in [Pcbs -> Int]
      /\ \A j \in 1..Len(q) : q[j] \in Pcbs /\ q[j] \in Range(q)
      /\ \A i, j \in 1..Len(q) : q[i] = q[j] => i = j
      /\ \A i \in 1..Len(q) : rel[q[i]] \in Nat /\ rel[q[i]] <= due[q[i]] /\ due[q[i]] \in Nat
  BY Sleepers, Zenon
<1>2. PICK n \in Nat : n = Len(q)
  BY <1>1, Zenon
<1>3. PICK k \in 0..n : k = pos
  BY <1>2, Zenon DEF SleepInv, Walking, PutSleepLink
<1>4. PICK m \in 1..MaxSleep : m = amount
  BY Zenon DEF SleepInv, Walking, PutSleepLink
<1>5. PICK e \in 0..m : e = elapsed /\ e = IF k = 0 THEN 0 ELSE due[q[k]]
  <2>1. elapsed \in Times /\ elapsed <= amount
        /\ elapsed = IF pos = 0 THEN 0 ELSE due[q[pos]]
    BY Zenon DEF SleepInv, SleepTypeOK, Walking, PutSleepLink
  <2> QED BY <1>3, <1>4, <2>1, SleepConstants DEF Times
<1>6. PICK a \in Pcbs : a = arg /\ a \notin Range(q) /\ a \notin Range(list) /\ ~waking
  BY Zenon DEF SleepInv, SleepTypeOK, Walking, PutSleepLink
<1>7. SleepTimes /\ MaxSleep \in Nat /\ TimeMax \in Nat /\ MaxSleep <= TimeMax
  BY SleepConstants, Zenon DEF SleepInv
<1>8. k < n => e + rel[q[k + 1]] > m
  <2>1. ~WalksOn
    BY Zenon DEF PutSleepLink
  <2>2. k < n => k + 1 \in 1..Len(q)
    BY <1>2
  <2>3. k < n => rel[q[k + 1]] \in Nat
    BY <1>1, <2>2, Zenon
  <2>4. ~(k < n /\ e + rel[q[k + 1]] <= m)
    BY <1>2, <1>3, <1>4, <1>5, <2>1, Zenon DEF WalksOn
  <2> QED BY <1>7, <2>3, <2>4
<1>9. Minus(amount, elapsed) = m - e
  BY <1>4, <1>5 DEF Minus
<1>10. k < n => Minus(rel[q[k + 1]], m - e) = rel[q[k + 1]] - (m - e)
  <2>1. k < n => k + 1 \in 1..Len(q)
    BY <1>2
  <2>2. k < n => rel[q[k + 1]] \in Nat
    BY <1>1, <2>1, Zenon
  <2> QED BY <1>7, <1>8, <2>2 DEF Minus
<1>11. /\ rel'[a] = m - e /\ due'[a] = m /\ left'[a] = m
       /\ \A i \in 1..n : due'[q[i]] = due[q[i]] /\ left'[q[i]] = left[q[i]]
       /\ \A p \in Pcbs : p # a => due'[p] = due[p] /\ left'[p] = left[p]
       /\ left' \in [Pcbs -> Int] /\ due' \in [Pcbs -> Int]
  <2>1. /\ left' = [left EXCEPT ![a] = m] /\ due' = [due EXCEPT ![a] = m]
        /\ rel' = IF k < n THEN [rel EXCEPT ![a] = m - e, ![q[k + 1]] = Minus(@, m - e)]
                  ELSE [rel EXCEPT ![a] = m - e]
    BY <1>2, <1>3, <1>4, <1>6, <1>9, Zenon DEF PutSleepLink
  <2>2. \A i \in 1..n : q[i] # a /\ q[i] \in Pcbs
    BY <1>1, <1>2, <1>6
  <2>3. k < n => k + 1 \in 1..n
    OBVIOUS
  <2>4. m \in Int /\ m - e \in Int
    BY <1>7
  <2>5. rel'[a] = m - e
    BY <1>1, <2>1, <2>2, <2>3, Zenon
  <2> QED BY <1>1, <2>1, <2>2, <2>4, <2>5, Zenon
<1>12. /\ \A i \in 1..n : i # k + 1 => rel'[q[i]] = rel[q[i]]
       /\ k < n => rel'[q[k + 1]] = rel[q[k + 1]] - (m - e)
       /\ rel' \in [Pcbs -> Times]
  <2>1. rel' = IF k < n THEN [rel EXCEPT ![a] = m - e, ![q[k + 1]] = Minus(@, m - e)]
               ELSE [rel EXCEPT ![a] = m - e]
    BY <1>2, <1>3, <1>4, <1>6, <1>9, Zenon DEF PutSleepLink
  <2>2. \A i \in 1..n : q[i] # a /\ q[i] \in Pcbs
    BY <1>1, <1>2, <1>6
  <2>3. k < n => k + 1 \in 1..n /\ q[k + 1] # a /\ q[k + 1] \in Pcbs /\ rel[q[k + 1]] \in Times
    BY <2>2 DEF SleepInv, SleepTypeOK
  <2>4. m - e \in Times
    BY <1>7 DEF Times
  <2>5. k < n => rel' = [rel EXCEPT ![a] = m - e, ![q[k + 1]] = rel[q[k + 1]] - (m - e)]
    BY <1>1, <1>10, <2>1, Zenon
  <2>6. k < n => rel[q[k + 1]] - (m - e) \in Times
    BY <1>7, <1>8, <2>3 DEF Times
  <2>7. rel \in [Pcbs -> Times]
    BY Zenon DEF SleepInv, SleepTypeOK
  <2>8. rel' \in [Pcbs -> Times]
    BY <2>1, <2>3, <2>4, <2>5, <2>6, <2>7, Zenon
  <2>9. k < n => rel'[q[k + 1]] = rel[q[k + 1]] - (m - e)
    BY <2>3, <2>5, <2>7, Zenon
  <2>10. ASSUME NEW i \in 1..n, i # k + 1 PROVE rel'[q[i]] = rel[q[i]]
    <3>1. k < n => q[i] # q[k + 1]
      BY <1>1, <1>2, <2>3, <2>10, Zenon
    <3> QED BY <2>1, <2>2, <2>5, <2>7, <3>1, Zenon
  <2> QED BY <2>8, <2>9, <2>10, Zenon
<1>13. /\ q' \in Seq(Pcbs) /\ NoDuplicates(q') /\ Range(q') = Range(q) \cup {a}
       /\ Len(q') = n + 1
       /\ \A i \in 1..(n + 1) : q'[i] = IF i <= k THEN q[i] ELSE IF i = k + 1 THEN a ELSE q[i - 1]
  <2>1. q' = LinkAfter(q, k, a) /\ NoDuplicates(q) /\ k \in 0..Len(q)
    BY <1>2, <1>3, <1>6, Zenon DEF PutSleepLink, SleepInv
  <2>2. /\ LinkAfter(q, k, a) \in Seq(Pcbs) /\ NoDuplicates(LinkAfter(q, k, a))
        /\ Range(LinkAfter(q, k, a)) = Range(q) \cup {a}
    BY <1>1, <1>6, <2>1, LinkAfterExact
  <2>3. /\ Len(LinkAfter(q, k, a)) = Len(q) + 1
        /\ \A i \in 1..(Len(q) + 1) :
             LinkAfter(q, k, a)[i] = IF i <= k THEN q[i] ELSE IF i = k + 1 THEN a ELSE q[i - 1]
    <3>1. q \in Seq(Pcbs) /\ a \in Pcbs /\ k \in 0..Len(q)
      BY <1>1, <2>1, Zenon
    <3> QED BY <3>1, LinkAfterAt, SMT
  <2> QED BY <1>2, <2>1, <2>2, <2>3, Zenon
<1>14. /\ \A i \in 1..n : i <= k => due[q[i]] <= m
       /\ \A i \in 1..n : i > k => due[q[i]] >= m
  <2>1. \A i \in 1..n : /\ due[q[i]] = (IF i = 1 THEN 0 ELSE due[q[i - 1]]) + rel[q[i]]
                        /\ \A j \in i..n : due[q[i]] <= due[q[j]]
    BY <1>2, <1>7, Zenon DEF SleepTimes
  <2>2. ASSUME NEW i \in 1..n, i <= k PROVE due[q[i]] <= m
    <3>1. due[q[i]] <= due[q[k]] /\ k # 0 /\ e = due[q[k]] /\ due[q[i]] \in Nat
      BY <1>1, <1>2, <1>5, <2>1, <2>2
    <3> QED BY <1>7, <3>1
  <2>3. ASSUME NEW i \in 1..n, i > k PROVE due[q[i]] >= m
    <3>1. PICK j \in 1..n : j = k + 1 /\ j <= i /\ (j = 1 <=> k = 0) /\ j - 1 = k
      BY <2>3
    <3>2. due[q[j]] = e + rel[q[j]]
      BY <1>5, <2>1, <3>1
    <3>3. due[q[j]] <= due[q[i]] /\ due[q[j]] \in Nat /\ due[q[i]] \in Nat /\ rel[q[j]] \in Nat
      BY <1>1, <1>2, <2>1, <3>1
    <3>4. e + rel[q[j]] > m
      BY <1>8, <3>1
    <3> QED BY <1>7, <3>2, <3>3, <3>4
  <2> QED BY <2>2, <2>3, Zenon
<1>15. \A i \in 1..(n + 1) :
         /\ due'[q'[i]] = IF i <= k THEN due[q[i]] ELSE IF i = k + 1 THEN m ELSE due[q[i - 1]]
         /\ rel'[q'[i]] = IF i <= k THEN rel[q[i]] ELSE IF i = k + 1 THEN m - e
                          ELSE IF i = k + 2 THEN rel[q[i - 1]] - (m - e) ELSE rel[q[i - 1]]
         /\ left'[q'[i]] = IF i <= k THEN left[q[i]] ELSE IF i = k + 1 THEN m ELSE left[q[i - 1]]
  <2> TAKE i \in 1..(n + 1)
  <2>1. CASE i <= k
    <3>1. i \in 1..n /\ i # k + 1 /\ q'[i] = q[i]
      BY <1>13, <2>1
    <3> QED BY <1>11, <1>12, <2>1, <3>1
  <2>2. CASE i = k + 1
    <3>1. q'[i] = a
      BY <1>13, <2>2
    <3> QED BY <1>11, <2>2, <3>1
  <2>3. CASE i > k + 1
    <3>1. PICK j \in 1..n : j = i - 1 /\ q'[i] = q[j] /\ k < n /\ (j = k + 1 <=> i = k + 2)
      BY <1>13, <2>3
    <3>2. ~(i <= k) /\ i # k + 1
      BY <2>3
    <3>3. due'[q[j]] = due[q[j]] /\ left'[q[j]] = left[q[j]]
          /\ rel'[q[j]] = IF j = k + 1 THEN rel[q[j]] - (m - e) ELSE rel[q[j]]
      BY <1>11, <1>12, <3>1, Zenon
    <3> QED BY <3>1, <3>2, <3>3, Zenon
  <2> QED BY <2>1, <2>2, <2>3
<1>16. \A i \in 1..n : /\ due[q[i]] = (IF i = 1 THEN 0 ELSE due[q[i - 1]]) + rel[q[i]]
                       /\ due[q[i]] \in 1..MaxSleep /\ due[q[i]] <= left[q[i]]
                       /\ \A j \in i..n : due[q[i]] <= due[q[j]]
                       /\ rel[q[i]] \in Nat /\ left[q[i]] \in Int
  <2> TAKE i \in 1..n
  <2>1. /\ due[q[i]] = (IF i = 1 THEN 0 ELSE due[q[i - 1]]) + rel[q[i]]
        /\ due[q[i]] \in 0..MaxSleep /\ due[q[i]] <= left[q[i]] /\ due[q[i]] > 0
        /\ \A j \in i..n : due[q[i]] <= due[q[j]]
    BY <1>2, <1>6, <1>7, Zenon DEF SleepTimes
  <2>2. rel[q[i]] \in Nat /\ left[q[i]] \in Int
    BY <1>1, <1>2, Zenon
  <2>3. due[q[i]] \in 1..MaxSleep
    BY <1>7, <2>1
  <2> QED BY <2>1, <2>2, <2>3, Zenon
<1>17. \A i \in 1..(n + 1) :
         due'[q'[i]] = (IF i = 1 THEN 0 ELSE due'[q'[i - 1]]) + rel'[q'[i]]
  <2> TAKE i \in 1..(n + 1)
  <2>1. CASE i <= k
    <3>1. i \in 1..n /\ (i = 1 \/ (i - 1 \in 1..(n + 1) /\ i - 1 <= k))
      BY <2>1
    <3> QED BY <1>15, <1>16, <2>1, <3>1
  <2>2. CASE i = k + 1
    <3>1. due'[q'[i]] = m /\ rel'[q'[i]] = m - e
      BY <1>15, <2>2
    <3>2. CASE i = 1
      BY <1>5, <1>7, <2>2, <3>1, <3>2
    <3>3. CASE i # 1
      <4>1. i - 1 = k /\ k # 0 /\ k \in 1..(n + 1)
        BY <2>2, <3>3
      <4>2. due'[q'[k]] = due[q[k]] /\ due[q[k]] = e
        BY <1>5, <1>15, <4>1
      <4> QED BY <1>7, <3>1, <3>3, <4>1, <4>2
    <3> QED BY <3>2, <3>3, Zenon
  <2>3. CASE i = k + 2
    <3>1. PICK j \in 1..n : j = i - 1 /\ j = k + 1 /\ i # 1 /\ j \in 1..(n + 1)
                            /\ ~(j <= k) /\ ~(i <= k) /\ i # k + 1
      BY <2>3
    <3>2. due'[q'[i]] = due[q[j]] /\ rel'[q'[i]] = rel[q[j]] - (m - e) /\ due'[q'[j]] = m
      BY <1>15, <2>3, <3>1, Zenon
    <3>3. due[q[j]] = e + rel[q[j]] /\ rel[q[j]] \in Nat
      <4>1. j - 1 = k /\ (j = 1 <=> k = 0)
        BY <3>1
      <4> QED BY <1>5, <1>16, <4>1, Zenon
    <3>4. m = (e + rel[q[j]]) - (rel[q[j]] - (m - e))
      BY <1>7, <3>3
    <3> QED BY <1>7, <3>1, <3>2, <3>3, <3>4
  <2>4. CASE i > k + 2
    <3>1. PICK j \in 1..n : j = i - 1 /\ i # 1 /\ j # 1 /\ j \in 1..(n + 1) /\ j > k + 1
                            /\ ~(j <= k) /\ j # k + 1 /\ ~(i <= k) /\ i # k + 1 /\ i # k + 2
      BY <2>4
    <3>2. due'[q'[i]] = due[q[j]] /\ rel'[q'[i]] = rel[q[j]] /\ due'[q'[j]] = due[q[j - 1]]
      BY <1>15, <3>1, Zenon
    <3> QED BY <1>16, <3>1, <3>2
  <2> QED BY <2>1, <2>2, <2>3, <2>4
<1>18. \A i \in 1..(n + 1) : \A j \in i..(n + 1) : due'[q'[i]] <= due'[q'[j]]
  <2> TAKE i \in 1..(n + 1)
  <2> TAKE j \in i..(n + 1)
  <2>1. i \in Int /\ j \in 1..(n + 1) /\ i <= j
    OBVIOUS
  <2>2. CASE j <= k
    <3>1. i \in 1..n /\ i <= k /\ j \in i..n
      BY <2>1, <2>2
    <3> QED BY <1>15, <1>16, <2>1, <2>2, <3>1, Zenon
  <2>3. CASE i <= k /\ j = k + 1
    <3>1. i \in 1..n /\ ~(j <= k)
      BY <2>3
    <3> QED BY <1>14, <1>15, <2>1, <2>3, <3>1, Zenon
  <2>4. CASE i <= k /\ j > k + 1
    <3>1. i \in 1..n /\ j - 1 \in i..n /\ ~(j <= k) /\ j # k + 1
      BY <2>1, <2>4
    <3> QED BY <1>15, <1>16, <2>1, <2>4, <3>1
  <2>5. CASE i = k + 1 /\ j = k + 1
    BY <1>7, <1>15, <2>5
  <2>6. CASE i = k + 1 /\ j > k + 1
    <3>1. ~(i <= k) /\ j - 1 \in 1..n /\ j - 1 > k /\ ~(j <= k) /\ j # k + 1
      BY <2>1, <2>6
    <3> QED BY <1>14, <1>15, <2>1, <2>6, <3>1
  <2>7. CASE i > k + 1
    <3>1. /\ ~(i <= k) /\ ~(j <= k) /\ i # k + 1 /\ j # k + 1
          /\ i - 1 \in 1..n /\ j - 1 \in (i - 1)..n
      BY <2>1, <2>7
    <3> QED BY <1>15, <1>16, <2>1, <3>1
  <2> QED BY <2>1, <2>2, <2>3, <2>4, <2>5, <2>6, <2>7
<1>19. \A i \in 1..(n + 1) : due'[q'[i]] \in 1..MaxSleep /\ due'[q'[i]] <= left'[q'[i]]
  <2> TAKE i \in 1..(n + 1)
  <2>1. CASE i <= k
    <3>1. i \in 1..n
      BY <2>1
    <3> QED BY <1>15, <1>16, <2>1, <3>1, Zenon
  <2>2. CASE i = k + 1
    BY <1>7, <1>15, <2>2
  <2>3. CASE i > k + 1
    <3>1. i - 1 \in 1..n /\ ~(i <= k) /\ i # k + 1
      BY <2>3
    <3> QED BY <1>15, <1>16, <3>1, Zenon
  <2> QED BY <2>1, <2>2, <2>3
<1>20. SleepTimes'
  BY <1>13, <1>17, <1>18, <1>19 DEF SleepTimes
<1>21. /\ UNCHANGED <<vars, waking, exact>> /\ arg' = Null /\ amount' = 0 /\ pos' = 0
       /\ elapsed' = 0
  BY Zenon DEF PutSleepLink
<1>22. SleepTypeOK' /\ ListInv' /\ Idle' /\ Walking'
  <2>1. 0 \in Times
    BY <1>7 DEF Times
  <2> QED BY <1>11, <1>12, <1>13, <1>21, <2>1, Zenon DEF SleepInv, SleepTypeOK, ListInv, TypeOK,
             Represents, WalkInv, Idle, vars, Walking
<1>23. SleepExact'
  <2> SUFFICES ASSUME exact'
               PROVE  /\ \A p \in Range(q') : left'[p] = due'[p]
                      /\ \A p \in Pcbs : p \notin Range(q') => left'[p] = 0
    BY Zenon DEF SleepExact
  <2>1. /\ \A p \in Range(q) : left[p] = due[p]
        /\ \A p \in Pcbs : p \notin Range(q) => left[p] = 0
    BY <1>21, Zenon DEF SleepInv, SleepExact
  <2>2. \A p \in Range(q) : p \in Pcbs /\ p # a
    BY <1>6, Sleepers, Zenon
  <2> QED BY <1>11, <1>13, <2>1, <2>2, Zenon
<1>24. Range(q') \cap Range(list') = {}
  BY <1>6, <1>13, <1>21, Zenon DEF SleepInv, vars
<1> QED BY <1>13, <1>20, <1>22, <1>23, <1>24, Zenon DEF SleepInv

(* A timer tick: the first sleeper has time left, so its relative time     *)
(* does not wrap.                                                          *)
LEMMA AwakeTickStep ==
    ASSUME SleepInv, AwakeTick
    PROVE  SleepInv'
<1>1. /\ q' = q /\ arg = Null /\ ~waking /\ waking' /\ q # <<>>
      /\ rel' = [rel EXCEPT ![q[1]] = Minus(@, 1)]
      /\ left' = [p \in Pcbs |-> IF p \in Range(q) THEN left[p] - 1 ELSE left[p]]
      /\ due' = [p \in Pcbs |-> IF p \in Range(q) THEN due[p] - 1 ELSE due[p]]
      /\ UNCHANGED <<vars, putVars, exact>> /\ waking' \in BOOLEAN
  BY Zenon DEF AwakeTick, Quiet
<1>2. /\ q \in Seq(Pcbs) /\ Len(q) \in Nat /\ (q = <<>> <=> Len(q) = 0)
      /\ left \in [Pcbs -> Int] /\ due \in [Pcbs -> Int]
      /\ \A i, j \in 1..Len(q) : q[i] = q[j] => i = j
      /\ \A p \in Range(q) : p \in Pcbs
  BY Sleepers, Zenon
<1>3. PICK n \in Nat \ {0} : n = Len(q)
  BY <1>1, <1>2, Zenon
<1>4. \A i \in 1..n : /\ q[i] \in Pcbs /\ q[i] \in Range(q) /\ rel[q[i]] \in Times
                      /\ due[q[i]] = (IF i = 1 THEN 0 ELSE due[q[i - 1]]) + rel[q[i]]
                      /\ due[q[i]] \in 1..MaxSleep /\ due[q[i]] <= left[q[i]]
                      /\ \A j \in i..n : due[q[i]] <= due[q[j]]
  <2>1. \A i \in 1..Len(q) : q[i] \in Pcbs /\ q[i] \in Range(q)
    BY Sleepers, Zenon
  <2> TAKE i \in 1..n
  <2>2. q[i] \in Pcbs /\ q[i] \in Range(q) /\ rel[q[i]] \in Times
    BY <1>3, <2>1, Zenon DEF SleepInv, SleepTypeOK
  <2>3. /\ due[q[i]] = (IF i = 1 THEN 0 ELSE due[q[i - 1]]) + rel[q[i]]
        /\ due[q[i]] \in 0..MaxSleep /\ due[q[i]] > 0 /\ due[q[i]] <= left[q[i]]
        /\ \A j \in i..n : due[q[i]] <= due[q[j]]
    BY <1>1, <1>3, Zenon DEF SleepInv, SleepTimes
  <2>4. due[q[i]] \in 1..MaxSleep
    BY <2>3, SleepConstants
  <2> QED BY <2>2, <2>3, <2>4, Zenon
<1>5. 1 \in 1..n /\ rel[q[1]] = due[q[1]] /\ rel[q[1]] \in 1..TimeMax
  <2>1. 1 \in 1..n
    OBVIOUS
  <2> QED BY <1>4, <2>1, SleepConstants DEF Times
<1>6. Minus(rel[q[1]], 1) = rel[q[1]] - 1 /\ rel[q[1]] - 1 \in Times
  BY <1>5, SleepConstants DEF Minus, Times
<1>7. rel' \in [Pcbs -> Times] /\ rel' = [rel EXCEPT ![q[1]] = rel[q[1]] - 1]
  BY <1>1, <1>5, <1>6, Zenon DEF SleepInv, SleepTypeOK
<1>8. \A i \in 1..n : /\ rel'[q[i]] = IF i = 1 THEN rel[q[i]] - 1 ELSE rel[q[i]]
                      /\ due'[q[i]] = due[q[i]] - 1 /\ left'[q[i]] = left[q[i]] - 1
  <2> TAKE i \in 1..n
  <2>1. q[i] = q[1] <=> i = 1
    BY <1>2, <1>3, <1>5, Zenon
  <2>2. due'[q[i]] = due[q[i]] - 1 /\ left'[q[i]] = left[q[i]] - 1
    BY <1>1, <1>4, Zenon
  <2>3. rel'[q[i]] = IF i = 1 THEN rel[q[i]] - 1 ELSE rel[q[i]]
    BY <1>4, <1>7, <2>1, Zenon DEF SleepInv, SleepTypeOK
  <2> QED BY <2>2, <2>3, Zenon
<1>9. left' \in [Pcbs -> Int] /\ due' \in [Pcbs -> Int]
  BY <1>1, <1>2
<1>10. \A i \in 1..n : /\ due'[q[i]] = (IF i = 1 THEN 0 ELSE due'[q[i - 1]]) + rel'[q[i]]
                       /\ due'[q[i]] \in 0..MaxSleep /\ due'[q[i]] <= left'[q[i]]
                       /\ \A j \in i..n : due'[q[i]] <= due'[q[j]]
  <2> TAKE i \in 1..n
  <2>1. rel[q[i]] \in Int /\ due[q[i]] \in Int /\ left[q[i]] \in Int
    BY <1>2, <1>4, SleepConstants DEF Times
  <2>2. due'[q[i]] = (IF i = 1 THEN 0 ELSE due'[q[i - 1]]) + rel'[q[i]]
    <3>1. CASE i = 1
      BY <1>5, <1>8, <2>1, <3>1
    <3>2. CASE i # 1
      <4>1. i - 1 \in 1..n
        BY <3>2
      <4>2. due[q[i - 1]] \in Int
        BY <1>4, <4>1, SleepConstants
      <4> QED BY <1>4, <1>8, <2>1, <3>2, <4>1, <4>2
    <3> QED BY <3>1, <3>2, Zenon
  <2>3. due'[q[i]] \in 0..MaxSleep /\ due'[q[i]] <= left'[q[i]]
    BY <1>4, <1>8, <2>1, SleepConstants
  <2>4. ASSUME NEW j \in i..n PROVE due'[q[i]] <= due'[q[j]]
    <3>1. j \in 1..n
      OBVIOUS
    <3>2. due[q[i]] <= due[q[j]] /\ due[q[j]] \in Int
      BY <1>4, <3>1, SleepConstants
    <3> QED BY <1>8, <2>1, <3>1, <3>2
  <2> QED BY <2>2, <2>3, <2>4, Zenon
<1>11. SleepTimes'
  <2>1. q' = q /\ waking' /\ Len(q) = n
    BY <1>1, <1>3, Zenon
  <2> QED BY <1>10, <2>1 DEF SleepTimes
<1>12. SleepExact'
  BY <1>1, <1>2, Zenon DEF SleepInv, SleepExact
<1>13. SleepTypeOK' /\ ListInv' /\ Idle' /\ Walking' /\ NoDuplicates(q')
       /\ Range(q') \cap Range(list') = {}
  BY <1>1, <1>7, <1>9, Zenon DEF SleepInv, SleepTypeOK, ListInv, TypeOK, Represents, WalkInv,
     Idle, vars, putVars, Walking
<1> QED BY <1>11, <1>12, <1>13, Zenon DEF SleepInv

(* What every way to leave the sleep list for the ready list keeps.        *)
LEMMA SleepLeaves ==
    ASSUME SleepInv, arg = Null, NEW p \in Range(q), Put(p),
           q' \in Seq(Pcbs), NoDuplicates(q'), Range(q') = Range(q) \ {p},
           rel' \in [Pcbs -> Times], due' \in [Pcbs -> Int], left' \in [Pcbs -> Int],
           \A x \in Pcbs : x # p => left'[x] = left[x],
           UNCHANGED putVars, waking' \in BOOLEAN, exact' \in BOOLEAN,
           exact' => exact /\ left'[p] = 0 /\ \A x \in Range(q') : due'[x] = due[x],
           SleepTimes'
    PROVE  SleepInv'
<1>1. p \in Pcbs /\ \A x \in Range(q) : x \in Pcbs
  BY Sleepers, Zenon
<1>2. ListInv'
  BY <1>1, PutRepresents, Zenon DEF SleepInv
<1>3. Idle' /\ Range(list') = Range(list) \cup {p}
  <2>1. list \in Seq(Pcbs) /\ NoDuplicates(list) /\ p \notin Range(list)
    BY Zenon DEF SleepInv, SleepTypeOK, TypeOK, ListInv, Represents
  <2> QED BY <1>1, <2>1, AppendExact DEF Put, Idle, walkVars
<1>4. SleepTypeOK'
  BY <1>2, Zenon DEF SleepInv, SleepTypeOK, ListInv, putVars
<1>5. SleepExact'
  BY <1>1, Zenon DEF SleepInv, SleepExact
<1>6. Walking'
  BY Zenon DEF Walking, putVars
<1>7. Range(q') \cap Range(list') = {}
  BY <1>3, Zenon DEF SleepInv
<1> QED BY <1>2, <1>3, <1>4, <1>5, <1>6, <1>7, Zenon DEF SleepInv

(* The times of the sleepers, with the length of the list named.           *)
LEMMA SleepersAt ==
    ASSUME SleepInv
    PROVE  \E n \in Nat :
             /\ n = Len(q)
             /\ \A i \in 1..n : /\ q[i] \in Pcbs /\ q[i] \in Range(q)
                                /\ rel[q[i]] \in Nat /\ rel[q[i]] <= due[q[i]]
                                /\ due[q[i]] = (IF i = 1 THEN 0 ELSE due[q[i - 1]]) + rel[q[i]]
                                /\ due[q[i]] \in 0..MaxSleep /\ due[q[i]] <= left[q[i]]
                                /\ due[q[i]] \in Int /\ left[q[i]] \in Int
                                /\ ~waking => due[q[i]] > 0
                                /\ \A j \in i..n : due[q[i]] <= due[q[j]]
             /\ \A i, j \in 1..n : q[i] = q[j] => i = j
<1>1. Len(q) \in Nat /\ \A i, j \in 1..Len(q) : q[i] = q[j] => i = j
  BY Sleepers, Zenon
<1>2. \A i \in 1..Len(q) : /\ q[i] \in Pcbs /\ q[i] \in Range(q)
                           /\ rel[q[i]] \in Nat /\ rel[q[i]] <= due[q[i]]
  BY Sleepers, Zenon
<1>3. SleepTimes /\ left \in [Pcbs -> Int] /\ due \in [Pcbs -> Int]
  BY Zenon DEF SleepInv, SleepTypeOK
<1> QED BY <1>1, <1>2, <1>3, Zenon DEF SleepTimes

(* awake() takes out the sleepers whose time has come, and ends when the   *)
(* first has time left: then so have all.                                  *)
LEMMA AwakePopStep ==
    ASSUME SleepInv, AwakePop
    PROVE  SleepInv'
<1>1. /\ waking /\ UNCHANGED <<rel, putVars, left, due, exact>> /\ arg = Null
  BY Zenon DEF AwakePop, SleepInv, Walking
<1>2. PICK n \in Nat :
             /\ n = Len(q)
             /\ \A i \in 1..n : /\ q[i] \in Pcbs /\ q[i] \in Range(q)
                                /\ rel[q[i]] \in Nat /\ rel[q[i]] <= due[q[i]]
                                /\ due[q[i]] = (IF i = 1 THEN 0 ELSE due[q[i - 1]]) + rel[q[i]]
                                /\ due[q[i]] \in 0..MaxSleep /\ due[q[i]] <= left[q[i]]
                                /\ due[q[i]] \in Int /\ left[q[i]] \in Int
                                /\ \A j \in i..n : due[q[i]] <= due[q[j]]
  BY SleepersAt
<1>3. /\ q \in Seq(Pcbs) /\ (q = <<>> <=> n = 0) /\ NoDuplicates(q)
      /\ rel \in [Pcbs -> Times] /\ left \in [Pcbs -> Int] /\ due \in [Pcbs -> Int]
  BY <1>2, Sleepers, Zenon DEF SleepInv, SleepTypeOK
<1>4. CASE q # <<>> /\ rel[q[1]] = 0
  <2>1. q' = Tail(q) /\ Put(q[1]) /\ waking' = waking
    BY <1>4, Zenon DEF AwakePop
  <2>2. /\ q' \in Seq(Pcbs) /\ NoDuplicates(q') /\ Range(q') = Range(q) \ {q[1]}
        /\ Len(q') = n - 1 /\ \A i \in 1..(n - 1) : q'[i] = q[i + 1]
    BY <1>2, <1>3, <1>4, <2>1, TailExact, TailAt
  <2>3. 1 \in 1..n /\ due[q[1]] = 0 /\ q[1] \in Range(q)
    <3>1. 1 \in 1..n
      BY <1>3, <1>4
    <3>2. rel[q[1]] = due[q[1]]
      BY <1>2, <3>1, Sleepers, Zenon
    <3>3. q[1] \in Range(q)
      BY <1>2, <3>1, Zenon
    <3> QED BY <1>4, <3>1, <3>2, <3>3, Zenon
  <2>4. \A i \in 1..(n - 1) :
           /\ due[q'[i]] = (IF i = 1 THEN 0 ELSE due[q'[i - 1]]) + rel[q'[i]]
           /\ due[q'[i]] \in 0..MaxSleep /\ due[q'[i]] <= left[q'[i]]
           /\ \A j \in i..(n - 1) : due[q'[i]] <= due[q'[j]]
    <3> TAKE i \in 1..(n - 1)
    <3>1. PICK k \in 1..n : k = i + 1 /\ k # 1 /\ k - 1 = i /\ q'[i] = q[k]
      BY <2>2
    <3>2. /\ due[q[k]] = due[q[i]] + rel[q[k]]
          /\ due[q[k]] \in 0..MaxSleep /\ due[q[k]] <= left[q[k]]
      BY <1>2, <3>1, Zenon
    <3>3. IF i = 1 THEN due[q[i]] = 0 ELSE i - 1 \in 1..(n - 1) /\ q'[i - 1] = q[i]
      <4>1. CASE i = 1
        BY <2>3, <4>1, Zenon
      <4>2. CASE i # 1
        <5>1. i - 1 \in 1..(n - 1) /\ i - 1 + 1 = i
          BY <4>2
        <5> QED BY <2>2, <4>2, <5>1, Zenon
      <4> QED BY <4>1, <4>2, Zenon
    <3>4. ASSUME NEW j \in i..(n - 1) PROVE due[q'[i]] <= due[q'[j]]
      <4>1. j + 1 \in k..n /\ j \in 1..(n - 1)
        BY <3>1
      <4> QED BY <1>2, <2>2, <3>1, <4>1, Zenon
    <3> QED BY <3>1, <3>2, <3>3, <3>4, Zenon
  <2>5. SleepTimes'
    BY <1>1, <2>1, <2>2, <2>4, Zenon DEF SleepTimes
  <2>6. exact' => exact /\ left'[q[1]] = 0 /\ \A x \in Range(q') : due'[x] = due[x]
    BY <1>1, <2>3, Zenon DEF SleepInv, SleepExact
  <2> QED BY <1>1, <2>1, <2>2, <2>3, <2>5, <2>6, SleepLeaves, Zenon DEF SleepInv, SleepTypeOK
<1>5. CASE ~(q # <<>> /\ rel[q[1]] = 0)
  <2>1. waking' = FALSE /\ UNCHANGED <<vars, q>>
    BY <1>5, Zenon DEF AwakePop
  <2>2. ASSUME NEW i \in 1..n PROVE due[q[i]] > 0
    <3>1. 1 \in 1..n /\ i \in 1..n /\ q # <<>>
      BY <1>3
    <3>2. due[q[1]] <= due[q[i]] /\ rel[q[1]] \in Nat /\ rel[q[1]] # 0 /\ rel[q[1]] <= due[q[1]]
          /\ due[q[1]] \in Int /\ due[q[i]] \in Int
      BY <1>2, <1>5, <3>1, Zenon
    <3> QED BY <3>2
  <2>3. SleepTimes'
    BY <1>1, <1>2, <2>1, <2>2, Zenon DEF SleepInv, SleepTimes
  <2> QED BY <1>1, <2>1, <2>3, Zenon DEF SleepInv, SleepTypeOK, ListInv, TypeOK, Represents,
             WalkInv, Idle, vars, putVars, Walking, SleepExact
<1> QED BY <1>4, <1>5, Zenon

(* wakeUp() of the first sleeper: the second inherits its time.            *)
LEMMA WakeUpFirstStep ==
    ASSUME SleepInv, NEW p \in Pcbs, WakeUpFirst(p)
    PROVE  SleepInv'
<1>1. /\ arg = Null /\ ~waking /\ q # <<>> /\ q[1] = p /\ q' = Tail(q) /\ Put(p)
      /\ rel' = IF Len(q) = 1 THEN [rel EXCEPT ![p] = 0]
                ELSE [rel EXCEPT ![p] = 0, ![q[2]] = @ + rel[p]]
      /\ left' = [left EXCEPT ![p] = 0] /\ UNCHANGED <<waking, putVars, due, exact>>
  BY Zenon DEF WakeUpFirst, Quiet
<1>2. PICK n \in Nat :
             /\ n = Len(q)
             /\ \A i \in 1..n : /\ q[i] \in Pcbs /\ q[i] \in Range(q)
                                /\ rel[q[i]] \in Nat /\ rel[q[i]] <= due[q[i]]
                                /\ due[q[i]] = (IF i = 1 THEN 0 ELSE due[q[i - 1]]) + rel[q[i]]
                                /\ due[q[i]] \in 0..MaxSleep /\ due[q[i]] <= left[q[i]]
                                /\ due[q[i]] \in Int /\ left[q[i]] \in Int
                                /\ ~waking => due[q[i]] > 0
                                /\ \A j \in i..n : due[q[i]] <= due[q[j]]
             /\ \A i, j \in 1..n : q[i] = q[j] => i = j
  BY SleepersAt, Zenon
<1>3. /\ q \in Seq(Pcbs) /\ (q = <<>> <=> n = 0) /\ NoDuplicates(q)
      /\ rel \in [Pcbs -> Times] /\ left \in [Pcbs -> Int] /\ due \in [Pcbs -> Int]
  BY <1>2, Sleepers, Zenon DEF SleepInv, SleepTypeOK
<1>4. /\ q' \in Seq(Pcbs) /\ NoDuplicates(q') /\ Range(q') = Range(q) \ {p}
      /\ Len(q') = n - 1 /\ \A i \in 1..(n - 1) : q'[i] = q[i + 1]
  BY <1>1, <1>2, <1>3, TailExact
<1>5. 1 \in 1..n /\ due[p] = rel[p] /\ p \in Range(q) /\ rel[p] \in Nat
  <2>1. 1 \in 1..n
    BY <1>1, <1>3
  <2>2. rel[q[1]] = due[q[1]]
    BY <1>2, <2>1, Sleepers, Zenon
  <2>3. q[1] \in Range(q) /\ rel[q[1]] \in Nat
    BY <1>2, <2>1, Zenon
  <2> QED BY <1>1, <2>1, <2>2, <2>3, Zenon
<1>6. /\ n # 1 => 2 \in 1..n /\ q[2] \in Pcbs /\ q[2] # p /\ due[q[2]] = rel[p] + rel[q[2]]
                  /\ rel[q[2]] \in Nat /\ due[q[2]] \in 0..MaxSleep
      /\ n # 1 => rel' = [rel EXCEPT ![p] = 0, ![q[2]] = rel[q[2]] + rel[p]]
      /\ n = 1 => rel' = [rel EXCEPT ![p] = 0]
  <2>1. n # 1 => 2 \in 1..n
    BY <1>5
  <2>2. n # 1 => due[q[2]] = (IF 2 = 1 THEN 0 ELSE due[q[2 - 1]]) + rel[q[2]]
    BY <1>2, <2>1, Zenon
  <2>3. 2 - 1 = 1
    OBVIOUS
  <2>4. n # 1 => due[q[2]] = due[q[1]] + rel[q[2]]
    BY <2>2, <2>3
  <2>5. n # 1 => q[2] \in Pcbs /\ q[2] # p /\ rel[q[2]] \in Nat /\ due[q[2]] \in 0..MaxSleep
    BY <1>1, <1>2, <2>1
  <2>6. n # 1 => rel' = [rel EXCEPT ![p] = 0, ![q[2]] = rel[q[2]] + rel[p]]
    BY <1>1, <1>2, <1>3, <2>5, Zenon
  <2> QED BY <1>1, <1>2, <1>5, <2>1, <2>4, <2>5, <2>6, Zenon
<1>7. rel' \in [Pcbs -> Times]
  <2>1. 0 \in Times
    BY SleepConstants DEF Times
  <2>2. n # 1 => rel[q[2]] + rel[p] \in Times
    BY <1>5, <1>6, SleepConstants DEF Times
  <2> QED BY <1>3, <1>6, <2>1, <2>2, Zenon
<1>8. \A i \in 1..n : i > 1 => rel'[q[i]] = IF i = 2 THEN due[q[i]] ELSE rel[q[i]]
  <2> SUFFICES ASSUME NEW i \in 1..n, i > 1
               PROVE  rel'[q[i]] = IF i = 2 THEN due[q[i]] ELSE rel[q[i]]
    BY Zenon
  <2>1. n # 1 /\ q[i] # p /\ (q[i] = q[2] <=> i = 2) /\ q[i] \in Pcbs
    <3>1. n # 1 /\ 2 \in 1..n /\ i # 1
      BY <1>5
    <3> QED BY <1>1, <1>2, <1>5, <3>1, Zenon
  <2>2. due[q[2]] = rel[q[2]] + rel[p]
    <3>1. due[q[2]] = rel[p] + rel[q[2]] /\ rel[p] \in Nat /\ rel[q[2]] \in Nat
      BY <1>5, <1>6, <2>1, Zenon
    <3> QED BY <3>1
  <2> QED BY <1>3, <1>6, <2>1, <2>2, Zenon
<1>9. \A i \in 1..n : i > 1 => left'[q[i]] = left[q[i]]
  BY <1>1, <1>2, <1>3, <1>5
<1>10. \A i \in 1..(n - 1) :
         /\ due[q'[i]] = (IF i = 1 THEN 0 ELSE due[q'[i - 1]]) + rel'[q'[i]]
         /\ due[q'[i]] \in 0..MaxSleep /\ due[q'[i]] <= left'[q'[i]] /\ due[q'[i]] > 0
         /\ \A j \in i..(n - 1) : due[q'[i]] <= due[q'[j]]
  <2> TAKE i \in 1..(n - 1)
  <2>1. PICK k \in 1..n : k = i + 1 /\ k > 1 /\ k - 1 = i /\ q'[i] = q[k] /\ (k = 2 <=> i = 1)
    BY <1>4
  <2>2. /\ due[q[k]] \in 0..MaxSleep /\ due[q[k]] <= left'[q[k]] /\ due[q[k]] > 0
        /\ due[q[k]] \in Int
    BY <1>1, <1>2, <1>9, <2>1, Zenon
  <2>3. due[q[k]] = (IF i = 1 THEN 0 ELSE due[q'[i - 1]]) + rel'[q[k]]
    <3>1. CASE i = 1
      BY <1>8, <2>1, <2>2, <3>1
    <3>2. CASE i # 1
      <4>1. i - 1 \in 1..(n - 1) /\ i - 1 + 1 = i
        BY <3>2
      <4>2. q'[i - 1] = q[i]
        BY <1>4, <4>1, Zenon
      <4>3. due[q[k]] = due[q[i]] + rel[q[k]]
        BY <1>2, <2>1
      <4>4. rel'[q[k]] = rel[q[k]]
        BY <1>8, <2>1, <3>2, Zenon
      <4> QED BY <3>2, <4>2, <4>3, <4>4, Zenon
    <3> QED BY <3>1, <3>2, Zenon
  <2>4. ASSUME NEW j \in i..(n - 1) PROVE due[q'[i]] <= due[q'[j]]
    <3>1. j + 1 \in k..n /\ j \in 1..(n - 1)
      BY <2>1
    <3>2. q'[j] = q[j + 1]
      BY <1>4, <3>1, Zenon
    <3>3. due[q[k]] <= due[q[j + 1]]
      BY <1>2, <3>1, Zenon
    <3> QED BY <2>1, <3>2, <3>3, Zenon
  <2> QED BY <2>1, <2>2, <2>3, <2>4, Zenon
<1>11. SleepTimes'
  BY <1>1, <1>4, <1>10, Zenon DEF SleepTimes
<1>12. left' \in [Pcbs -> Int] /\ left'[p] = 0 /\ \A x \in Pcbs : x # p => left'[x] = left[x]
  BY <1>1, <1>3
<1>13. /\ waking' \in BOOLEAN /\ exact' \in BOOLEAN /\ due' \in [Pcbs -> Int]
       /\ exact' => exact /\ left'[p] = 0 /\ \A x \in Range(q') : due'[x] = due[x]
  BY <1>1, <1>3, <1>12, Zenon DEF SleepInv, SleepTypeOK
<1> QED BY <1>1, <1>4, <1>5, <1>7, <1>11, <1>12, <1>13, SleepLeaves, Zenon

(* wakeUp() of the last sleeper: nobody else is due later.                 *)
LEMMA WakeUpLastStep ==
    ASSUME SleepInv, NEW p \in Pcbs, WakeUpLast(p)
    PROVE  SleepInv'
<1>1. /\ arg = Null /\ ~waking /\ Len(q) > 1 /\ q[Len(q)] = p /\ q' = Unlink(q, p) /\ Put(p)
      /\ rel' = [rel EXCEPT ![p] = 0] /\ left' = [left EXCEPT ![p] = 0]
      /\ UNCHANGED <<waking, putVars, due, exact>>
  BY Zenon DEF WakeUpLast, Quiet
<1>2. PICK n \in Nat :
             /\ n = Len(q)
             /\ \A i \in 1..n : /\ q[i] \in Pcbs /\ q[i] \in Range(q)
                                /\ rel[q[i]] \in Nat /\ rel[q[i]] <= due[q[i]]
                                /\ due[q[i]] = (IF i = 1 THEN 0 ELSE due[q[i - 1]]) + rel[q[i]]
                                /\ due[q[i]] \in 0..MaxSleep /\ due[q[i]] <= left[q[i]]
                                /\ due[q[i]] \in Int /\ left[q[i]] \in Int
                                /\ ~waking => due[q[i]] > 0
                                /\ \A j \in i..n : due[q[i]] <= due[q[j]]
             /\ \A i, j \in 1..n : q[i] = q[j] => i = j
  BY SleepersAt, Zenon
<1>3. /\ q \in Seq(Pcbs) /\ (q = <<>> <=> n = 0) /\ NoDuplicates(q)
      /\ rel \in [Pcbs -> Times] /\ left \in [Pcbs -> Int] /\ due \in [Pcbs -> Int]
  BY <1>2, Sleepers, Zenon DEF SleepInv, SleepTypeOK
<1>4. n \in 1..n /\ p = q[n] /\ p \in Range(q)
  BY <1>1, <1>2
<1>5. /\ q' \in Seq(Pcbs) /\ NoDuplicates(q') /\ Range(q') = Range(q) \ {p}
  BY <1>1, <1>3, UnlinkExact
<1>6. Len(q') = n - 1 /\ \A i \in 1..(n - 1) : q'[i] = q[i]
  <2>1. /\ Len(Unlink(q, q[n])) = n - 1
        /\ \A i \in 1..(n - 1) : Unlink(q, q[n])[i] = IF i < n THEN q[i] ELSE q[i + 1]
    <3>1. q \in Seq(Pcbs) /\ NoDuplicates(q) /\ n \in 1..Len(q) /\ n = Len(q)
      BY <1>2, <1>3, <1>4, Zenon
    <3> QED BY <3>1, UnlinkAt, Zenon
  <2>2. \A i \in 1..(n - 1) : i < n
    OBVIOUS
  <2> QED BY <1>1, <1>4, <2>1, <2>2, Zenon
<1>7. rel' \in [Pcbs -> Times] /\ left' \in [Pcbs -> Int] /\ left'[p] = 0
      /\ \A x \in Pcbs : x # p => left'[x] = left[x] /\ rel'[x] = rel[x]
  <2>1. 0 \in Times
    BY SleepConstants DEF Times
  <2> QED BY <1>1, <1>3, <2>1
<1>8. \A i \in 1..(n - 1) : i \in 1..n /\ rel'[q[i]] = rel[q[i]] /\ left'[q[i]] = left[q[i]]
  <2> TAKE i \in 1..(n - 1)
  <2>1. i \in 1..n /\ i # n
    OBVIOUS
  <2>2. q[i] \in Pcbs /\ q[i] # p
    BY <1>2, <1>4, <2>1, Zenon
  <2> QED BY <1>7, <2>1, <2>2, Zenon
<1>9. SleepTimes'
  <2>1. \A i \in 1..(n - 1) :
           /\ due[q'[i]] = (IF i = 1 THEN 0 ELSE due[q'[i - 1]]) + rel'[q'[i]]
           /\ due[q'[i]] \in 0..MaxSleep /\ due[q'[i]] <= left'[q'[i]] /\ due[q'[i]] > 0
           /\ \A j \in i..(n - 1) : due[q'[i]] <= due[q'[j]]
    <3> TAKE i \in 1..(n - 1)
    <3>1. i \in 1..n /\ (i = 1 \/ i - 1 \in 1..(n - 1)) /\ q'[i] = q[i]
      BY <1>6
    <3>2. IF i = 1 THEN TRUE ELSE q'[i - 1] = q[i - 1]
      BY <1>6
    <3>3. /\ due[q[i]] = (IF i = 1 THEN 0 ELSE due[q[i - 1]]) + rel[q[i]]
          /\ due[q[i]] \in 0..MaxSleep /\ due[q[i]] <= left[q[i]] /\ due[q[i]] > 0
      BY <1>1, <1>2, <3>1, Zenon
    <3>4. ASSUME NEW j \in i..(n - 1) PROVE due[q'[i]] <= due[q'[j]]
      <4>1. j \in i..n /\ j \in 1..(n - 1)
        OBVIOUS
      <4> QED BY <1>2, <1>6, <3>1, <4>1, Zenon
    <3> QED BY <1>8, <3>1, <3>2, <3>3, <3>4, Zenon
  <2> QED BY <1>1, <1>6, <2>1 DEF SleepTimes
<1>10. /\ waking' \in BOOLEAN /\ exact' \in BOOLEAN /\ due' \in [Pcbs -> Int]
       /\ exact' => exact /\ left'[p] = 0 /\ \A x \in Range(q') : due'[x] = due[x]
  BY <1>1, <1>7, Zenon DEF SleepInv, SleepTypeOK
<1> QED BY <1>1, <1>4, <1>5, <1>7, <1>9, <1>10, SleepLeaves, Zenon

(* What taking one amount from several times leaves as it is.              *)
LEMMA Lowered ==
    ASSUME NEW r \in Nat
    PROVE  /\ \A a \in Int : a = (a + r) - r
           /\ \A a, b \in Int : a <= b => a - r <= b - r
           /\ \A a, b, c \in Int : a <= b /\ b + r <= c => a <= c - r
           /\ \A a, b, s \in Int : a = b + s => a - r = (b - r) + s
           /\ \A a, b \in Int, m \in Nat :
                 a \in 0..m /\ a <= b /\ a - r > 0 => a - r \in 0..m /\ a - r <= b
  OBVIOUS

(* wakeUp() of a sleeper between two others: its successors lose its time. *)
LEMMA WakeUpMiddleStep ==
    ASSUME SleepInv, NEW p \in Pcbs, WakeUpMiddle(p)
    PROVE  SleepInv'
<1>1. /\ arg = Null /\ ~waking /\ q' = Unlink(q, p) /\ Put(p)
      /\ rel' = [rel EXCEPT ![p] = 0] /\ left' = [left EXCEPT ![p] = 0]
      /\ exact' = (exact /\ rel[p] = 0) /\ UNCHANGED <<waking, putVars>>
  BY Zenon DEF WakeUpMiddle, Quiet
<1>2. PICK n \in Nat :
             /\ n = Len(q)
             /\ \A i \in 1..n : /\ q[i] \in Pcbs /\ q[i] \in Range(q)
                                /\ rel[q[i]] \in Nat /\ rel[q[i]] <= due[q[i]]
                                /\ due[q[i]] = (IF i = 1 THEN 0 ELSE due[q[i - 1]]) + rel[q[i]]
                                /\ due[q[i]] \in 0..MaxSleep /\ due[q[i]] <= left[q[i]]
                                /\ due[q[i]] \in Int /\ left[q[i]] \in Int
                                /\ ~waking => due[q[i]] > 0
                                /\ \A j \in i..n : due[q[i]] <= due[q[j]]
             /\ \A i, j \in 1..n : q[i] = q[j] => i = j
  BY SleepersAt, Zenon
<1>3. /\ q \in Seq(Pcbs) /\ (q = <<>> <=> n = 0) /\ NoDuplicates(q)
      /\ rel \in [Pcbs -> Times] /\ left \in [Pcbs -> Int] /\ due \in [Pcbs -> Int]
  BY <1>2, Sleepers, Zenon DEF SleepInv, SleepTypeOK
<1>4. PICK k \in 2..(n - 1) :
         /\ q[k] = p
         /\ due' = [x \in Pcbs |-> IF \E j \in (k + 1)..n : q[j] = x
                                   THEN due[x] - rel[p] ELSE due[x]]
  <2>1. \E k \in 2..(Len(q) - 1) :
         /\ q[k] = p
         /\ due' = [x \in Pcbs |-> IF \E j \in (k + 1)..Len(q) : q[j] = x
                                   THEN due[x] - rel[p] ELSE due[x]]
    BY Zenon DEF WakeUpMiddle
  <2>2. n = Len(q)
    BY <1>2, Zenon
  <2> QED BY <2>1, <2>2
<1>5. /\ k \in 1..n /\ k - 1 \in 1..n /\ k # 1 /\ p \in Range(q)
      /\ rel[p] \in Nat /\ due[p] = due[q[k - 1]] + rel[p]
  <2>1. k \in 1..n /\ k - 1 \in 1..n /\ k # 1
    OBVIOUS
  <2> QED BY <1>2, <1>4, <2>1, Zenon
<1>6. /\ q' \in Seq(Pcbs) /\ NoDuplicates(q') /\ Range(q') = Range(q) \ {p}
  BY <1>1, <1>3, UnlinkExact, Zenon
<1>7. Len(q') = n - 1 /\ \A i \in 1..(n - 1) : q'[i] = IF i < k THEN q[i] ELSE q[i + 1]
  <2>1. /\ Len(Unlink(q, q[k])) = n - 1
        /\ \A i \in 1..(n - 1) : Unlink(q, q[k])[i] = IF i < k THEN q[i] ELSE q[i + 1]
    <3>1. q \in Seq(Pcbs) /\ NoDuplicates(q) /\ k \in 1..Len(q) /\ n = Len(q)
      BY <1>2, <1>3, <1>5, Zenon
    <3> QED BY <3>1, UnlinkAt, Zenon
  <2> QED BY <1>1, <1>4, <2>1, Zenon
<1>8. rel' \in [Pcbs -> Times] /\ left' \in [Pcbs -> Int] /\ left'[p] = 0
      /\ \A x \in Pcbs : x # p => left'[x] = left[x] /\ rel'[x] = rel[x]
  <2>1. 0 \in Times
    BY SleepConstants DEF Times
  <2> QED BY <1>1, <1>3, <2>1
<1>9. due' \in [Pcbs -> Int] /\ (rel[p] = 0 => \A x \in Pcbs : due'[x] = due[x])
  <2>1. rel[p] \in Int
    BY <1>5
  <2>2. ASSUME NEW x \in Pcbs
        PROVE  due'[x] \in Int /\ (rel[p] = 0 => due'[x] = due[x])
    <3>1. due[x] \in Int
      BY <1>3, Zenon
    <3>2. due'[x] = due[x] - rel[p] \/ due'[x] = due[x]
      BY <1>4, Zenon
    <3> QED BY <2>1, <3>1, <3>2
  <2>3. due' = [x \in Pcbs |-> due'[x]]
    BY <1>4, Zenon
  <2> QED BY <2>2, <2>3, Zenon
<1>10. \A i \in 1..n : i # k =>
         /\ rel'[q[i]] = rel[q[i]] /\ left'[q[i]] = left[q[i]]
         /\ due'[q[i]] = IF i < k THEN due[q[i]] ELSE due[q[i]] - rel[p]
  <2> SUFFICES ASSUME NEW i \in 1..n, i # k
               PROVE  /\ rel'[q[i]] = rel[q[i]] /\ left'[q[i]] = left[q[i]]
                      /\ due'[q[i]] = IF i < k THEN due[q[i]] ELSE due[q[i]] - rel[p]
    BY Zenon
  <2>1. q[i] \in Pcbs /\ q[i] # p
    BY <1>2, <1>4, <1>5, Zenon
  <2>2. (\E j \in (k + 1)..n : q[j] = q[i]) <=> ~(i < k)
    <3>1. ASSUME NEW j \in (k + 1)..n, q[j] = q[i] PROVE ~(i < k)
      <4>1. j \in 1..n
        OBVIOUS
      <4>2. i = j
        BY <1>2, <3>1
      <4> QED BY <4>2
    <3>2. ASSUME ~(i < k) PROVE i \in (k + 1)..n
      BY <3>2
    <3> QED BY <3>1, <3>2, Zenon
  <2> QED BY <1>4, <1>8, <2>1, <2>2, Zenon
<1>11. SleepTimes'
  <2>1. \A i \in 1..(n - 1) :
           /\ due'[q'[i]] = (IF i = 1 THEN 0 ELSE due'[q'[i - 1]]) + rel'[q'[i]]
           /\ due'[q'[i]] \in 0..MaxSleep /\ due'[q'[i]] <= left'[q'[i]] /\ due'[q'[i]] > 0
           /\ \A j \in i..(n - 1) : due'[q'[i]] <= due'[q'[j]]
    <3> TAKE i \in 1..(n - 1)
    <3>1. CASE i < k
      <4>1. i \in 1..n /\ i # k /\ q'[i] = q[i] /\ (i = 1 \/ i - 1 \in 1..(n - 1))
        BY <1>7, <3>1
      <4>2. IF i = 1 THEN TRUE ELSE q'[i - 1] = q[i - 1] /\ due'[q[i - 1]] = due[q[i - 1]]
        <5>1. i # 1 => i - 1 \in 1..n /\ i - 1 \in 1..(n - 1) /\ i - 1 < k /\ i - 1 # k
          BY <3>1
        <5> QED BY <1>7, <1>10, <5>1, Zenon
      <4>3. /\ due[q[i]] = (IF i = 1 THEN 0 ELSE due[q[i - 1]]) + rel[q[i]]
            /\ due[q[i]] \in 0..MaxSleep /\ due[q[i]] <= left[q[i]] /\ due[q[i]] > 0
        BY <1>1, <1>2, <4>1, Zenon
      <4>4. due'[q[i]] = due[q[i]] /\ rel'[q[i]] = rel[q[i]] /\ left'[q[i]] = left[q[i]]
        BY <1>10, <3>1, <4>1, Zenon
      <4>5. ASSUME NEW j \in i..(n - 1) PROVE due'[q'[i]] <= due'[q'[j]]
        <5>1. j \in i..n /\ j \in 1..n /\ j + 1 \in 1..n /\ j \in 1..(n - 1) /\ i \in 1..n
          OBVIOUS
        <5>2. CASE j < k
          <6>1. j # k
            BY <5>2
          <6>2. q'[j] = q[j] /\ due'[q[j]] = due[q[j]]
            BY <1>7, <1>10, <5>1, <5>2, <6>1, Zenon
          <6>3. due[q[i]] <= due[q[j]]
            BY <1>2, <5>1, Zenon
          <6> QED BY <4>1, <4>4, <6>2, <6>3, Zenon
        <5>3. CASE ~(j < k)
          <6>1. j + 1 # k /\ ~(j + 1 < k) /\ k - 1 \in i..n /\ j + 1 \in k..n
            BY <3>1, <5>3
          <6>2. due[q[i]] <= due[q[k - 1]] /\ due[q[k]] <= due[q[j + 1]]
            BY <1>2, <1>5, <5>1, <6>1, Zenon
          <6>3. due'[q'[j]] = due[q[j + 1]] - rel[p]
            BY <1>7, <1>10, <5>1, <5>3, <6>1, Zenon
          <6>4. due[q[i]] \in Int /\ due[q[k - 1]] \in Int /\ due[q[j + 1]] \in Int
            BY <1>2, <1>5, <5>1, Zenon
          <6>5. due[q[k]] = due[q[k - 1]] + rel[p]
            BY <1>4, <1>5, Zenon
          <6>6. due[q[i]] <= due[q[j + 1]] - rel[p]
            <7>1. due[q[k - 1]] + rel[p] <= due[q[j + 1]]
              BY <6>2, <6>5, Zenon
            <7> QED BY <1>5, <6>2, <6>4, <7>1, Lowered, Zenon
          <6> QED BY <4>1, <4>4, <6>3, <6>6, Zenon
        <5> QED BY <5>2, <5>3, Zenon
      <4> QED BY <4>1, <4>2, <4>3, <4>4, <4>5, Zenon
    <3>2. CASE ~(i < k)
      <4>1. PICK m \in 1..n : m = i + 1 /\ q'[i] = q[m] /\ m # k /\ ~(m < k) /\ m - 1 = i /\ m # 1
        BY <1>7, <3>2
      <4>2. /\ due[q[m]] = due[q[i]] + rel[q[m]] /\ due[q[m]] \in 0..MaxSleep
            /\ due[q[m]] <= left[q[m]] /\ rel[q[m]] \in Nat /\ due[q[m]] \in Int
            /\ left[q[m]] \in Int
        BY <1>2, <4>1, Zenon
      <4>3. /\ due'[q[m]] = due[q[m]] - rel[p] /\ rel'[q[m]] = rel[q[m]]
            /\ left'[q[m]] = left[q[m]]
        BY <1>10, <4>1, Zenon
      <4>4. /\ i # 1 /\ i - 1 \in 1..(n - 1) /\ i \in 1..n
            /\ due'[q'[i - 1]] = due[q[i]] - rel[p]
        <5>1. i # 1 /\ i - 1 \in 1..(n - 1) /\ i \in 1..n /\ i - 1 + 1 = i
          BY <3>2
        <5>2. CASE i = k
          <6>1. i - 1 < k /\ i - 1 # k /\ i - 1 \in 1..n
            BY <5>2
          <6>2. q'[i - 1] = q[i - 1] /\ due'[q[i - 1]] = due[q[i - 1]]
            BY <1>7, <1>10, <5>1, <6>1, Zenon
          <6>3. due[q[i]] = due[q[i - 1]] + rel[p] /\ due[q[i - 1]] \in Int
            BY <1>2, <1>4, <1>5, <5>2, Zenon
          <6>4. due[q[i - 1]] = due[q[i]] - rel[p]
            <7>1. due[q[i - 1]] = (due[q[i - 1]] + rel[p]) - rel[p]
              BY <1>5, <6>3, Lowered, Zenon
            <7> QED BY <6>3, <7>1, Zenon
          <6> QED BY <5>1, <6>2, <6>4, Zenon
        <5>3. CASE i # k
          <6>1. ~(i - 1 < k) /\ ~(i < k)
            BY <3>2, <5>3
          <6>2. q'[i - 1] = q[i]
            BY <1>7, <5>1, <6>1, Zenon
          <6> QED BY <1>10, <5>1, <5>3, <6>1, <6>2, Zenon
        <5> QED BY <5>2, <5>3, Zenon
      <4>5. due[q[i]] \in Int /\ due[q[i]] >= due[q[k]] /\ due[q[k]] = due[q[k - 1]] + rel[p]
            /\ due[q[k - 1]] > 0 /\ due[q[k - 1]] \in Int
        <5>1. i \in k..n
          BY <3>2
        <5> QED BY <1>1, <1>2, <1>4, <1>5, <4>4, <5>1, Zenon
      <4>6. ASSUME NEW j \in i..(n - 1) PROVE due'[q'[i]] <= due'[q'[j]]
        <5>1. j \in 1..(n - 1) /\ ~(j < k) /\ j + 1 \in m..n /\ j + 1 \in 1..n /\ j + 1 # k
              /\ ~(j + 1 < k)
          BY <3>2, <4>1
        <5>2. q'[j] = q[j + 1] /\ due'[q[j + 1]] = due[q[j + 1]] - rel[p]
          BY <1>7, <1>10, <5>1, Zenon
        <5>3. due[q[m]] <= due[q[j + 1]] /\ due[q[j + 1]] \in Int
          BY <1>2, <5>1, Zenon
        <5>4. due[q[m]] - rel[p] <= due[q[j + 1]] - rel[p]
          BY <1>5, <4>2, <5>3, Lowered, Zenon
        <5> QED BY <4>1, <4>3, <5>2, <5>4, Zenon
      <4>7. due'[q'[i]] = (IF i = 1 THEN 0 ELSE due'[q'[i - 1]]) + rel'[q'[i]]
        <5>1. due[q[m]] - rel[p] = (due[q[i]] - rel[p]) + rel[q[m]]
          BY <1>5, <4>2, <4>5
        <5> QED BY <4>1, <4>3, <4>4, <5>1, Zenon
      <4>8. due'[q'[i]] \in 0..MaxSleep /\ due'[q'[i]] <= left'[q'[i]] /\ due'[q'[i]] > 0
        <5>1. due[q[m]] - rel[p] > 0
          BY <1>5, <4>2, <4>5
        <5>2. due[q[m]] - rel[p] \in 0..MaxSleep /\ due[q[m]] - rel[p] <= left[q[m]]
          BY <1>5, <4>2, <5>1, SleepConstants, Lowered, Zenon
        <5> QED BY <4>1, <4>3, <5>1, <5>2, Zenon
      <4> QED BY <4>6, <4>7, <4>8, Zenon
    <3> QED BY <3>1, <3>2, Zenon
  <2> QED BY <1>1, <1>7, <2>1, Zenon DEF SleepTimes
<1>12. /\ waking' \in BOOLEAN /\ exact' \in BOOLEAN
       /\ exact' => exact /\ left'[p] = 0 /\ \A x \in Range(q') : due'[x] = due[x]
  <2>1. \A x \in Range(q') : x \in Pcbs
    BY <1>6, Sleepers, Zenon
  <2> QED BY <1>1, <1>8, <1>9, <2>1, Zenon DEF SleepInv, SleepTypeOK
<1> QED BY <1>1, <1>5, <1>6, <1>8, <1>9, <1>11, <1>12, SleepLeaves, Zenon

(* put() and get() of the ready list leave the sleep list alone.           *)
LEMMA ReadyListStep ==
    ASSUME SleepInv,
           (\E p \in Pcbs : SchedulerPut(p)) \/ SchedulerGet
           \/ UNCHANGED <<vars, sleepVars>>
    PROVE  SleepInv'
<1>1. UNCHANGED sleepVars /\ [Next]_vars
  BY Zenon DEF SchedulerPut, SchedulerGet, Next
<1>2. ListInv'
  BY <1>1, ListStep, Zenon DEF SleepInv
<1>3. /\ SleepTimes' /\ SleepExact' /\ NoDuplicates(q')
  BY <1>1, Zenon DEF SleepInv, sleepVars, SleepTimes, SleepExact
<1>4. SleepTypeOK'
  BY <1>1, <1>2, Zenon DEF SleepInv, SleepTypeOK, ListInv, sleepVars
<1>5. list \in Seq(Pcbs) /\ NoDuplicates(list)
  BY Zenon DEF SleepInv, SleepTypeOK, TypeOK, ListInv, Represents
<1>6. CASE \E p \in Pcbs : SchedulerPut(p)
  <2>1. PICK p \in Pcbs : /\ arg = Null /\ p \notin Range(q) /\ p \notin Range(list)
                          /\ list' = Append(list, p) /\ UNCHANGED walkVars
    BY <1>6, Zenon DEF SchedulerPut, Quiet, Put
  <2>2. Range(list') = Range(list) \cup {p}
    BY <1>5, <2>1, AppendExact
  <2>3. Range(q') \cap Range(list') = {}
    BY <1>1, <2>1, <2>2, Zenon DEF SleepInv, sleepVars
  <2>4. Walking' /\ Idle'
    BY <1>1, <2>1, Zenon DEF SleepInv, Walking, Idle, sleepVars, walkVars
  <2> QED BY <1>2, <1>3, <1>4, <2>3, <2>4, Zenon DEF SleepInv
<1>7. CASE SchedulerGet
  <2>1. arg = Null /\ (list' = list \/ list' = Tail(list)) /\ UNCHANGED walkVars
    BY <1>7, Zenon DEF SchedulerGet, Quiet, Get
  <2>2. Range(list') \subseteq Range(list)
    <3>1. CASE list # <<>>
      <4>1. Range(Tail(list)) \subseteq Range(list)
        BY <1>5, <3>1, TailExact, Zenon
      <4> QED BY <2>1, <4>1, Zenon
    <3>2. CASE list = <<>>
      <4>1. head = Null
        BY <3>2, Represented, Zenon DEF SleepInv, ListInv
      <4> QED BY <1>7, <4>1, Zenon DEF SchedulerGet, Get
    <3> QED BY <3>1, <3>2, Zenon
  <2>3. Range(q') \cap Range(list') = {}
    BY <1>1, <2>2, Zenon DEF SleepInv, sleepVars
  <2>4. Walking' /\ Idle'
    BY <1>1, <2>1, Zenon DEF SleepInv, Walking, Idle, sleepVars, walkVars
  <2> QED BY <1>2, <1>3, <1>4, <2>3, <2>4, Zenon DEF SleepInv
<1>8. CASE UNCHANGED <<vars, sleepVars>>
  BY <1>2, <1>3, <1>4, <1>8, Zenon DEF SleepInv, Walking, Idle, sleepVars, vars
<1> QED BY <1>6, <1>7, <1>8, Zenon

(* Every step of the scheduler keeps the invariant of the sleep list.      *)
LEMMA SleepStep ==
    ASSUME SleepInv, [SchedulerNext]_<<vars, sleepVars>>
    PROVE  SleepInv'
  BY PutSleepEmptyStep, PutSleepWalks, PutSleepLinkStep, AwakeTickStep, AwakePopStep,
     WakeUpFirstStep, WakeUpLastStep, WakeUpMiddleStep, ReadyListStep, Zenon DEF SchedulerNext

(* Two empty lists satisfy the invariant.                                  *)
LEMMA SleepInit == SchedulerInit => SleepInv
<1> SUFFICES ASSUME SchedulerInit PROVE SleepInv
  BY Zenon
<1>1. q = <<>> /\ Init /\ Range(q) = {} /\ Len(q) = 0 /\ q \in Seq(Pcbs)
  BY DEF SchedulerInit, Range
<1>2. ListInv /\ Idle
  BY <1>1, ListInit, Zenon DEF Init, Idle
<1>3. SleepTypeOK
  <2>1. 0 \in Times /\ 0 \in Nat /\ 0 \in Int
    BY SleepConstants DEF Times
  <2>2. rel \in [Pcbs -> Times] /\ left \in [Pcbs -> Int] /\ due \in [Pcbs -> Int]
    BY <2>1, Zenon DEF SchedulerInit
  <2> QED BY <1>1, <1>2, <2>1, <2>2, Zenon DEF SchedulerInit, SleepTypeOK, ListInv
<1>4. SleepTimes /\ SleepExact /\ Walking /\ NoDuplicates(q)
  BY DEF SchedulerInit, SleepTimes, SleepExact, Walking, NoDuplicates
<1> QED BY <1>1, <1>2, <1>3, <1>4, Zenon DEF SleepInv

(* The relative times, the ticks left and the walk of putSleep() agree in  *)
(* every reachable state of the Scheduler.                                 *)
THEOREM SleepInductive == SchedulerSpec => []SleepInv
  BY SleepInit, SleepStep, PTL DEF SchedulerSpec

(* Nobody sleeps longer than it asked for, and without a removal from the  *)
(* middle everybody becomes READY at exactly the tick asked for, whatever  *)
(* the number of PCBs, the times and the order of putSleep(), awake() and  *)
(* wakeUp(): SleepQueue!WakesOnTime.                                       *)
THEOREM SleepersWakeOnTime == SchedulerSpec => []WakesOnTime
<1>1. SleepInv => WakesOnTime
  <2> SUFFICES ASSUME SleepInv PROVE WakesOnTime
    BY Zenon
  <2>1. ASSUME ~waking, NEW p \in Range(q) PROVE left[p] > 0
    <3>1. PICK i \in 1..Len(q) : q[i] = p
      BY Sleepers, Zenon
    <3>2. due[q[i]] > 0 /\ due[q[i]] <= left[q[i]] /\ due[q[i]] \in Int /\ left[q[i]] \in Int
      BY <2>1, SleepersAt, Zenon
    <3> QED BY <3>1, <3>2
  <2>2. exact => \A p \in Pcbs : p \notin Range(q) => left[p] = 0
    BY Zenon DEF SleepInv, SleepExact
  <2>3. waking \in BOOLEAN
    BY Zenon DEF SleepInv, SleepTypeOK
  <2> QED BY <2>1, <2>2, <2>3, Zenon DEF WakesOnTime
<1> QED BY <1>1, SleepInductive, PTL

(* Whatever the Scheduler does with its two lists, the ready list only     *)
(* sees put() and get(): it is the list of IntrusiveList, represented by   *)
(* its pointers, and a FIFO.                                               *)
THEOREM SchedulerKeepsList == SchedulerSpec => Spec /\ []Represents /\ FifoSpec
<1>1. SchedulerInit => Init
  BY Zenon DEF SchedulerInit
<1>2. SleepInv /\ [SchedulerNext]_<<vars, sleepVars>> => [Next]_vars
  <2> SUFFICES ASSUME SleepInv, [SchedulerNext]_<<vars, sleepVars>>
               PROVE  [Next]_vars
    BY Zenon
  <2>1. \A i \in 1..Len(q) : q[i] \in Pcbs
    BY Sleepers, Zenon
  <2>2. CASE AwakePop
    <3>1. q # <<>> => q[1] \in Pcbs
      BY Sleepers
    <3> QED BY <2>2, <3>1, Zenon DEF AwakePop, Next
  <2>3. CASE \E p \in Pcbs : WakeUpFirst(p) \/ WakeUpLast(p) \/ WakeUpMiddle(p)
                             \/ SchedulerPut(p)
    BY <2>3, Zenon DEF WakeUpFirst, WakeUpLast, WakeUpMiddle, SchedulerPut, Next
  <2>4. CASE \/ \E p \in Pcbs, t \in 1..MaxSleep : PutSleepEmpty(p, t) \/ PutSleepStart(p, t)
             \/ PutSleepWalk \/ PutSleepLink \/ AwakeTick \/ SchedulerGet
             \/ UNCHANGED <<vars, sleepVars>>
    BY <2>4, Zenon DEF PutSleepEmpty, PutSleepStart, PutSleepWalk, PutSleepLink, AwakeTick,
       SchedulerGet, Next
  <2> QED BY <2>2, <2>3, <2>4, Zenon DEF SchedulerNext
<1>3. SchedulerSpec => Spec
  BY <1>1, <1>2, SleepInductive, PTL DEF SchedulerSpec, Spec
<1> QED BY <1>3, ListRepresents, ListIsFifo, PTL

=============================================================================
