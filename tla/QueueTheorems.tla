--------------------------- MODULE QueueTheorems ---------------------------
(***************************************************************************)
(* What the list operations do to the members of a list that holds nobody  *)
(* twice, and the facts about finite sets that counting rests on.          *)
(*                                                                         *)
(* The facts about finite sets are hypotheses here.  A proof that counts   *)
(* assumes Counting, step by step; its module takes FiniteSetTheorems in   *)
(* after those steps, proves Counting from it and concludes.               *)
(***************************************************************************)
EXTENDS Queues, FiniteSets, TLAPS

EmptyCount ==
    /\ IsFiniteSet({}) /\ Cardinality({}) = 0
    /\ \A S : IsFiniteSet(S) => Cardinality(S) \in Nat /\ (Cardinality(S) = 0 <=> S = {})
SingleCount == \A x : IsFiniteSet({x}) /\ Cardinality({x}) = 1
AddCount ==
    \A S, x : IsFiniteSet(S) =>
        /\ IsFiniteSet(S \cup {x})
        /\ Cardinality(S \cup {x}) = IF x \in S THEN Cardinality(S) ELSE Cardinality(S) + 1
RemoveCount ==
    \A S, x : IsFiniteSet(S) =>
        /\ IsFiniteSet(S \ {x})
        /\ Cardinality(S \ {x}) = IF x \in S THEN Cardinality(S) - 1 ELSE Cardinality(S)
PartCount ==
    \A S, T : IsFiniteSet(S) /\ T \subseteq S =>
        IsFiniteSet(T) /\ Cardinality(T) <= Cardinality(S)
UnionCount ==
    \A S, T : IsFiniteSet(S) /\ IsFiniteSet(T) =>
        /\ IsFiniteSet(S \cup T)
        /\ Cardinality(S \cup T) = Cardinality(S) + Cardinality(T) - Cardinality(S \cap T)
LessCount ==
    \A S, T : IsFiniteSet(S) =>
        IsFiniteSet(S \ T) /\ Cardinality(S \ T) = Cardinality(S) - Cardinality(S \cap T)
ProductCount ==
    \A S, T : IsFiniteSet(S) /\ IsFiniteSet(T) =>
        IsFiniteSet(S \X T) /\ Cardinality(S \X T) = Cardinality(S) * Cardinality(T)
IntervalCount == \A i, j \in Int : IsFiniteSet(i..j)
SameCount ==
    \A S, T : IsFiniteSet(S) /\ ExistsBijection(S, T) =>
        IsFiniteSet(T) /\ Cardinality(T) = Cardinality(S)
LeastNumber == \A S \in SUBSET Nat : S # {} => \E x \in S : \A y \in S : x <= y

Counting ==
    /\ EmptyCount /\ SingleCount /\ AddCount /\ RemoveCount /\ PartCount /\ UnionCount
    /\ LessCount /\ ProductCount /\ IntervalCount /\ SameCount /\ LeastNumber

(* The facts about sequences the proofs rest on, each in the form they use. *)
(* A sequence is a function on 1..Len.                                     *)
LEMMA SeqLength ==
    ASSUME NEW S, NEW q \in Seq(S)
    PROVE  Len(q) \in Nat /\ DOMAIN q = 1..Len(q) /\ q \in [1..Len(q) -> S]
  OBVIOUS

(* Its members are in the set it is a sequence over.                       *)
LEMMA SeqMember ==
    ASSUME NEW S, NEW q \in Seq(S), NEW i \in 1..Len(q)
    PROVE  q[i] \in S
  OBVIOUS

(* Only the empty one has length zero.                                     *)
LEMMA SeqEmpty ==
    ASSUME NEW S
    PROVE  /\ <<>> \in Seq(S) /\ Len(<<>>) = 0
           /\ \A q \in Seq(S) : Len(q) = 0 <=> q = <<>>
  OBVIOUS

(* A function on 1..n is a sequence of length n.                           *)
LEMMA FunctionIsSeq ==
    ASSUME NEW S, NEW n \in Nat, NEW f \in [1..n -> S]
    PROVE  f \in Seq(S) /\ Len(f) = n
  OBVIOUS

(* Two lists with the same members at the same places are the same.        *)
LEMMA SeqSame ==
    ASSUME NEW S, NEW q \in Seq(S), NEW r \in Seq(S), Len(q) = Len(r),
           \A i \in 1..Len(q) : q[i] = r[i]
    PROVE  q = r
  OBVIOUS

(* The members of a concatenation, by position.                            *)
LEMMA SeqConcat ==
    ASSUME NEW S, NEW q \in Seq(S), NEW r \in Seq(S)
    PROVE  /\ q \o r \in Seq(S) /\ Len(q \o r) = Len(q) + Len(r)
           /\ \A i \in 1..(Len(q) + Len(r)) :
                (q \o r)[i] = IF i <= Len(q) THEN q[i] ELSE r[i - Len(q)]
  OBVIOUS

(* The members of a list after an append, by position.                     *)
LEMMA SeqAppend ==
    ASSUME NEW S, NEW q \in Seq(S), NEW p \in S
    PROVE  /\ Append(q, p) \in Seq(S) /\ Append(q, p) # <<>>
           /\ Len(Append(q, p)) = Len(q) + 1 /\ Append(q, p)[Len(q) + 1] = p
           /\ \A i \in 1..Len(q) : Append(q, p)[i] = q[i]
  OBVIOUS

(* Head and tail of a list that is not empty.                              *)
LEMMA SeqTail ==
    ASSUME NEW S, NEW q \in Seq(S), q # <<>>
    PROVE  /\ Head(q) \in S /\ Head(q) = q[1]
           /\ Tail(q) \in Seq(S) /\ Len(Tail(q)) = Len(q) - 1
           /\ \A i \in 1..Len(Tail(q)) : Tail(q)[i] = q[i + 1]
  OBVIOUS

(* A stretch of a list.                                                    *)
LEMMA SeqPart ==
    ASSUME NEW S, NEW q, NEW m \in Int, NEW n \in Int, \A i \in m..n : q[i] \in S
    PROVE  /\ SubSeq(q, m, n) \in Seq(S)
           /\ Len(SubSeq(q, m, n)) = IF m <= n THEN (n - m) + 1 ELSE 0
           /\ \A i \in 1..((n - m) + 1) : SubSeq(q, m, n)[i] = q[(m + i) - 1]
  OBVIOUS

(* The members of a list are in the set it is a sequence over.             *)
LEMMA SeqRange ==
    ASSUME NEW S, NEW q \in Seq(S)
    PROVE  Range(q) \subseteq S
  BY DEF Range

(* put() at the tail of a list that does not hold the PCB: one more member.*)
LEMMA AppendExact ==
    ASSUME NEW S, NEW q \in Seq(S), NEW p \in S, NoDuplicates(q), p \notin Range(q)
    PROVE  /\ Append(q, p) \in Seq(S)
           /\ NoDuplicates(Append(q, p))
           /\ Range(Append(q, p)) = Range(q) \cup {p}
<1> DEFINE r == Append(q, p)
<1>1. r \in Seq(S) /\ Len(r) = Len(q) + 1 /\ r[Len(q) + 1] = p /\ DOMAIN r = 1..(Len(q) + 1)
      /\ \A i \in 1..Len(q) : r[i] = q[i]
  BY SeqAppend
<1>2. DOMAIN q = 1..Len(q) /\ Len(q) \in Nat
  BY SeqLength
<1>3. NoDuplicates(r)
  BY <1>1, <1>2 DEF NoDuplicates, Range
<1>4. Range(r) = Range(q) \cup {p}
  BY <1>1, <1>2 DEF Range
<1> QED BY <1>1, <1>3, <1>4

(* get() of the head. *)
LEMMA TailExact ==
    ASSUME NEW S, NEW q \in Seq(S), q # <<>>, NoDuplicates(q)
    PROVE  /\ Head(q) \in S
           /\ Head(q) \in Range(q)
           /\ Tail(q) \in Seq(S)
           /\ NoDuplicates(Tail(q))
           /\ Range(Tail(q)) = Range(q) \ {Head(q)}
<1> DEFINE r == Tail(q)
<1>1. Len(q) \in Nat /\ DOMAIN q = 1..Len(q) /\ Len(q) # 0 /\ \A i \in 1..Len(q) : q[i] \in S
  BY SeqLength, SeqEmpty, SeqMember
<1>2. r \in Seq(S) /\ Len(r) = Len(q) - 1 /\ Head(q) = q[1]
      /\ \A i \in 1..(Len(q) - 1) : r[i] = q[i + 1]
  BY SeqTail, <1>1
<1>3. DOMAIN r = 1..(Len(q) - 1)
  BY <1>2, SeqLength
<1>4. NoDuplicates(r)
  BY <1>1, <1>2 DEF NoDuplicates
<1>5. Range(r) \subseteq Range(q) \ {Head(q)}
  BY <1>1, <1>2, <1>3 DEF NoDuplicates, Range
<1>6. ASSUME NEW x \in Range(q), x # Head(q) PROVE x \in Range(r)
  <2>1. PICK i \in 1..Len(q) : q[i] = x
    BY <1>1 DEF Range
  <2>2. i - 1 \in 1..(Len(q) - 1) /\ r[i - 1] = x
    BY <2>1, <1>1, <1>2, <1>6
  <2> QED BY <2>2, <1>3 DEF Range
<1>7. Head(q) \in S /\ Head(q) \in Range(q)
  BY <1>1, <1>2 DEF Range
<1>8. Range(r) = Range(q) \ {Head(q)}
  BY <1>5, <1>6
<1> QED BY <1>2, <1>4, <1>7, <1>8

(* forceRemove() and wakeUp(), wherever the PCB stands. *)
LEMMA UnlinkExact ==
    ASSUME NEW S, NEW q \in Seq(S), NEW p, NoDuplicates(q)
    PROVE  /\ Unlink(q, p) \in Seq(S)
           /\ NoDuplicates(Unlink(q, p))
           /\ Range(Unlink(q, p)) = Range(q) \ {p}
<1>1. Len(q) \in Nat /\ DOMAIN q = 1..Len(q) /\ \A i \in 1..Len(q) : q[i] \in S
  BY SeqLength, SeqMember
<1>2. CASE p \notin Range(q)
  BY <1>2 DEF Unlink
<1>3. CASE p \in Range(q)
  <2> DEFINE i == CHOOSE k \in 1..Len(q) : q[k] = p
             r == [k \in 1..(Len(q) - 1) |-> IF k < i THEN q[k] ELSE q[k + 1]]
  <2>1. i \in 1..Len(q) /\ q[i] = p
    BY <1>1, <1>3 DEF Range
  <2>2. Unlink(q, p) = r
    BY <1>3 DEF Unlink
  <2> HIDE DEF i
  <2>3. r \in Seq(S) /\ Len(r) = Len(q) - 1
    <3>1. Len(q) - 1 \in Nat /\ \A k \in 1..(Len(q) - 1) : r[k] \in S
      BY <1>1, <2>1
    <3> HIDE DEF r
    <3>2. r \in [1..(Len(q) - 1) -> S]
      BY <3>1 DEF r
    <3> QED BY <3>1, <3>2, FunctionIsSeq
  <2>4. NoDuplicates(r)
    BY <1>1, <2>1, <2>3 DEF NoDuplicates
  <2>5. Range(r) \subseteq Range(q) \ {p}
    BY <1>1, <2>1 DEF NoDuplicates, Range
  <2>6. ASSUME NEW x \in Range(q), x # p PROVE x \in Range(r)
    <3>1. PICK k \in 1..Len(q) : q[k] = x
      BY <1>1 DEF Range
    <3>2. CASE k < i
      <4>1. k \in 1..(Len(q) - 1) /\ r[k] = x
        BY <1>1, <2>1, <3>1, <3>2
      <4> QED BY <4>1 DEF Range
    <3>3. CASE k > i
      <4>1. k - 1 \in 1..(Len(q) - 1) /\ r[k - 1] = x
        BY <1>1, <2>1, <3>1, <3>3
      <4> QED BY <4>1 DEF Range
    <3> QED BY <2>1, <2>6, <3>1, <3>2, <3>3, <1>1
  <2> QED BY <2>2, <2>3, <2>4, <2>5, <2>6
<1> QED BY <1>2, <1>3

(* putSleep(): the PCB goes in somewhere in the middle. *)
LEMMA LinkAfterExact ==
    ASSUME NEW S, NEW q \in Seq(S), NEW p \in S, NEW i \in 0..Len(q),
           NoDuplicates(q), p \notin Range(q)
    PROVE  /\ LinkAfter(q, i, p) \in Seq(S)
           /\ NoDuplicates(LinkAfter(q, i, p))
           /\ Range(LinkAfter(q, i, p)) = Range(q) \cup {p}
<1> DEFINE r == LinkAfter(q, i, p)
<1>1. Len(q) \in Nat /\ DOMAIN q = 1..Len(q) /\ \A k \in 1..Len(q) : q[k] \in S /\ q[k] # p
  BY SeqLength, SeqMember DEF Range
<1>2. /\ DOMAIN r = 1..(Len(q) + 1)
      /\ \A k \in 1..(Len(q) + 1) :
           r[k] = IF k <= i THEN q[k] ELSE IF k = i + 1 THEN p ELSE q[k - 1]
  BY DEF LinkAfter
<1>3. r \in Seq(S) /\ Len(r) = Len(q) + 1
  <2>1. \A k \in 1..(Len(q) + 1) : r[k] \in S
    BY <1>1, <1>2
  <2>2. r \in [1..(Len(q) + 1) -> S]
    BY <2>1, <1>2 DEF LinkAfter
  <2> QED BY <1>1, <2>2, FunctionIsSeq
<1>4. NoDuplicates(r)
  <2>1. SUFFICES ASSUME NEW a \in 1..(Len(q) + 1), NEW b \in 1..(Len(q) + 1), r[a] = r[b]
                 PROVE  a = b
    BY <1>3 DEF NoDuplicates
  <2> HIDE DEF r
  <2>2. \A j, k \in 1..Len(q) : q[j] = q[k] => j = k
    BY DEF NoDuplicates
  <2>3. CASE a <= i
    BY <1>1, <1>2, <2>1, <2>2, <2>3
  <2>4. CASE a = i + 1
    BY <1>1, <1>2, <2>1, <2>4
  <2>5. CASE a > i + 1
    BY <1>1, <1>2, <2>1, <2>2, <2>5
  <2> QED BY <1>1, <2>3, <2>4, <2>5
<1>5. Range(r) \subseteq Range(q) \cup {p}
  BY <1>1, <1>2 DEF Range
<1>6. p \in Range(r)
  <2>1. i + 1 \in 1..(Len(q) + 1) /\ r[i + 1] = p
    BY <1>1, <1>2
  <2> QED BY <2>1, <1>2 DEF Range
<1>7. ASSUME NEW x \in Range(q) PROVE x \in Range(r)
  <2>1. PICK k \in 1..Len(q) : q[k] = x
    BY <1>1 DEF Range
  <2>2. k <= i => k \in 1..(Len(q) + 1) /\ r[k] = x
    BY <1>1, <1>2, <2>1
  <2>3. ~(k <= i) => k + 1 \in 1..(Len(q) + 1) /\ r[k + 1] = x
    BY <1>1, <1>2, <2>1
  <2> QED BY <2>2, <2>3, <1>2 DEF Range
<1> QED BY <1>3, <1>4, <1>5, <1>6, <1>7

(* awake(): a prefix of the sleep list leaves it, in order. *)
LEMMA SplitExact ==
    ASSUME NEW S, NEW q \in Seq(S), NEW n \in 0..Len(q), NoDuplicates(q)
    PROVE  /\ SubSeq(q, 1, n) \in Seq(S)
           /\ SubSeq(q, n + 1, Len(q)) \in Seq(S)
           /\ NoDuplicates(SubSeq(q, 1, n))
           /\ NoDuplicates(SubSeq(q, n + 1, Len(q)))
           /\ Range(SubSeq(q, 1, n)) \subseteq Range(q)
           /\ Range(SubSeq(q, n + 1, Len(q))) = Range(q) \ Range(SubSeq(q, 1, n))
<1> DEFINE a == SubSeq(q, 1, n)
           b == SubSeq(q, n + 1, Len(q))
<1>1. Len(q) \in Nat /\ DOMAIN q = 1..Len(q)
  BY SeqLength
<1>2. /\ a \in Seq(S) /\ Len(a) = n /\ \A i \in 1..n : a[i] = q[i]
      /\ b \in Seq(S) /\ Len(b) = Len(q) - n
      /\ \A i \in 1..(Len(q) - n) : b[i] = q[n + i]
  <2>1. \A i \in 1..Len(q) : q[i] \in S
    BY SeqMember
  <2>2. a \in Seq(S) /\ Len(a) = n /\ \A i \in 1..n : a[i] = q[i]
    BY <1>1, SeqPart
  <2>3. /\ b \in Seq(S)
        /\ Len(b) = IF n + 1 <= Len(q) THEN Len(q) - (n + 1) + 1 ELSE 0
        /\ \A i \in 1..(Len(q) - (n + 1) + 1) : b[i] = q[(n + 1) + i - 1]
    <3>1. n + 1 \in Int /\ Len(q) \in Int /\ \A i \in (n + 1)..Len(q) : q[i] \in S
      BY <1>1, <2>1
    <3> QED BY <3>1, SeqPart
  <2>4. Len(b) = Len(q) - n
    <3> HIDE DEF a, b
    <3>1. CASE n + 1 <= Len(q)
      BY <1>1, <2>3, <3>1
    <3>2. CASE n = Len(q)
      BY <1>1, <2>3, <3>2
    <3>3. \A m \in Nat : \A k \in 0..m : k + 1 <= m \/ k = m
      OBVIOUS
    <3>4. n + 1 <= Len(q) \/ n = Len(q)
      BY <1>1, <3>3
    <3> QED BY <3>1, <3>2, <3>4
  <2>5. ASSUME NEW i \in 1..(Len(q) - n) PROVE b[i] = q[n + i]
    <3>1. i \in 1..(Len(q) - (n + 1) + 1) /\ (n + 1) + i - 1 = n + i
      BY <1>1
    <3> HIDE DEF b
    <3> QED BY <2>3, <3>1
  <2> QED BY <2>2, <2>3, <2>4, <2>5
<1>3. DOMAIN a = 1..n /\ DOMAIN b = 1..(Len(q) - n)
  BY <1>2, SeqLength
<1> HIDE DEF a, b
<1>4. NoDuplicates(a) /\ NoDuplicates(b)
  BY <1>1, <1>2 DEF NoDuplicates
<1>5. Range(a) \subseteq Range(q)
  BY <1>1, <1>2, <1>3 DEF Range
<1>6. ASSUME NEW x \in Range(b) PROVE x \in Range(q) /\ x \notin Range(a)
  <2>1. PICK i \in 1..(Len(q) - n) : b[i] = x
    BY <1>3, <1>6 DEF Range
  <2>2. n + i \in 1..Len(q) /\ q[n + i] = x
    BY <1>1, <1>2, <2>1
  <2>3. ASSUME NEW j \in 1..n, a[j] = x PROVE FALSE
    <3>1. j \in 1..Len(q) /\ q[j] = x
      BY <1>1, <1>2, <2>3
    <3>2. j = n + i
      BY <2>2, <3>1 DEF NoDuplicates
    <3> QED BY <1>1, <3>2
  <2> QED BY <1>1, <1>3, <2>2, <2>3 DEF Range
<1>7. ASSUME NEW x \in Range(q), x \notin Range(a) PROVE x \in Range(b)
  <2>1. PICK k \in 1..Len(q) : q[k] = x
    BY <1>1 DEF Range
  <2>2. k \notin 1..n
    BY <1>2, <1>3, <1>7, <2>1 DEF Range
  <2>3. k - n \in 1..(Len(q) - n) /\ n + (k - n) = k
    BY <1>1, <2>2
  <2>4. b[k - n] = x
    BY <1>2, <2>1, <2>3
  <2> QED BY <2>3, <2>4, <1>3 DEF Range
<1> QED BY <1>2, <1>4, <1>5, <1>6, <1>7 DEF a, b

(* The woken PCBs are put() one after the other on the ready list. *)
LEMMA ConcatExact ==
    ASSUME NEW S, NEW q \in Seq(S), NEW r \in Seq(S), NoDuplicates(q), NoDuplicates(r),
           Range(q) \cap Range(r) = {}
    PROVE  /\ q \o r \in Seq(S)
           /\ NoDuplicates(q \o r)
           /\ Range(q \o r) = Range(q) \cup Range(r)
<1> DEFINE c == q \o r
<1>1. Len(q) \in Nat /\ DOMAIN q = 1..Len(q) /\ Len(r) \in Nat /\ DOMAIN r = 1..Len(r)
  BY SeqLength
<1>2. /\ c \in Seq(S) /\ Len(c) = Len(q) + Len(r)
      /\ \A i \in 1..(Len(q) + Len(r)) : c[i] = IF i <= Len(q) THEN q[i] ELSE r[i - Len(q)]
  BY SeqConcat
<1>3. \A i \in 1..Len(q), j \in 1..Len(r) : q[i] # r[j]
  BY <1>1 DEF Range
<1> HIDE DEF c
<1>4. NoDuplicates(c)
  <2>1. SUFFICES ASSUME NEW i \in 1..(Len(q) + Len(r)), NEW j \in 1..(Len(q) + Len(r)),
                        c[i] = c[j]
                 PROVE  i = j
    BY <1>2 DEF NoDuplicates
  <2>2. CASE i <= Len(q) /\ j <= Len(q)
    BY <1>1, <1>2, <2>1, <2>2 DEF NoDuplicates
  <2>3. CASE i > Len(q) /\ j > Len(q)
    <3>1. i - Len(q) \in 1..Len(r) /\ j - Len(q) \in 1..Len(r)
      BY <1>1, <2>3
    <3>2. r[i - Len(q)] = r[j - Len(q)]
      BY <1>1, <1>2, <2>1, <2>3
    <3>3. i - Len(q) = j - Len(q)
      BY <3>1, <3>2 DEF NoDuplicates
    <3> QED BY <1>1, <3>3
  <2>4. CASE i <= Len(q) /\ j > Len(q)
    <3>1. i \in 1..Len(q) /\ j - Len(q) \in 1..Len(r)
      BY <1>1, <2>4
    <3>2. q[i] = r[j - Len(q)]
      BY <1>1, <1>2, <2>1, <2>4
    <3> QED BY <1>3, <3>1, <3>2
  <2>5. CASE i > Len(q) /\ j <= Len(q)
    <3>1. j \in 1..Len(q) /\ i - Len(q) \in 1..Len(r)
      BY <1>1, <2>5
    <3>2. q[j] = r[i - Len(q)]
      BY <1>1, <1>2, <2>1, <2>5
    <3> QED BY <1>3, <3>1, <3>2
  <2> QED BY <1>1, <2>2, <2>3, <2>4, <2>5
<1>5. Range(c) = Range(q) \cup Range(r)
  <2>1. DOMAIN c = 1..(Len(q) + Len(r))
    BY <1>2, SeqLength
  <2>2. ASSUME NEW i \in 1..(Len(q) + Len(r)) PROVE c[i] \in Range(q) \cup Range(r)
    <3>1. CASE i <= Len(q)
      <4>1. i \in 1..Len(q) /\ c[i] = q[i]
        BY <1>1, <1>2, <3>1
      <4> QED BY <1>1, <4>1 DEF Range
    <3>2. CASE ~(i <= Len(q))
      <4>1. i - Len(q) \in 1..Len(r) /\ c[i] = r[i - Len(q)]
        BY <1>1, <1>2, <3>2
      <4> QED BY <1>1, <4>1 DEF Range
    <3> QED BY <3>1, <3>2
  <2>3. ASSUME NEW i \in 1..Len(q) PROVE q[i] \in Range(c)
    <3>1. i \in 1..(Len(q) + Len(r)) /\ c[i] = q[i]
      BY <1>1, <1>2
    <3> QED BY <2>1, <3>1 DEF Range
  <2>4. ASSUME NEW i \in 1..Len(r) PROVE r[i] \in Range(c)
    <3>1. Len(q) + i \in 1..(Len(q) + Len(r)) /\ ~(Len(q) + i <= Len(q)) /\ (Len(q) + i) - Len(q) = i
      BY <1>1
    <3>2. c[Len(q) + i] = r[i]
      BY <1>2, <3>1
    <3> QED BY <2>1, <3>1, <3>2 DEF Range
  <2> QED BY <1>1, <2>1, <2>2, <2>3, <2>4 DEF Range
<1> QED BY <1>2, <1>4, <1>5 DEF c

(* Unlink, member by member: what follows the unlinked one moves up.       *)
LEMMA UnlinkAt ==
    ASSUME NEW S, NEW q \in Seq(S), NoDuplicates(q), NEW k \in 1..Len(q)
    PROVE  /\ Len(Unlink(q, q[k])) = Len(q) - 1
           /\ \A i \in 1..(Len(q) - 1) :
                Unlink(q, q[k])[i] = IF i < k THEN q[i] ELSE q[i + 1]
<1>1. Len(q) \in Nat /\ DOMAIN q = 1..Len(q) /\ \A i \in 1..Len(q) : q[i] \in S
  BY SeqLength, SeqMember
<1>2. q[k] \in Range(q)
  BY <1>1 DEF Range
<1>3. (CHOOSE i \in 1..Len(q) : q[i] = q[k]) = k
  BY DEF NoDuplicates
<1> DEFINE u == [i \in 1..(Len(q) - 1) |-> IF i < k THEN q[i] ELSE q[i + 1]]
<1>4. Unlink(q, q[k]) = u
  BY <1>2, <1>3 DEF Unlink
<1>5. Len(q) - 1 \in Nat /\ \A i \in 1..(Len(q) - 1) : u[i] \in S
  BY <1>1
<1>6. Len(u) = Len(q) - 1
  <2> HIDE DEF u
  <2>1. u \in [1..(Len(q) - 1) -> S]
    BY <1>5 DEF u
  <2> QED BY <1>5, <2>1, FunctionIsSeq
<1> QED BY <1>4, <1>6

\* The members of a tail, by position; get() makes the second member the head.
LEMMA TailAt ==
    ASSUME NEW S, NEW q \in Seq(S), q # <<>>
    PROVE  /\ Len(q) \in Nat \ {0}
           /\ Head(q) = q[1]
           /\ Len(Tail(q)) = Len(q) - 1
           /\ \A i \in 1..(Len(q) - 1) : Tail(q)[i] = q[i + 1]
<1>1. Len(q) \in Nat \ {0}
  BY SeqLength, SeqEmpty
<1> QED BY <1>1, SeqTail

\* Taking out a PCB that is not in the queue, as forceRemove may, changes nothing.
LEMMA UnlinkAbsent ==
    ASSUME NEW q, NEW p, p \notin Range(q)
    PROVE  Unlink(q, p) = q
  BY DEF Unlink

(* Taking out the first member is what get() does.                         *)
LEMMA UnlinkHead ==
    ASSUME NEW S, NEW q \in Seq(S), NoDuplicates(q), q # <<>>
    PROVE  Unlink(q, q[1]) = Tail(q)
<1>1. /\ Len(q) \in Nat \ {0} /\ Len(Tail(q)) = Len(q) - 1
      /\ \A i \in 1..(Len(q) - 1) : Tail(q)[i] = q[i + 1]
  BY TailAt
<1>2. 1 \in 1..Len(q)
  BY <1>1
<1>3. /\ Len(Unlink(q, q[1])) = Len(q) - 1
      /\ \A i \in 1..(Len(q) - 1) : Unlink(q, q[1])[i] = IF i < 1 THEN q[i] ELSE q[i + 1]
  BY <1>2, UnlinkAt
<1>4. Unlink(q, q[1]) \in Seq(S) /\ Tail(q) \in Seq(S)
  BY UnlinkExact, TailExact
<1>5. \A i \in 1..(Len(q) - 1) : Unlink(q, q[1])[i] = Tail(q)[i]
  <2> TAKE i \in 1..(Len(q) - 1)
  <2>1. ~(i < 1)
    BY <1>1
  <2> QED BY <1>1, <1>3, <2>1, Zenon
<1>6. Len(Unlink(q, q[1])) = Len(Tail(q))
  BY <1>1, <1>3
<1> HIDE DEF Unlink
<1> QED BY <1>1, <1>4, <1>5, <1>6, SeqSame

(* LinkAfter, member by member: what follows the new one moves down.       *)
LEMMA LinkAfterAt ==
    ASSUME NEW S, NEW q \in Seq(S), NEW p \in S, NEW i \in 0..Len(q)
    PROVE  /\ Len(LinkAfter(q, i, p)) = Len(q) + 1
           /\ \A k \in 1..(Len(q) + 1) :
                LinkAfter(q, i, p)[k] =
                    IF k <= i THEN q[k] ELSE IF k = i + 1 THEN p ELSE q[k - 1]
<1>1. Len(q) \in Nat /\ \A k \in 1..Len(q) : q[k] \in S
  BY SeqLength, SeqMember
<1> DEFINE r == [k \in 1..(Len(q) + 1) |->
                    IF k <= i THEN q[k] ELSE IF k = i + 1 THEN p ELSE q[k - 1]]
<1>2. LinkAfter(q, i, p) = r
  BY DEF LinkAfter
<1>3. r \in [1..(Len(q) + 1) -> S]
  BY <1>1
<1>4. Len(r) = Len(q) + 1
  <2> HIDE DEF r
  <2> QED BY <1>1, <1>3, FunctionIsSeq
<1> QED BY <1>2, <1>4

(* A list with no members is empty.                                        *)
LEMMA EmptyRange ==
    ASSUME NEW S, NEW q \in Seq(S)
    PROVE  Range(q) = {} <=> q = <<>>
<1>1. Len(q) \in Nat /\ DOMAIN q = 1..Len(q)
  BY SeqLength
<1>2. ASSUME Range(q) = {} PROVE q = <<>>
  <2>1. 1 \notin 1..Len(q)
    BY <1>1, <1>2 DEF Range
  <2>2. Len(q) = 0
    BY <1>1, <2>1
  <2> QED BY <2>2, SeqEmpty
<1>3. ASSUME q = <<>> PROVE Range(q) = {}
  BY <1>3 DEF Range
<1> QED BY <1>2, <1>3

=============================================================================
