----------------------------- MODULE PipeProofs ----------------------------
(***************************************************************************)
(* A pipe of any size, shared by any number of processes and threads: its  *)
(* ring buffer is a stream of bytes, and m_readers and m_writers count the *)
(* open descriptors of all tables.                                         *)
(***************************************************************************)
EXTENDS Pipe, QueueTheorems, TLAPS

-----------------------------------------------------------------------------
(* The ring *)

(* An index that has gone round once at most is At() by a subtraction.     *)
LEMMA AtOnce ==
    ASSUME NEW i \in 0 .. 2 * Size - 1
    PROVE  /\ i < Size => At(i) = i
           /\ ~(i < Size) => At(i) = i - Size
           /\ At(i) \in 0 .. Size - 1
<1>1. Size \in Nat \ {0}
  BY PipeConstants, Zenon
<1>2. i < Size => i % Size = i
  BY <1>1
<1>3. i >= Size => i % Size = i - Size
  BY <1>1
<1> QED BY <1>1, <1>2, <1>3 DEF At

(* Going on from a place that was wrapped already.                         *)
LEMMA AtAt ==
    ASSUME NEW i \in 0 .. Size - 1, NEW m \in 0 .. Size, NEW j \in 0 .. Size,
           m + j \in 0 .. Size
    PROVE  At(At(i + m) + j) = At(i + m + j)
<1>1. Size \in Nat \ {0}
  BY PipeConstants, Zenon
<1>2. PICK x \in 0 .. 2 * Size - 1, y \in 0 .. 2 * Size - 1 : x = i + m /\ y = i + m + j
  BY <1>1
<1>3. (x < Size => At(x) = x) /\ (~(x < Size) => At(x) = x - Size) /\ At(x) \in 0 .. Size - 1
  BY AtOnce, Zenon
<1>4. PICK z \in 0 .. 2 * Size - 1 : z = At(x) + j
  BY <1>1, <1>3
<1>5. (y < Size => At(y) = y) /\ (~(y < Size) => At(y) = y - Size)
  BY AtOnce, Zenon
<1>6. (z < Size => At(z) = z) /\ (~(z < Size) => At(z) = z - Size)
  BY AtOnce, Zenon
<1>7. At(z) = At(y)
  BY <1>1, <1>2, <1>3, <1>4, <1>5, <1>6
<1> QED BY <1>2, <1>4, <1>7, Zenon

(* Fewer than Size places in a row are different.                          *)
LEMMA AtApart ==
    ASSUME NEW i \in 0 .. Size - 1, NEW j \in 0 .. Size - 1, NEW k \in 0 .. Size - 1,
           At(i + j) = At(i + k)
    PROVE  j = k
<1>1. Size \in Nat \ {0}
  BY PipeConstants, Zenon
<1>2. PICK x \in 0 .. 2 * Size - 1, y \in 0 .. 2 * Size - 1 : x = i + j /\ y = i + k
  BY <1>1
<1>3. (x < Size => At(x) = x) /\ (~(x < Size) => At(x) = x - Size)
  BY AtOnce, Zenon
<1>4. (y < Size => At(y) = y) /\ (~(y < Size) => At(y) = y - Size)
  BY AtOnce, Zenon
<1>5. At(x) = At(y)
  BY <1>2, Zenon
<1> QED BY <1>1, <1>2, <1>3, <1>4, <1>5

(* m_head, m_tail and m_count agree.                                       *)
Ring(pi) ==
    /\ pi \in [live : BOOLEAN, buf : [0 .. Size - 1 -> Bytes], head : 0 .. Size - 1,
               tail : 0 .. Size - 1, count : 0 .. Size, readers : Nat, writers : Nat]
    /\ pi.head = At(pi.tail + pi.count)

(* The bytes in the buffer, as a sequence.                                 *)
LEMMA OldestBytes ==
    ASSUME NEW pi, Ring(pi), NEW n \in 0 .. pi.count
    PROVE  /\ Oldest(pi, n) \in Seq(Bytes) /\ Len(Oldest(pi, n)) = n
           /\ \A k \in 1..n : Oldest(pi, n)[k] = pi.buf[At(pi.tail + k - 1)]
<1>1. Size \in Nat \ {0} /\ pi.count \in 0 .. Size /\ pi.tail \in 0 .. Size - 1 /\ n \in Nat
      /\ n <= Size /\ pi.buf \in [0 .. Size - 1 -> Bytes]
  BY PipeConstants DEF Ring
<1>2. \A k \in 1..n : At(pi.tail + k - 1) \in 0 .. Size - 1
  <2> TAKE k \in 1..n
  <2>1. pi.tail + k - 1 \in 0 .. 2 * Size - 1
    BY <1>1
  <2> QED BY <2>1, AtOnce, Zenon
<1>3. \A k \in 1..n : pi.buf[At(pi.tail + k - 1)] \in Bytes
  BY <1>1, <1>2, Zenon
<1> QED BY <1>1, <1>3 DEF Oldest

(* read() of n bytes delivers the first n of the stream and leaves the     *)
(* rest.                                                                   *)
LEMMA TakeReads ==
    ASSUME NEW pi, Ring(pi), NEW n \in 0 .. pi.count
    PROVE  /\ Ring(Take(pi, n)) /\ Take(pi, n).count = pi.count - n
           /\ Oldest(pi, n) = SubSeq(Oldest(pi, pi.count), 1, n)
           /\ Oldest(Take(pi, n), pi.count - n)
                = SubSeq(Oldest(pi, pi.count), n + 1, Len(Oldest(pi, pi.count)))
<1> DEFINE c == pi.count
           t == pi.tail
           po == Take(pi, n)
<1>1. /\ Size \in Nat \ {0} /\ c \in 0 .. Size /\ t \in 0 .. Size - 1 /\ n \in 0 .. c /\ c \in Nat
      /\ pi.head = At(t + c)
  BY PipeConstants DEF Ring
<1>2. /\ po.tail = At(t + n) /\ po.count = c - n /\ po.head = pi.head /\ po.buf = pi.buf
      /\ po.live = pi.live /\ po.readers = pi.readers /\ po.writers = pi.writers
      /\ po = [pi EXCEPT !.tail = At(t + n), !.count = c - n]
  BY Zenon DEF Take, Ring
<1>3. At(t + n) \in 0 .. Size - 1
  <2>1. t + n \in 0 .. 2 * Size - 1
    BY <1>1
  <2> QED BY <2>1, AtOnce, Zenon
<1>4. At(At(t + n) + (c - n)) = At(t + c)
  <2>1. c - n \in 0 .. Size /\ n + (c - n) \in 0 .. Size /\ n \in 0 .. Size /\ t + n + (c - n) = t + c
    BY <1>1
  <2> QED BY <1>1, <2>1, AtAt
<1>5. Ring(po)
  <2>1. c - n \in 0 .. Size
    BY <1>1
  <2> HIDE DEF po
  <2>2. po.head = At(po.tail + po.count)
    BY <1>1, <1>2, <1>4, Zenon
  <2>3. po \in [live : BOOLEAN, buf : [0 .. Size - 1 -> Bytes], head : 0 .. Size - 1,
               tail : 0 .. Size - 1, count : 0 .. Size, readers : Nat, writers : Nat]
    BY <1>2, <1>3, <2>1, Zenon DEF Ring
  <2> QED BY <2>2, <2>3, Zenon DEF Ring
<1>6. /\ Oldest(pi, c) \in Seq(Bytes) /\ Len(Oldest(pi, c)) = c
      /\ \A k \in 1..c : Oldest(pi, c)[k] = pi.buf[At(t + k - 1)]
  <2>1. c \in 0 .. c
    BY <1>1
  <2> QED BY <2>1, OldestBytes, Zenon
<1>7. /\ Oldest(pi, n) \in Seq(Bytes) /\ Len(Oldest(pi, n)) = n
      /\ \A k \in 1..n : Oldest(pi, n)[k] = pi.buf[At(t + k - 1)]
  BY OldestBytes, Zenon
<1>8. /\ Oldest(po, c - n) \in Seq(Bytes) /\ Len(Oldest(po, c - n)) = c - n
      /\ \A k \in 1..(c - n) : Oldest(po, c - n)[k] = pi.buf[At(At(t + n) + k - 1)]
  <2>1. c - n \in 0 .. po.count
    BY <1>1, <1>2
  <2> HIDE DEF po
  <2>2. /\ Oldest(po, c - n) \in Seq(Bytes) /\ Len(Oldest(po, c - n)) = c - n
        /\ \A k \in 1..(c - n) : Oldest(po, c - n)[k] = po.buf[At(po.tail + k - 1)]
    BY <1>5, <2>1, OldestBytes, Zenon
  <2> QED BY <1>2, <2>2, Zenon
<1>9. Oldest(pi, n) = SubSeq(Oldest(pi, c), 1, n)
  <2> HIDE DEF c, t
  <2>1. /\ SubSeq(Oldest(pi, c), 1, n) \in Seq(Bytes) /\ Len(SubSeq(Oldest(pi, c), 1, n)) = n
        /\ \A k \in 1..n : SubSeq(Oldest(pi, c), 1, n)[k] = Oldest(pi, c)[k]
    BY <1>1, <1>6
  <2>2. \A k \in 1..n : SubSeq(Oldest(pi, c), 1, n)[k] = Oldest(pi, n)[k]
    BY <1>1, <1>6, <1>7, <2>1
  <2> QED BY <1>7, <2>1, <2>2, SeqSame, Zenon
<1>10. Oldest(po, c - n) = SubSeq(Oldest(pi, c), n + 1, c)
  <2> HIDE DEF c, t, po
  <2>1. /\ SubSeq(Oldest(pi, c), n + 1, c) \in Seq(Bytes)
        /\ Len(SubSeq(Oldest(pi, c), n + 1, c)) = c - n
        /\ \A k \in 1..(c - n) : SubSeq(Oldest(pi, c), n + 1, c)[k] = Oldest(pi, c)[n + k]
    BY <1>1, <1>6
  <2>2. \A k \in 1..(c - n) : Oldest(po, c - n)[k] = SubSeq(Oldest(pi, c), n + 1, c)[k]
    <3> SUFFICES ASSUME NEW k \in 1..(c - n)
                 PROVE  Oldest(po, c - n)[k] = SubSeq(Oldest(pi, c), n + 1, c)[k]
      BY Zenon
    <3>1. n + k \in 1..c /\ k - 1 \in 0 .. Size /\ n \in 0 .. Size /\ n + (k - 1) \in 0 .. Size
          /\ t + n + (k - 1) = t + (n + k) - 1
      BY <1>1
    <3>2. At(At(t + n) + (k - 1)) = At(t + n + (k - 1))
      BY <1>1, <3>1, AtAt, Zenon
    <3>3. At(t + n) + (k - 1) = At(t + n) + k - 1
      BY <1>1, <1>3, Zenon
    <3>4. SubSeq(Oldest(pi, c), n + 1, c)[k] = Oldest(pi, c)[n + k]
      BY <2>1, Zenon
    <3>5. Oldest(pi, c)[n + k] = pi.buf[At(t + (n + k) - 1)]
      BY <1>6, <3>1, Zenon
    <3>6. Oldest(po, c - n)[k] = pi.buf[At(At(t + n) + k - 1)]
      BY <1>8, Zenon
    <3> QED BY <3>1, <3>2, <3>3, <3>4, <3>5, <3>6, Zenon
  <2> QED BY <1>8, <2>1, <2>2, SeqSame, Zenon
<1> QED BY <1>2, <1>5, <1>6, <1>9, <1>10, Zenon

(* write() of s appends it to the stream and touches no byte of it.        *)
LEMMA StoreWrites ==
    ASSUME NEW pi, Ring(pi), NEW s \in Seq(Bytes), Len(s) <= Size - pi.count
    PROVE  /\ Ring(Store(pi, s)) /\ Store(pi, s).count = pi.count + Len(s)
           /\ Oldest(Store(pi, s), pi.count + Len(s)) = Oldest(pi, pi.count) \o s
<1> DEFINE c == pi.count
           t == pi.tail
           h == pi.head
           n == Len(s)
           po == Store(pi, s)
           new == [i \in 0 .. Size - 1 |->
                     IF \E k \in 1..n : At(h + k - 1) = i
                     THEN s[CHOOSE k \in 1..n : At(h + k - 1) = i] ELSE pi.buf[i]]
<1>1. /\ Size \in Nat \ {0} /\ c \in 0 .. Size /\ t \in 0 .. Size - 1 /\ h \in 0 .. Size - 1
      /\ n \in Nat /\ c + n \in 0 .. Size /\ c \in Nat /\ h = At(t + c)
      /\ DOMAIN s = 1..n /\ pi.buf \in [0 .. Size - 1 -> Bytes] /\ \A k \in 1..n : s[k] \in Bytes
  BY PipeConstants DEF Ring
<1>2. /\ po = [pi EXCEPT !.buf = new, !.head = At(h + n), !.count = c + n]
      /\ po.tail = t /\ po.count = c + n /\ po.head = At(h + n) /\ po.buf = new
      /\ po.live = pi.live /\ po.readers = pi.readers /\ po.writers = pi.writers
  <2>1. DOMAIN pi.buf = 0 .. Size - 1 /\ DOMAIN s = 1..n
    BY <1>1, Zenon
  <2>2. po = [pi EXCEPT !.buf = new, !.head = At(h + n), !.count = c + n]
    BY <2>1, Zenon DEF Store
  <2> HIDE DEF po, new
  <2> QED BY <2>2, Zenon DEF Ring
<1> HIDE DEF c, t, h, n, po
<1>3. \A k \in 1..n : /\ h + k - 1 \in 0 .. 2 * Size - 1 /\ At(h + k - 1) \in 0 .. Size - 1
                      /\ k - 1 \in 0 .. Size - 1 /\ h + (k - 1) = h + k - 1
                      /\ At(h + k - 1) = At(t + c + (k - 1))
  <2> TAKE k \in 1..n
  <2>1. /\ h + k - 1 \in 0 .. 2 * Size - 1 /\ k - 1 \in 0 .. Size - 1 /\ h + (k - 1) = h + k - 1
        /\ k - 1 \in 0 .. Size /\ c + (k - 1) \in 0 .. Size
    BY <1>1
  <2>2. At(h + k - 1) \in 0 .. Size - 1
    BY <2>1, AtOnce, Zenon
  <2>3. At(At(t + c) + (k - 1)) = At(t + c + (k - 1))
    BY <1>1, <2>1, AtAt, Zenon
  <2> QED BY <1>1, <2>1, <2>2, <2>3, Zenon
<1>4. \A k \in 1..n : new[At(h + k - 1)] = s[k]
  <2> SUFFICES ASSUME NEW k \in 1..n
               PROVE  new[At(h + k - 1)] = s[k]
    BY Zenon
  <2>1. \A j \in 1..n : At(h + j - 1) = At(h + k - 1) => j = k
    <3> SUFFICES ASSUME NEW j \in 1..n, At(h + j - 1) = At(h + k - 1) PROVE j = k
      BY Zenon
    <3>1. /\ At(h + (j - 1)) = At(h + (k - 1))
          /\ j - 1 \in 0 .. Size - 1 /\ k - 1 \in 0 .. Size - 1
      BY <1>3, Zenon
    <3>2. j - 1 = k - 1
      BY <1>1, <3>1, AtApart, Zenon
    <3> QED BY <1>1, <3>2
  <2>2. (CHOOSE j \in 1..n : At(h + j - 1) = At(h + k - 1)) = k
    BY <2>1, Zenon
  <2> QED BY <1>3, <2>2, Zenon
<1>5. \A k \in 1..c : new[At(t + k - 1)] = pi.buf[At(t + k - 1)]
  <2> SUFFICES ASSUME NEW k \in 1..c
               PROVE  new[At(t + k - 1)] = pi.buf[At(t + k - 1)]
    BY Zenon
  <2>1. t + k - 1 \in 0 .. 2 * Size - 1 /\ k - 1 \in 0 .. Size - 1 /\ t + (k - 1) = t + k - 1
    BY <1>1
  <2>2. At(t + k - 1) \in 0 .. Size - 1
    BY <2>1, AtOnce, Zenon
  <2>3. \A j \in 1..n : At(h + j - 1) # At(t + k - 1)
    <3> SUFFICES ASSUME NEW j \in 1..n, At(h + j - 1) = At(t + k - 1) PROVE FALSE
      BY Zenon
    <3>1. c + (j - 1) \in 0 .. Size - 1 /\ t + (c + (j - 1)) = t + c + (j - 1) /\ c + (j - 1) # k - 1
      BY <1>1
    <3>2. At(t + (c + (j - 1))) = At(t + (k - 1))
      BY <1>3, <2>1, <3>1, Zenon
    <3> QED BY <1>1, <2>1, <3>1, <3>2, AtApart, Zenon
  <2> QED BY <2>2, <2>3, Zenon
<1>6. new \in [0 .. Size - 1 -> Bytes]
  <2>1. \A i \in 0 .. Size - 1 : (\E k \in 1..n : At(h + k - 1) = i) => new[i] \in Bytes
    BY <1>1, <1>4, Zenon
  <2>2. \A i \in 0 .. Size - 1 : ~(\E k \in 1..n : At(h + k - 1) = i) => new[i] \in Bytes
    BY <1>1, Zenon
  <2> QED BY <2>1, <2>2, Zenon
<1> HIDE DEF new
<1>7. At(h + n) \in 0 .. Size - 1 /\ At(h + n) = At(t + (c + n))
  <2>1. h + n \in 0 .. 2 * Size - 1 /\ n \in 0 .. Size /\ t + (c + n) = t + c + n
    BY <1>1
  <2>2. At(h + n) \in 0 .. Size - 1
    BY <2>1, AtOnce, Zenon
  <2>3. At(At(t + c) + n) = At(t + c + n)
    BY <1>1, <2>1, AtAt, Zenon
  <2> QED BY <1>1, <2>1, <2>2, <2>3, Zenon
<1>8. Ring(po)
  <2>1. po \in [live : BOOLEAN, buf : [0 .. Size - 1 -> Bytes], head : 0 .. Size - 1,
               tail : 0 .. Size - 1, count : 0 .. Size, readers : Nat, writers : Nat]
    BY <1>1, <1>2, <1>6, <1>7, Zenon DEF Ring
  <2> QED BY <1>2, <1>7, <2>1, Zenon DEF Ring
<1>9. /\ Oldest(pi, c) \in Seq(Bytes) /\ Len(Oldest(pi, c)) = c
      /\ \A k \in 1..c : Oldest(pi, c)[k] = pi.buf[At(t + k - 1)]
  <2>1. c \in 0 .. c /\ c = pi.count /\ t = pi.tail
    BY <1>1 DEF c, t
  <2> QED BY <2>1, OldestBytes, Zenon
<1>10. /\ Oldest(po, c + n) \in Seq(Bytes) /\ Len(Oldest(po, c + n)) = c + n
       /\ \A k \in 1..(c + n) : Oldest(po, c + n)[k] = new[At(t + k - 1)]
  <2>1. c + n \in 0 .. po.count
    BY <1>1, <1>2
  <2>2. /\ Oldest(po, c + n) \in Seq(Bytes) /\ Len(Oldest(po, c + n)) = c + n
        /\ \A k \in 1..(c + n) : Oldest(po, c + n)[k] = po.buf[At(po.tail + k - 1)]
    BY <1>8, <2>1, OldestBytes, Zenon
  <2> QED BY <1>2, <2>2
<1>11. /\ Oldest(pi, c) \o s \in Seq(Bytes) /\ Len(Oldest(pi, c) \o s) = c + n
       /\ \A k \in 1..(c + n) : (Oldest(pi, c) \o s)[k] = IF k <= c THEN Oldest(pi, c)[k] ELSE s[k - c]
  <2>1. PICK q \in Seq(Bytes) : q = Oldest(pi, c)
    BY <1>9, Zenon
  <2>2. /\ q \o s \in Seq(Bytes) /\ Len(q \o s) = Len(q) + Len(s)
        /\ \A k \in 1 .. Len(q) + Len(s) : (q \o s)[k] = IF k <= Len(q) THEN q[k] ELSE s[k - Len(q)]
    BY SeqConcat, Zenon
  <2>3. Len(q) = c /\ Len(s) = n
    BY <1>9, <2>1, Zenon DEF n
  <2> QED BY <2>1, <2>2, <2>3, Zenon
<1>12. \A k \in 1..(c + n) : Oldest(po, c + n)[k] = (Oldest(pi, c) \o s)[k]
  <2> SUFFICES ASSUME NEW k \in 1..(c + n)
               PROVE  Oldest(po, c + n)[k] = (Oldest(pi, c) \o s)[k]
    BY Zenon
  <2>1. CASE k <= c
    <3>1. k \in 1..c
      BY <1>1, <2>1
    <3> QED BY <1>5, <1>9, <1>10, <1>11, <2>1, <3>1, Zenon
  <2>2. CASE ~(k <= c)
    <3>1. k - c \in 1..n /\ t + c + (k - c - 1) = t + k - 1
      BY <1>1, <2>2
    <3>2. new[At(t + c + (k - c - 1))] = s[k - c]
      BY <1>3, <1>4, <3>1, Zenon
    <3> QED BY <1>10, <1>11, <2>2, <3>1, <3>2, Zenon
  <2> QED BY <2>1, <2>2, Zenon
<1>13. Oldest(po, c + n) = Oldest(pi, c) \o s
  BY <1>10, <1>11, <1>12, SeqSame, Zenon
<1> QED BY <1>2, <1>8, <1>13, Zenon DEF c, n, po

-----------------------------------------------------------------------------
(* Descriptors.  The open ends e in given tables with given references.    *)
Kinds == {"free", "r", "w"}

OpenIn(f, rf, e) == {x \in Actors \X Fds : rf[x[1]] > 0 /\ f[x[1]][x[2]] = e}

Hits(x, e) == IF x = e THEN 1 ELSE 0

(* There are finitely many of them.                                        *)
LEMMA OpenFinite ==
    ASSUME Counting, NEW f, NEW rf, NEW e
    PROVE  IsFiniteSet(OpenIn(f, rf, e)) /\ Cardinality(OpenIn(f, rf, e)) \in Nat
<1>1. IsFiniteSet(Fds)
  <2>1. 0 \in Int /\ MaxFds - 1 \in Int
    BY PipeConstants
  <2> QED BY <2>1, Zenon DEF Fds, Counting, IntervalCount
<1>2. IsFiniteSet(Actors \X Fds)
  BY <1>1, PipeConstants, Zenon DEF Counting, ProductCount
<1>3. IsFiniteSet(OpenIn(f, rf, e))
  BY <1>2, Zenon DEF OpenIn, Counting, PartCount
<1> QED BY <1>3, Zenon DEF Counting, EmptyCount

(* One entry of one table is changed.                                      *)
EntrySet(f, rf, p, i, v, g) ==
    /\ f \in [Actors -> [Fds -> Kinds]] /\ rf \in [Actors -> Nat]
    /\ p \in Actors /\ rf[p] > 0 /\ i \in Fds /\ v \in Kinds
    /\ g = [f EXCEPT ![p][i] = v]

(* What that does to the number of open ends.                              *)
LEMMA SetDescriptor ==
    ASSUME Counting, NEW f, NEW rf, NEW p, NEW i, NEW v, NEW g, EntrySet(f, rf, p, i, v, g), NEW e
    PROVE  /\ Cardinality(OpenIn(g, rf, e))
                = Cardinality(OpenIn(f, rf, e)) - Hits(f[p][i], e) + Hits(v, e)
           /\ Hits(f[p][i], e) <= Cardinality(OpenIn(f, rf, e))
<1> DEFINE A == OpenIn(f, rf, e)
           B == OpenIn(g, rf, e)
           x == <<p, i>>
<1>1. g[p][i] = v /\ \A q \in Actors, j \in Fds : <<q, j>> # x => g[q][j] = f[q][j]
  BY Zenon DEF EntrySet
<1>2. x \in Actors \X Fds /\ x[1] = p /\ x[2] = i /\ rf[p] > 0
  BY Zenon DEF EntrySet
<1>3. (x \in A <=> f[p][i] = e) /\ (x \in B <=> v = e)
  BY <1>1, <1>2, Zenon DEF OpenIn
<1>4. A \ {x} = B \ {x}
  BY <1>1 DEF OpenIn
<1>5. /\ IsFiniteSet(A) /\ Cardinality(A) \in Nat /\ IsFiniteSet(B) /\ Cardinality(B) \in Nat
  BY OpenFinite, Zenon
<1>6. IsFiniteSet(A \ {x}) /\ Cardinality(A \ {x}) \in Nat
  BY <1>5, Zenon DEF Counting, RemoveCount, EmptyCount
<1> HIDE DEF A, B, x
<1>7. Cardinality(A \ {x}) = IF x \in A THEN Cardinality(A) - 1 ELSE Cardinality(A)
  BY <1>5, Zenon DEF Counting, RemoveCount
<1>8. Cardinality(B \ {x}) = IF x \in B THEN Cardinality(B) - 1 ELSE Cardinality(B)
  BY <1>5, Zenon DEF Counting, RemoveCount
<1>9. /\ Cardinality(B) = Cardinality(A) - Hits(f[p][i], e) + Hits(v, e)
      /\ Hits(f[p][i], e) <= Cardinality(A)
  <2>1. PICK a \in Nat, b \in Nat, d \in Nat :
           a = Cardinality(A) /\ b = Cardinality(B) /\ d = Cardinality(A \ {x})
    BY <1>5, <1>6, Zenon
  <2>2. d = Cardinality(B \ {x})
    BY <1>4, <2>1, Zenon
  <2>3. d = (IF f[p][i] = e THEN a - 1 ELSE a) /\ d = (IF v = e THEN b - 1 ELSE b)
    BY <1>3, <1>7, <1>8, <2>1, <2>2, Zenon
  <2>4. b = a - Hits(f[p][i], e) + Hits(v, e) /\ Hits(f[p][i], e) <= a
    BY <2>3 DEF Hits
  <2> QED BY <2>1, <2>4, Zenon
<1> QED BY <1>9, Zenon DEF A, B

(* onOpen() and onClose() of one descriptor.                               *)
LEMMA EndsOfOne ==
    ASSUME Counting, NEW v, NEW e
    PROVE  Ends(<<v>>, e) = Hits(v, e) /\ Ends(<<v>>, e) \in Nat
<1>1. DOMAIN <<v>> = {1} /\ <<v>>[1] = v
  OBVIOUS
<1>2. CASE v = e
  <2>1. {i \in DOMAIN <<v>> : <<v>>[i] = e} = {1}
    BY <1>1, <1>2, Zenon
  <2>2. Cardinality({1}) = 1
    BY Zenon DEF Counting, SingleCount
  <2> QED BY <1>2, <2>1, <2>2 DEF Ends, Hits
<1>3. CASE v # e
  <2>1. {i \in DOMAIN <<v>> : <<v>>[i] = e} = {}
    BY <1>1, <1>3, Zenon
  <2>2. Cardinality({}) = 0
    BY Zenon DEF Counting, EmptyCount
  <2> QED BY <1>3, <2>1, <2>2 DEF Ends, Hits
<1> QED BY <1>2, <1>3, Zenon

(* The descriptors of one table.                                           *)
LEMMA EndsOfTable ==
    ASSUME Counting, NEW t \in [Fds -> Kinds], NEW e, NEW p
    PROVE  /\ Ends(t, e) = Cardinality({p} \X {i \in Fds : t[i] = e})
           /\ IsFiniteSet({p} \X {i \in Fds : t[i] = e}) /\ Ends(t, e) \in Nat
<1> DEFINE S == {i \in Fds : t[i] = e}
<1>1. IsFiniteSet(Fds)
  <2>1. 0 \in Int /\ MaxFds - 1 \in Int
    BY PipeConstants
  <2> QED BY <2>1, Zenon DEF Fds, Counting, IntervalCount
<1>2. IsFiniteSet(S) /\ Cardinality(S) \in Nat
  BY <1>1, Zenon DEF Counting, PartCount, EmptyCount
<1>3. IsFiniteSet({p}) /\ Cardinality({p}) = 1
  BY Zenon DEF Counting, SingleCount
<1>4. Ends(t, e) = Cardinality(S)
  BY Zenon DEF Ends
<1> HIDE DEF S
<1>5. IsFiniteSet({p} \X S) /\ Cardinality({p} \X S) = 1 * Cardinality(S)
  BY <1>2, <1>3 DEF Counting, ProductCount
<1> QED BY <1>2, <1>4, <1>5 DEF S

(* FdTable::clone: table c becomes a copy t of one in use.                 *)
TableCloned(f, rf, c, t, g, rg) ==
    /\ f \in [Actors -> [Fds -> Kinds]] /\ rf \in [Actors -> Nat]
    /\ c \in Actors /\ rf[c] = 0 /\ t \in [Fds -> Kinds]
    /\ g = [f EXCEPT ![c] = t] /\ rg = [rf EXCEPT ![c] = 1]

(* Every descriptor of t is there once more.                               *)
LEMMA CloneTable ==
    ASSUME Counting, NEW f, NEW rf, NEW c, NEW t, NEW g, NEW rg, TableCloned(f, rf, c, t, g, rg), NEW e
    PROVE  /\ Cardinality(OpenIn(g, rg, e)) = Cardinality(OpenIn(f, rf, e)) + Ends(t, e)
           /\ Ends(t, e) \in Nat
<1> DEFINE A == OpenIn(f, rf, e)
           B == OpenIn(g, rg, e)
           T == {c} \X {i \in Fds : t[i] = e}
<1>1. B = A \cup T /\ A \cap T = {}
  BY DEF OpenIn, TableCloned
<1>2. Ends(t, e) = Cardinality(T) /\ IsFiniteSet(T) /\ Ends(t, e) \in Nat
  <2>1. t \in [Fds -> Kinds]
    BY Zenon DEF TableCloned
  <2> QED BY <2>1, EndsOfTable, Zenon
<1>3. IsFiniteSet(A) /\ Cardinality(A) \in Nat
  BY OpenFinite, Zenon
<1> HIDE DEF A, B, T
<1>4. Cardinality(A \cup T) = Cardinality(A) + Cardinality(T) - Cardinality(A \cap T)
  BY <1>2, <1>3, Zenon DEF Counting, UnionCount
<1>5. Cardinality({}) = 0
  BY Zenon DEF Counting, EmptyCount
<1>6. Cardinality(B) = Cardinality(A) + Ends(t, e)
  <2>1. Cardinality(A \cup T) = Cardinality(B) /\ Cardinality(A \cap T) = 0
    BY <1>1, <1>5, Zenon
  <2> QED BY <1>2, <1>3, <1>4, <2>1
<1> QED BY <1>2, <1>6, Zenon DEF A, B

(* The last reference to the table t of p goes.                            *)
TableDropped(f, rf, p, t, g, rg) ==
    /\ f \in [Actors -> [Fds -> Kinds]] /\ rf \in [Actors -> Nat]
    /\ p \in Actors /\ rf[p] > 0 /\ t = f[p] /\ t \in [Fds -> Kinds]
    /\ g \in [Actors -> [Fds -> Kinds]] /\ (\A q \in Actors \ {p} : g[q] = f[q])
    /\ rg = [rf EXCEPT ![p] = 0]

(* Its descriptors go with it.                                             *)
LEMMA DropTable ==
    ASSUME Counting, NEW f, NEW rf, NEW p, NEW t, NEW g, NEW rg, TableDropped(f, rf, p, t, g, rg), NEW e
    PROVE  /\ Cardinality(OpenIn(g, rg, e)) = Cardinality(OpenIn(f, rf, e)) - Ends(t, e)
           /\ Ends(t, e) <= Cardinality(OpenIn(f, rf, e))
<1> DEFINE A == OpenIn(f, rf, e)
           B == OpenIn(g, rg, e)
           T == {p} \X {i \in Fds : t[i] = e}
<1>1. B = A \ T /\ T \subseteq A
  BY DEF OpenIn, TableDropped
<1>2. Ends(t, e) = Cardinality(T) /\ IsFiniteSet(T) /\ Ends(t, e) \in Nat
  <2>1. t \in [Fds -> Kinds]
    BY Zenon DEF TableDropped
  <2> QED BY <2>1, EndsOfTable, Zenon
<1>3. IsFiniteSet(A) /\ Cardinality(A) \in Nat
  BY OpenFinite, Zenon
<1> HIDE DEF A, B, T
<1>4. Cardinality(A \ T) = Cardinality(A) - Cardinality(A \cap T)
  BY <1>3, Zenon DEF Counting, LessCount
<1>5. A \cap T = T
  BY <1>1, Zenon
<1>6. Cardinality(T) <= Cardinality(A)
  BY <1>1, <1>3, Zenon DEF Counting, PartCount
<1>7. Cardinality(B) = Cardinality(A) - Ends(t, e) /\ Ends(t, e) <= Cardinality(A)
  BY <1>1, <1>2, <1>3, <1>4, <1>5, <1>6, Zenon
<1> QED BY <1>7, Zenon DEF A, B

-----------------------------------------------------------------------------
(* The invariant.  A table that somebody uses is referred to; the counters *)
(* are exact; a pipe without descriptors is deleted.                       *)
Calls == [op : {"none", "read", "write", "exit"}, fd : Nat, len : Nat, src : Seq(Bytes)]

TablesTyped ==
    /\ table \in [Actors -> Actors \cup {NoTable}]
    /\ fds \in [Actors -> [Fds -> Kinds]]
    /\ refs \in [Actors -> Nat]

CallsTyped ==
    /\ call \in [Actors -> Calls]
    /\ \A a \in Actors : call[a].op = "read" => call[a].len > 0

TablesReferred == \A a \in Actors : table[a] # NoTable => refs[table[a]] > 0

Counted(pi, f, rf) ==
    /\ pi.readers = Cardinality(OpenIn(f, rf, "r"))
    /\ pi.writers = Cardinality(OpenIn(f, rf, "w"))
    /\ ~pi.live => pi.readers = 0 /\ pi.writers = 0

PipeInv ==
    TablesTyped /\ CallsTyped /\ Ring(pipe) /\ TablesReferred /\ Counted(pipe, fds, refs)

(* What a change of the pipe that is no read() and no write() may do to    *)
(* the bytes in it: keep them, or discard them all.                        *)
Kept(pi, po) ==
    /\ Ring(po)
    /\ po.count = 0 \/ (po.count = pi.count /\ po.buf = pi.buf /\ po.tail = pi.tail)

(* The stream then takes a step of its own.                                *)
LEMMA KeptStream ==
    ASSUME Ring(pipe), Kept(pipe, pipe'), out' = out
    PROVE  [Stream!Next]_(Stream!vars)
<1>1. CASE pipe'.count = 0
  <2>1. Oldest(pipe', 0) = <<>>
    <3>1. 0 \in 0 .. pipe'.count
      BY <1>1
    <3>2. Oldest(pipe', 0) \in Seq(Bytes) /\ Len(Oldest(pipe', 0)) = 0
      BY <3>1, OldestBytes, Zenon DEF Kept
    <3> QED BY <3>2, SeqEmpty, Zenon
  <2>2. Oldest(pipe', pipe'.count) = <<>>
    BY <1>1, <2>1, Zenon
  <2> QED BY <2>2, Zenon DEF Stream!Next, Stream!Discard
<1>2. CASE pipe'.count # 0
  <2>1. Oldest(pipe', pipe'.count) = Oldest(pipe, pipe.count)
    BY <1>2, Zenon DEF Kept, Oldest
  <2> QED BY <2>1, Zenon DEF Stream!vars
<1> QED BY <1>1, <1>2, Zenon

(* A deleted or new pipe is empty.                                         *)
LEMMA NoPipeEmpty ==
    ASSUME NEW pi, pi = NoPipe \/ pi = [NoPipe EXCEPT !.live = TRUE, !.readers = 1, !.writers = 1]
    PROVE  /\ \A pj : Kept(pj, pi)
           /\ pi = NoPipe => pi.readers = 0 /\ pi.writers = 0
           /\ pi # NoPipe => pi.live /\ pi.readers = 1 /\ pi.writers = 1
<1>1. Size \in Nat \ {0} /\ 0 \in 0 .. Size - 1 /\ 0 \in 0 .. Size
  BY PipeConstants
<1>2. [i \in 0 .. Size - 1 |-> CHOOSE b \in Bytes : TRUE] \in [0 .. Size - 1 -> Bytes]
  BY PipeConstants, Zenon
<1>3. PICK none \in [0 .. Size - 1 -> Bytes] : none = [i \in 0 .. Size - 1 |-> CHOOSE b \in Bytes : TRUE]
  BY <1>2, Zenon
<1>4. At(0 + 0) = 0
  <2>1. 0 \in 0 .. 2 * Size - 1 /\ 0 < Size /\ 0 + 0 = 0
    BY <1>1
  <2> QED BY <2>1, AtOnce, Zenon
<1>5. NoPipe = [live |-> FALSE, buf |-> none, head |-> 0, tail |-> 0, count |-> 0,
                readers |-> 0, writers |-> 0]
  BY <1>3, Zenon DEF NoPipe
<1>6. /\ pi.head = 0 /\ pi.tail = 0 /\ pi.count = 0
      /\ pi \in [live : BOOLEAN, buf : [0 .. Size - 1 -> Bytes], head : 0 .. Size - 1,
                 tail : 0 .. Size - 1, count : 0 .. Size, readers : Nat, writers : Nat]
      /\ pi = NoPipe => pi.readers = 0 /\ pi.writers = 0
      /\ pi # NoPipe => pi.live /\ pi.readers = 1 /\ pi.writers = 1
  <2>1. CASE pi = NoPipe
    BY <1>1, <1>5, <2>1, Zenon
  <2>2. CASE pi = [NoPipe EXCEPT !.live = TRUE, !.readers = 1, !.writers = 1]
    <3>1. pi = [live |-> TRUE, buf |-> none, head |-> 0, tail |-> 0, count |-> 0,
                readers |-> 1, writers |-> 1]
      BY <1>5, <2>2, Zenon
    <3>2. pi # NoPipe
      <4>1. pi.readers = 1 /\ NoPipe.readers = 0
        BY <1>5, <3>1, Zenon
      <4> QED BY <4>1
    <3> QED BY <1>1, <3>1, <3>2, Zenon
  <2> QED BY <2>1, <2>2, Zenon
<1> QED BY <1>4, <1>6, Zenon DEF Kept, Ring

(* PipeInode::onOpen.                                                      *)
LEMMA Opens ==
    ASSUME NEW pi, Ring(pi), NEW f, Ends(f, "r") \in Nat, Ends(f, "w") \in Nat
    PROVE  /\ Kept(pi, OnOpen(pi, f)) /\ OnOpen(pi, f).live = pi.live
           /\ OnOpen(pi, f).readers = pi.readers + Ends(f, "r")
           /\ OnOpen(pi, f).writers = pi.writers + Ends(f, "w")
<1> DEFINE po == OnOpen(pi, f)
<1>1. /\ po.live = pi.live /\ po.head = pi.head /\ po.tail = pi.tail /\ po.count = pi.count
      /\ po.buf = pi.buf /\ po.readers = pi.readers + Ends(f, "r")
      /\ po.writers = pi.writers + Ends(f, "w")
      /\ po = [pi EXCEPT !.readers = pi.readers + Ends(f, "r"),
                         !.writers = pi.writers + Ends(f, "w")]
  BY Zenon DEF OnOpen, Ring
<1>2. pi.readers + Ends(f, "r") \in Nat /\ pi.writers + Ends(f, "w") \in Nat
  BY DEF Ring
<1> HIDE DEF po
<1>3. Ring(po)
  BY <1>1, <1>2, Zenon DEF Ring
<1> QED BY <1>1, <1>3, Zenon DEF Kept, po

(* PipeInode::onClose of descriptors that are counted.                     *)
LEMMA Closes ==
    ASSUME NEW pi, Ring(pi), NEW f, Ends(f, "r") \in Nat, Ends(f, "w") \in Nat,
           Ends(f, "r") <= pi.readers, Ends(f, "w") <= pi.writers,
           ~pi.live => pi.readers = 0 /\ pi.writers = 0
    PROVE  /\ Kept(pi, OnClose(pi, f))
           /\ OnClose(pi, f).readers = pi.readers - Ends(f, "r")
           /\ OnClose(pi, f).writers = pi.writers - Ends(f, "w")
           /\ ~OnClose(pi, f).live => OnClose(pi, f).readers = 0 /\ OnClose(pi, f).writers = 0
<1>1. PICK r \in Nat, w \in Nat : r = pi.readers - Ends(f, "r") /\ w = pi.writers - Ends(f, "w")
  BY DEF Ring
<1>2. Less(pi.readers, Ends(f, "r")) = r /\ Less(pi.writers, Ends(f, "w")) = w
  BY <1>1 DEF Less, Ring
<1>3. CASE r = 0 /\ w = 0
  <2>1. OnClose(pi, f) = NoPipe
    BY <1>2, <1>3, Zenon DEF OnClose
  <2>2. Kept(pi, NoPipe) /\ NoPipe.readers = 0 /\ NoPipe.writers = 0
    BY NoPipeEmpty, Zenon
  <2> QED BY <1>1, <1>3, <2>1, <2>2, Zenon
<1>4. CASE ~(r = 0 /\ w = 0)
  <2>1. OnClose(pi, f) = [pi EXCEPT !.readers = r, !.writers = w]
    BY <1>2, <1>4, Zenon DEF OnClose
  <2>2. PICK po : po = OnClose(pi, f)
    BY Zenon
  <2>3. /\ po.live = pi.live /\ po.head = pi.head /\ po.tail = pi.tail /\ po.count = pi.count
        /\ po.buf = pi.buf /\ po.readers = r /\ po.writers = w
    BY <2>1, <2>2, Zenon DEF Ring
  <2>4. Ring(po)
    BY <2>1, <2>2, <2>3, Zenon DEF Ring
  <2>5. pi.live
    BY <1>1, <1>4 DEF Ring
  <2>6. Kept(pi, po)
    BY <2>3, <2>4, Zenon DEF Kept
  <2> QED BY <1>1, <2>2, <2>3, <2>5, <2>6, Zenon
<1> QED BY <1>3, <1>4, Zenon

-----------------------------------------------------------------------------
(* The calls that copy and drop descriptors *)

(* The least of two numbers.                                               *)
LEMMA MinOfTwo ==
    ASSUME Counting, NEW x \in Nat, NEW y \in Nat
    PROVE  /\ Min({x, y}) \in Nat /\ Min({x, y}) <= x /\ Min({x, y}) <= y
           /\ Min({x, y}) = x \/ Min({x, y}) = y
<1>1. {x, y} \subseteq Nat /\ {x, y} # {}
  BY Zenon
<1>2. Min({x, y}) \in {x, y} /\ \A z \in {x, y} : Min({x, y}) <= z
  BY <1>1, Zenon DEF Counting, LeastNumber, Min
<1> QED BY <1>2, Zenon

(* An actor in user mode has a table.                                      *)
LEMMA HasTable ==
    ASSUME PipeInv, NEW a \in Actors, table[a] # NoTable
    PROVE  /\ table[a] \in Actors /\ refs[table[a]] > 0 /\ refs[table[a]] \in Nat
           /\ fds[table[a]] \in [Fds -> Kinds]
<1>1. table[a] \in Actors
  BY Zenon DEF PipeInv, TablesTyped
<1> QED BY <1>1, Zenon DEF PipeInv, TablesTyped, TablesReferred

(* What setting one entry of a table in use does to the counts.            *)
EntryEffect(x, v, g) ==
    /\ g \in [Actors -> [Fds -> Kinds]] /\ x \in Kinds
    /\ Cardinality(OpenIn(g, refs, "r")) = pipe.readers - Hits(x, "r") + Hits(v, "r")
    /\ Cardinality(OpenIn(g, refs, "w")) = pipe.writers - Hits(x, "w") + Hits(v, "w")
    /\ Hits(x, "r") <= pipe.readers /\ Hits(x, "w") <= pipe.writers
    /\ x # "free" => pipe.live

(* That is what it does.                                                   *)
LEMMA EntryCounts ==
    ASSUME Counting, PipeInv, NEW p, NEW i, NEW v, NEW g, EntrySet(fds, refs, p, i, v, g)
    PROVE  EntryEffect(fds[p][i], v, g)
<1>2. /\ Cardinality(OpenIn(g, refs, "r"))
           = Cardinality(OpenIn(fds, refs, "r")) - Hits(fds[p][i], "r") + Hits(v, "r")
      /\ Hits(fds[p][i], "r") <= Cardinality(OpenIn(fds, refs, "r"))
  BY SetDescriptor, Zenon
<1>3. /\ Cardinality(OpenIn(g, refs, "w"))
           = Cardinality(OpenIn(fds, refs, "w")) - Hits(fds[p][i], "w") + Hits(v, "w")
      /\ Hits(fds[p][i], "w") <= Cardinality(OpenIn(fds, refs, "w"))
  BY SetDescriptor, Zenon
<1>4. /\ pipe.readers = Cardinality(OpenIn(fds, refs, "r"))
      /\ pipe.writers = Cardinality(OpenIn(fds, refs, "w"))
      /\ ~pipe.live => pipe.readers = 0 /\ pipe.writers = 0
      /\ pipe.readers \in Nat /\ pipe.writers \in Nat
  BY Zenon DEF PipeInv, Counted, Ring
<1>5. g \in [Actors -> [Fds -> Kinds]] /\ fds[p][i] \in Kinds
  BY Zenon DEF EntrySet
<1>6. /\ Hits(fds[p][i], "r") <= pipe.readers /\ Hits(fds[p][i], "w") <= pipe.writers
  BY <1>2, <1>3, <1>4, Zenon
<1>7. fds[p][i] # "free" => pipe.live
  BY <1>4, <1>5, <1>6 DEF Hits, Kinds
<1> QED BY <1>2, <1>3, <1>4, <1>5, <1>6, <1>7, Zenon DEF EntryEffect

(* A step that leaves the references and the calls alone.                  *)
LEMMA DescriptorStep ==
    ASSUME PipeInv, UNCHANGED <<table, refs, call, out>>, fds' \in [Actors -> [Fds -> Kinds]],
           Kept(pipe, pipe'), Counted(pipe', fds', refs)
    PROVE  PipeInv' /\ Kept(pipe, pipe') /\ out' = out
BY DEF PipeInv, TablesTyped, CallsTyped, TablesReferred, Counted, OpenIn, Kept

(* sys_pipe2 takes two free entries, and no descriptor is left of the pipe *)
(* before.                                                                 *)
LEMMA PipePipe2 ==
    ASSUME Counting, PipeInv, NEW a \in Actors, Pipe2(a)
    PROVE  PipeInv' /\ Kept(pipe, pipe') /\ out' = out
<1>1. PICK p \in Actors : p = table[a] /\ refs[p] > 0
  BY HasTable, Zenon DEF Pipe2, Idle
<1>2. PICK S : S = FreeFds(p)
  BY Zenon
<1>3. /\ S \subseteq Nat /\ S \subseteq Fds /\ \A i \in S : fds[p][i] = "free"
      /\ Cardinality(S) >= 2
  BY <1>1, <1>2, PipeConstants DEF Pipe2, FreeFds, Fds
<1>4. S # {}
  <2>1. Cardinality({}) = 0
    BY Zenon DEF Counting, EmptyCount
  <2> QED BY <1>3, <2>1
<1>5. PICK first \in S : first = Min(S)
  BY <1>3, <1>4, Zenon DEF Counting, LeastNumber, Min
<1>6. S \ {first} # {}
  <2>1. Cardinality({first}) = 1
    BY Zenon DEF Counting, SingleCount
  <2>2. S \ {first} = {} => S = {first}
    BY Zenon
  <2> QED BY <1>3, <2>1, <2>2
<1>7. PICK second \in S \ {first} : second = Min(S \ {first})
  <2>1. S \ {first} \subseteq Nat
    BY <1>3, Zenon
  <2> QED BY <1>6, <2>1, Zenon DEF Counting, LeastNumber, Min
<1>8. /\ fds' = [fds EXCEPT ![p][first] = "r", ![p][second] = "w"]
      /\ pipe' = [NoPipe EXCEPT !.live = TRUE, !.readers = 1, !.writers = 1]
      /\ ~pipe.live /\ UNCHANGED <<table, refs, call, out>>
  BY <1>1, <1>2, <1>5, <1>7, Zenon DEF Pipe2, Lowest
<1>9. PICK g : g = [fds EXCEPT ![p][first] = "r"]
  BY Zenon
<1>10. /\ g \in [Actors -> [Fds -> Kinds]] /\ refs \in [Actors -> Nat]
       /\ Cardinality(OpenIn(g, refs, "r")) = 1 /\ Cardinality(OpenIn(g, refs, "w")) = 0
       /\ g[p][second] = "free"
  <2>1. first \in Fds /\ fds[p][first] = "free" /\ second \in Fds /\ fds[p][second] = "free"
        /\ "r" \in Kinds /\ first # second
    BY <1>3, Zenon DEF Kinds
  <2>4. fds \in [Actors -> [Fds -> Kinds]] /\ refs \in [Actors -> Nat]
    BY Zenon DEF PipeInv, TablesTyped
  <2>2. /\ g \in [Actors -> [Fds -> Kinds]]
        /\ Cardinality(OpenIn(g, refs, "r")) = pipe.readers - Hits("free", "r") + Hits("r", "r")
        /\ Cardinality(OpenIn(g, refs, "w")) = pipe.writers - Hits("free", "w") + Hits("r", "w")
    <3>1. PICK v \in Kinds : v = "r"
      BY <2>1, Zenon
    <3>2. EntrySet(fds, refs, p, first, v, g)
      BY <1>1, <1>9, <2>1, <2>4, <3>1, Zenon DEF EntrySet
    <3>3. EntryEffect(fds[p][first], v, g)
      BY <3>2, EntryCounts, Zenon
    <3> QED BY <2>1, <3>1, <3>3, Zenon DEF EntryEffect
  <2>3. pipe.readers = 0 /\ pipe.writers = 0
    BY <1>8, Zenon DEF PipeInv, Counted
  <2>5. g[p][second] = "free"
    BY <1>9, <2>1, <2>4, Zenon
  <2> QED BY <2>2, <2>3, <2>4, <2>5 DEF Hits
<1>11. fds' = [g EXCEPT ![p][second] = "w"]
  BY <1>8, <1>9, Zenon
<1>12. Cardinality(OpenIn(fds', refs, "r")) = 1 /\ Cardinality(OpenIn(fds', refs, "w")) = 1
  <2>1. second \in Fds /\ "w" \in Kinds
    BY <1>3, Zenon DEF Kinds
  <2>4. g \in [Actors -> [Fds -> Kinds]] /\ refs \in [Actors -> Nat] /\ refs[p] > 0
    BY <1>1, <1>10, Zenon
  <2>5. PICK v \in Kinds, h \in {fds'} : h = fds' /\ v = "w" /\ h = [g EXCEPT ![p][second] = v]
    BY <1>11, <2>1, Zenon
  <2>8. EntrySet(g, refs, p, second, v, h)
    BY <2>1, <2>4, <2>5, Zenon DEF EntrySet
  <2>6. /\ Cardinality(OpenIn(h, refs, "r"))
             = Cardinality(OpenIn(g, refs, "r")) - Hits(g[p][second], "r") + Hits(v, "r")
        /\ Hits(g[p][second], "r") <= Cardinality(OpenIn(g, refs, "r"))
    BY <2>8, SetDescriptor, Zenon
  <2>7. /\ Cardinality(OpenIn(h, refs, "w"))
             = Cardinality(OpenIn(g, refs, "w")) - Hits(g[p][second], "w") + Hits(v, "w")
        /\ Hits(g[p][second], "w") <= Cardinality(OpenIn(g, refs, "w"))
    BY <2>8, SetDescriptor, Zenon
  <2>2. Cardinality(OpenIn(fds', refs, "r")) = 1 - Hits("free", "r") + Hits("w", "r")
    BY ONLY <1>10, <2>5, <2>6, Zenon
  <2>3. Cardinality(OpenIn(fds', refs, "w")) = 0 - Hits("free", "w") + Hits("w", "w")
    BY ONLY <1>10, <2>5, <2>7, Zenon
  <2> QED BY <2>2, <2>3 DEF Hits
<1>13. fds' \in [Actors -> [Fds -> Kinds]]
  BY <1>10, <1>11, Zenon DEF Kinds
<1>14. Kept(pipe, pipe') /\ pipe'.readers = 1 /\ pipe'.writers = 1 /\ pipe'.live
  <2>1. PICK pi : pi = [NoPipe EXCEPT !.live = TRUE, !.readers = 1, !.writers = 1]
    BY Zenon
  <2>2. pi.live
    BY <2>1, Zenon DEF NoPipe
  <2>3. pi # NoPipe
    BY <2>2 DEF NoPipe
  <2> QED BY <1>8, <2>1, <2>3, NoPipeEmpty, Zenon
<1>15. Counted(pipe', fds', refs)
  BY <1>12, <1>14, Zenon DEF Counted
<1> QED BY <1>8, <1>13, <1>14, <1>15, DescriptorStep, Zenon

(* sys_dup: the copy is counted before it is stored.                       *)
LEMMA PipeDup ==
    ASSUME Counting, PipeInv, NEW a \in Actors, NEW fd \in Fds, Dup(a, fd)
    PROVE  PipeInv' /\ Kept(pipe, pipe') /\ out' = out
<1>1. PICK p \in Actors : p = table[a] /\ refs[p] > 0
  BY HasTable, Zenon DEF Dup, Idle
<1>2. PICK i \in Fds : i = Lowest(p) /\ fds[p][i] = "free"
  <2>1. FreeFds(p) \subseteq Nat /\ FreeFds(p) # {}
    BY <1>1, PipeConstants DEF Dup, FreeFds, Fds
  <2>2. Min(FreeFds(p)) \in FreeFds(p)
    BY <2>1, Zenon DEF Counting, LeastNumber, Min
  <2> QED BY <2>2, Zenon DEF FreeFds, Lowest
<1>3. fds \in [Actors -> [Fds -> Kinds]] /\ refs \in [Actors -> Nat]
  BY Zenon DEF PipeInv, TablesTyped
<1>4. PICK v \in Kinds : v = fds[p][fd]
  BY <1>3, Zenon
<1>5. /\ fds' = [fds EXCEPT ![p][i] = v] /\ pipe' = OnOpen(pipe, <<v>>) /\ v # "free"
      /\ UNCHANGED <<table, refs, call, out>>
  BY <1>1, <1>2, <1>4, Zenon DEF Dup
<1>6. EntrySet(fds, refs, p, i, v, fds')
  BY <1>1, <1>3, <1>5, Zenon DEF EntrySet
<1>7. EntryEffect(fds[p][i], v, fds')
  BY <1>6, EntryCounts, Zenon
<1>8. EntrySet(fds, refs, p, fd, v, fds) /\ fds[p][fd] = v
  BY <1>1, <1>3, <1>4, Zenon DEF EntrySet
<1>9. EntryEffect(fds[p][fd], v, fds)
  BY <1>8, EntryCounts, Zenon
<1>10. /\ Ends(<<v>>, "r") = Hits(v, "r") /\ Ends(<<v>>, "r") \in Nat
       /\ Ends(<<v>>, "w") = Hits(v, "w") /\ Ends(<<v>>, "w") \in Nat
  BY EndsOfOne, Zenon
<1>11. /\ Kept(pipe, pipe') /\ pipe'.live = pipe.live
       /\ pipe'.readers = pipe.readers + Hits(v, "r")
       /\ pipe'.writers = pipe.writers + Hits(v, "w")
  BY <1>5, <1>10, Opens DEF PipeInv
<1>12. pipe'.live
  BY <1>5, <1>8, <1>9, <1>11, Zenon DEF EntryEffect
<1>13. Counted(pipe', fds', refs)
  <2>1. Hits(fds[p][i], "r") = 0 /\ Hits(fds[p][i], "w") = 0
    BY <1>2, Zenon DEF Hits
  <2>2. pipe.readers \in Nat /\ pipe.writers \in Nat
    BY Zenon DEF PipeInv, Ring
  <2> QED BY <1>7, <1>11, <1>12, <2>1, <2>2 DEF EntryEffect, Counted
<1> QED BY <1>5, <1>7, <1>11, <1>13, DescriptorStep, Zenon DEF EntryEffect

(* FdTable::close.                                                         *)
LEMMA PipeClose ==
    ASSUME Counting, PipeInv, NEW a \in Actors, NEW fd \in Fds, Close(a, fd)
    PROVE  PipeInv' /\ Kept(pipe, pipe') /\ out' = out
<1>1. PICK p \in Actors : p = table[a] /\ refs[p] > 0
  BY HasTable, Zenon DEF Close, Idle
<1>2. fds \in [Actors -> [Fds -> Kinds]] /\ refs \in [Actors -> Nat] /\ "free" \in Kinds
  BY Zenon DEF PipeInv, TablesTyped, Kinds
<1>3. PICK x \in Kinds : x = fds[p][fd]
  BY <1>2, Zenon
<1>4. /\ fds' = [fds EXCEPT ![p][fd] = "free"] /\ pipe' = OnClose(pipe, <<x>>)
      /\ UNCHANGED <<table, refs, call, out>>
  BY <1>1, <1>3, Zenon DEF Close
<1>5. EntrySet(fds, refs, p, fd, "free", fds')
  BY <1>1, <1>2, <1>4, Zenon DEF EntrySet
<1>6. EntryEffect(x, "free", fds')
  BY <1>3, <1>5, EntryCounts, Zenon
<1>7. /\ Ends(<<x>>, "r") = Hits(x, "r") /\ Ends(<<x>>, "r") \in Nat
      /\ Ends(<<x>>, "w") = Hits(x, "w") /\ Ends(<<x>>, "w") \in Nat
  BY EndsOfOne, Zenon
<1>8. /\ Ring(pipe) /\ Hits(x, "r") <= pipe.readers /\ Hits(x, "w") <= pipe.writers
      /\ ~pipe.live => pipe.readers = 0 /\ pipe.writers = 0
      /\ pipe.readers \in Nat /\ pipe.writers \in Nat
  BY <1>6, Zenon DEF PipeInv, Counted, EntryEffect, Ring
<1>9. /\ Kept(pipe, pipe')
      /\ pipe'.readers = pipe.readers - Hits(x, "r")
      /\ pipe'.writers = pipe.writers - Hits(x, "w")
      /\ ~pipe'.live => pipe'.readers = 0 /\ pipe'.writers = 0
  BY <1>4, <1>7, <1>8, Closes
<1>10. Counted(pipe', fds', refs)
  <2>1. Hits("free", "r") = 0 /\ Hits("free", "w") = 0
    BY Zenon DEF Hits
  <2>2. Hits(x, "r") \in Nat /\ Hits(x, "w") \in Nat
    BY Zenon DEF Hits
  <2> QED BY <1>6, <1>8, <1>9, <2>1, <2>2 DEF EntryEffect, Counted
<1> QED BY <1>4, <1>6, <1>9, <1>10, DescriptorStep, Zenon DEF EntryEffect

(* sys_dup3: the copy is counted before what it replaces is closed, so     *)
(* that the pipe is not deleted in between.                                *)
LEMMA PipeDup3 ==
    ASSUME Counting, PipeInv, NEW a \in Actors, NEW old \in Fds, NEW new \in Fds, Dup3(a, old, new)
    PROVE  PipeInv' /\ Kept(pipe, pipe') /\ out' = out
<1>1. PICK p \in Actors : p = table[a] /\ refs[p] > 0
  BY HasTable, Zenon DEF Dup3, Idle
<1>2. fds \in [Actors -> [Fds -> Kinds]] /\ refs \in [Actors -> Nat]
  BY Zenon DEF PipeInv, TablesTyped
<1>3. PICK x \in Kinds, v \in Kinds : x = fds[p][new] /\ v = fds[p][old]
  BY <1>2, Zenon
<1>4. PICK mid : mid = OnOpen(pipe, <<v>>)
  BY Zenon
<1>5. /\ fds' = [fds EXCEPT ![p][new] = v] /\ pipe' = OnClose(mid, <<x>>) /\ v # "free"
      /\ UNCHANGED <<table, refs, call, out>>
  BY <1>1, <1>3, <1>4, Zenon DEF Dup3
<1>6. EntrySet(fds, refs, p, new, v, fds') /\ EntrySet(fds, refs, p, old, v, fds)
  BY <1>1, <1>2, <1>3, <1>5, Zenon DEF EntrySet
<1>7. EntryEffect(x, v, fds') /\ EntryEffect(v, v, fds)
  BY <1>3, <1>6, EntryCounts, Zenon
<1>8. /\ Ends(<<x>>, "r") = Hits(x, "r") /\ Ends(<<x>>, "r") \in Nat
      /\ Ends(<<x>>, "w") = Hits(x, "w") /\ Ends(<<x>>, "w") \in Nat
      /\ Ends(<<v>>, "r") = Hits(v, "r") /\ Ends(<<v>>, "r") \in Nat
      /\ Ends(<<v>>, "w") = Hits(v, "w") /\ Ends(<<v>>, "w") \in Nat
  BY EndsOfOne, Zenon
<1>9. pipe.readers \in Nat /\ pipe.writers \in Nat /\ pipe.live
  BY <1>5, <1>7, Zenon DEF PipeInv, Ring, EntryEffect
<1>10. /\ Kept(pipe, mid) /\ mid.live = pipe.live
       /\ mid.readers = pipe.readers + Hits(v, "r")
       /\ mid.writers = pipe.writers + Hits(v, "w")
  BY <1>4, <1>8, Opens DEF PipeInv
<1>11. /\ Ring(mid) /\ Hits(x, "r") <= mid.readers /\ Hits(x, "w") <= mid.writers /\ mid.live
  BY <1>7, <1>8, <1>9, <1>10 DEF Kept, EntryEffect
<1>12. /\ Kept(mid, pipe')
       /\ pipe'.readers = mid.readers - Hits(x, "r")
       /\ pipe'.writers = mid.writers - Hits(x, "w")
       /\ ~pipe'.live => pipe'.readers = 0 /\ pipe'.writers = 0
  BY <1>5, <1>8, <1>11, Closes
<1>13. Kept(pipe, pipe')
  BY <1>10, <1>12, Zenon DEF Kept
<1>14. Counted(pipe', fds', refs)
  <2>1. pipe'.readers = pipe.readers - Hits(x, "r") + Hits(v, "r")
    BY <1>8, <1>9, <1>10, <1>12
  <2>2. pipe'.writers = pipe.writers - Hits(x, "w") + Hits(v, "w")
    BY <1>8, <1>9, <1>10, <1>12
  <2> QED BY <1>7, <1>12, <2>1, <2>2, Zenon DEF EntryEffect, Counted
<1> QED BY <1>5, <1>7, <1>13, <1>14, DescriptorStep DEF EntryEffect

(* fork() or cloneThread() spins for ever.                                 *)
LEMMA PipeHang ==
    ASSUME PipeInv, Hang
    PROVE  PipeInv' /\ Kept(pipe, pipe') /\ out' = out
BY Zenon DEF PipeInv, TablesTyped, CallsTyped, TablesReferred, Counted, OpenIn, Kept, Hang

(* Process::fork.                                                          *)
LEMMA PipeFork ==
    ASSUME Counting, PipeInv, NEW a \in Actors, NEW c \in Actors, Fork(a, c)
    PROVE  PipeInv' /\ Kept(pipe, pipe') /\ out' = out
<1>1. CASE Locked(table[a])
  BY <1>1, PipeHang, Zenon DEF Fork
<1>2. CASE ~Locked(table[a])
  <2>1. PICK p \in Actors : p = table[a] /\ refs[p] > 0
    BY HasTable, Zenon DEF Fork, Idle
  <2>2. /\ table' = [table EXCEPT ![c] = c] /\ fds' = [fds EXCEPT ![c] = fds[p]]
        /\ refs' = [refs EXCEPT ![c] = 1] /\ refs[c] = 0
        /\ pipe' = (IF pipe.live THEN OnOpen(pipe, fds[p]) ELSE pipe)
        /\ call' = call /\ out' = out
    BY <1>2, <2>1, Zenon DEF Fork, Unused
  <2>3. /\ table \in [Actors -> Actors \cup {NoTable}] /\ refs \in [Actors -> Nat]
        /\ fds \in [Actors -> [Fds -> Kinds]]
    BY Zenon DEF PipeInv, TablesTyped
  <2>4. PICK t \in [Fds -> Kinds] : t = fds[p]
    BY <2>3, Zenon
  <2>5. /\ Ends(t, "r") \in Nat /\ Ends(t, "w") \in Nat
    BY EndsOfTable, Zenon
  <2>6. /\ Cardinality(OpenIn(fds', refs', "r")) = Cardinality(OpenIn(fds, refs, "r")) + Ends(t, "r")
        /\ Cardinality(OpenIn(fds', refs', "w")) = Cardinality(OpenIn(fds, refs, "w")) + Ends(t, "w")
    <3>1. TableCloned(fds, refs, c, t, fds', refs')
      BY <2>2, <2>3, <2>4, Zenon DEF TableCloned
    <3>2. /\ Cardinality(OpenIn(fds', refs', "r")) = Cardinality(OpenIn(fds, refs, "r")) + Ends(t, "r")
          /\ Ends(t, "r") \in Nat
      BY <3>1, CloneTable, Zenon
    <3>3. /\ Cardinality(OpenIn(fds', refs', "w")) = Cardinality(OpenIn(fds, refs, "w")) + Ends(t, "w")
          /\ Ends(t, "w") \in Nat
      BY <3>1, CloneTable, Zenon
    <3> QED BY <3>2, <3>3, Zenon
  <2>7. TablesTyped' /\ CallsTyped' /\ TablesReferred'
    <3>1. TablesTyped' /\ CallsTyped'
      BY <2>2, <2>3, <2>4, Zenon DEF PipeInv, TablesTyped, CallsTyped
    <3>2. ASSUME NEW u \in Actors, table'[u] # NoTable PROVE refs'[table'[u]] > 0
      <4>1. CASE u = c
        BY <2>2, <2>3, <4>1
      <4>2. CASE u # c
        <5>1. PICK q \in Actors : q = table[u] /\ refs[q] > 0
          BY <2>2, <2>3, <3>2, <4>2, Zenon DEF PipeInv, TablesReferred
        <5> QED BY <2>2, <2>3, <4>2, <5>1
      <4> QED BY <4>1, <4>2, Zenon
    <3> QED BY <3>1, <3>2, Zenon DEF TablesReferred
  <2>8. Ring(pipe) /\ Counted(pipe, fds, refs) /\ pipe.readers \in Nat /\ pipe.writers \in Nat
    BY Zenon DEF PipeInv, Ring
  <2>9. CASE pipe.live
    <3>1. /\ Kept(pipe, pipe') /\ pipe'.live = pipe.live
          /\ pipe'.readers = pipe.readers + Ends(t, "r")
          /\ pipe'.writers = pipe.writers + Ends(t, "w")
      BY <2>2, <2>4, <2>5, <2>8, <2>9, Opens, Zenon
    <3>2. Counted(pipe', fds', refs')
      BY <2>6, <2>8, <2>9, <3>1, Zenon DEF Counted
    <3> QED BY <2>2, <2>7, <3>1, <3>2, Zenon DEF PipeInv, Counted, OpenIn, Kept
  <2>10. CASE ~pipe.live
    <3>1. pipe' = pipe /\ Kept(pipe, pipe')
      BY <2>2, <2>8, <2>10, Zenon DEF Kept
    <3>2. Ends(t, "r") = 0 /\ Ends(t, "w") = 0
      <4>1. \A i \in Fds : t[i] # "r" /\ t[i] # "w"
        <5> TAKE i \in Fds
        <5>1. PICK v \in Kinds : v = fds[p][i]
          BY <2>3, Zenon
        <5>2. EntrySet(fds, refs, p, i, v, fds)
          BY <2>1, <2>3, <5>1, Zenon DEF EntrySet
        <5>3. EntryEffect(v, v, fds)
          BY <5>1, <5>2, EntryCounts, Zenon
        <5> QED BY <2>4, <2>10, <5>1, <5>3, Zenon DEF EntryEffect
      <4>2. {i \in DOMAIN t : t[i] = "r"} = {} /\ {i \in DOMAIN t : t[i] = "w"} = {}
        BY <4>1, Zenon
      <4>3. Cardinality({}) = 0
        BY Zenon DEF Counting, EmptyCount
      <4> QED BY <4>2, <4>3, Zenon DEF Ends
    <3>3. Counted(pipe', fds', refs')
      BY <2>5, <2>6, <2>8, <2>10, <3>1, <3>2 DEF Counted
    <3> QED BY <2>2, <2>7, <2>8, <3>1, <3>3, Zenon DEF PipeInv, Counted, OpenIn
  <2> QED BY <2>9, <2>10, Zenon
<1> QED BY <1>1, <1>2, Zenon

(* Leaving a call, or beginning to exit.                                   *)
LEMMA CallEnds ==
    /\ NoCall \in Calls /\ NoCall.op = "none"
    /\ [NoCall EXCEPT !.op = "exit"] \in Calls /\ [NoCall EXCEPT !.op = "exit"].op = "exit"
<1>1. <<>> \in Seq(Bytes)
  OBVIOUS
<1>2. [NoCall EXCEPT !.op = "exit"] = [op |-> "exit", fd |-> 0, len |-> 0, src |-> <<>>]
  BY DEF NoCall
<1> QED BY <1>1, <1>2, Zenon DEF NoCall, Calls

(* A step that leaves the descriptors and the references alone, and may    *)
(* take tables away from actors.                                           *)
LEMMA LeavingStep ==
    ASSUME PipeInv, UNCHANGED <<fds, refs, pipe, out>>, CallsTyped',
           table' \in [Actors -> Actors \cup {NoTable}],
           \A u \in Actors : table'[u] \in {table[u], NoTable}
    PROVE  PipeInv' /\ Kept(pipe, pipe') /\ out' = out
<1>1. TablesTyped'
  BY Zenon DEF PipeInv, TablesTyped
<1>2. TablesReferred'
  <2> SUFFICES ASSUME NEW u \in Actors, table'[u] # NoTable PROVE refs'[table'[u]] > 0
    BY Zenon DEF TablesReferred
  <2>1. table'[u] = table[u]
    BY Zenon
  <2> QED BY <2>1, Zenon DEF PipeInv, TablesReferred
<1>3. Ring(pipe) /\ Ring(pipe') /\ Kept(pipe, pipe') /\ Counted(pipe, fds, refs)
  BY Zenon DEF PipeInv, Kept
<1>4. Counted(pipe, fds, refs)'
  BY <1>3, Zenon DEF Counted, OpenIn
<1> QED BY <1>1, <1>2, <1>3, <1>4, Zenon DEF PipeInv

(* Thread::exit.                                                           *)
LEMMA PipeThreadExit ==
    ASSUME PipeInv, NEW t \in Actors, ThreadExit(t)
    PROVE  PipeInv' /\ Kept(pipe, pipe') /\ out' = out
<1>1. /\ table' = [table EXCEPT ![t] = NoTable] /\ UNCHANGED <<fds, refs, pipe, call, out>>
      /\ table \in [Actors -> Actors \cup {NoTable}]
  BY Zenon DEF ThreadExit, PipeInv, TablesTyped
<1>2. CallsTyped'
  BY <1>1, Zenon DEF PipeInv, CallsTyped
<1>3. table' \in [Actors -> Actors \cup {NoTable}] /\ \A u \in Actors : table'[u] \in {table[u], NoTable}
  BY <1>1, Zenon
<1> QED BY <1>1, <1>2, <1>3, LeavingStep, Zenon

(* One turn of the loop of exitGroup().                                    *)
LEMMA PipeExitGroupThread ==
    ASSUME PipeInv, NEW p \in Actors, NEW t \in Actors, ExitGroupThread(p, t)
    PROVE  PipeInv' /\ Kept(pipe, pipe') /\ out' = out
<1>1. /\ table' = [table EXCEPT ![t] = NoTable] /\ UNCHANGED <<fds, refs, pipe, out>>
      /\ call' = [call EXCEPT ![t] = NoCall, ![p] = [NoCall EXCEPT !.op = "exit"]]
      /\ table \in [Actors -> Actors \cup {NoTable}] /\ call \in [Actors -> Calls]
      /\ \A a \in Actors : call[a].op = "read" => call[a].len > 0
  BY Zenon DEF ExitGroupThread, PipeInv, TablesTyped, CallsTyped
<1>2. CallsTyped'
  <2>1. PICK n \in Calls, x \in Calls : /\ n = NoCall /\ n.op = "none"
                                        /\ x = [NoCall EXCEPT !.op = "exit"] /\ x.op = "exit"
    BY CallEnds, Zenon
  <2>2. call' = [call EXCEPT ![t] = n, ![p] = x]
    BY <1>1, <2>1, Zenon
  <2> QED BY <1>1, <2>1, <2>2 DEF CallsTyped
<1>3. table' \in [Actors -> Actors \cup {NoTable}] /\ \A u \in Actors : table'[u] \in {table[u], NoTable}
  BY <1>1, Zenon
<1> QED BY <1>1, <1>2, <1>3, LeavingStep, Zenon

(* Process::exit that never returns from its first thread.                 *)
LEMMA PipeExitLeavesThread ==
    ASSUME PipeInv, NEW p \in Actors, NEW t \in Actors, ExitLeavesThread(p, t)
    PROVE  PipeInv' /\ Kept(pipe, pipe') /\ out' = out
<1>1. /\ table' = [table EXCEPT ![p] = NoTable, ![t] = NoTable] /\ UNCHANGED <<fds, refs, pipe, out>>
      /\ call' = [call EXCEPT ![t] = NoCall]
      /\ table \in [Actors -> Actors \cup {NoTable}] /\ call \in [Actors -> Calls]
      /\ \A a \in Actors : call[a].op = "read" => call[a].len > 0
  BY Zenon DEF ExitLeavesThread, PipeInv, TablesTyped, CallsTyped
<1>2. CallsTyped'
  BY <1>1, CallEnds, Zenon DEF CallsTyped
<1>3. table' \in [Actors -> Actors \cup {NoTable}] /\ \A u \in Actors : table'[u] \in {table[u], NoTable}
  BY <1>1, Zenon
<1> QED BY <1>1, <1>2, <1>3, LeavingStep, Zenon

(* Process::cloneThread: one more reference, and no descriptor.            *)
LEMMA PipeCloneThread ==
    ASSUME PipeInv, NEW a \in Actors, NEW t \in Actors, CloneThread(a, t)
    PROVE  PipeInv' /\ Kept(pipe, pipe') /\ out' = out
<1>1. CASE Locked(table[a])
  BY <1>1, PipeHang, Zenon DEF CloneThread
<1>2. CASE ~Locked(table[a])
  <2>1. PICK p \in Actors : p = table[a] /\ refs[p] > 0 /\ refs[p] \in Nat
    BY HasTable, Zenon DEF CloneThread, Idle
  <2>2. /\ table' = [table EXCEPT ![t] = p] /\ refs' = [refs EXCEPT ![p] = refs[p] + 1]
        /\ UNCHANGED <<fds, pipe, call, out>>
    BY <1>2, <2>1, Zenon DEF CloneThread
  <2>3. /\ table \in [Actors -> Actors \cup {NoTable}] /\ refs \in [Actors -> Nat]
        /\ fds \in [Actors -> [Fds -> Kinds]]
    BY Zenon DEF PipeInv, TablesTyped
  <2>4. TablesTyped' /\ CallsTyped'
    BY <2>1, <2>2, <2>3 DEF PipeInv, TablesTyped, CallsTyped
  <2>5. \A q \in Actors : refs'[q] > 0 <=> refs[q] > 0
    BY <2>1, <2>2, <2>3
  <2>6. TablesReferred'
    <3> SUFFICES ASSUME NEW u \in Actors, table'[u] # NoTable PROVE refs'[table'[u]] > 0
      BY Zenon DEF TablesReferred
    <3>1. PICK q \in Actors : q = table'[u] /\ (q = p \/ q = table[u])
      BY <2>2, <2>3, Zenon
    <3>2. refs[q] > 0
      BY <2>1, <3>1, Zenon DEF PipeInv, TablesReferred
    <3> QED BY <2>5, <3>1, <3>2, Zenon
  <2>7. \A e : OpenIn(fds, refs, e)' = OpenIn(fds, refs, e)
    BY <2>2, <2>5, Zenon DEF OpenIn
  <2>8. Ring(pipe) /\ Ring(pipe') /\ Kept(pipe, pipe') /\ Counted(pipe, fds, refs)
    BY <2>2, Zenon DEF PipeInv, Kept
  <2>9. Counted(pipe, fds, refs)'
    BY <2>2, <2>7, <2>8, Zenon DEF Counted
  <2> QED BY <2>2, <2>4, <2>6, <2>8, <2>9, Zenon DEF PipeInv
<1> QED BY <1>1, <1>2, Zenon

(* Process::exit: the last reference closes every descriptor of the table. *)
LEMMA PipeExit ==
    ASSUME Counting, PipeInv, NEW p \in Actors, Exit(p)
    PROVE  PipeInv' /\ Kept(pipe, pipe') /\ out' = out
<1>1. /\ table' = [table EXCEPT ![p] = NoTable] /\ call' = [call EXCEPT ![p] = NoCall]
      /\ refs' = [refs EXCEPT ![p] = refs[p] - 1] /\ out' = out /\ table[p] = p
      /\ \A u \in Actors : u # p => table[u] # p
  BY Zenon DEF Exit, IsThread
<1>2. /\ table \in [Actors -> Actors \cup {NoTable}] /\ refs \in [Actors -> Nat]
      /\ fds \in [Actors -> [Fds -> Kinds]] /\ call \in [Actors -> Calls] /\ NoTable \notin Actors
      /\ \A a \in Actors : call[a].op = "read" => call[a].len > 0
  BY PipeConstants, Zenon DEF PipeInv, TablesTyped, CallsTyped
<1>3. refs[p] > 0 /\ refs[p] \in Nat
  BY <1>1, <1>2, Zenon DEF PipeInv, TablesReferred
<1>4. CallsTyped'
  BY <1>1, <1>2, CallEnds, Zenon DEF CallsTyped
<1>5. TablesReferred'
  <2> SUFFICES ASSUME NEW u \in Actors, table'[u] # NoTable PROVE refs'[table'[u]] > 0
    BY Zenon DEF TablesReferred
  <2>1. u # p /\ table'[u] = table[u]
    BY <1>1, <1>2, Zenon
  <2>2. PICK q \in Actors \ {p} : q = table[u] /\ refs[q] > 0
    BY <1>1, <1>2, <2>1, Zenon DEF PipeInv, TablesReferred
  <2> QED BY <1>1, <1>2, <2>1, <2>2, Zenon
<1>6. /\ Ring(pipe) /\ Counted(pipe, fds, refs) /\ pipe.readers \in Nat /\ pipe.writers \in Nat
      /\ ~pipe.live => pipe.readers = 0 /\ pipe.writers = 0
  BY Zenon DEF PipeInv, Ring, Counted
<1>7. CASE refs[p] = 1
  <2>1. PICK t \in [Fds -> Kinds] : t = fds[p]
    BY <1>2, Zenon
  <2>2. fds' = [fds EXCEPT ![p] = [i \in Fds |-> "free"]] /\ pipe' = OnClose(pipe, t)
    BY <1>7, <2>1, Zenon DEF Exit
  <2>3. refs' = [refs EXCEPT ![p] = 0]
    BY <1>1, <1>7
  <2>4. fds' \in [Actors -> [Fds -> Kinds]] /\ \A q \in Actors \ {p} : fds'[q] = fds[q]
    BY <1>2, <2>2, Zenon DEF Kinds
  <2>5. TableDropped(fds, refs, p, t, fds', refs')
    BY <1>2, <1>3, <2>1, <2>3, <2>4, Zenon DEF TableDropped
  <2>6. /\ Cardinality(OpenIn(fds', refs', "r")) = Cardinality(OpenIn(fds, refs, "r")) - Ends(t, "r")
        /\ Ends(t, "r") <= Cardinality(OpenIn(fds, refs, "r"))
    BY <2>5, DropTable, Zenon
  <2>7. /\ Cardinality(OpenIn(fds', refs', "w")) = Cardinality(OpenIn(fds, refs, "w")) - Ends(t, "w")
        /\ Ends(t, "w") <= Cardinality(OpenIn(fds, refs, "w"))
    BY <2>5, DropTable, Zenon
  <2>8. Ends(t, "r") \in Nat /\ Ends(t, "w") \in Nat
    BY EndsOfTable, Zenon
  <2>9. Ends(t, "r") <= pipe.readers /\ Ends(t, "w") <= pipe.writers
    BY <1>6, <2>6, <2>7, Zenon DEF Counted
  <2>10. /\ Kept(pipe, pipe')
         /\ pipe'.readers = pipe.readers - Ends(t, "r")
         /\ pipe'.writers = pipe.writers - Ends(t, "w")
         /\ ~pipe'.live => pipe'.readers = 0 /\ pipe'.writers = 0
    BY <1>6, <2>2, <2>8, <2>9, Closes, Zenon
  <2>11. Counted(pipe', fds', refs')
    BY <1>6, <2>6, <2>7, <2>10, Zenon DEF Counted
  <2>12. TablesTyped'
    <3>1. table' \in [Actors -> Actors \cup {NoTable}]
      BY <1>1, <1>2, Zenon
    <3>2. refs' \in [Actors -> Nat]
      BY <1>2, <2>3, Zenon
    <3> QED BY <2>4, <3>1, <3>2, Zenon DEF TablesTyped
  <2> QED BY <1>1, <1>4, <1>5, <2>10, <2>11, <2>12, Zenon DEF PipeInv, Counted, OpenIn, Kept
<1>8. CASE refs[p] # 1
  <2>1. fds' = fds /\ pipe' = pipe
    BY <1>8, Zenon DEF Exit
  <2>2. TablesTyped'
    BY <1>1, <1>2, <1>3, <2>1 DEF TablesTyped
  <2>3. \A q \in Actors : refs'[q] > 0 <=> refs[q] > 0
    BY <1>1, <1>2, <1>3, <1>8
  <2>4. \A e : OpenIn(fds, refs, e)' = OpenIn(fds, refs, e)
    BY <2>1, <2>3, Zenon DEF OpenIn
  <2>5. Counted(pipe, fds, refs)'
    BY <1>6, <2>1, <2>4, Zenon DEF Counted
  <2> QED BY <1>1, <1>4, <1>5, <1>6, <2>1, <2>2, <2>5, Zenon DEF PipeInv, Kept
<1> QED BY <1>7, <1>8, Zenon

-----------------------------------------------------------------------------
(* read() and write() *)

(* A step of a read() or write() keeps the counters, and with them the     *)
(* invariant.                                                              *)
LEMMA TransferStep ==
    ASSUME PipeInv, UNCHANGED <<table, fds, refs>>, CallsTyped', Ring(pipe'),
           pipe'.live = pipe.live, pipe'.readers = pipe.readers, pipe'.writers = pipe.writers
    PROVE  PipeInv'
BY Zenon DEF PipeInv, TablesTyped, TablesReferred, Counted, OpenIn

(* A turn of read() takes the bytes it delivers from the head of the       *)
(* stream.                                                                 *)
LEMMA PipeReadTurn ==
    ASSUME Counting, PipeInv, NEW a \in Actors, NEW fd \in Nat, NEW len \in Nat \ {0}, ReadTurn(a, fd, len)
    PROVE  PipeInv' /\ [Stream!Next]_(Stream!vars)
<1>1. /\ Ring(pipe) /\ pipe.count \in 0 .. Size /\ Size \in Nat /\ call \in [Actors -> Calls]
      /\ \A u \in Actors : call[u].op = "read" => call[u].len > 0
  BY PipeConstants, Zenon DEF PipeInv, Ring, CallsTyped
<1>2. CASE pipe.count > 0
  <2>1. PICK n \in Nat : n = Min({len, pipe.count})
    BY <1>1, MinOfTwo
  <2>2. n \in 1 .. pipe.count /\ n \in 0 .. pipe.count
    BY <1>1, <1>2, <2>1, MinOfTwo
  <2>3. /\ out' = Oldest(pipe, n) /\ pipe' = Take(pipe, n) /\ call' = [call EXCEPT ![a] = NoCall]
        /\ UNCHANGED <<table, fds, refs>>
    BY <1>2, <2>1, Zenon DEF ReadTurn
  <2>4. CallsTyped'
    BY <1>1, <2>3, CallEnds, Zenon DEF CallsTyped
  <2>5. /\ Ring(pipe') /\ pipe'.count = pipe.count - n
        /\ out' = SubSeq(Oldest(pipe, pipe.count), 1, n)
        /\ Oldest(pipe', pipe.count - n)
             = SubSeq(Oldest(pipe, pipe.count), n + 1, Len(Oldest(pipe, pipe.count)))
    BY <1>1, <2>2, <2>3, TakeReads, Zenon
  <2>6. pipe'.live = pipe.live /\ pipe'.readers = pipe.readers /\ pipe'.writers = pipe.writers
    BY <1>1, <2>3, Zenon DEF Take, Ring
  <2>7. PipeInv'
    BY <2>3, <2>4, <2>5, <2>6, TransferStep, Zenon
  <2>8. Len(Oldest(pipe, pipe.count)) = pipe.count
    <3>1. pipe.count \in 0 .. pipe.count
      BY <1>1
    <3> QED BY <1>1, <3>1, OldestBytes, Zenon
  <2>9. Oldest(pipe', pipe'.count)
          = SubSeq(Oldest(pipe, pipe.count), n + 1, Len(Oldest(pipe, pipe.count)))
    BY <2>5, Zenon
  <2> QED BY <2>2, <2>5, <2>7, <2>8, <2>9, Zenon DEF Stream!Next, Stream!Receive
<1>3. CASE ~(pipe.count > 0)
  <2>1. /\ pipe' = pipe /\ out' = out /\ UNCHANGED <<table, fds, refs>>
        /\ call' = [call EXCEPT ![a] =
                      IF pipe.writers = 0 THEN NoCall
                      ELSE [NoCall EXCEPT !.op = "read", !.fd = fd, !.len = len]]
    BY <1>3, Zenon DEF ReadTurn
  <2>2. CallsTyped'
    <3>1. PICK x : x = IF pipe.writers = 0 THEN NoCall
                       ELSE [NoCall EXCEPT !.op = "read", !.fd = fd, !.len = len]
      BY Zenon
    <3>2. x \in Calls /\ (x.op = "read" => x.len > 0)
      <4>1. CASE pipe.writers = 0
        BY <3>1, <4>1, CallEnds, Zenon
      <4>2. CASE pipe.writers # 0
        <5>1. x = [op |-> "read", fd |-> fd, len |-> len, src |-> <<>>]
          BY <3>1, <4>2, Zenon DEF NoCall
        <5>2. <<>> \in Seq(Bytes)
          OBVIOUS
        <5> QED BY <5>1, <5>2 DEF Calls
      <4> QED BY <4>1, <4>2, Zenon
    <3>3. call' = [call EXCEPT ![a] = x]
      BY <2>1, <3>1, Zenon
    <3> QED BY <1>1, <3>2, <3>3, Zenon DEF CallsTyped
  <2>3. PipeInv'
    BY <1>1, <2>1, <2>2, TransferStep, Zenon
  <2> QED BY <2>1, <2>3, Zenon DEF Stream!vars, Oldest
<1> QED BY <1>2, <1>3, Zenon

(* The turns of write() up to its next yield append a prefix of what is    *)
(* left to write; on a full pipe the prefix is empty.                      *)
LEMMA PipeWriteTurn ==
    ASSUME Counting, PipeInv, NEW a \in Actors, NEW fd \in Nat, NEW src \in Seq(Bytes), WriteTurn(a, fd, src)
    PROVE  PipeInv' /\ [Stream!Next]_(Stream!vars)
<1>1. /\ Ring(pipe) /\ pipe.count \in 0 .. Size /\ Size \in Nat /\ call \in [Actors -> Calls]
      /\ pipe.count \in Nat /\ Size - pipe.count \in Nat /\ Len(src) \in Nat
      /\ \A u \in Actors : call[u].op = "read" => call[u].len > 0
  BY PipeConstants DEF PipeInv, Ring, CallsTyped
<1>2. out' = out /\ UNCHANGED <<table, fds, refs>>
  BY Zenon DEF WriteTurn
<1>3. CASE pipe.readers = 0
  <2>1. pipe' = pipe /\ call' = [call EXCEPT ![a] = NoCall]
    BY <1>3, Zenon DEF WriteTurn
  <2>2. CallsTyped'
    BY <1>1, <2>1, CallEnds, Zenon DEF CallsTyped
  <2>3. PipeInv'
    BY <1>1, <1>2, <2>1, <2>2, TransferStep, Zenon
  <2> QED BY <1>2, <2>1, <2>3, Zenon DEF Stream!vars, Oldest
<1>4. CASE pipe.readers # 0
  <2>1. PICK n \in Nat : n = Min({Len(src), Size - pipe.count})
    BY <1>1, MinOfTwo, Zenon
  <2>2. n <= Len(src) /\ n <= Size - pipe.count
    BY <1>1, <2>1, MinOfTwo, Zenon
  <2>3. PICK s, rest \in Seq(Bytes) : /\ s = SubSeq(src, 1, n) /\ Len(s) = n
                                      /\ rest = SubSeq(src, n + 1, Len(src))
    <3>1. SubSeq(src, 1, n) \in Seq(Bytes) /\ Len(SubSeq(src, 1, n)) = n
      BY <1>1, <2>2
    <3>2. SubSeq(src, n + 1, Len(src)) \in Seq(Bytes)
      BY <1>1, <2>2
    <3> QED BY <3>1, <3>2, Zenon
  <2>4. /\ pipe' = Store(pipe, s)
        /\ call' = [call EXCEPT ![a] =
                      IF n = Len(src) THEN NoCall
                      ELSE [NoCall EXCEPT !.op = "write", !.fd = fd, !.src = rest]]
    BY <1>4, <2>1, <2>3, Zenon DEF WriteTurn
  <2>5. CallsTyped'
    <3>1. PICK x : x = IF n = Len(src) THEN NoCall
                       ELSE [NoCall EXCEPT !.op = "write", !.fd = fd, !.src = rest]
      BY Zenon
    <3>2. x \in Calls /\ x.op # "read"
      <4>1. CASE n = Len(src)
        BY <3>1, <4>1, CallEnds, Zenon
      <4>2. CASE n # Len(src)
        <5>1. x = [op |-> "write", fd |-> fd, len |-> 0, src |-> rest]
          BY <3>1, <4>2, Zenon DEF NoCall
        <5> QED BY <2>3, <5>1, Zenon DEF Calls
      <4> QED BY <4>1, <4>2, Zenon
    <3>3. call' = [call EXCEPT ![a] = x]
      BY <2>4, <3>1, Zenon
    <3> QED BY <1>1, <3>2, <3>3, Zenon DEF CallsTyped
  <2>6. /\ Ring(pipe') /\ pipe'.count = pipe.count + n
        /\ Oldest(pipe', pipe.count + n) = Oldest(pipe, pipe.count) \o s
    BY <1>1, <2>2, <2>3, <2>4, StoreWrites, Zenon
  <2>7. pipe'.live = pipe.live /\ pipe'.readers = pipe.readers /\ pipe'.writers = pipe.writers
    BY <1>1, <2>4, Zenon DEF Store, Ring
  <2>8. PipeInv'
    BY <1>2, <2>5, <2>6, <2>7, TransferStep, Zenon
  <2>9. Oldest(pipe, pipe.count) \in Seq(Bytes) /\ Len(Oldest(pipe, pipe.count)) = pipe.count
    <3>1. pipe.count \in 0 .. pipe.count
      BY <1>1
    <3> QED BY <1>1, <3>1, OldestBytes, Zenon
  <2>10. Oldest(pipe', pipe'.count) = Oldest(pipe, pipe.count) \o s
    BY <2>6, Zenon
  <2>11. CASE n = 0
    <3>1. s = <<>>
      BY <2>3, <2>11, SeqEmpty, Zenon
    <3>2. Oldest(pipe', pipe'.count) = Oldest(pipe, pipe.count)
      BY <2>9, <2>10, <3>1
    <3> QED BY <1>2, <2>8, <3>2, Zenon DEF Stream!vars
  <2>12. CASE n # 0
    <3>1. n \in 1..Size /\ s \in [1..n -> Bytes] /\ Len(Oldest(pipe, pipe.count)) + n <= Size
      <4>1. Len(s) = n /\ s \in [1 .. Len(s) -> Bytes]
        BY <2>3, SeqLength, Zenon
      <4>2. n \in 1..Size /\ pipe.count + n <= Size
        BY <1>1, <2>2, <2>12
      <4> QED BY <2>9, <4>1, <4>2, Zenon
    <3>2. Stream!Send
      BY <1>2, <2>10, <3>1, Zenon DEF Stream!Send
    <3> QED BY <2>8, <3>2, Zenon DEF Stream!Next
  <2> QED BY <2>11, <2>12, Zenon
<1> QED BY <1>3, <1>4, Zenon

-----------------------------------------------------------------------------
(* The invariant holds at the start, when the stream is empty.             *)
LEMMA PipeStart ==
    ASSUME Counting, Init
    PROVE  PipeInv /\ Stream!Init
<1>1. TablesTyped /\ CallsTyped
  <2>1. "free" \in Kinds /\ Root \in Actors
    BY PipeConstants, Zenon DEF Kinds
  <2> QED BY <2>1, CallEnds, Zenon DEF Init, TablesTyped, CallsTyped
<1>2. TablesReferred
  BY PipeConstants DEF Init, TablesReferred
<1>3. Kept(pipe, pipe) /\ pipe.readers = 0 /\ pipe.writers = 0 /\ pipe.count = 0
  <2>1. NoPipe.count = 0
    BY Zenon DEF NoPipe
  <2> QED BY <2>1, NoPipeEmpty, Zenon DEF Init
<1>4. OpenIn(fds, refs, "r") = {} /\ OpenIn(fds, refs, "w") = {}
  BY Zenon DEF Init, OpenIn
<1>5. Counted(pipe, fds, refs)
  <2>1. Cardinality({}) = 0
    BY Zenon DEF Counting, EmptyCount
  <2> QED BY <1>3, <1>4, <2>1, Zenon DEF Counted
<1>6. Ring(pipe)
  BY <1>3, Zenon DEF Kept
<1>7. Oldest(pipe, pipe.count) = <<>>
  <2>1. 0 \in 0 .. pipe.count
    BY <1>3
  <2>2. Oldest(pipe, 0) \in Seq(Bytes) /\ Len(Oldest(pipe, 0)) = 0
    BY <1>6, <2>1, OldestBytes, Zenon
  <2> QED BY <1>3, <2>2, SeqEmpty, Zenon
<1> QED BY <1>1, <1>2, <1>5, <1>6, <1>7, Zenon DEF PipeInv, Stream!Init, Init

(* Every step keeps the invariant and is a step of the stream, or none.    *)
LEMMA PipeStep ==
    ASSUME Counting, PipeInv, [Next]_vars
    PROVE  PipeInv' /\ [Stream!Next]_(Stream!vars)
<1>1. CASE UNCHANGED vars
  <2>1. PipeInv'
    BY <1>1, Zenon DEF PipeInv, TablesTyped, CallsTyped, TablesReferred, Counted, OpenIn, vars
  <2> QED BY <1>1, <2>1, Zenon DEF vars, Stream!vars, Oldest
<1>2. CASE Next
  <2>1. PICK a \in Actors :
          \/ Pipe2(a)
          \/ \E fd \in Fds : Dup(a, fd)
          \/ \E old, new \in Fds : Dup3(a, old, new)
          \/ \E fd \in Fds : Close(a, fd)
          \/ \E c \in Actors : Fork(a, c)
          \/ \E t \in Actors : CloneThread(a, t)
          \/ ThreadExit(a)
          \/ \E t \in Actors : ExitGroupThread(a, t)
          \/ Exit(a)
          \/ \E t \in Actors : ExitLeavesThread(a, t)
          \/ \E fd \in Fds, len \in ReadLens : Read(a, fd, len)
          \/ \E fd \in Fds, len \in WriteLens : \E src \in [1..len -> Bytes] : Write(a, fd, src)
          \/ ReadAgain(a)
          \/ WriteAgain(a)
    BY <1>2, Zenon DEF Next
  <2>2. ASSUME PipeInv' /\ Kept(pipe, pipe') /\ out' = out
        PROVE  PipeInv' /\ [Stream!Next]_(Stream!vars)
    <3>1. Ring(pipe)
      BY Zenon DEF PipeInv
    <3> QED BY <2>2, <3>1, KeptStream, Zenon
  <2> HIDE DEF Stream!Next, Stream!vars
  <2>3. CASE Pipe2(a)
    BY <2>2, <2>3, PipePipe2, Zenon
  <2>4. ASSUME NEW fd \in Fds, Dup(a, fd) PROVE PipeInv' /\ [Stream!Next]_(Stream!vars)
    BY <2>2, <2>4, PipeDup, Zenon
  <2>5. ASSUME NEW old \in Fds, NEW new \in Fds, Dup3(a, old, new)
        PROVE  PipeInv' /\ [Stream!Next]_(Stream!vars)
    BY <2>2, <2>5, PipeDup3, Zenon
  <2>6. ASSUME NEW fd \in Fds, Close(a, fd) PROVE PipeInv' /\ [Stream!Next]_(Stream!vars)
    BY <2>2, <2>6, PipeClose, Zenon
  <2>7. ASSUME NEW c \in Actors, Fork(a, c) PROVE PipeInv' /\ [Stream!Next]_(Stream!vars)
    BY <2>2, <2>7, PipeFork, Zenon
  <2>8. ASSUME NEW t \in Actors, CloneThread(a, t) PROVE PipeInv' /\ [Stream!Next]_(Stream!vars)
    BY <2>2, <2>8, PipeCloneThread, Zenon
  <2>9. CASE ThreadExit(a)
    BY <2>2, <2>9, PipeThreadExit, Zenon
  <2>10. ASSUME NEW t \in Actors, ExitGroupThread(a, t) PROVE PipeInv' /\ [Stream!Next]_(Stream!vars)
    BY <2>2, <2>10, PipeExitGroupThread, Zenon
  <2>11. CASE Exit(a)
    BY <2>2, <2>11, PipeExit, Zenon
  <2>12. ASSUME NEW t \in Actors, ExitLeavesThread(a, t) PROVE PipeInv' /\ [Stream!Next]_(Stream!vars)
    BY <2>2, <2>12, PipeExitLeavesThread, Zenon
  <2>13. ASSUME NEW fd \in Fds, NEW len \in ReadLens, Read(a, fd, len)
         PROVE  PipeInv' /\ [Stream!Next]_(Stream!vars)
    <3>1. fd \in Nat /\ len \in Nat \ {0} /\ ReadTurn(a, fd, len)
      BY <2>13, PipeConstants DEF Fds, Read
    <3> QED BY <3>1, PipeReadTurn, Zenon
  <2>14. ASSUME NEW fd \in Fds, NEW len \in WriteLens, NEW src \in [1..len -> Bytes], Write(a, fd, src)
         PROVE  PipeInv' /\ [Stream!Next]_(Stream!vars)
    <3>1. fd \in Nat /\ len \in Nat /\ WriteTurn(a, fd, src)
      BY <2>14, PipeConstants DEF Fds, Write
    <3>2. src \in Seq(Bytes)
      BY <3>1
    <3> QED BY <3>1, <3>2, PipeWriteTurn, Zenon
  <2>15. CASE ReadAgain(a)
    <3>1. PICK fd \in Nat, len \in Nat \ {0} : fd = call[a].fd /\ len = call[a].len
      BY <2>15 DEF ReadAgain, In, PipeInv, CallsTyped, Calls
    <3>2. ReadTurn(a, fd, len)
      BY <2>15, <3>1, Zenon DEF ReadAgain
    <3> QED BY <3>2, PipeReadTurn, Zenon
  <2>16. CASE WriteAgain(a)
    <3>1. PICK fd \in Nat, src \in Seq(Bytes) : fd = call[a].fd /\ src = call[a].src
      BY <2>16, Zenon DEF WriteAgain, In, PipeInv, CallsTyped, Calls
    <3>2. WriteTurn(a, fd, src)
      BY <2>16, <3>1, Zenon DEF WriteAgain
    <3> QED BY <3>2, PipeWriteTurn, Zenon
  <2> QED
    BY <2>1, <2>3, <2>4, <2>5, <2>6, <2>7, <2>8, <2>9, <2>10, <2>11, <2>12, <2>13, <2>14,
       <2>15, <2>16, Zenon
<1> QED BY <1>1, <1>2, Zenon

-----------------------------------------------------------------------------
INSTANCE FiniteSetTheorems

(* The least of some numbers, as the library has it.                       *)
LEMMA LeastHolds == LeastNumber
<1> SUFFICES ASSUME NEW S \in SUBSET Nat, S # {}
             PROVE  \E x \in S : \A y \in S : x <= y
  BY Zenon DEF LeastNumber
<1>1. PICK x \in S : \A y \in S : ~ (<<y, x>> \in OpToRel(<, Nat))
  BY NatLessThanWellFounded, WFMin, Zenon
<1>2. ASSUME NEW y \in S PROVE x <= y
  <2>1. <<y, x>> \in Nat \X Nat
    BY Zenon
  <2>2. <<y, x>>[1] = y /\ <<y, x>>[2] = x
    BY Zenon
  <2>3. ~(y < x)
    BY <1>1, <2>1, <2>2, Zenon DEF OpToRel
  <2>4. x \in Nat /\ y \in Nat
    BY Zenon
  <2> QED BY ONLY <2>3, <2>4
<1> QED BY <1>2, Zenon

(* The facts about finite sets the steps assume, from the library.         *)
LEMMA CountingHolds == Counting
<1>1. EmptyCount /\ SingleCount /\ IntervalCount
  BY FS_EmptySet, FS_Singleton, FS_CardinalityType, FS_Interval, Zenon
     DEF EmptyCount, SingleCount, IntervalCount
<1>2. AddCount /\ RemoveCount
  BY FS_AddElement, FS_RemoveElement, Zenon DEF AddCount, RemoveCount
<1>3. PartCount /\ UnionCount
  BY FS_Subset, FS_Union, Zenon DEF PartCount, UnionCount
<1>4. LessCount /\ ProductCount
  BY FS_Difference, FS_Product, Zenon DEF LessCount, ProductCount
<1>5. SameCount
  BY FS_Bijection, Zenon DEF SameCount
<1> QED BY <1>1, <1>2, <1>3, <1>4, <1>5, LeastHolds, Zenon DEF Counting

(* However the processes and threads interleave, the tables in use are     *)
(* referred to, the ring is consistent and the counters are exact.         *)
THEOREM PipeInductive == Spec => []PipeInv
<1>1. Init => PipeInv
  BY PipeStart, CountingHolds, Zenon
<1>2. PipeInv /\ [Next]_vars => PipeInv'
  BY PipeStep, CountingHolds, Zenon
<1> QED BY <1>1, <1>2, PTL DEF Spec

(* m_readers and m_writers always are the numbers of open descriptors,     *)
(* after any sequence of pipe2, dup, dup3, close, fork, clone and exit: an *)
(* end of file or SIGPIPE is never reported while a peer is left.          *)
THEOREM PipeCountsStayExact == Spec => []CountsExact
<1>1. PipeInv => CountsExact
  BY Zenon DEF PipeInv, Counted, CountsExact, OpenIn, Open
<1> QED BY <1>1, PipeInductive, PTL

(* The ring buffer implements the stream of bytes: what read() delivers is *)
(* what write() stored, in that order, none lost and none twice, for every *)
(* size of the buffer and every length of the calls.                       *)
THEOREM PipeIsStream == Spec => StreamSpec
<1>1. Init => Stream!Init
  BY PipeStart, CountingHolds, Zenon
<1>2. PipeInv /\ [Next]_vars => [Stream!Next]_(Stream!vars)
  BY PipeStep, CountingHolds, Zenon
<1> QED BY <1>1, <1>2, PipeInductive, PTL DEF Spec, StreamSpec, Stream!Spec

=============================================================================
