-------------------------- MODULE ReplayRingProofs --------------------------
(* Proofs about the replay ring, for any number of streams, any timebases,   *)
(* any window and any byte ceilings.                                         *)
EXTENDS ReplayRing, SequenceLemmas, FiniteSetTheorems

Cut == [dts : Nat, pts : Nat]
Logged == [stream : Streams, n : Nat, dts : Nat, pts : Nat, key : BOOLEAN]

\* The anchor's keyframes in a log.
Keys(lg) == {n \in 1 .. Len(lg) : lg[n].stream = Anchor /\ lg[n].key}

\* What a caller pushes to m streams: each in decode order, nothing presented before it
\* decodes, a keyframe of the anchor presented after all that was pushed before it.
LogInv(lg, m) ==
  /\ \A n \in 1 .. Len(lg) : lg[n].stream \in 1 .. m /\ lg[n].dts <= lg[n].pts
  /\ \A i, j \in 1 .. Len(lg) : i < j /\ lg[i].stream = lg[j].stream => lg[i].dts <= lg[j].dts
  /\ \A i \in 1 .. Len(lg), j \in Keys(lg) :
       i < j /\ lg[i].stream = Anchor => lg[i].pts < lg[j].pts

\* The entry e of stream s is what the log says of it.
Matches(e, s, lg) ==
  /\ e.n \in 1 .. Len(lg) /\ lg[e.n].stream = s
  /\ lg[e.n].dts = e.dts /\ lg[e.n].pts = e.pts /\ lg[e.n].key = e.key

TracksInv(t, lg) ==
  \A s \in DOMAIN t :
    /\ \A i \in DOMAIN t[s] : Matches(t[s][i], s, lg)
    /\ \A i, j \in DOMAIN t[s] : i < j => t[s][i].n < t[s][j].n

\* A packet decoded too early for any clip from c or after it.
Gone(p, c) == IF p.stream = Anchor THEN p.dts < c.dts
              ELSE ToNanos(p.dts, p.stream) < ToNanos(c.pts, Anchor)

\* What is not held is of no use to any clip that can still be cut.
EvictedInv(t, c, lg) ==
  \A n \in 1 .. Len(lg) :
    \/ \E i \in DOMAIN t[lg[n].stream] : t[lg[n].stream][i].n = n
    \/ c # <<>> /\ Gone(lg[n], c[1])

\* The cut points are the newest keyframes, in order; there are none before the anchor's
\* first packet.
CutsInv(c, lg) ==
  /\ \A i \in 1 .. Len(c) : \E n \in Keys(lg) : lg[n].dts = c[i].dts /\ lg[n].pts = c[i].pts
  /\ \A i, j \in 1 .. Len(c) : i < j => c[i].pts < c[j].pts /\ c[i].dts <= c[j].dts
  /\ \A k \in Keys(lg) :
       c # <<>> => \/ lg[k].pts < c[1].pts
                   \/ \E i \in 1 .. Len(c) : c[i].dts = lg[k].dts /\ c[i].pts = lg[k].pts
  /\ c = <<>> => \A n \in 1 .. Len(lg) : lg[n].stream # Anchor

Sizes(t) == [s \in DOMAIN t |-> SizeOf(t[s])]

RingInv(t, c, b, lg) ==
  /\ t \in Seq(Seq(Entry)) /\ Len(t) \in Streams /\ c \in Seq(Cut) /\ lg \in Seq(Logged)
  /\ b = Total(Sizes(t))
  /\ LogInv(lg, Len(t)) /\ TracksInv(t, lg) /\ EvictedInv(t, c, lg) /\ CutsInv(c, lg)

IInv ==
  /\ RingInv(tracks, cuts, bytes, log)
  /\ newest \in Nat \cup {NoTime} /\ (cuts # <<>> => newest \in Nat) /\ ceiling \in Ceilings
  /\ WindowKept

-----------------------------------------------------------------------------
(* Numbers.                                                                  *)

\* Rounding down keeps order.
LEMMA DivMonotone ==
  ASSUME NEW a \in Int, NEW b \in Int, NEW d \in Nat \ {0}, a <= b
  PROVE  a \div d <= b \div d
<1> DEFINE q == a \div d
           r == a % d
           p == b \div d
           t == b % d
<1>1. /\ q \in Int /\ p \in Int /\ r \in 0 .. d - 1 /\ t \in 0 .. d - 1
      /\ a = d * q + r /\ b = d * p + t
  OBVIOUS
<1> HIDE DEF q, r, p, t
<1>2. SUFFICES ASSUME q >= p + 1 PROVE FALSE
  BY <1>1 DEF q, p
<1>3. d * q >= d * (p + 1)
  BY <1>1, <1>2
<1>4. d * (p + 1) = d * p + d
  BY <1>1
<1> QED
  BY <1>1, <1>3, <1>4

\* Times on the common axis are naturals.
LEMMA NanosTyped ==
  ASSUME NEW s \in Streams, NEW a \in Nat
  PROVE  ToNanos(a, s) \in Nat
<1> DEFINE n == Num[s]
           d == Den[s]
<1>1. n \in Nat \ {0} /\ d \in Nat \ {0}
  BY TimeAssumption
<1> HIDE DEF n, d
<1>2. a * n \in Nat
  BY <1>1
<1>3. 0 \div d <= (a * n) \div d
  BY <1>1, <1>2, DivMonotone
<1>4. 0 \div d = 0 /\ (a * n) \div d \in Int
  BY <1>1, <1>2
<1> QED
  BY <1>3, <1>4 DEF ToNanos, n, d

\* They are in the order of the ticks.
LEMMA NanosMonotone ==
  ASSUME NEW s \in Streams, NEW a \in Nat, NEW b \in Nat, a <= b
  PROVE  ToNanos(a, s) <= ToNanos(b, s)
<1> DEFINE n == Num[s]
           d == Den[s]
<1>1. n \in Nat \ {0} /\ d \in Nat \ {0}
  BY TimeAssumption
<1> HIDE DEF n, d
<1>2. a * n \in Nat /\ b * n \in Nat /\ a * n <= b * n
  BY <1>1
<1>3. (a * n) \div d <= (b * n) \div d
  BY <1>1, <1>2, DivMonotone
<1> QED
  BY <1>3 DEF ToNanos, n, d

\* A time rounded to the nearest tick is not after a tick that is not before it.
LEMMA TicksBelow ==
  ASSUME NEW s \in Streams, NEW a \in Nat, NEW nanos \in Nat, nanos <= ToNanos(a, s)
  PROVE  ToTicks(nanos, s) \in Int /\ ToTicks(nanos, s) <= a
<1> DEFINE n == Num[s]
           d == Den[s]
           t == ToNanos(a, s)
           h == n \div 2
<1>1. n \in Nat \ {0} /\ d \in Nat \ {0}
  BY TimeAssumption
<1>2. t \in Nat /\ d * t <= a * n
  <2>1. t = (a * n) \div d /\ t \in Nat
    BY NanosTyped DEF ToNanos
  <2> HIDE DEF n, d, t
  <2>2. a * n \in Nat
    BY <1>1
  <2> DEFINE x == a * n
             q == x \div d
             r == x % d
  <2>3. q \in Int /\ r \in 0 .. d - 1 /\ x = d * q + r
    <3> HIDE DEF x
    <3> QED
      BY <1>1, <2>2 DEF x
  <2> QED
    BY <1>1, <2>1, <2>2, <2>3
<1>3. h \in Nat /\ h < n
  BY <1>1
<1> HIDE DEF n, d, t, h
<1>4. nanos * d <= d * t /\ nanos * d \in Nat
  <2>1. nanos <= t
    BY DEF t
  <2> QED
    BY <1>1, <1>2, <2>1
<1>5. /\ nanos * d + h \in Nat /\ a * n + h \in Nat
      /\ nanos * d + h <= a * n + h
  BY <1>1, <1>2, <1>3, <1>4
<1>6. (nanos * d + h) \div n <= (a * n + h) \div n
  BY <1>1, <1>5, DivMonotone
<1>7. (a * n + h) \div n = a
  <2> DEFINE q == (a * n + h) \div n
             r == (a * n + h) % n
  <2>1. q \in Int /\ r \in 0 .. n - 1 /\ a * n + h = n * q + r
    BY <1>1, <1>5
  <2> HIDE DEF q, r
  <2>2. a * n = n * a /\ n * (q - a) = n * q - n * a
    BY <1>1, <2>1
  <2>3. n * (q - a) = h - r
    BY <1>1, <1>3, <2>1, <2>2
  <2>4. ~(q - a >= 1)
    <3> SUFFICES ASSUME q - a >= 1 PROVE FALSE
      OBVIOUS
    <3>1. n * (q - a) >= n * 1
      BY <1>1, <2>1
    <3> QED
      BY <1>1, <1>3, <2>1, <2>3, <3>1
  <2>5. ~(q - a <= -1)
    <3> SUFFICES ASSUME q - a <= -1 PROVE FALSE
      OBVIOUS
    <3>1. n * (q - a) <= n * (-1)
      BY <1>1, <2>1
    <3> QED
      BY <1>1, <1>3, <2>1, <2>3, <3>1
  <2> QED
    BY <2>1, <2>4, <2>5 DEF q
<1>8. (nanos * d + h) \div n \in Int
  BY <1>1, <1>5
<1> QED
  BY <1>6, <1>7, <1>8 DEF ToTicks, n, d, h

-----------------------------------------------------------------------------
(* Queues and their sizes.                                                   *)

\* The sum of two sequences, element by element.
LEMMA TotalPointwise ==
  ASSUME NEW a \in Seq(Nat), NEW b \in Seq(Nat), NEW c \in Seq(Nat),
         Len(b) = Len(a), Len(c) = Len(a), \A i \in 1 .. Len(a) : a[i] = b[i] + c[i]
  PROVE  Total(a) = Total(b) + Total(c)
<1>1. PICK P : PrefixSum(P, a) /\ Total(a) = P[Len(a)]
  BY TotalIsPrefixSum
<1>2. PICK Q : PrefixSum(Q, b) /\ Total(b) = Q[Len(b)]
  BY TotalIsPrefixSum
<1>3. PICK R : PrefixSum(R, c) /\ Total(c) = R[Len(c)]
  BY TotalIsPrefixSum
<1> DEFINE D == {k \in Nat : k <= Len(a) => P[k] = Q[k] + R[k]}
<1>4. 0 \in D
  BY <1>1, <1>2, <1>3 DEF PrefixSum
<1>5. ASSUME NEW k \in Nat, k \in D PROVE k + 1 \in D
  <2>1. CASE k + 1 <= Len(a)
    <3>1. k + 1 \in 1 .. Len(a) /\ k \in 0 .. Len(a) /\ (k + 1) - 1 = k
      BY <2>1
    <3>2. P[k + 1] = P[k] + a[k + 1] /\ Q[k + 1] = Q[k] + b[k + 1] /\ R[k + 1] = R[k] + c[k + 1]
      BY <1>1, <1>2, <1>3, <3>1 DEF PrefixSum
    <3>3. P[k] \in Nat /\ Q[k] \in Nat /\ R[k] \in Nat
      BY <1>1, <1>2, <1>3, <3>1 DEF PrefixSum
    <3>4. a[k + 1] = b[k + 1] + c[k + 1] /\ b[k + 1] \in Nat /\ c[k + 1] \in Nat
      BY SMTT(30), <3>1
    <3>5. P[k] = Q[k] + R[k]
      BY <1>5, <3>1
    <3> DEFINE w == Q[k]
               x == R[k]
               y == b[k + 1]
               z == c[k + 1]
    <3>6. w \in Nat /\ x \in Nat /\ y \in Nat /\ z \in Nat
      BY <3>3, <3>4
    <3> HIDE DEF w, x, y, z
    <3>7. P[k + 1] = (Q[k] + R[k]) + (b[k + 1] + c[k + 1])
      BY <3>2, <3>4, <3>5, Zenon
    <3>8. (Q[k] + R[k]) + (b[k + 1] + c[k + 1]) = (Q[k] + b[k + 1]) + (R[k] + c[k + 1])
      <4>1. (w + x) + (y + z) = (w + y) + (x + z)
        BY <3>6
      <4> QED
        BY <4>1 DEF w, x, y, z
    <3>9. P[k + 1] = Q[k + 1] + R[k + 1]
      BY <3>2, <3>7, <3>8, Zenon
    <3> QED
      BY <3>9
  <2> QED
    BY <2>1
<1>6. Nat \subseteq D
  <2> HIDE DEF D
  <2> QED
    BY <1>4, <1>5, NatSetInduction
<1> QED
  BY <1>1, <1>2, <1>3, <1>6

\* The sum of a sequence with one element that is not zero.
LEMMA TotalAt ==
  ASSUME NEW q \in Seq(Nat), NEW s \in 1 .. Len(q), \A i \in 1 .. Len(q) : i # s => q[i] = 0
  PROVE  Total(q) = q[s]
<1> DEFINE n == Len(q)
           x == q[s]
<1>1. n \in Nat /\ s \in 1 .. n /\ x \in Nat /\ \A i \in 1 .. n : q[i] = IF i = s THEN x ELSE 0
  OBVIOUS
<1>2. PICK P : PrefixSum(P, q) /\ Total(q) = P[Len(q)]
  BY TotalIsPrefixSum
<1> HIDE DEF n, x
<1> DEFINE D == {k \in Nat : k <= n => P[k] = IF k < s THEN 0 ELSE x}
<1>3. 0 \in D
  BY <1>2 DEF PrefixSum
<1>4. ASSUME NEW k \in Nat, k \in D PROVE k + 1 \in D
  <2>1. CASE k + 1 <= n
    <3>1. k + 1 \in 1 .. n /\ (k + 1) - 1 = k
      BY <1>1, <2>1
    <3>2. P[k + 1] = P[k] + q[k + 1]
      BY <1>2, <3>1 DEF PrefixSum, n
    <3>3. q[k + 1] = IF k + 1 = s THEN x ELSE 0
      BY <1>1, <3>1
    <3>4. P[k] = IF k < s THEN 0 ELSE x
      BY <1>1, <1>4, <2>1
    <3>5. P[k + 1] = IF k + 1 < s THEN 0 ELSE x
      <4>1. CASE k + 1 < s
        BY <1>1, <3>2, <3>3, <3>4, <4>1
      <4>2. CASE k + 1 = s
        BY <1>1, <3>2, <3>3, <3>4, <4>2
      <4>3. CASE k + 1 > s
        BY <1>1, <3>2, <3>3, <3>4, <4>3
      <4> QED
        BY <1>1, <4>1, <4>2, <4>3
    <3> QED
      BY <3>5
  <2> QED
    BY <2>1
<1>5. Nat \subseteq D
  <2> HIDE DEF D
  <2> QED
    BY <1>3, <1>4, NatSetInduction
<1>6. n \in D
  BY <1>1, <1>5
<1> QED
  BY <1>1, <1>2, <1>6 DEF n, x

\* Popping leaves what comes after, from the first position kept.
LEMMA FromSuffix ==
  ASSUME NEW S, NEW q \in Seq(S), NEW kept \in SUBSET DOMAIN q
  PROVE  \E k \in 0 .. Len(q) : /\ From(q, kept) = SubSeq(q, k + 1, Len(q))
                                /\ \A i \in 1 .. k : i \notin kept
                                /\ k < Len(q) => k + 1 \in kept
<1>1. Len(q) \in Nat /\ DOMAIN q = 1 .. Len(q)
  OBVIOUS
<1>2. CASE kept = {}
  <2>1. From(q, kept) = SubSeq(q, Len(q) + 1, Len(q))
    BY <1>1, <1>2 DEF From
  <2> QED
    BY <1>1, <1>2, <2>1
<1>3. CASE kept # {}
  <2>1. \E x \in kept : \A y \in kept : x <= y
    BY <1>1, <1>3, LeastMember
  <2>2. Min(kept) \in kept /\ \A y \in kept : Min(kept) <= y
    BY <2>1 DEF Min
  <2> DEFINE k == Min(kept) - 1
  <2>3. k \in 0 .. Len(q) /\ k + 1 = Min(kept)
    BY <1>1, <2>2
  <2>4. \A i \in 1 .. k : i \notin kept
    BY <1>1, <2>2
  <2> QED
    BY <1>3, <2>2, <2>3, <2>4 DEF From
<1> QED
  BY <1>2, <1>3

\* The sizes of a queue's entries.
LEMMA SizeTyped ==
  ASSUME NEW q \in Seq(Entry)
  PROVE  /\ [i \in DOMAIN q |-> q[i].size] \in Seq(Nat)
         /\ Len([i \in DOMAIN q |-> q[i].size]) = Len(q) /\ SizeOf(q) \in Nat
<1>1. Len(q) \in Nat /\ DOMAIN q = 1 .. Len(q) /\ \A i \in 1 .. Len(q) : q[i].size \in Nat
  <2>1. \A e \in Entry : e.size \in Nat
    BY DEF Entry
  <2>2. \A i \in 1 .. Len(q) : q[i] \in Entry
    OBVIOUS
  <2> QED
    BY <2>1, <2>2
<1>2. [i \in DOMAIN q |-> q[i].size] \in Seq(Nat) /\ Len([i \in DOMAIN q |-> q[i].size]) = Len(q)
  BY <1>1
<1> QED
  BY <1>2, TotalType DEF SizeOf

\* An empty queue weighs nothing.
LEMMA SizeEmpty == SizeOf(<<>>) = 0
<1>1. [i \in DOMAIN <<>> |-> <<>>[i].size] = <<>>
  OBVIOUS
<1> QED
  BY <1>1, TotalEmpty DEF SizeOf

\* One more entry adds its size.
LEMMA SizeAppend ==
  ASSUME NEW q \in Seq(Entry), NEW e \in Entry
  PROVE  SizeOf(Append(q, e)) = SizeOf(q) + e.size
<1> DEFINE r == Append(q, e)
           sq == [i \in DOMAIN q |-> q[i].size]
           sr == [i \in DOMAIN r |-> r[i].size]
<1>1. r \in Seq(Entry) /\ Len(r) = Len(q) + 1 /\ e.size \in Nat
  BY DEF Entry
<1>2. /\ sq \in Seq(Nat) /\ Len(sq) = Len(q) /\ SizeOf(q) = Total(sq)
      /\ sr \in Seq(Nat) /\ Len(sr) = Len(r) /\ SizeOf(r) = Total(sr)
  BY <1>1, SizeTyped DEF SizeOf
<1>3. \A i \in 1 .. Len(sr) : sr[i] = Append(sq, e.size)[i]
  BY <1>1, <1>2
<1>4. sr = Append(sq, e.size)
  <2> HIDE DEF sr, sq
  <2> QED
    BY <1>1, <1>2, <1>3
<1> QED
  BY <1>1, <1>2, <1>4, TotalAppend

\* Popping makes a queue no heavier.
LEMMA SizeSuffix ==
  ASSUME NEW q \in Seq(Entry), NEW k \in 0 .. Len(q)
  PROVE  /\ SubSeq(q, k + 1, Len(q)) \in Seq(Entry)
         /\ SizeOf(SubSeq(q, k + 1, Len(q))) <= SizeOf(q)
<1> DEFINE r == SubSeq(q, k + 1, Len(q))
           sq == [i \in DOMAIN q |-> q[i].size]
           sr == [i \in DOMAIN r |-> r[i].size]
<1>1. r \in Seq(Entry) /\ Len(r) = Len(q) - k /\ \A i \in 1 .. Len(r) : r[i] = q[k + i]
  OBVIOUS
<1>2. /\ sq \in Seq(Nat) /\ Len(sq) = Len(q) /\ SizeOf(q) = Total(sq)
      /\ sr \in Seq(Nat) /\ Len(sr) = Len(r) /\ SizeOf(r) = Total(sr)
  <2> HIDE DEF r
  <2> QED
    BY <1>1, SizeTyped DEF SizeOf
<1>3. /\ SubSeq(sq, 1, k) \in Seq(Nat) /\ SubSeq(sq, k + 1, Len(sq)) \in Seq(Nat)
      /\ Total(sq) = Total(SubSeq(sq, 1, k)) + Total(SubSeq(sq, k + 1, Len(sq)))
  <2> HIDE DEF sq
  <2> QED
    BY <1>2, TotalSplit
<1>4. sr = SubSeq(sq, k + 1, Len(sq))
  <2>1. \A i \in 1 .. Len(r) : sr[i] = r[i].size /\ sq[k + i] = q[k + i].size
    BY <1>1
  <2> HIDE DEF sr, sq, r
  <2> DEFINE u == SubSeq(sq, k + 1, Len(sq))
  <2>2. Len(u) = Len(sr) /\ \A i \in 1 .. Len(sr) : u[i] = sq[k + i]
    BY <1>1, <1>2
  <2>3. \A i \in 1 .. Len(sr) : k + i \in 1 .. Len(q) /\ r[i] = q[k + i]
    BY <1>1, <1>2
  <2>4. \A i \in 1 .. Len(sr) : sr[i] = u[i]
    BY <1>2, <2>1, <2>2, <2>3
  <2>5. u \in Seq(Nat)
    BY <1>3
  <2> HIDE DEF u
  <2>6. sr = u
    BY <1>2, <2>2, <2>4, <2>5, SeqEqual
  <2> QED
    BY <2>6 DEF u
<1>5. Total(SubSeq(sq, 1, k)) \in Nat /\ Total(SubSeq(sq, k + 1, Len(sq))) \in Nat
  <2> HIDE DEF sq
  <2> QED
    BY <1>3, TotalType
<1> HIDE DEF sq, sr
<1>6. SizeOf(q) = Total(SubSeq(sq, 1, k)) + SizeOf(r)
  BY <1>2, <1>3, <1>4
<1>7. SizeOf(r) \in Nat
  BY <1>2, <1>4, <1>5
<1> QED
  BY <1>1, <1>5, <1>6, <1>7

\* The sizes of the queues.
LEMMA SizesTyped ==
  ASSUME NEW t \in Seq(Seq(Entry))
  PROVE  /\ Sizes(t) \in Seq(Nat) /\ Len(Sizes(t)) = Len(t)
         /\ \A s \in 1 .. Len(t) : Sizes(t)[s] = SizeOf(t[s])
<1>1. Len(t) \in Nat /\ DOMAIN t = 1 .. Len(t) /\ \A s \in 1 .. Len(t) : t[s] \in Seq(Entry)
  OBVIOUS
<1>2. \A s \in 1 .. Len(t) : SizeOf(t[s]) \in Nat
  BY <1>1, SizeTyped
<1> QED
  BY <1>1, <1>2 DEF Sizes

-----------------------------------------------------------------------------
(* Eviction.                                                                 *)

\* The others are trimmed to the newest of the dropped-to keyframes.
LEMMA LatestStart ==
  ASSUME NEW c \in Seq(Cut), NEW lg, CutsInv(c, lg), NEW k \in 1 .. Len(c) - 1
  PROVE  Max({ToNanos(c[j].pts, Anchor) : j \in 2 .. k + 1}) = ToNanos(c[k + 1].pts, Anchor)
<1> DEFINE S == {ToNanos(c[j].pts, Anchor) : j \in 2 .. k + 1}
           top == ToNanos(c[k + 1].pts, Anchor)
<1>1. \A j \in 1 .. Len(c) : c[j] \in Cut /\ c[j].pts \in Nat
  <2>1. \A x \in Cut : x.pts \in Nat
    BY DEF Cut
  <2> QED
    BY <2>1
<1>2. Anchor \in Streams
  BY OthersAssumption DEF Anchor, Streams
<1>3. ASSUME NEW j \in 2 .. k + 1
      PROVE  ToNanos(c[j].pts, Anchor) \in Nat /\ ToNanos(c[j].pts, Anchor) <= top
  <2>1. j \in 1 .. Len(c) /\ k + 1 \in 1 .. Len(c)
    OBVIOUS
  <2>2. c[j].pts <= c[k + 1].pts
    BY <1>1, <1>3, <2>1 DEF CutsInv
  <2>3. c[j].pts \in Nat /\ c[k + 1].pts \in Nat
    BY <1>1, <2>1
  <2> QED
    BY <1>2, <2>2, <2>3, NanosTyped, NanosMonotone
<1>4. top \in S
  OBVIOUS
<1>5. \A x \in S : x \in Nat /\ x <= top
  BY <1>3
<1> HIDE DEF S, top
<1>6. Max(S) \in S /\ \A x \in S : Max(S) >= x
  <2>1. \E m \in S : \A x \in S : m >= x
    BY <1>4, <1>5
  <2> QED
    BY <2>1 DEF Max
<1>7. Max(S) = top
  BY <1>4, <1>5, <1>6
<1> QED
  BY <1>7 DEF S, top

\* t[s] without what no clip from c or after it needs.
Popped(t, s, lg, c, q) ==
  \E p \in 0 .. Len(t[s]) : /\ q = SubSeq(t[s], p + 1, Len(t[s]))
                            /\ \A i \in 1 .. p : Gone(lg[t[s][i].n], c)

\* A ring as evict sees it.
RingOf(t, c, b) == [tracks |-> t, cuts |-> c, bytes |-> b]

\* r is what is left of it when k GOPs have gone: the newer cut points, and no less of the
\* queues than a clip from them needs.
LeftBy(r, t, c, b, k) == r = After(RingOf(t, c, b), k)
Trimmed(r, t, c, lg, k) ==
  /\ r.tracks \in Seq(Seq(Entry)) /\ Len(r.tracks) = Len(t)
  /\ \A s \in 1 .. Len(t) : Popped(t, s, lg, c[k + 1], r.tracks[s])
  /\ r.cuts = SubSeq(c, k + 1, Len(c)) /\ r.bytes = Total(Sizes(r.tracks))

\* What eviction leaves.
LEMMA AfterShape ==
  ASSUME NEW t, NEW c, NEW b, NEW lg, RingInv(t, c, b, lg), NEW k \in 1 .. Len(c) - 1,
         NEW r, LeftBy(r, t, c, b, k)
  PROVE  Trimmed(r, t, c, lg, k)
<1> DEFINE cut == c[k + 1]
           start == ToNanos(cut.pts, Anchor)
           Stays(s, e) == IF s = Anchor THEN ~BeforeCut(e, cut) ELSE ToNanos(e.pts, s) >= start
           kept(s) == {i \in DOMAIN t[s] : Stays(s, t[s][i])}
           left == [s \in DOMAIN t |-> From(t[s], kept(s))]
           popped == [s \in DOMAIN t |-> SizeOf(t[s]) - SizeOf(left[s])]
<1>1. /\ t \in Seq(Seq(Entry)) /\ c \in Seq(Cut) /\ lg \in Seq(Logged) /\ b = Total(Sizes(t))
      /\ Len(t) \in Streams /\ LogInv(lg, Len(t)) /\ TracksInv(t, lg) /\ CutsInv(c, lg)
  BY DEF RingInv
<1>2. /\ Len(t) \in Nat /\ DOMAIN t = 1 .. Len(t) /\ k + 1 \in 1 .. Len(c)
      /\ \A s \in 1 .. Len(t) : s \in Streams /\ t[s] \in Seq(Entry)
  BY <1>1, OthersAssumption DEF Streams
<1>3. k # 0 /\ Max({ToNanos(c[j].pts, Anchor) : j \in 2 .. k + 1}) = start
  <2>1. k # 0
    OBVIOUS
  <2> QED
    BY <1>1, <2>1, LatestStart
<1>4. r = [tracks |-> left, cuts |-> SubSeq(c, k + 1, Len(c)), bytes |-> b - Total(popped)]
  BY <1>3 DEF After, RingOf, LeftBy
<1>5. cut \in Cut /\ cut.dts \in Nat /\ cut.pts \in Nat /\ start \in Nat
  <2>1. cut \in Cut
    BY <1>1, <1>2
  <2>2. cut.dts \in Nat /\ cut.pts \in Nat
    BY <2>1 DEF Cut
  <2>3. Anchor \in Streams
    BY OthersAssumption DEF Anchor, Streams
  <2> QED
    BY <2>1, <2>2, <2>3, NanosTyped
<1>6. ASSUME NEW s \in 1 .. Len(t)
      PROVE  /\ left[s] \in Seq(Entry) /\ SizeOf(left[s]) \in Nat
             /\ SizeOf(left[s]) <= SizeOf(t[s]) /\ Popped(t, s, lg, cut, left[s])
  <2>1. t[s] \in Seq(Entry) /\ kept(s) \in SUBSET DOMAIN t[s] /\ left[s] = From(t[s], kept(s))
    BY <1>2
  <2>2. PICK p \in 0 .. Len(t[s]) : /\ left[s] = SubSeq(t[s], p + 1, Len(t[s]))
                                    /\ \A i \in 1 .. p : i \notin kept(s)
    <3> HIDE DEF kept, left
    <3> QED
      BY <2>1, FromSuffix
  <2>3. left[s] \in Seq(Entry) /\ SizeOf(left[s]) <= SizeOf(t[s])
    <3> HIDE DEF kept, left
    <3> QED
      BY <2>1, <2>2, SizeSuffix
  <2>4. ASSUME NEW i \in 1 .. p PROVE Gone(lg[t[s][i].n], cut)
    <3> DEFINE e == t[s][i]
    <3>1. i \in DOMAIN t[s] /\ e \in Entry
      BY <2>1
    <3>2. ~Stays(s, e)
      BY <2>2, <3>1
    <3>3. Matches(e, s, lg) /\ lg[e.n].dts <= lg[e.n].pts
      BY <1>1, <1>2, <3>1 DEF TracksInv, LogInv, Matches
    <3>4. e.dts \in Nat /\ e.pts \in Nat
      BY <3>1 DEF Entry
    <3>5. CASE s = Anchor
      BY <3>2, <3>3, <3>5 DEF Gone, Matches, BeforeCut
    <3>6. CASE s # Anchor
      <4>1. ToNanos(e.dts, s) \in Nat /\ ToNanos(e.pts, s) \in Nat
            /\ ToNanos(e.dts, s) <= ToNanos(e.pts, s)
        BY <1>2, <3>3, <3>4, NanosTyped, NanosMonotone DEF Matches
      <4>2. ToNanos(e.pts, s) < start
        BY <1>5, <3>2, <3>6, <4>1
      <4>3. ToNanos(e.dts, s) < start
        BY <1>5, <4>1, <4>2
      <4> QED
        BY <3>3, <3>6, <4>3 DEF Gone, Matches
    <3> QED
      BY <3>5, <3>6
  <2>5. Popped(t, s, lg, cut, left[s])
    BY <2>2, <2>4 DEF Popped
  <2> QED
    BY <2>3, <2>5, SizeTyped
<1>7. left \in Seq(Seq(Entry)) /\ Len(left) = Len(t)
  <2>1. left = [s \in 1 .. Len(t) |-> left[s]] /\ \A s \in 1 .. Len(t) : left[s] \in Seq(Entry)
    BY <1>2, <1>6
  <2> HIDE DEF left
  <2> QED
    BY <1>2, <2>1
<1>8. popped \in Seq(Nat) /\ Len(popped) = Len(t)
      /\ \A s \in 1 .. Len(t) : Sizes(t)[s] = Sizes(left)[s] + popped[s]
  <2>1. \A s \in 1 .. Len(t) : SizeOf(t[s]) \in Nat /\ popped[s] = SizeOf(t[s]) - SizeOf(left[s])
    BY <1>2, SizeTyped
  <2>2. \A s \in 1 .. Len(t) : popped[s] \in Nat
    <3>1. \A s \in 1 .. Len(t) : SizeOf(left[s]) \in Nat /\ SizeOf(left[s]) <= SizeOf(t[s])
      BY <1>6
    <3> HIDE DEF popped, left
    <3> QED
      BY <2>1, <3>1
  <2>3. \A s \in 1 .. Len(t) : Sizes(t)[s] = SizeOf(t[s]) /\ Sizes(left)[s] = SizeOf(left[s])
    <3> HIDE DEF left
    <3> QED
      BY <1>1, <1>7, SizesTyped
  <2>4. popped = [s \in 1 .. Len(t) |-> popped[s]]
    BY <1>2
  <2> HIDE DEF popped, left
  <2> QED
    BY <1>2, <1>6, <2>1, <2>2, <2>3, <2>4
<1>9. Total(Sizes(t)) = Total(Sizes(left)) + Total(popped)
  <2>1. /\ Sizes(t) \in Seq(Nat) /\ Len(Sizes(t)) = Len(t)
        /\ Sizes(left) \in Seq(Nat) /\ Len(Sizes(left)) = Len(t)
    <3> HIDE DEF left
    <3> QED
      BY <1>1, <1>7, SizesTyped
  <2> HIDE DEF left, popped
  <2> QED
    BY <1>8, <2>1, TotalPointwise
<1>10. Total(Sizes(left)) \in Nat /\ Total(popped) \in Nat
  <2> HIDE DEF left, popped
  <2> QED
    BY <1>7, <1>8, SizesTyped, TotalType
<1> HIDE DEF left, popped
<1>11. b - Total(popped) = Total(Sizes(left))
  BY <1>1, <1>9, <1>10
<1> QED
  BY <1>4, <1>6, <1>7, <1>11 DEF Trimmed

\* What a log's packets are.
LEMMA LoggedTyped ==
  ASSUME NEW lg \in Seq(Logged), NEW n \in 1 .. Len(lg)
  PROVE  /\ lg[n] \in Logged /\ lg[n].stream \in Streams /\ lg[n].n \in Nat
         /\ lg[n].dts \in Nat /\ lg[n].pts \in Nat /\ lg[n].key \in BOOLEAN
<1>1. lg[n] \in Logged
  OBVIOUS
<1> QED
  BY <1>1 DEF Logged

\* A packet no clip from c needs is not needed by one from a later cut point.
LEMMA GoneLater ==
  ASSUME NEW p \in Logged, NEW c \in Cut, NEW d \in Cut, Gone(p, c),
         c.dts <= d.dts, c.pts <= d.pts
  PROVE  Gone(p, d)
<1>1. /\ p.stream \in Streams /\ p.dts \in Nat /\ Anchor \in Streams
      /\ c.dts \in Nat /\ c.pts \in Nat /\ d.dts \in Nat /\ d.pts \in Nat
  BY OthersAssumption DEF Logged, Cut, Streams, Anchor
<1>2. /\ ToNanos(p.dts, p.stream) \in Nat /\ ToNanos(c.pts, Anchor) \in Nat
      /\ ToNanos(d.pts, Anchor) \in Nat /\ ToNanos(c.pts, Anchor) <= ToNanos(d.pts, Anchor)
  BY <1>1, NanosTyped, NanosMonotone
<1>3. CASE p.stream = Anchor
  BY <1>1, <1>3 DEF Gone
<1>4. CASE p.stream # Anchor
  BY <1>2, <1>4 DEF Gone
<1> QED
  BY <1>3, <1>4

\* Dropping k cut points leaves the newest ones.
LEMMA CutsAfter ==
  ASSUME NEW c \in Seq(Cut), NEW lg \in Seq(Logged), CutsInv(c, lg), NEW k \in 1 .. Len(c) - 1
  PROVE  LET d == SubSeq(c, k + 1, Len(c)) IN
         /\ d \in Seq(Cut) /\ Len(d) = Len(c) - k /\ d # <<>> /\ d[1] = c[k + 1]
         /\ CutsInv(d, lg)
<1> DEFINE d == SubSeq(c, k + 1, Len(c))
<1>1. /\ d \in Seq(Cut) /\ Len(d) = Len(c) - k /\ Len(c) \in Nat
      /\ \A i \in 1 .. Len(d) : d[i] = c[k + i] /\ k + i \in 1 .. Len(c)
  OBVIOUS
<1> HIDE DEF d
<1>2. d # <<>> /\ d[1] = c[k + 1] /\ c # <<>> /\ k + 1 \in 1 .. Len(c)
  BY <1>1
<1>3. \A i \in 1 .. Len(d) : \E n \in Keys(lg) : lg[n].dts = d[i].dts /\ lg[n].pts = d[i].pts
  <2> SUFFICES ASSUME NEW i \in 1 .. Len(d)
               PROVE  \E n \in Keys(lg) : lg[n].dts = d[i].dts /\ lg[n].pts = d[i].pts
    OBVIOUS
  <2>1. PICK n \in Keys(lg) : lg[n].dts = c[k + i].dts /\ lg[n].pts = c[k + i].pts
    BY <1>1 DEF CutsInv
  <2> QED
    BY <1>1, <2>1
<1>4. \A i, j \in 1 .. Len(d) : i < j => d[i].pts < d[j].pts /\ d[i].dts <= d[j].dts
  <2> SUFFICES ASSUME NEW i \in 1 .. Len(d), NEW j \in 1 .. Len(d), i < j
               PROVE  d[i].pts < d[j].pts /\ d[i].dts <= d[j].dts
    OBVIOUS
  <2>1. k + i \in 1 .. Len(c) /\ k + j \in 1 .. Len(c) /\ k + i < k + j
    BY <1>1
  <2> QED
    BY <1>1, <2>1 DEF CutsInv
<1>5. ASSUME NEW n \in Keys(lg)
      PROVE  \/ lg[n].pts < d[1].pts
             \/ \E i \in 1 .. Len(d) : d[i].dts = lg[n].dts /\ d[i].pts = lg[n].pts
  <2>1. \A i \in 1 .. Len(c) : c[i].pts \in Nat
    <3>1. \A x \in Cut : x.pts \in Nat
      BY DEF Cut
    <3> QED
      BY <3>1
  <2>2. CASE lg[n].pts < c[1].pts
    <3>1. 1 \in 1 .. Len(c) /\ k + 1 \in 1 .. Len(c) /\ 1 < k + 1
      BY <1>2
    <3>2. c[1].pts < c[k + 1].pts
      BY <3>1 DEF CutsInv
    <3>3. c[1].pts \in Nat /\ c[k + 1].pts \in Nat
      BY <2>1, <3>1
    <3>4. lg[n].pts \in Nat
      BY LoggedTyped DEF Keys
    <3> QED
      BY <1>2, <2>2, <3>2, <3>3, <3>4
  <2>3. CASE \E i \in 1 .. Len(c) : c[i].dts = lg[n].dts /\ c[i].pts = lg[n].pts
    <3>1. PICK i \in 1 .. Len(c) : c[i].dts = lg[n].dts /\ c[i].pts = lg[n].pts
      BY <2>3
    <3>2. CASE i <= k
      <4>1. c[i].pts < c[k + 1].pts
        BY <1>2, <3>2 DEF CutsInv
      <4> QED
        BY <1>2, <3>1, <4>1
    <3>3. CASE i > k
      <4>1. i - k \in 1 .. Len(d) /\ d[i - k] = c[i]
        <5>1. i - k \in 1 .. Len(d) /\ k + (i - k) = i
          BY <1>1, <3>3
        <5> QED
          BY <1>1, <5>1
      <4> QED
        BY <3>1, <4>1
    <3> QED
      BY <3>2, <3>3
  <2> QED
    BY <1>2, <2>2, <2>3 DEF CutsInv
<1> QED
  BY <1>1, <1>2, <1>3, <1>4, <1>5 DEF CutsInv, d

\* What eviction leaves is still the log's packets, in order.
LEMMA TracksAfter ==
  ASSUME NEW t \in Seq(Seq(Entry)), NEW lg, NEW c, TracksInv(t, lg),
         NEW u \in Seq(Seq(Entry)), Len(u) = Len(t), \A s \in 1 .. Len(t) : Popped(t, s, lg, c, u[s])
  PROVE  TracksInv(u, lg)
<1> SUFFICES ASSUME NEW s \in 1 .. Len(t)
             PROVE  /\ \A i \in DOMAIN u[s] : Matches(u[s][i], s, lg)
                    /\ \A i, j \in DOMAIN u[s] : i < j => u[s][i].n < u[s][j].n
  <2>1. DOMAIN u = 1 .. Len(t)
    OBVIOUS
  <2> QED
    BY <2>1 DEF TracksInv
<1>1. PICK p \in 0 .. Len(t[s]) : u[s] = SubSeq(t[s], p + 1, Len(t[s]))
  BY DEF Popped
<1>2. t[s] \in Seq(Entry) /\ Len(t[s]) \in Nat /\ s \in DOMAIN t
  OBVIOUS
<1>3. DOMAIN u[s] = 1 .. Len(t[s]) - p
      /\ \A i \in DOMAIN u[s] : p + i \in DOMAIN t[s] /\ u[s][i] = t[s][p + i]
  BY SMTT(30), <1>1, <1>2
<1>4. \A i \in DOMAIN u[s] : Matches(u[s][i], s, lg)
  BY <1>2, <1>3 DEF TracksInv
<1>5. ASSUME NEW i \in DOMAIN u[s], NEW j \in DOMAIN u[s], i < j
      PROVE  u[s][i].n < u[s][j].n
  <2>1. p + i \in DOMAIN t[s] /\ p + j \in DOMAIN t[s] /\ p + i < p + j
    BY <1>3, <1>5
  <2>2. t[s][p + i].n < t[s][p + j].n
    BY <1>2, <2>1 DEF TracksInv
  <2> QED
    BY <1>3, <2>2
<1> QED
  BY <1>4, <1>5

\* Eviction drops only what no clip needs any more.
LEMMA EvictedAfter ==
  ASSUME NEW t \in Seq(Seq(Entry)), NEW lg \in Seq(Logged), NEW c \in Seq(Cut),
         LogInv(lg, Len(t)), TracksInv(t, lg), EvictedInv(t, c, lg), CutsInv(c, lg),
         NEW k \in 1 .. Len(c) - 1,
         NEW u \in Seq(Seq(Entry)), Len(u) = Len(t),
         \A s \in 1 .. Len(t) : Popped(t, s, lg, c[k + 1], u[s])
  PROVE  EvictedInv(u, SubSeq(c, k + 1, Len(c)), lg)
<1> DEFINE d == SubSeq(c, k + 1, Len(c))
<1>1. d # <<>> /\ d[1] = c[k + 1]
  BY CutsAfter
<1> HIDE DEF d
<1> SUFFICES ASSUME NEW n \in 1 .. Len(lg)
             PROVE  \/ \E i \in DOMAIN u[lg[n].stream] : u[lg[n].stream][i].n = n
                    \/ Gone(lg[n], c[k + 1])
  BY <1>1 DEF EvictedInv, d
<1> DEFINE s == lg[n].stream
<1>2. s \in 1 .. Len(t) /\ lg[n] \in Logged /\ t[s] \in Seq(Entry)
  BY DEF LogInv
<1>3. CASE \E i \in DOMAIN t[s] : t[s][i].n = n
  <2>1. PICK i \in DOMAIN t[s] : t[s][i].n = n
    BY <1>3
  <2>2. PICK p \in 0 .. Len(t[s]) : /\ u[s] = SubSeq(t[s], p + 1, Len(t[s]))
                                    /\ \A j \in 1 .. p : Gone(lg[t[s][j].n], c[k + 1])
    BY <1>2 DEF Popped
  <2> HIDE DEF s
  <2>3. i \in 1 .. Len(t[s]) /\ Len(t[s]) \in Nat
    BY SMTT(30), <1>2, <2>1
  <2>4. CASE i <= p
    BY SMTT(30), <2>1, <2>2, <2>3, <2>4
  <2>5. CASE i > p
    <3> DEFINE j == i - p
    <3>0. j \in 1 .. Len(t[s]) - p /\ p + j = i
      BY SMTT(30), <2>3, <2>5
    <3>3. DOMAIN u[s] = 1 .. Len(t[s]) - p /\ \A m \in 1 .. Len(t[s]) - p : u[s][m] = t[s][p + m]
      BY <1>2, <2>2, <2>3
    <3>1. i - p \in DOMAIN u[s] /\ u[s][i - p] = t[s][p + (i - p)] /\ p + (i - p) = i
      <4> HIDE DEF j
      <4>1. j \in DOMAIN u[s] /\ u[s][j] = t[s][p + j]
        BY <3>0, <3>3
      <4> QED
        BY <3>0, <4>1 DEF j
    <3>2. u[s][i - p].n = n
      BY <2>1, <3>1
    <3> QED
      BY <3>1, <3>2 DEF s
  <2> QED
    BY <2>3, <2>4, <2>5
<1>4. CASE c # <<>> /\ Gone(lg[n], c[1])
  <2>1. 1 \in 1 .. Len(c) /\ k + 1 \in 1 .. Len(c) /\ 1 < k + 1
    OBVIOUS
  <2>2. c[1] \in Cut /\ c[k + 1] \in Cut
    BY <2>1
  <2>3. c[1].pts < c[k + 1].pts /\ c[1].dts <= c[k + 1].dts
    BY <2>1 DEF CutsInv
  <2>4. c[1].pts <= c[k + 1].pts
    <3>1. \A x \in Cut : x.pts \in Nat
      BY DEF Cut
    <3> QED
      BY <2>2, <2>3, <3>1
  <2> QED
    BY <1>2, <1>4, <2>2, <2>3, <2>4, GoneLater
<1> QED
  BY <1>3, <1>4 DEF EvictedInv

\* Dropping GOPs keeps the ring's invariant.
LEMMA AfterKeeps ==
  ASSUME NEW t, NEW c, NEW b, NEW lg, RingInv(t, c, b, lg), NEW k \in 0 .. Len(c) - 1,
         NEW r, LeftBy(r, t, c, b, k)
  PROVE  /\ RingInv(r.tracks, r.cuts, r.bytes, lg)
         /\ Len(r.tracks) = Len(t) /\ Len(r.cuts) = Len(c) - k /\ r.cuts # <<>>
         /\ \A i \in 1 .. Len(r.cuts) : r.cuts[i] = c[k + i]
<1>1. c \in Seq(Cut) /\ Len(c) \in Nat /\ c # <<>>
  BY DEF RingInv
<1>2. CASE k = 0
  <2>1. r = RingOf(t, c, b)
    BY <1>2 DEF After, LeftBy
  <2>2. r.tracks = t /\ r.cuts = c /\ r.bytes = b
    BY <2>1 DEF RingOf
  <2>3. \A i \in 1 .. Len(c) : c[i] = c[k + i]
    BY <1>2
  <2> QED
    BY <1>1, <1>2, <2>2, <2>3
<1>3. CASE k # 0
  <2>1. k \in 1 .. Len(c) - 1
    BY <1>3
  <2>2. /\ r.tracks \in Seq(Seq(Entry)) /\ Len(r.tracks) = Len(t)
        /\ \A s \in 1 .. Len(t) : Popped(t, s, lg, c[k + 1], r.tracks[s])
        /\ r.cuts = SubSeq(c, k + 1, Len(c)) /\ r.bytes = Total(Sizes(r.tracks))
    BY <2>1, AfterShape DEF Trimmed
  <2>3. /\ t \in Seq(Seq(Entry)) /\ lg \in Seq(Logged) /\ Len(t) \in Streams /\ LogInv(lg, Len(t))
        /\ TracksInv(t, lg) /\ EvictedInv(t, c, lg) /\ CutsInv(c, lg)
    BY DEF RingInv
  <2>4. TracksInv(r.tracks, lg)
    BY <2>2, <2>3, TracksAfter
  <2>5. EvictedInv(r.tracks, r.cuts, lg)
    BY <1>1, <2>1, <2>2, <2>3, EvictedAfter
  <2>6. /\ r.cuts \in Seq(Cut) /\ Len(r.cuts) = Len(c) - k /\ r.cuts # <<>>
        /\ CutsInv(r.cuts, lg)
    BY <1>1, <2>1, <2>2, <2>3, CutsAfter
  <2>7. \A i \in 1 .. Len(r.cuts) : r.cuts[i] = c[k + i]
    BY <1>1, <2>1, <2>2
  <2> QED
    BY <2>2, <2>3, <2>4, <2>5, <2>6, <2>7 DEF RingInv
<1> QED
  BY <1>2, <1>3

-----------------------------------------------------------------------------
(* A push, before it evicts.                                                 *)

\* A set of naturals with a bound has a largest member.
LEMMA MaxOfBounded ==
  ASSUME NEW S \in SUBSET Nat, S # {}, NEW b \in Nat, \A x \in S : x <= b
  PROVE  Max(S) \in S /\ \A x \in S : x <= Max(S)
<1> DEFINE U == {u \in Nat : \A x \in S : x <= u}
<1>1. U \subseteq Nat /\ U # {}
  OBVIOUS
<1>2. PICK m \in U : \A u \in U : m <= u
  <2> HIDE DEF U
  <2> QED
    BY <1>1, LeastMember
<1>3. m \in S
  <2> SUFFICES ASSUME m \notin S PROVE FALSE
    OBVIOUS
  <2>1. PICK x \in S : TRUE
    OBVIOUS
  <2>2. x \in Nat /\ x <= m /\ x # m
    BY <1>2, <2>1
  <2>3. m - 1 \in Nat
    BY <1>2, <2>2
  <2>4. \A y \in S : y \in Nat /\ y <= m /\ y # m
    BY <1>2
  <2>5. \A y \in S : y <= m - 1
    BY <1>2, <2>4
  <2>6. m - 1 \in U
    BY <2>3, <2>5
  <2> QED
    BY <1>2, <2>3, <2>6
<1>4. \A x \in S : m >= x
  BY <1>2
<1>5. Max(S) \in S /\ \A x \in S : Max(S) >= x
  BY <1>3, <1>4 DEF Max
<1> QED
  BY <1>5

\* The times in a log are bounded.
LEMMA LogBounded ==
  ASSUME NEW lg \in Seq(Logged)
  PROVE  \E b \in Nat : \A i \in 1 .. Len(lg) : lg[i].dts <= b
<1> DEFINE Some(k) == \E b \in Nat : \A i \in 1 .. k : lg[i].dts <= b
           D == {k \in Nat : k <= Len(lg) => Some(k)}
<1>0. Some(0)
  OBVIOUS
<1>1. 0 \in D
  <2> HIDE DEF Some
  <2> QED
    BY <1>0
<1>2. ASSUME NEW k \in Nat, k \in D PROVE k + 1 \in D
  <2>1. CASE k + 1 <= Len(lg)
    <3>0. Some(k)
      <4> HIDE DEF Some
      <4> QED
        BY <1>2, <2>1
    <3>1. PICK b \in Nat : \A i \in 1 .. k : lg[i].dts <= b
      BY <3>0
    <3>2. \A i \in 1 .. k + 1 : lg[i].dts \in Nat
      BY <2>1, LoggedTyped
    <3> DEFINE m == IF b < lg[k + 1].dts THEN lg[k + 1].dts ELSE b
    <3>3. m \in Nat /\ \A i \in 1 .. k + 1 : lg[i].dts <= m
      <4>1. lg[k + 1].dts \in Nat
        BY <3>2
      <4>2. m \in Nat /\ b <= m /\ lg[k + 1].dts <= m
        BY <4>1
      <4> HIDE DEF m
      <4>3. ASSUME NEW i \in 1 .. k + 1 PROVE lg[i].dts <= m
        <5>1. i = k + 1 \/ i \in 1 .. k
          OBVIOUS
        <5> QED
          BY <3>1, <3>2, <4>2, <5>1
      <4> QED
        BY <4>2, <4>3
    <3>4. Some(k + 1)
      <4> HIDE DEF m
      <4> QED
        BY <3>3
    <3> HIDE DEF Some
    <3> QED
      BY <3>4
  <2> QED
    BY <2>1
<1>3. Nat \subseteq D
  <2> HIDE DEF D
  <2> QED
    BY <1>1, <1>2, NatSetInduction
<1>4. Some(Len(lg))
  <2>1. Len(lg) \in Nat
    OBVIOUS
  <2> HIDE DEF Some, D
  <2>2. Len(lg) \in D
    BY <1>3, <2>1
  <2> QED
    BY <2>1, <2>2 DEF D
<1> QED
  BY <1>4

\* A stream's next packet is not decoded before the ones it has had.
LEMMA LastIsLatest ==
  ASSUME log \in Seq(Logged), NEW s
  PROVE  /\ LastDts(s) \in Nat
         /\ \A i \in 1 .. Len(log) : log[i].stream = s => log[i].dts <= LastDts(s)
<1> DEFINE S == {0} \cup {log[i].dts : i \in {j \in DOMAIN log : log[j].stream = s}}
<1>1. DOMAIN log = 1 .. Len(log) /\ \A i \in 1 .. Len(log) : log[i].dts \in Nat
  BY LoggedTyped
<1>2. S \in SUBSET Nat /\ S # {}
  BY <1>1
<1>3. PICK b \in Nat : \A i \in 1 .. Len(log) : log[i].dts <= b
  BY LogBounded
<1>4. \A x \in S : x <= b
  BY <1>1, <1>3
<1>5. \A i \in 1 .. Len(log) : log[i].stream = s => log[i].dts \in S
  BY <1>1
<1> HIDE DEF S
<1>6. Max(S) \in S /\ \A x \in S : x <= Max(S)
  BY <1>2, <1>4, MaxOfBounded
<1>7. LastDts(s) = Max(S)
  BY DEF LastDts, S
<1> QED
  BY <1>2, <1>5, <1>6, <1>7

\* The queues, the log and the cut points with a packet more.
TracksWith(t, s, e) == t = [tracks EXCEPT ![s] = Append(@, e)]
LogWith(lg, s, e) ==
  lg = Append(log, [stream |-> s, n |-> e.n, dts |-> e.dts, pts |-> e.pts, key |-> e.key])
CutsWith(c, s, e) ==
  c = cuts \o (IF s = Anchor /\ e.key THEN <<[dts |-> e.dts, pts |-> e.pts]>> ELSE <<>>)

\* A packet the caller may push next.
Sound(s, e) ==
  /\ e \in Entry /\ e.n = Len(log) + 1 /\ e.dts <= e.pts
  /\ \A i \in 1 .. Len(log) : log[i].stream = s => log[i].dts <= e.dts
  /\ s = Anchor /\ e.key =>
       \A i \in 1 .. Len(log) : log[i].stream = Anchor => log[i].pts < e.pts

\* What the encoders emit is such a packet.
LEMMA EmittedSound ==
  ASSUME log \in Seq(Logged), NEW s \in Streams, NEW e \in Emitted(s)
  PROVE  Sound(s, e)
<1> DEFINE shown == {log[i].pts : i \in {j \in 1 .. Len(log) : log[j].stream = Anchor}}
           decoded == {LastDts(s) + d : d \in Steps}
           Packet(d, delay, k) == [n |-> Len(log) + 1, dts |-> d, pts |-> d + delay, key |-> k,
                                   size |-> IF s = Anchor /\ k THEN 2 ELSE 1]
<1>1. Len(log) \in Nat /\ LastDts(s) \in Nat
      /\ \A i \in 1 .. Len(log) : /\ log[i].dts \in Nat
                                  /\ log[i].stream = s => log[i].dts <= LastDts(s)
  BY LastIsLatest, LoggedTyped
<1>2. \A d \in decoded : d \in Nat /\ LastDts(s) <= d
  BY <1>1, BoundAssumption
<1>3. PICK d \in decoded, delay \in Delays \cup {0}, k \in BOOLEAN :
        e = Packet(d, delay, k) /\ (s = Anchor /\ k => \A p \in shown : p < e.pts)
  <2>1. CASE s # Anchor
    <3>1. PICK d \in decoded : e = Packet(d, 0, TRUE)
      BY <2>1 DEF Emitted
    <3> QED
      BY <2>1, <3>1
  <2>2. CASE s = Anchor
    <3>1. e \in {x \in {Packet(d, delay, k) : d \in decoded, delay \in Delays, k \in BOOLEAN} :
                   x.key => \A p \in shown : p < x.pts}
      BY <2>2 DEF Emitted
    <3>2. PICK d \in decoded, delay \in Delays, k \in BOOLEAN : e = Packet(d, delay, k)
      BY <3>1
    <3>3. e.key = k
      BY <3>2
    <3> QED
      BY <3>1, <3>2, <3>3
  <2> QED
    BY <2>1, <2>2
<1>4. d \in Nat /\ LastDts(s) <= d /\ delay \in Nat
  BY <1>2, BoundAssumption
<1>5. /\ e.n = Len(log) + 1 /\ e.dts = d /\ e.pts = d + delay /\ e.key = k
      /\ e.size \in Nat
  BY <1>3
<1>6. e \in Entry
  <2>1. Len(log) + 1 \in Nat /\ d + delay \in Nat
    BY <1>1, <1>4
  <2>2. e = [n |-> Len(log) + 1, dts |-> d, pts |-> d + delay, key |-> k,
             size |-> IF s = Anchor /\ k THEN 2 ELSE 1]
    BY <1>3
  <2> QED
    BY <1>4, <2>1, <2>2 DEF Entry
<1>7. \A i \in 1 .. Len(log) : log[i].stream = s => log[i].dts <= e.dts
  BY <1>1, <1>4, <1>5
<1>8. s = Anchor /\ e.key => \A i \in 1 .. Len(log) : log[i].stream = Anchor => log[i].pts < e.pts
  BY <1>3, <1>5
<1> QED
  BY <1>4, <1>5, <1>6, <1>7, <1>8 DEF Sound

\* The log with one packet more.
LEMMA LogPushed ==
  ASSUME NEW m \in Nat, NEW s \in 1 .. m, s \in Streams, log \in Seq(Logged), LogInv(log, m),
         NEW e, Sound(s, e),
         NEW lg, LogWith(lg, s, e)
  PROVE  /\ lg \in Seq(Logged) /\ Len(lg) = Len(log) + 1 /\ LogInv(lg, m)
         /\ \A i \in 1 .. Len(log) : lg[i] = log[i]
         /\ Matches(e, s, lg) /\ e.n = Len(lg)
<1> DEFINE p == [stream |-> s, n |-> e.n, dts |-> e.dts, pts |-> e.pts, key |-> e.key]
<1>1. /\ e \in Entry /\ e.n \in Nat /\ e.dts \in Nat /\ e.pts \in Nat /\ e.key \in BOOLEAN
      /\ e.n = Len(log) + 1 /\ Len(log) \in Nat /\ e.dts <= e.pts
  BY DEF Sound, Entry
<1>2. /\ p \in Logged /\ p.stream = s /\ p.dts = e.dts /\ p.pts = e.pts /\ p.key = e.key
  BY <1>1 DEF Logged
<1> HIDE DEF p
<1>3. /\ lg \in Seq(Logged) /\ Len(lg) = Len(log) + 1 /\ lg[Len(log) + 1] = p
      /\ \A i \in 1 .. Len(log) : lg[i] = log[i]
  <2>1. lg = Append(log, p)
    BY DEF p, LogWith
  <2> QED
    BY <1>2, <2>1
<1>4. \A i \in 1 .. Len(lg) : i = Len(log) + 1 \/ i \in 1 .. Len(log)
  BY <1>1, <1>3
<1>5. Matches(e, s, lg) /\ e.n = Len(lg)
  BY <1>1, <1>2, <1>3 DEF Matches
<1>6. \A i \in 1 .. Len(lg) : lg[i].stream \in 1 .. m /\ lg[i].dts <= lg[i].pts
  BY <1>1, <1>2, <1>3, <1>4 DEF LogInv
<1>7. ASSUME NEW i \in 1 .. Len(lg), NEW j \in 1 .. Len(lg), i < j, lg[i].stream = lg[j].stream
      PROVE  lg[i].dts <= lg[j].dts
  <2>1. i \in 1 .. Len(log) /\ lg[i] = log[i]
    BY <1>1, <1>3, <1>7
  <2>2. CASE j = Len(log) + 1
    BY <1>2, <1>3, <1>7, <2>1, <2>2 DEF Sound
  <2>3. CASE j \in 1 .. Len(log)
    BY <1>3, <1>7, <2>1, <2>3 DEF LogInv
  <2> QED
    BY <1>4, <2>2, <2>3
<1>8. ASSUME NEW i \in 1 .. Len(lg), NEW j \in Keys(lg), i < j, lg[i].stream = Anchor
      PROVE  lg[i].pts < lg[j].pts
  <2>1. j \in 1 .. Len(lg) /\ lg[j].stream = Anchor /\ lg[j].key
    BY DEF Keys
  <2>2. i \in 1 .. Len(log) /\ lg[i] = log[i]
    BY <1>1, <1>3, <1>8, <2>1
  <2>3. CASE j = Len(log) + 1
    BY <1>2, <1>3, <1>8, <2>1, <2>2, <2>3 DEF Sound
  <2>4. CASE j \in 1 .. Len(log)
    <3>1. j \in Keys(log) /\ lg[j] = log[j]
      BY <1>3, <2>1, <2>4 DEF Keys
    <3> QED
      BY <1>8, <2>2, <3>1 DEF LogInv
  <2> QED
    BY <1>4, <2>1, <2>3, <2>4
<1> QED
  BY <1>3, <1>5, <1>6, <1>7, <1>8 DEF LogInv

\* The keyframes of the longer log.
LEMMA KeysPushed ==
  ASSUME NEW lg, Len(log) \in Nat, Len(lg) = Len(log) + 1, \A i \in 1 .. Len(log) : lg[i] = log[i]
  PROVE  /\ \A n \in Keys(log) : n \in Keys(lg) /\ lg[n] = log[n] /\ n \in 1 .. Len(log)
         /\ \A n \in Keys(lg) : n \in Keys(log) \/ n = Len(lg)
BY DEF Keys

\* A packet is added to its queue.
LEMMA TracksPushed ==
  ASSUME tracks \in Seq(Seq(Entry)), log \in Seq(Logged), TracksInv(tracks, log),
         NEW s \in 1 .. Len(tracks), NEW e \in Entry,
         NEW lg, Len(lg) = Len(log) + 1, \A i \in 1 .. Len(log) : lg[i] = log[i],
         Matches(e, s, lg), e.n = Len(lg),
         NEW t, TracksWith(t, s, e)
  PROVE  /\ t \in Seq(Seq(Entry)) /\ Len(t) = Len(tracks) /\ TracksInv(t, lg)
         /\ Total(Sizes(t)) = Total(Sizes(tracks)) + e.size
<1>1. /\ t \in Seq(Seq(Entry)) /\ Len(t) = Len(tracks) /\ Len(tracks) \in Nat
      /\ t[s] = Append(tracks[s], e) /\ tracks[s] \in Seq(Entry)
      /\ \A r \in 1 .. Len(t) : r # s => t[r] = tracks[r]
      /\ DOMAIN t = 1 .. Len(t) /\ DOMAIN tracks = 1 .. Len(t)
  BY DEF TracksWith
<1>2. ASSUME NEW r \in 1 .. Len(t)
      PROVE  /\ \A i \in DOMAIN tracks[r] : Matches(tracks[r][i], r, lg) /\ tracks[r][i].n <= Len(log)
             /\ \A i, j \in DOMAIN tracks[r] : i < j => tracks[r][i].n < tracks[r][j].n
  <2>1. \A i \in DOMAIN tracks[r] : Matches(tracks[r][i], r, log)
    BY <1>1 DEF TracksInv
  <2>2. \A i, j \in DOMAIN tracks[r] : i < j => tracks[r][i].n < tracks[r][j].n
    BY <1>1 DEF TracksInv
  <2>3. \A i \in DOMAIN tracks[r] : Matches(tracks[r][i], r, lg) /\ tracks[r][i].n <= Len(log)
    <3> SUFFICES ASSUME NEW i \in DOMAIN tracks[r]
                 PROVE  Matches(tracks[r][i], r, lg) /\ tracks[r][i].n <= Len(log)
      OBVIOUS
    <3> DEFINE x == tracks[r][i]
    <3>1. Matches(x, r, log)
      BY <2>1
    <3> HIDE DEF x
    <3>2. x.n \in 1 .. Len(log) /\ lg[x.n] = log[x.n] /\ x.n \in 1 .. Len(lg)
      BY <3>1 DEF Matches
    <3>3. Matches(x, r, lg) /\ x.n <= Len(log)
      BY <3>1, <3>2 DEF Matches
    <3> QED
      BY <3>3 DEF x
  <2> QED
    BY <2>2, <2>3
<1>3. ASSUME NEW r \in 1 .. Len(t)
      PROVE  /\ \A i \in DOMAIN t[r] : Matches(t[r][i], r, lg)
             /\ \A i, j \in DOMAIN t[r] : i < j => t[r][i].n < t[r][j].n
  <2>1. CASE r # s
    BY <1>1, <1>2, <2>1
  <2>2. CASE r = s
    <3> DEFINE q == tracks[s]
               u == Append(q, e)
    <3>1. /\ t[r] = u /\ DOMAIN u = 1 .. Len(q) + 1 /\ DOMAIN q = 1 .. Len(q) /\ Len(q) \in Nat
          /\ u[Len(q) + 1] = e /\ \A i \in 1 .. Len(q) : u[i] = q[i]
      BY <1>1, <2>2
    <3>2. /\ \A i \in DOMAIN q : Matches(q[i], s, lg) /\ q[i].n <= Len(log)
          /\ \A i, j \in DOMAIN q : i < j => q[i].n < q[j].n
      BY <1>1, <1>2
    <3> HIDE DEF q, u
    <3>3. \A i \in DOMAIN u : i \in DOMAIN q \/ i = Len(q) + 1
      BY SMTT(30), <3>1
    <3>4. \A i \in DOMAIN u : Matches(u[i], s, lg)
      BY <3>1, <3>2, <3>3
    <3>5. ASSUME NEW i \in DOMAIN u, NEW j \in DOMAIN u, i < j PROVE u[i].n < u[j].n
      <4>1. i \in DOMAIN q /\ u[i] = q[i]
        BY <3>1, <3>5
      <4>2. CASE j \in DOMAIN q
        BY <3>1, <3>2, <3>5, <4>1, <4>2
      <4>3. CASE j = Len(q) + 1
        <5>1. q[i].n <= Len(log) /\ q[i].n \in 1 .. Len(lg) /\ Len(log) \in Nat
          BY <3>2, <4>1 DEF Matches
        <5> QED
          BY SMTT(30), <3>1, <4>1, <4>3, <5>1
      <4> QED
        BY <3>3, <4>2, <4>3
    <3> QED
      BY <2>2, <3>1, <3>4, <3>5
  <2> QED
    BY <2>1, <2>2
<1>4. TracksInv(t, lg)
  <2> SUFFICES ASSUME NEW r \in DOMAIN t
               PROVE  /\ \A i \in DOMAIN t[r] : Matches(t[r][i], r, lg)
                      /\ \A i, j \in DOMAIN t[r] : i < j => t[r][i].n < t[r][j].n
    BY DEF TracksInv
  <2>1. r \in 1 .. Len(t)
    BY <1>1
  <2> QED
    BY <1>3, <2>1
<1> DEFINE x == e.size
           one == [r \in 1 .. Len(tracks) |-> IF r = s THEN x ELSE 0]
<1>5. x \in Nat
  BY DEF Entry
<1>6. one \in Seq(Nat) /\ Total(one) = x /\ Len(one) = Len(tracks)
  <2>1. one \in Seq(Nat) /\ Len(one) = Len(tracks)
    BY <1>1, <1>5
  <2>2. one[s] = x /\ \A r \in 1 .. Len(tracks) : r # s => one[r] = 0
    BY <1>1
  <2> HIDE DEF one, x
  <2>3. Total(one) = one[s]
    BY <2>1, <2>2, TotalAt
  <2> QED
    BY <2>1, <2>2, <2>3
<1>7. /\ Sizes(t) \in Seq(Nat) /\ Len(Sizes(t)) = Len(tracks)
      /\ Sizes(tracks) \in Seq(Nat) /\ Len(Sizes(tracks)) = Len(tracks)
      /\ \A r \in 1 .. Len(tracks) : Sizes(t)[r] = SizeOf(t[r]) /\ Sizes(tracks)[r] = SizeOf(tracks[r])
  BY <1>1, SizesTyped
<1>8. \A r \in 1 .. Len(tracks) : Sizes(t)[r] = Sizes(tracks)[r] + one[r]
  <2>1. SizeOf(t[s]) = SizeOf(tracks[s]) + x
    BY <1>1, SizeAppend
  <2>2. \A r \in 1 .. Len(tracks) : one[r] = IF r = s THEN x ELSE 0
    BY <1>1
  <2>3. \A r \in 1 .. Len(tracks) : Sizes(tracks)[r] \in Nat
    <3> DEFINE b == Sizes(tracks)
    <3>1. b \in Seq(Nat) /\ Len(b) = Len(tracks)
      BY <1>7
    <3> HIDE DEF b
    <3>2. \A r \in 1 .. Len(tracks) : b[r] \in Nat
      BY <3>1
    <3> QED
      BY <3>2 DEF b
  <2> HIDE DEF one, x
  <2> SUFFICES ASSUME NEW r \in 1 .. Len(tracks)
               PROVE  Sizes(t)[r] = Sizes(tracks)[r] + one[r]
    OBVIOUS
  <2>4. CASE r = s
    BY <1>7, <2>1, <2>2, <2>4
  <2>5. CASE r # s
    <3>1. Sizes(t)[r] = Sizes(tracks)[r] /\ one[r] = 0
      BY <1>1, <1>7, <2>2, <2>5
    <3> QED
      BY <2>3, <3>1
  <2> QED
    BY <2>4, <2>5
<1> HIDE DEF one, x
<1>9. Total(Sizes(t)) = Total(Sizes(tracks)) + Total(one)
  <2> DEFINE a == Sizes(t)
             b == Sizes(tracks)
  <2>1. /\ a \in Seq(Nat) /\ b \in Seq(Nat) /\ one \in Seq(Nat) /\ Len(b) = Len(a)
        /\ Len(one) = Len(a) /\ \A r \in 1 .. Len(a) : a[r] = b[r] + one[r]
    BY <1>6, <1>7, <1>8
  <2> HIDE DEF a, b
  <2>2. Total(a) = Total(b) + Total(one)
    BY <2>1, TotalPointwise
  <2> QED
    BY <2>2 DEF a, b
<1> QED
  BY <1>1, <1>4, <1>6, <1>9 DEF x

\* A keyframe of the anchor is the newest cut point.
LEMMA CutsPushed ==
  ASSUME cuts \in Seq(Cut), log \in Seq(Logged), CutsInv(cuts, log),
         NEW s, NEW e, Sound(s, e), ~Undecodable(s, e.key),
         NEW lg, Len(lg) = Len(log) + 1, \A i \in 1 .. Len(log) : lg[i] = log[i],
         Matches(e, s, lg), e.n = Len(lg),
         NEW c, CutsWith(c, s, e)
  PROVE  /\ c \in Seq(Cut) /\ CutsInv(c, lg)
         /\ cuts # <<>> => c # <<>> /\ c[1] = cuts[1]
<1>1. /\ Len(log) \in Nat /\ Len(lg) \in 1 .. Len(lg) /\ e \in Entry
      /\ e.dts \in Nat /\ e.pts \in Nat
  BY DEF Sound, Entry
<1>2. /\ \A n \in Keys(log) : n \in Keys(lg) /\ lg[n] = log[n] /\ n \in 1 .. Len(log)
      /\ \A n \in Keys(lg) : n \in Keys(log) \/ n = Len(lg)
  BY <1>1, KeysPushed
<1>3. lg[Len(lg)].stream = s /\ lg[Len(lg)].dts = e.dts /\ lg[Len(lg)].pts = e.pts
      /\ lg[Len(lg)].key = e.key
  BY DEF Matches
<1>4. CASE ~(s = Anchor /\ e.key)
  <2>1. c = cuts
    BY <1>4 DEF CutsWith
  <2>2. Len(lg) \notin Keys(lg)
    BY <1>3, <1>4 DEF Keys
  <2>3. cuts = <<>> => \A n \in 1 .. Len(lg) : lg[n].stream # Anchor
    <3> SUFFICES ASSUME cuts = <<>>, NEW n \in 1 .. Len(lg) PROVE lg[n].stream # Anchor
      OBVIOUS
    <3>1. s # Anchor
      BY <1>4 DEF Undecodable
    <3>2. n = Len(lg) \/ n \in 1 .. Len(log)
      BY <1>1
    <3> QED
      BY <1>3, <3>1, <3>2 DEF CutsInv
  <2>4. \A i \in 1 .. Len(cuts) : \E n \in Keys(lg) : lg[n].dts = cuts[i].dts /\ lg[n].pts = cuts[i].pts
    <3> SUFFICES ASSUME NEW i \in 1 .. Len(cuts)
                 PROVE  \E n \in Keys(lg) : lg[n].dts = cuts[i].dts /\ lg[n].pts = cuts[i].pts
      OBVIOUS
    <3>1. PICK n \in Keys(log) : log[n].dts = cuts[i].dts /\ log[n].pts = cuts[i].pts
      BY DEF CutsInv
    <3> QED
      BY <1>2, <3>1
  <2>5. \A k \in Keys(lg) :
          cuts # <<>> => \/ lg[k].pts < cuts[1].pts
                         \/ \E i \in 1 .. Len(cuts) : cuts[i].dts = lg[k].dts /\ cuts[i].pts = lg[k].pts
    <3> SUFFICES ASSUME NEW k \in Keys(lg), cuts # <<>>
                 PROVE  \/ lg[k].pts < cuts[1].pts
                        \/ \E i \in 1 .. Len(cuts) : cuts[i].dts = lg[k].dts /\ cuts[i].pts = lg[k].pts
      OBVIOUS
    <3>1. k \in Keys(log) /\ lg[k] = log[k]
      BY <1>2, <2>2
    <3>2. \/ log[k].pts < cuts[1].pts
          \/ \E i \in 1 .. Len(cuts) : cuts[i].dts = log[k].dts /\ cuts[i].pts = log[k].pts
      BY <3>1 DEF CutsInv
    <3> QED
      BY <3>1, <3>2, Zenon
  <2> QED
    BY <2>1, <2>3, <2>4, <2>5 DEF CutsInv
<1>5. CASE s = Anchor /\ e.key
  <2> DEFINE x == [dts |-> e.dts, pts |-> e.pts]
             m == Len(cuts)
  <2>1. x \in Cut /\ x.dts = e.dts /\ x.pts = e.pts
    BY <1>1 DEF Cut
  <2>2. c = Append(cuts, x)
    BY <1>5, <2>1 DEF CutsWith
  <2> HIDE DEF x
  <2>3. /\ c \in Seq(Cut) /\ Len(c) = m + 1 /\ m \in Nat /\ c[m + 1] = x
        /\ (\A i \in 1 .. m : c[i] = cuts[i]) /\ c # <<>> /\ (cuts # <<>> => m >= 1)
    BY <2>1, <2>2
  <2> HIDE DEF m
  <2>4. Len(lg) \in Keys(lg)
    BY <1>1, <1>3, <1>5 DEF Keys
  <2>5. \A i \in 1 .. Len(c) : i = m + 1 \/ i \in 1 .. m
    BY <2>3
  <2>6. ASSUME NEW i \in 1 .. m
        PROVE  /\ \E n \in Keys(lg) : lg[n].dts = c[i].dts /\ lg[n].pts = c[i].pts
               /\ c[i].pts < x.pts /\ c[i].dts <= x.dts
    <3>1. PICK n \in Keys(log) : log[n].dts = cuts[i].dts /\ log[n].pts = cuts[i].pts
      BY DEF CutsInv, m
    <3>2. n \in 1 .. Len(log) /\ log[n].stream = Anchor
      BY <1>2, <3>1 DEF Keys
    <3>3. log[n].pts < e.pts /\ log[n].dts <= e.dts
      BY <1>5, <3>2 DEF Sound
    <3> QED
      BY <1>2, <2>1, <2>3, <3>1, <3>3
  <2>7. ASSUME NEW i \in 1 .. Len(c)
        PROVE  \E n \in Keys(lg) : lg[n].dts = c[i].dts /\ lg[n].pts = c[i].pts
    BY <1>3, <2>1, <2>3, <2>4, <2>5, <2>6
  <2>8. ASSUME NEW i \in 1 .. Len(c), NEW j \in 1 .. Len(c), i < j
        PROVE  c[i].pts < c[j].pts /\ c[i].dts <= c[j].dts
    <3>1. i \in 1 .. m
      BY <2>3, <2>8
    <3>2. CASE j = m + 1
      BY <2>3, <2>6, <3>1, <3>2
    <3>3. CASE j \in 1 .. m
      BY <2>3, <2>8, <3>1, <3>3 DEF CutsInv, m
    <3> QED
      BY <2>5, <3>2, <3>3
  <2>9. ASSUME NEW k \in Keys(lg)
        PROVE  \/ lg[k].pts < c[1].pts
               \/ \E i \in 1 .. Len(c) : c[i].dts = lg[k].dts /\ c[i].pts = lg[k].pts
    <3>1. CASE k = Len(lg)
      <4>1. m + 1 \in 1 .. Len(c) /\ c[m + 1].dts = lg[k].dts /\ c[m + 1].pts = lg[k].pts
        BY <1>3, <2>1, <2>3, <3>1
      <4> QED
        BY <4>1
    <3>2. CASE k \in Keys(log)
      <4>1. cuts # <<>>
        BY <1>2, <3>2 DEF CutsInv, Keys
      <4>2. c[1] = cuts[1] /\ \A i \in 1 .. Len(cuts) : i \in 1 .. Len(c) /\ c[i] = cuts[i]
        BY <2>3, <4>1 DEF m
      <4>3. lg[k] = log[k]
        BY <1>2, <3>2
      <4>4. \/ log[k].pts < cuts[1].pts
            \/ \E i \in 1 .. Len(cuts) : cuts[i].dts = log[k].dts /\ cuts[i].pts = log[k].pts
        BY <3>2, <4>1 DEF CutsInv
      <4>5. CASE log[k].pts < cuts[1].pts
        BY <4>2, <4>3, <4>5
      <4>6. CASE \E i \in 1 .. Len(cuts) : cuts[i].dts = log[k].dts /\ cuts[i].pts = log[k].pts
        <5>1. PICK i \in 1 .. Len(cuts) : cuts[i].dts = log[k].dts /\ cuts[i].pts = log[k].pts
          BY <4>6
        <5>2. i \in 1 .. Len(c) /\ c[i] = cuts[i]
          BY <4>2
        <5> QED
          BY <4>3, <5>1, <5>2
      <4> QED
        BY <4>4, <4>5, <4>6
    <3> QED
      BY <1>2, <3>1, <3>2
  <2>10. cuts # <<>> => c[1] = cuts[1]
    BY <2>3
  <2> QED
    BY <2>3, <2>7, <2>8, <2>9, <2>10 DEF CutsInv
<1> QED
  BY <1>4, <1>5

\* Nothing more is missing after a push.
LEMMA EvictedPushed ==
  ASSUME tracks \in Seq(Seq(Entry)), log \in Seq(Logged), LogInv(log, Len(tracks)),
         EvictedInv(tracks, cuts, log), NEW s \in 1 .. Len(tracks), NEW e,
         NEW lg, Len(lg) = Len(log) + 1, \A i \in 1 .. Len(log) : lg[i] = log[i],
         Matches(e, s, lg), e.n = Len(lg), e \in Entry,
         NEW t, TracksWith(t, s, e),
         NEW c, cuts # <<>> => c # <<>> /\ c[1] = cuts[1]
  PROVE  EvictedInv(t, c, lg)
<1> DEFINE q == tracks[s]
<1>1. /\ t[s] = Append(q, e) /\ q \in Seq(Entry) /\ Len(q) \in Nat
      /\ \A r \in 1 .. Len(tracks) : r # s => t[r] = tracks[r]
  BY DEF TracksWith
<1>2. /\ DOMAIN t[s] = 1 .. Len(q) + 1 /\ DOMAIN q = 1 .. Len(q)
      /\ t[s][Len(q) + 1] = e /\ \A i \in 1 .. Len(q) : t[s][i] = q[i]
  BY <1>1
<1>3. \A r \in 1 .. Len(tracks) : \A i \in DOMAIN tracks[r] : i \in DOMAIN t[r] /\ t[r][i] = tracks[r][i]
  <2> SUFFICES ASSUME NEW r \in 1 .. Len(tracks), NEW i \in DOMAIN tracks[r]
               PROVE  i \in DOMAIN t[r] /\ t[r][i] = tracks[r][i]
    OBVIOUS
  <2>1. CASE r = s
    <3>1. i \in 1 .. Len(q) /\ i \in 1 .. Len(q) + 1
      BY <1>1, <1>2, <2>1
    <3> QED
      BY <1>2, <2>1, <3>1
  <2>2. CASE r # s
    BY <1>1, <2>2
  <2> QED
    BY <2>1, <2>2
<1> HIDE DEF q
<1> SUFFICES ASSUME NEW n \in 1 .. Len(lg)
             PROVE  \/ \E i \in DOMAIN t[lg[n].stream] : t[lg[n].stream][i].n = n
                    \/ c # <<>> /\ Gone(lg[n], c[1])
  BY DEF EvictedInv
<1>4. CASE n = Len(lg)
  <2>1. lg[n].stream = s /\ Len(q) + 1 \in DOMAIN t[s] /\ t[s][Len(q) + 1].n = n
    BY <1>1, <1>2, <1>4 DEF Matches
  <2> QED
    BY <2>1
<1>5. CASE n \in 1 .. Len(log)
  <2> DEFINE r == log[n].stream
  <2>1. lg[n] = log[n] /\ r \in 1 .. Len(tracks)
    BY <1>5 DEF LogInv
  <2>2. \/ \E i \in DOMAIN tracks[r] : tracks[r][i].n = n
        \/ cuts # <<>> /\ Gone(log[n], cuts[1])
    BY <1>5 DEF EvictedInv
  <2> HIDE DEF r
  <2>3. \/ \E i \in DOMAIN t[r] : t[r][i].n = n
        \/ cuts # <<>> /\ Gone(log[n], cuts[1])
    BY <1>3, <2>1, <2>2
  <2> QED
    BY <2>1, <2>3 DEF r
<1> QED
  BY SMTT(30), <1>4, <1>5

\* The ring with one packet more, before it evicts.
LEMMA RingPushed ==
  ASSUME RingInv(tracks, cuts, bytes, log), NEW s \in 1 .. Len(tracks),
         NEW e, Sound(s, e), ~Undecodable(s, e.key),
         NEW lg, LogWith(lg, s, e),
         NEW t, TracksWith(t, s, e),
         NEW c, CutsWith(c, s, e)
  PROVE  /\ RingInv(t, c, Counted(s, e), lg) /\ Len(t) = Len(tracks)
         /\ cuts # <<>> => c # <<>> /\ c[1] = cuts[1]
<1>1. /\ tracks \in Seq(Seq(Entry)) /\ Len(tracks) \in Streams /\ Len(tracks) \in Nat
      /\ cuts \in Seq(Cut) /\ log \in Seq(Logged) /\ bytes = Total(Sizes(tracks))
      /\ LogInv(log, Len(tracks)) /\ TracksInv(tracks, log) /\ EvictedInv(tracks, cuts, log)
      /\ CutsInv(cuts, log) /\ e \in Entry
  BY DEF RingInv, Sound
<1>2. s \in Streams
  BY <1>1, OthersAssumption DEF Streams
<1>3. /\ lg \in Seq(Logged) /\ Len(lg) = Len(log) + 1 /\ LogInv(lg, Len(tracks))
      /\ \A i \in 1 .. Len(log) : lg[i] = log[i]
      /\ Matches(e, s, lg) /\ e.n = Len(lg)
  BY <1>1, <1>2, LogPushed
<1>4. /\ t \in Seq(Seq(Entry)) /\ Len(t) = Len(tracks) /\ TracksInv(t, lg)
      /\ Total(Sizes(t)) = Total(Sizes(tracks)) + e.size
  BY <1>1, <1>3, TracksPushed
<1>5. c \in Seq(Cut) /\ CutsInv(c, lg) /\ (cuts # <<>> => c # <<>> /\ c[1] = cuts[1])
  BY <1>1, <1>3, CutsPushed
<1>6. EvictedInv(t, c, lg)
  BY <1>1, <1>3, <1>5, EvictedPushed
<1> QED
  BY <1>1, <1>3, <1>4, <1>5, <1>6 DEF RingInv, Counted

-----------------------------------------------------------------------------
(* The eviction loop ends, and where.                                        *)

\* It stops at the first GOP it need not drop, at the latest at the last one.
LEMMA EvictionStops ==
  ASSUME NEW t, NEW c, NEW b, NEW lg, RingInv(t, c, b, lg), NEW now,
         NEW ring, ring = RingOf(t, c, b)
  PROVE  \E d \in 0 .. Len(c) :
           /\ Evicted(ring, now) = After(ring, d) /\ ~MustDrop(After(ring, d), now)
           /\ c # <<>> => d <= Len(c) - 1
           /\ d > 0 => MustDrop(After(ring, d - 1), now)
<1> DEFINE F == {k \in 0 .. Len(c) : ~MustDrop(After(ring, k), now)}
           Stop(k) == /\ ~MustDrop(After(ring, k), now)
                      /\ \A j \in 0 .. k - 1 : MustDrop(After(ring, j), now)
<1>1. c \in Seq(Cut) /\ Len(c) \in Nat /\ ring.cuts = c /\ (c # <<>> => Len(c) >= 1)
  BY DEF RingInv, RingOf
<1>2. c # <<>> => Len(c) - 1 \in F
  <2> SUFFICES ASSUME c # <<>> PROVE Len(c) - 1 \in F
    OBVIOUS
  <2> DEFINE k == Len(c) - 1
  <2>1. k \in 0 .. Len(c) - 1 /\ k \in 0 .. Len(c) /\ Len(c) - k = 1
    BY <1>1
  <2>2. Len(After(ring, k).cuts) = Len(c) - k
    <3> HIDE DEF k
    <3> DEFINE r == After(ring, k)
    <3>1. LeftBy(r, t, c, b, k)
      BY DEF LeftBy
    <3> HIDE DEF r
    <3>2. Len(r.cuts) = Len(c) - k
      BY <2>1, <3>1, AfterKeeps
    <3> QED
      BY <3>2 DEF r
  <2> HIDE DEF k
  <2>3. ~(Len(After(ring, k).cuts) > 1)
    BY <2>1, <2>2
  <2>4. ~MustDrop(After(ring, k), now)
    BY <2>3, Zenon DEF MustDrop
  <2>5. k \in F
    BY <2>1, <2>4
  <2> QED
    BY <2>5 DEF k
<1>3. c = <<>> => 0 \in F
  <2> SUFFICES ASSUME c = <<>> PROVE 0 \in F
    OBVIOUS
  <2>1. After(ring, 0) = ring /\ Len(ring.cuts) = 0
    BY <1>1 DEF After
  <2> QED
    BY <1>1, <2>1 DEF MustDrop
<1>4. F # {} /\ F \subseteq Nat /\ F \subseteq 0 .. Len(c)
  BY <1>1, <1>2, <1>3
<1>5. \A k \in 0 .. Len(c) : k \in F <=> ~MustDrop(After(ring, k), now)
  OBVIOUS
<1> HIDE DEF F
<1>6. PICK x \in F : \A y \in F : x <= y
  BY <1>4, LeastMember
<1>7. x \in 0 .. Len(c) /\ Stop(x)
  <2>1. x \in 0 .. Len(c) /\ x \in Nat
    BY <1>4, <1>6
  <2>2. ASSUME NEW j \in 0 .. x - 1 PROVE MustDrop(After(ring, j), now)
    <3>1. j \in 0 .. Len(c) /\ ~(x <= j)
      BY <1>1, <2>1
    <3> QED
      BY <1>5, <1>6, <3>1
  <2> QED
    BY <1>5, <1>6, <2>1, <2>2
<1> DEFINE d == CHOOSE k \in 0 .. Len(ring.cuts) : Stop(k)
<1>8. d \in 0 .. Len(c) /\ Stop(d)
  <2> HIDE DEF Stop
  <2> QED
    BY <1>1, <1>7
<1>9. Evicted(ring, now) = After(ring, d)
  BY DEF Evicted
<1> HIDE DEF d
<1>10. c # <<>> => d <= Len(c) - 1
  <2> SUFFICES ASSUME c # <<>>, d > Len(c) - 1 PROVE FALSE
    BY <1>1, <1>8
  <2>1. Len(c) - 1 \in 0 .. d - 1 /\ Len(c) - 1 \in 0 .. Len(c)
    BY <1>1, <1>8
  <2> QED
    BY <1>2, <1>5, <1>8, <2>1
<1>11. d > 0 => MustDrop(After(ring, d - 1), now)
  <2> SUFFICES ASSUME d > 0 PROVE d - 1 \in 0 .. d - 1
    BY <1>8
  <2> QED
    BY <1>1, <1>8
<1> QED
  BY <1>8, <1>9, <1>10, <1>11

\* What eviction leaves satisfies the ring's invariant.
LEMMA EvictedKeeps ==
  ASSUME NEW t, NEW c, NEW b, NEW lg, RingInv(t, c, b, lg), NEW d \in 0 .. Len(c),
         c # <<>> => d <= Len(c) - 1,
         NEW r, LeftBy(r, t, c, b, d)
  PROVE  /\ RingInv(r.tracks, r.cuts, r.bytes, lg) /\ Len(r.tracks) = Len(t)
         /\ c # <<>> => r.cuts # <<>> /\ r.cuts[1] = c[d + 1]
         /\ c = <<>> => r.cuts = <<>>
<1>1. c \in Seq(Cut) /\ Len(c) \in Nat
  BY DEF RingInv
<1>2. CASE c = <<>>
  <2>1. d = 0 /\ r = RingOf(t, c, b)
    BY <1>1, <1>2 DEF After, LeftBy
  <2>2. r.tracks = t /\ r.cuts = c /\ r.bytes = b
    BY <2>1 DEF RingOf
  <2> QED
    BY <1>2, <2>2
<1>3. CASE c # <<>>
  <2>1. d \in 0 .. Len(c) - 1
    BY <1>1, <1>3
  <2>2. /\ RingInv(r.tracks, r.cuts, r.bytes, lg) /\ Len(r.tracks) = Len(t) /\ r.cuts # <<>>
        /\ Len(r.cuts) = Len(c) - d /\ \A i \in 1 .. Len(r.cuts) : r.cuts[i] = c[d + i]
    BY <2>1, AfterKeeps
  <2>3. 1 \in 1 .. Len(r.cuts)
    BY <1>1, <2>1, <2>2
  <2> QED
    BY <1>3, <2>2, <2>3
<1> QED
  BY <1>2, <1>3

-----------------------------------------------------------------------------
(* The steps.                                                                *)

\* The oldest keyframe held is old enough, or all keyframes are younger.
Covers(c, now, lg) ==
  \/ ToNanos(c[1].dts, Anchor) <= now - Window
  \/ \A k \in Keys(lg) : ToNanos(lg[k].dts, Anchor) >= ToNanos(c[1].dts, Anchor)

\* A packet more does not make a ring cover less: no keyframe comes before those held.
LEMMA CoversPushed ==
  ASSUME RingInv(tracks, cuts, bytes, log), newest \in Nat \cup {NoTime},
         cuts # <<>> => newest \in Nat /\ Covers(cuts, newest, log),
         NEW s \in 1 .. Len(tracks), NEW e, Sound(s, e),
         NEW lg \in Seq(Logged), LogWith(lg, s, e),
         Len(lg) = Len(log) + 1, \A i \in 1 .. Len(log) : lg[i] = log[i], Matches(e, s, lg),
         e.n = Len(lg),
         NEW c \in Seq(Cut), CutsWith(c, s, e), c # <<>>, cuts # <<>> => c[1] = cuts[1],
         NEW now \in Nat, newest <= now
  PROVE  Covers(c, now, lg)
<1>1. /\ Len(log) \in Nat /\ cuts \in Seq(Cut) /\ log \in Seq(Logged) /\ CutsInv(cuts, log)
      /\ LogInv(log, Len(tracks)) /\ Anchor \in Streams /\ e \in Entry /\ e.dts \in Nat
  BY OthersAssumption DEF RingInv, Sound, Entry, Anchor, Streams
<1>2. /\ \A n \in Keys(log) : n \in Keys(lg) /\ lg[n] = log[n] /\ n \in 1 .. Len(log)
      /\ \A n \in Keys(lg) : n \in Keys(log) \/ n = Len(lg)
  BY <1>1, KeysPushed
<1>3. \A x \in Cut : x.dts \in Nat /\ x.pts \in Nat /\ ToNanos(x.dts, Anchor) \in Nat
  <2>1. \A x \in Cut : x.dts \in Nat /\ x.pts \in Nat
    BY DEF Cut
  <2> QED
    BY <1>1, <2>1, NanosTyped
<1>4. lg[Len(lg)].stream = s /\ lg[Len(lg)].dts = e.dts /\ lg[Len(lg)].key = e.key
  BY DEF Matches
<1>5. CASE cuts = <<>>
  <2>1. s = Anchor /\ e.key /\ c = <<[dts |-> e.dts, pts |-> e.pts]>>
    BY <1>1, <1>5 DEF CutsWith
  <2>2. c[1].dts = e.dts
    BY <2>1
  <2>3. ASSUME NEW k \in Keys(lg) PROVE k = Len(lg)
    BY <1>2, <1>5, <2>3, <1>1 DEF CutsInv, Keys
  <2>4. ToNanos(e.dts, Anchor) \in Nat
    BY <1>1, NanosTyped
  <2> QED
    BY <1>4, <2>2, <2>3, <2>4 DEF Covers
<1>6. CASE cuts # <<>>
  <2>1. /\ c[1] = cuts[1] /\ newest \in Nat /\ Covers(cuts, newest, log) /\ c[1] \in Cut
        /\ 1 \in 1 .. Len(cuts)
    BY <1>6
  <2> DEFINE first == ToNanos(c[1].dts, Anchor)
  <2>2. first \in Nat
    BY <1>3, <2>1
  <2>3. CASE ToNanos(cuts[1].dts, Anchor) <= newest - Window
    <3>1. first <= newest - Window
      BY <2>1, <2>3
    <3> HIDE DEF first
    <3>2. first <= now - Window
      BY <2>1, <2>2, <3>1, BoundAssumption
    <3> QED
      BY <3>2 DEF Covers, first
  <2>4. CASE \A k \in Keys(log) : ToNanos(log[k].dts, Anchor) >= ToNanos(cuts[1].dts, Anchor)
    <3>1. ASSUME NEW k \in Keys(log) PROVE ToNanos(lg[k].dts, Anchor) >= first
      BY <1>2, <2>1, <2>4
    <3>2. ASSUME Len(lg) \in Keys(lg) PROVE ToNanos(lg[Len(lg)].dts, Anchor) >= first
      <4>1. s = Anchor
        BY <1>4, <3>2 DEF Keys
      <4>2. PICK n \in Keys(log) : log[n].dts = cuts[1].dts
        BY <1>1, <2>1 DEF CutsInv
      <4>3. log[n].dts <= e.dts
        BY <1>2, <4>1, <4>2 DEF Sound, Keys
      <4>4. c[1].dts \in Nat /\ c[1].dts <= e.dts
        BY <1>3, <2>1, <4>2, <4>3
      <4>5. first <= ToNanos(e.dts, Anchor) /\ ToNanos(e.dts, Anchor) \in Nat
        BY <1>1, <4>4, NanosMonotone, NanosTyped
      <4> QED
        BY <1>4, <2>2, <4>5
    <3> QED
      BY <1>2, <3>1, <3>2 DEF Covers
  <2> QED
    BY <2>1, <2>3, <2>4 DEF Covers
<1> QED
  BY <1>5, <1>6

\* What the window's invariant says of a ring without a ceiling.
LEMMA WindowSays ==
  ASSUME WindowKept, cuts \in Seq(Cut), cuts # <<>>, ceiling = NoCeiling
  PROVE  Covers(cuts, newest, log)
<1>1. Head(cuts) = cuts[1] /\ Keyframes = Keys(log)
  BY DEF Keyframes, Keys
<1> QED
  BY <1>1 DEF WindowKept, Covers, Time

\* A push, with the eviction it ends in.
LEMMA PushStep ==
  ASSUME IInv, NEW s \in DOMAIN tracks, NEW e \in Emitted(s), Push(s, e)
  PROVE  IInv'
<1> DEFINE t == [tracks EXCEPT ![s] = Append(@, e)]
           c == cuts \o (IF s = Anchor /\ e.key THEN <<[dts |-> e.dts, pts |-> e.pts]>> ELSE <<>>)
           lg == Append(log, [stream |-> s, n |-> e.n, dts |-> e.dts, pts |-> e.pts, key |-> e.key])
           b == Counted(s, e)
           ring == RingOf(t, c, b)
           now == Larger(newest, ToNanos(e.dts, s))
           r == Evicted(ring, now)
<1>1. /\ RingInv(tracks, cuts, bytes, log) /\ newest \in Nat \cup {NoTime}
      /\ (cuts # <<>> => newest \in Nat) /\ ceiling \in Ceilings /\ WindowKept
  BY DEF IInv
<1>2. /\ tracks \in Seq(Seq(Entry)) /\ log \in Seq(Logged) /\ cuts \in Seq(Cut)
      /\ s \in 1 .. Len(tracks) /\ s \in Streams
  <2>1. /\ tracks \in Seq(Seq(Entry)) /\ log \in Seq(Logged) /\ cuts \in Seq(Cut)
        /\ Len(tracks) \in Streams
    BY <1>1 DEF RingInv
  <2>2. s \in 1 .. Len(tracks) /\ Len(tracks) \in Nat
    BY <2>1
  <2> QED
    BY <2>1, <2>2, OthersAssumption DEF Streams
<1>3. Sound(s, e) /\ e \in Entry /\ e.dts \in Nat
  <2>1. Sound(s, e)
    BY <1>2, EmittedSound
  <2> QED
    BY <2>1 DEF Sound, Entry
<1>4. /\ ~Undecodable(s, e.key) /\ UNCHANGED ceiling /\ log' = lg /\ newest' = now
      /\ tracks' = r.tracks /\ cuts' = r.cuts /\ bytes' = r.bytes
  BY DEF Push, RingOf
<1>5. LogWith(lg, s, e) /\ CutsWith(c, s, e)
  BY DEF LogWith, CutsWith
<1>6. now \in Nat /\ newest <= now
  <2>1. ToNanos(e.dts, s) \in Nat
    BY <1>2, <1>3, NanosTyped
  <2> QED
    BY <1>1, <2>1 DEF Larger, NoTime
<1>7. TracksWith(t, s, e) /\ ring = RingOf(t, c, b) /\ b = Counted(s, e) /\ r = Evicted(ring, now)
  BY DEF TracksWith
<1> HIDE DEF t, c, lg, b, ring, now, r
<1>8. /\ RingInv(t, c, b, lg) /\ Len(t) = Len(tracks)
      /\ cuts # <<>> => c # <<>> /\ c[1] = cuts[1]
  BY <1>1, <1>2, <1>3, <1>4, <1>5, <1>7, RingPushed
<1>9. PICK d \in 0 .. Len(c) :
        /\ r = After(ring, d) /\ ~MustDrop(r, now)
        /\ c # <<>> => d <= Len(c) - 1
        /\ d > 0 => MustDrop(After(ring, d - 1), now)
  BY <1>7, <1>8, EvictionStops
<1>10. /\ RingInv(r.tracks, r.cuts, r.bytes, lg) /\ Len(r.tracks) = Len(t)
       /\ c # <<>> => r.cuts # <<>> /\ r.cuts[1] = c[d + 1]
       /\ c = <<>> => r.cuts = <<>>
  <2>1. LeftBy(r, t, c, b, d)
    BY <1>7, <1>9 DEF LeftBy
  <2> QED
    BY <1>8, <1>9, <2>1, EvictedKeeps
<1>11. /\ c \in Seq(Cut) /\ Len(c) \in Nat /\ r.cuts \in Seq(Cut) /\ r.bytes = Total(Sizes(r.tracks))
       /\ Len(r.cuts) \in Nat /\ lg \in Seq(Logged)
  BY <1>8, <1>10 DEF RingInv
<1>12. ASSUME r.cuts # <<>>, ceiling # NoCeiling, Total(Sizes(r.tracks)) > ceiling
       PROVE  Len(r.cuts) = 1
  <2>1. ~(Len(r.cuts) > 1)
    BY <1>9, <1>11, <1>12, Zenon DEF MustDrop, OverBudget
  <2>2. Len(r.cuts) # 0
    BY <1>11, <1>12
  <2> DEFINE n == Len(r.cuts)
  <2>3. n \in Nat /\ ~(n > 1) /\ n # 0
    BY <1>11, <2>1, <2>2
  <2> HIDE DEF n
  <2>4. n = 1
    BY <2>3
  <2> QED
    BY <2>4 DEF n
<1>13. ASSUME r.cuts # <<>>, ceiling = NoCeiling
       PROVE  Covers(r.cuts, now, lg)
  <2>1. c # <<>> /\ r.cuts[1] = c[d + 1] /\ d <= Len(c) - 1
    BY <1>9, <1>10, <1>13
  <2>2. CASE d = 0
    <3>1. /\ Len(lg) = Len(log) + 1 /\ \A i \in 1 .. Len(log) : lg[i] = log[i]
          /\ Matches(e, s, lg) /\ e.n = Len(lg)
      <4>1. Len(tracks) \in Nat /\ LogInv(log, Len(tracks))
        BY <1>1, <1>2 DEF RingInv
      <4> QED
        BY <1>2, <1>3, <1>5, <4>1, LogPushed
    <3>2. cuts # <<>> => newest \in Nat /\ Covers(cuts, newest, log)
      BY <1>1, <1>2, <1>13, WindowSays
    <3>3. Covers(c, now, lg)
      BY <1>1, <1>2, <1>3, <1>5, <1>6, <1>8, <1>11, <2>1, <3>1, <3>2, CoversPushed
    <3>4. r.cuts[1] = c[1]
      BY <2>1, <2>2
    <3> QED
      BY <3>3, <3>4 DEF Covers
  <2>3. CASE d > 0
    <3> DEFINE k == d - 1
               a == After(ring, k)
    <3>1. k \in 0 .. Len(c) - 1 /\ 2 <= Len(c) - k /\ k + 2 = d + 1 /\ MustDrop(a, now)
      BY <1>9, <1>11, <2>1, <2>3
    <3>2. ring = RingOf(t, c, b)
      BY <1>7
    <3> HIDE DEF k
    <3>9. LeftBy(a, t, c, b, k)
      BY <3>2 DEF LeftBy
    <3> HIDE DEF a
    <3>3. Len(a.cuts) = Len(c) - k /\ \A i \in 1 .. Len(a.cuts) : a.cuts[i] = c[k + i]
      BY <1>8, <3>1, <3>9, AfterKeeps
    <3>4. a.cuts[2] = r.cuts[1]
      <4>1. 2 \in 1 .. Len(a.cuts)
        BY <1>11, <3>1, <3>3
      <4> QED
        BY <2>1, <3>1, <3>3, <4>1
    <3>5. OutOfWindow(a, now)
      BY <1>13, <3>1 DEF MustDrop, OverBudget
    <3> DEFINE f == ToNanos(r.cuts[1].dts, Anchor)
    <3>6. f \in Nat
      <4>1. r.cuts[1] \in Cut
        BY <1>11, <1>13
      <4>2. r.cuts[1].dts \in Nat /\ Anchor \in Streams
        BY <4>1, OthersAssumption DEF Cut, Anchor, Streams
      <4> QED
        BY <4>2, NanosTyped
    <3>7. now - f >= Window
      BY <3>4, <3>5 DEF OutOfWindow
    <3> HIDE DEF f
    <3>8. f <= now - Window
      BY <1>6, <3>6, <3>7, BoundAssumption
    <3> QED
      BY <3>8 DEF Covers, f
  <2> QED
    BY <2>2, <2>3
<1>14. WindowKept'
  <2>1. /\ cuts' = r.cuts /\ newest' = now /\ log' = lg /\ ceiling' = ceiling
        /\ BytesHeld' = Total(Sizes(r.tracks)) /\ Keyframes' = Keys(lg)
    BY <1>4 DEF BytesHeld, Sizes, Keyframes, Keys
  <2>2. r.cuts # <<>> => Head(r.cuts) = r.cuts[1]
    BY <1>11
  <2> QED
    BY <1>12, <1>13, <2>1, <2>2 DEF WindowKept, Covers, Time
<1>15. RingInv(tracks, cuts, bytes, log)'
  BY <1>4, <1>10
<1> QED
  BY <1>1, <1>4, <1>6, <1>14, <1>15 DEF IInv

\* An empty queue more.
LEMMA AddStreamStep ==
  ASSUME IInv, AddStream
  PROVE  IInv'
<1> DEFINE t == Append(tracks, <<>>)
           m == Len(tracks)
<1>1. /\ RingInv(tracks, cuts, bytes, log) /\ newest \in Nat \cup {NoTime}
      /\ (cuts # <<>> => newest \in Nat) /\ ceiling \in Ceilings /\ WindowKept
  BY DEF IInv
<1>2. /\ tracks \in Seq(Seq(Entry)) /\ m \in Streams /\ cuts \in Seq(Cut) /\ log \in Seq(Logged)
      /\ bytes = Total(Sizes(tracks)) /\ LogInv(log, m) /\ TracksInv(tracks, log)
      /\ EvictedInv(tracks, cuts, log) /\ CutsInv(cuts, log)
  BY <1>1 DEF RingInv
<1>3. tracks' = t /\ m <= Others /\ UNCHANGED <<cuts, bytes, newest, ceiling, log>>
  BY DEF AddStream
<1>4. /\ t \in Seq(Seq(Entry)) /\ Len(t) = m + 1 /\ m \in Nat /\ Len(t) \in Streams
      /\ t[m + 1] = <<>> /\ \A s \in 1 .. m : t[s] = tracks[s]
  <2>1. <<>> \in Seq(Entry)
    OBVIOUS
  <2> QED
    BY <1>2, <1>3, <2>1, OthersAssumption DEF Streams
<1> HIDE DEF t
<1>5. Total(Sizes(t)) = Total(Sizes(tracks))
  <2> DEFINE a == Sizes(t)
             o == Sizes(tracks)
  <2>1. /\ a \in Seq(Nat) /\ Len(a) = m + 1 /\ o \in Seq(Nat) /\ Len(o) = m
        /\ \A s \in 1 .. m + 1 : a[s] = SizeOf(t[s])
        /\ \A s \in 1 .. m : o[s] = SizeOf(tracks[s])
    BY <1>2, <1>4, SizesTyped
  <2>2. SizeOf(<<>>) = 0
    BY SizeEmpty
  <2>3. a[m + 1] = 0 /\ \A s \in 1 .. m : a[s] = o[s]
    BY <1>4, <2>1, <2>2
  <2> HIDE DEF a, o
  <2>4. a = Append(o, 0)
    <3>1. /\ Append(o, 0) \in Seq(Nat) /\ Len(Append(o, 0)) = m + 1
          /\ Append(o, 0)[m + 1] = 0 /\ \A s \in 1 .. m : Append(o, 0)[s] = o[s]
      BY SMTT(30), <1>4, <2>1
    <3> DEFINE u == Append(o, 0)
    <3>2. \A s \in 1 .. m + 1 : s = m + 1 \/ s \in 1 .. m
      BY <1>4
    <3>3. \A s \in 1 .. m + 1 : a[s] = u[s]
      BY <2>3, <3>1, <3>2
    <3>4. u \in Seq(Nat) /\ Len(u) = m + 1
      BY <3>1
    <3> HIDE DEF u
    <3>5. a = u
      BY <2>1, <3>3, <3>4, SeqEqual
    <3> QED
      BY <3>5 DEF u
  <2>5. Total(a) = Total(o) + 0 /\ Total(o) \in Nat
    BY <2>1, <2>4, TotalAppend, TotalType
  <2> QED
    BY <2>5 DEF a, o
<1>6. LogInv(log, m + 1)
  <2>1. 1 .. m \subseteq 1 .. m + 1
    BY <1>4
  <2> HIDE DEF m
  <2> QED
    BY <1>2, <2>1 DEF LogInv
<1>7. TracksInv(t, log)
  <2> SUFFICES ASSUME NEW s \in DOMAIN t
               PROVE  /\ \A i \in DOMAIN t[s] : Matches(t[s][i], s, log)
                      /\ \A i, j \in DOMAIN t[s] : i < j => t[s][i].n < t[s][j].n
    BY DEF TracksInv
  <2>1. CASE s = m + 1
    <3>1. t[s] = <<>>
      BY <1>4, <2>1
    <3> QED
      BY <3>1
  <2>2. CASE s # m + 1
    <3>1. DOMAIN t = 1 .. m + 1 /\ DOMAIN tracks = 1 .. m
      BY <1>2, <1>4
    <3>2. s \in DOMAIN tracks /\ t[s] = tracks[s]
      BY <1>4, <2>2, <3>1
    <3> QED
      BY <1>2, <3>2 DEF TracksInv
  <2> QED
    BY <2>1, <2>2
<1>8. EvictedInv(t, cuts, log)
  <2> SUFFICES ASSUME NEW n \in 1 .. Len(log)
               PROVE  \/ \E i \in DOMAIN t[log[n].stream] : t[log[n].stream][i].n = n
                      \/ cuts # <<>> /\ Gone(log[n], cuts[1])
    BY DEF EvictedInv
  <2>1. log[n].stream \in 1 .. m /\ t[log[n].stream] = tracks[log[n].stream]
    BY <1>2, <1>4 DEF LogInv
  <2> QED
    BY <1>2, <2>1 DEF EvictedInv
<1>9. RingInv(t, cuts, bytes, log)
  BY <1>2, <1>4, <1>5, <1>6, <1>7, <1>8 DEF RingInv
<1>10. RingInv(tracks, cuts, bytes, log)'
  BY <1>3, <1>9
<1>11. WindowKept'
  <2>1. /\ UNCHANGED <<cuts, newest, log, ceiling>> /\ BytesHeld = Total(Sizes(tracks))
        /\ BytesHeld' = Total(Sizes(t)) /\ Keyframes' = Keyframes
    BY <1>3 DEF BytesHeld, Sizes, Keyframes
  <2>2. BytesHeld' = BytesHeld /\ \A k : Time(k)' = Time(k)
    BY <1>5, <2>1 DEF Time
  <2> QED
    BY <1>1, <2>1, <2>2 DEF WindowKept, Time
<1> QED
  BY <1>1, <1>3, <1>10, <1>11 DEF IInv

\* The empty ring.
LEMMA InitRing ==
  ASSUME Init
  PROVE  IInv
<1> DEFINE t == << <<>> >>
<1>1. tracks = t /\ cuts = <<>> /\ bytes = 0 /\ newest = NoTime /\ ceiling \in Ceilings /\ log = <<>>
  BY DEF Init
<1>2. t \in Seq(Seq(Entry)) /\ Len(t) = 1 /\ t[1] = <<>> /\ DOMAIN t = 1 .. 1
  OBVIOUS
<1> HIDE DEF t
<1>3. 1 \in Streams
  BY OthersAssumption DEF Streams
<1>4. Total(Sizes(t)) = 0
  <2> DEFINE q == Sizes(t)
  <2>1. q \in Seq(Nat) /\ Len(q) = 1 /\ q[1] = SizeOf(<<>>)
    BY <1>2, SizesTyped
  <2>2. SizeOf(<<>>) = 0
    BY SizeEmpty
  <2> HIDE DEF q
  <2>3. 1 \in 1 .. Len(q) /\ \A i \in 1 .. Len(q) : i # 1 => q[i] = 0
    BY <2>1
  <2>4. Total(q) = q[1]
    BY <2>1, <2>3, TotalAt
  <2> QED
    BY <2>1, <2>2, <2>4 DEF q
<1>5. cuts \in Seq(Cut) /\ log \in Seq(Logged) /\ Len(log) = 0 /\ Len(cuts) = 0 /\ Keys(log) = {}
  BY <1>1 DEF Keys
<1>6. LogInv(log, Len(tracks)) /\ EvictedInv(tracks, cuts, log) /\ CutsInv(cuts, log)
  BY <1>1, <1>5 DEF LogInv, EvictedInv, CutsInv
<1>7. TracksInv(tracks, log)
  <2>1. \A s \in DOMAIN tracks : DOMAIN tracks[s] = {}
    BY <1>1, <1>2
  <2> QED
    BY <2>1 DEF TracksInv
<1>8. RingInv(tracks, cuts, bytes, log)
  BY <1>1, <1>2, <1>3, <1>4, <1>5, <1>6, <1>7 DEF RingInv
<1>9. WindowKept
  BY <1>1 DEF WindowKept
<1> QED
  BY <1>1, <1>8, <1>9 DEF IInv

\* Every reachable ring satisfies the invariant: what it holds is what it was given, in order
\* and counted, and what it has dropped no clip can need.
THEOREM Invariance == Spec => []IInv
<1>1. Init => IInv
  BY InitRing
<1>2. ASSUME IInv, [Next]_vars PROVE IInv'
  <2>1. CASE AddStream
    BY <1>2, <2>1, AddStreamStep
  <2>2. CASE \E s \in DOMAIN tracks : \E e \in Emitted(s) : Len(log) < MaxPackets /\ Push(s, e)
    BY <1>2, <2>2, PushStep
  <2>3. CASE UNCHANGED vars
    <3>1. /\ tracks' = tracks /\ cuts' = cuts /\ bytes' = bytes /\ newest' = newest
          /\ ceiling' = ceiling /\ log' = log
      BY <2>3 DEF vars
    <3> QED
      BY <1>2, <3>1 DEF IInv, WindowKept, BytesHeld, Keyframes, Time
  <2> QED
    BY <1>2, <2>1, <2>2, <2>3 DEF Next
<1> QED
  BY <1>1, <1>2, PTL DEF Spec

\* The ring's fields have their types (ReplayRing and its tracks).
THEOREM TypeCorrect == Spec => []TypeOK
<1>1. IInv => TypeOK
  <2> SUFFICES ASSUME IInv PROVE TypeOK
    OBVIOUS
  <2>1. /\ tracks \in Seq(Seq(Entry)) /\ Len(tracks) \in Streams /\ cuts \in Seq(Cut)
        /\ bytes = Total(Sizes(tracks)) /\ newest \in Nat \cup {NoTime} /\ ceiling \in Ceilings
    BY DEF IInv, RingInv
  <2>2. bytes \in Nat
    BY <2>1, SizesTyped, TotalType
  <2> QED
    BY <2>1, <2>2 DEF TypeOK, Cut
<1> QED
  BY <1>1, Invariance, PTL

\* evict drops neither too much nor too little: the window it keeps is covered or the stream
\* is too young, and over a byte ceiling only the newest GOP is held.
THEOREM WindowCovered == Spec => []WindowKept
<1>1. IInv => WindowKept
  BY DEF IInv
<1> QED
  BY <1>1, Invariance, PTL

-----------------------------------------------------------------------------
(* Clips.                                                                    *)

\* The latest cut point old enough is the last of those old enough, and the oldest held
\* stands in when none is.
LEMMA CutForIs ==
  ASSUME cuts \in Seq(Cut), CutsInv(cuts, log), cuts # <<>>, NEW limit \in Int,
         NEW span, newest - span = limit
  PROVE  \E m \in 1 .. Len(cuts) :
           /\ CutFor(span) = cuts[m]
           /\ \/ m = 1 /\ \A i \in 1 .. Len(cuts) : ~(ToNanos(cuts[i].dts, Anchor) <= limit)
              \/ \A i \in 1 .. Len(cuts) : ToNanos(cuts[i].dts, Anchor) <= limit <=> i <= m
<1> DEFINE early == {i \in 1 .. Len(cuts) : ToNanos(cuts[i].dts, Anchor) <= limit}
<1>1. Len(cuts) \in Nat /\ Len(cuts) >= 1
  <2>1. Len(cuts) \in Nat /\ Len(cuts) # 0
    OBVIOUS
  <2> QED
    BY <2>1
<1>2. CutFor(span) = cuts[Larger(Cardinality(early), 1)]
  BY DEF CutFor
<1>3. \A i \in 1 .. Len(cuts) : cuts[i].dts \in Nat /\ ToNanos(cuts[i].dts, Anchor) \in Nat
  <2>1. \A x \in Cut : x.dts \in Nat
    BY DEF Cut
  <2>2. \A i \in 1 .. Len(cuts) : cuts[i].dts \in Nat
    BY <2>1
  <2>3. Anchor \in Streams
    BY OthersAssumption DEF Anchor, Streams
  <2> QED
    BY <2>2, <2>3, NanosTyped
<1>4. \A i, j \in 1 .. Len(cuts) : i < j => ToNanos(cuts[i].dts, Anchor) <= ToNanos(cuts[j].dts, Anchor)
  <2> SUFFICES ASSUME NEW i \in 1 .. Len(cuts), NEW j \in 1 .. Len(cuts), i < j
               PROVE  ToNanos(cuts[i].dts, Anchor) <= ToNanos(cuts[j].dts, Anchor)
    OBVIOUS
  <2>1. cuts[i].dts <= cuts[j].dts /\ Anchor \in Streams
    BY OthersAssumption DEF CutsInv, Anchor, Streams
  <2> QED
    BY <1>3, <2>1, NanosMonotone
<1>5. \A i \in 1 .. Len(cuts) : i \in early <=> ToNanos(cuts[i].dts, Anchor) <= limit
  OBVIOUS
<1>6. early \in SUBSET (1 .. Len(cuts))
  OBVIOUS
<1> HIDE DEF early
<1>7. CASE early = {}
  <2>1. Larger(Cardinality(early), 1) = 1
    BY <1>7, FS_EmptySet DEF Larger
  <2> QED
    BY <1>1, <1>2, <1>5, <1>7, <2>1
<1>8. CASE early # {}
  <2> DEFINE m == Max(early)
  <2>1. m \in early /\ \A i \in early : i <= m
    <3>1. early \in SUBSET Nat /\ \A i \in early : i <= Len(cuts)
      BY <1>6
    <3> QED
      BY <1>1, <1>8, <3>1, MaxOfBounded
  <2> HIDE DEF m
  <2>2. m \in 1 .. Len(cuts)
    BY <1>6, <2>1
  <2>3. \A i \in 1 .. Len(cuts) : i \in early <=> i <= m
    <3> SUFFICES ASSUME NEW i \in 1 .. Len(cuts), i < m PROVE i \in early
      BY <2>1, <2>2
    <3>1. ToNanos(cuts[i].dts, Anchor) <= ToNanos(cuts[m].dts, Anchor)
      BY <1>4, <2>2
    <3>2. ToNanos(cuts[m].dts, Anchor) <= limit
      BY <1>5, <2>1, <2>2
    <3>3. ToNanos(cuts[i].dts, Anchor) \in Nat /\ ToNanos(cuts[m].dts, Anchor) \in Nat
      BY <1>3, <2>2
    <3> DEFINE a == ToNanos(cuts[i].dts, Anchor)
               b == ToNanos(cuts[m].dts, Anchor)
    <3> HIDE DEF a, b
    <3>4. a <= limit
      BY <3>1, <3>2, <3>3 DEF a, b
    <3> QED
      BY <1>5, <3>4 DEF a
  <2>4. early = 1 .. m
    <3>1. 1 .. m \subseteq 1 .. Len(cuts)
      BY <1>1, <2>2
    <3>2. \A i \in 1 .. m : i \in early
      BY <2>2, <2>3, <3>1
    <3>3. \A i \in early : i \in 1 .. m
      BY <1>6, <2>2, <2>3
    <3> QED
      BY <3>2, <3>3
  <2>5. Cardinality(early) = m
    BY <2>2, <2>4, FS_Interval
  <2>6. Larger(Cardinality(early), 1) = m
    BY <2>2, <2>5 DEF Larger
  <2> QED
    BY <1>2, <1>5, <2>2, <2>3, <2>6
<1> QED
  BY <1>7, <1>8

\* The latest of a set of numbers, and the earliest.
LEMMA ExtremesUnique ==
  ASSUME NEW K \in SUBSET Nat, NEW n \in K
  PROVE  /\ (\A j \in K : j <= n) => Latest(K) = n
         /\ (\A j \in K : n <= j) => (CHOOSE k \in K : \A j \in K : k <= j) = n
<1>1. ASSUME \A j \in K : j <= n PROVE Latest(K) = n
  <2>1. ASSUME NEW k \in K, \A j \in K : j <= k PROVE k = n
    <3>1. n <= k /\ k <= n /\ k \in Nat /\ n \in Nat
      BY <1>1, <2>1
    <3> QED
      BY <3>1
  <2> QED
    BY <1>1, <2>1 DEF Latest
<1>2. ASSUME \A j \in K : n <= j PROVE (CHOOSE k \in K : \A j \in K : k <= j) = n
  <2>1. ASSUME NEW k \in K, \A j \in K : k <= j PROVE k = n
    <3>1. n <= k /\ k <= n /\ k \in Nat /\ n \in Nat
      BY <1>2, <2>1
    <3> QED
      BY <3>1
  <2> QED
    BY <1>2, <2>1
<1> QED
  BY <1>1, <1>2

\* A keyframe that cuts[i] stands for.
StandsFor(i, n) == n \in Keys(log) /\ log[n].dts = cuts[i].dts /\ log[n].pts = cuts[i].pts

\* The cut a clip starts from is of the keyframe it should start from.
LEMMA StartForIs ==
  ASSUME cuts \in Seq(Cut), log \in Seq(Logged), CutsInv(cuts, log), NEW top \in Nat, LogInv(log, top),
         cuts # <<>>, NEW limit \in Int, NEW span, newest - span = limit,
         NEW m \in 1 .. Len(cuts), NEW n, StandsFor(m, n),
         \/ m = 1 /\ \A i \in 1 .. Len(cuts) : ~(ToNanos(cuts[i].dts, Anchor) <= limit)
         \/ \A i \in 1 .. Len(cuts) : ToNanos(cuts[i].dts, Anchor) <= limit <=> i <= m
  PROVE  StartFor(span) = n
<1> DEFINE held == {k \in Keyframes : log[k].pts >= Head(cuts).pts}
           early == {k \in Keyframes : Time(k) <= newest - span}
<1>1. /\ Keyframes = Keys(log) /\ Head(cuts) = cuts[1] /\ 1 \in 1 .. Len(cuts)
      /\ Keys(log) \in SUBSET Nat
  BY DEF Keyframes, Keys
<1>2. \A i \in 1 .. Len(cuts) : cuts[i].pts \in Nat /\ cuts[i].dts \in Nat
  <2>1. \A x \in Cut : x.pts \in Nat /\ x.dts \in Nat
    BY DEF Cut
  <2> QED
    BY <2>1
<1>3. \A k \in Keys(log) : log[k].pts \in Nat /\ log[k].dts \in Nat /\ k \in 1 .. Len(log)
  BY LoggedTyped DEF Keys
<1>4. \A k \in held : \E i \in 1 .. Len(cuts) : StandsFor(i, k)
  <2> SUFFICES ASSUME NEW k \in held PROVE \E i \in 1 .. Len(cuts) : StandsFor(i, k)
    OBVIOUS
  <2>1. k \in Keys(log) /\ log[k].pts >= cuts[1].pts
    BY <1>1
  <2>2. ~(log[k].pts < cuts[1].pts)
    BY SMTT(30), <1>1, <1>2, <1>3, <2>1
  <2>3. PICK i \in 1 .. Len(cuts) : cuts[i].dts = log[k].dts /\ cuts[i].pts = log[k].pts
    BY <2>1, <2>2 DEF CutsInv
  <2> QED
    BY <2>1, <2>3 DEF StandsFor
<1>5. \A i, j \in 1 .. Len(cuts) : i <= j => cuts[i].pts <= cuts[j].pts
  <2> SUFFICES ASSUME NEW i \in 1 .. Len(cuts), NEW j \in 1 .. Len(cuts), i <= j
               PROVE  cuts[i].pts <= cuts[j].pts
    OBVIOUS
  <2>1. cuts[i].pts \in Nat /\ cuts[j].pts \in Nat
    BY <1>2
  <2>2. CASE i = j
    BY <2>1, <2>2
  <2>3. CASE i < j
    <3>1. cuts[i].pts < cuts[j].pts
      BY <2>3 DEF CutsInv
    <3> QED
      BY <2>1, <3>1
  <2> QED
    BY <2>2, <2>3
<1>6. \A j, k \in Keys(log) : j < k => log[j].pts < log[k].pts
  BY <1>3 DEF LogInv, Keys
<1>7. n \in held
  <2>1. log[n].pts >= cuts[1].pts
    BY <1>1, <1>2, <1>5 DEF StandsFor
  <2> QED
    BY <1>1, <2>1 DEF StandsFor
<1>8. held \in SUBSET Nat /\ held \subseteq Keys(log)
  BY <1>1
<1>9. \A k \in Keys(log) : k \in early <=> ToNanos(log[k].dts, Anchor) <= limit
  BY <1>1 DEF Time
<1>10. StartFor(span) = IF early \cap held # {} THEN Latest(early \cap held)
                        ELSE CHOOSE k \in held : \A j \in held : k <= j
  BY DEF StartFor
<1>11. \A k \in held : log[k].pts >= cuts[1].pts
  BY <1>1
<1> HIDE DEF held, early
<1>12. CASE m = 1 /\ \A i \in 1 .. Len(cuts) : ~(ToNanos(cuts[i].dts, Anchor) <= limit)
  <2>1. early \cap held = {}
    <3> SUFFICES ASSUME NEW k \in early \cap held PROVE FALSE
      OBVIOUS
    <3>1. PICK i \in 1 .. Len(cuts) : StandsFor(i, k)
      BY <1>4
    <3>2. ToNanos(log[k].dts, Anchor) <= limit
      BY <1>8, <1>9
    <3>3. ToNanos(cuts[i].dts, Anchor) <= limit
      BY <3>1, <3>2 DEF StandsFor
    <3> QED
      BY <1>12, <3>3
  <2>2. \A j \in held : n <= j
    <3> SUFFICES ASSUME NEW j \in held, j < n PROVE FALSE
      BY <1>7, <1>8
    <3>1. log[j].pts < log[n].pts
      BY <1>6, <1>7, <1>8
    <3>2. log[j].pts >= cuts[1].pts /\ log[n].pts = cuts[1].pts
      BY <1>11, <1>12 DEF StandsFor
    <3>3. log[j].pts \in Nat /\ cuts[1].pts \in Nat
      BY <1>1, <1>2, <1>3, <1>8
    <3> QED
      BY <3>1, <3>2, <3>3
  <2>3. (CHOOSE k \in held : \A j \in held : k <= j) = n
    BY <1>7, <1>8, <2>2, ExtremesUnique
  <2> QED
    BY <1>10, <2>1, <2>3
<1>13. CASE \A i \in 1 .. Len(cuts) : ToNanos(cuts[i].dts, Anchor) <= limit <=> i <= m
  <2>1. n \in early \cap held
    <3>1. ToNanos(cuts[m].dts, Anchor) <= limit
      BY <1>13
    <3>2. n \in Keys(log) /\ log[n].dts = cuts[m].dts
      BY DEF StandsFor
    <3> QED
      BY <1>7, <1>9, <3>1, <3>2
  <2>2. \A j \in early \cap held : j <= n
    <3>0. n \in Nat /\ \A j \in early \cap held : j \in Nat
      BY <1>7, <1>8
    <3> SUFFICES ASSUME NEW j \in early \cap held, n < j PROVE FALSE
      BY <3>0
    <3>1. log[n].pts < log[j].pts
      BY <1>6, <1>7, <1>8
    <3>2. PICK i \in 1 .. Len(cuts) : StandsFor(i, j)
      BY <1>4
    <3>3. ToNanos(log[j].dts, Anchor) <= limit
      BY <1>8, <1>9
    <3>4. i <= m
      BY <1>13, <3>2, <3>3 DEF StandsFor
    <3>5. cuts[i].pts <= cuts[m].pts /\ log[j].pts = cuts[i].pts /\ log[n].pts = cuts[m].pts
      BY <1>5, <3>2, <3>4 DEF StandsFor
    <3>6. cuts[i].pts \in Nat /\ cuts[m].pts \in Nat
      BY <1>2
    <3> QED
      BY <3>1, <3>5, <3>6
  <2>3. Latest(early \cap held) = n
    <3> DEFINE K == early \cap held
    <3>1. K \in SUBSET Nat /\ n \in K /\ \A j \in K : j <= n
      BY <1>8, <2>1, <2>2
    <3> HIDE DEF K
    <3>2. Latest(K) = n
      BY <3>1, ExtremesUnique
    <3> QED
      BY <3>2 DEF K
  <2> QED
    BY <1>10, <2>1, <2>3
<1> QED
  BY <1>12, <1>13

\* What a clip from c takes of stream s.
Chosen(c, s, e) ==
  IF s = Anchor THEN c.dts <= e.dts /\ c.pts <= e.pts ELSE ToNanos(c.pts, Anchor) <= ToNanos(e.dts, s)

\* What a clip yields.
LEMMA YieldedIs ==
  ASSUME tracks \in Seq(Seq(Entry)), Len(tracks) \in Streams, NEW c \in Cut
  PROVE  /\ \A s \in DOMAIN tracks : \A i \in DOMAIN tracks[s] :
              Chosen(c, s, tracks[s][i]) => <<s, i>> \in Yielded(c)
         /\ \A x \in Yielded(c) : \E s \in DOMAIN tracks : \E i \in DOMAIN tracks[s] :
              x = <<s, i>> /\ Chosen(c, s, tracks[s][i])
<1>1. /\ Len(tracks) \in Nat /\ DOMAIN tracks = 1 .. Len(tracks) /\ Anchor \in Streams
      /\ \A s \in DOMAIN tracks : s \in Streams /\ tracks[s] \in Seq(Entry)
  BY OthersAssumption DEF Streams, Anchor
<1>2. c.dts \in Nat /\ c.pts \in Nat /\ ToNanos(c.pts, Anchor) \in Nat
  <2>1. c.dts \in Nat /\ c.pts \in Nat
    BY DEF Cut
  <2> QED
    BY <1>1, <2>1, NanosTyped
<1> DEFINE Takes(x) == LET e == tracks[x[1]][x[2]]
                       IN IF x[1] = Anchor THEN ~BeforeCut(e, c) /\ ~Leading(e, c)
                                           ELSE ToNanos(e.dts, x[1]) >= ToNanos(c.pts, Anchor)
           all == UNION {{<<s, i>> : i \in 1 .. Len(tracks[s])} : s \in DOMAIN tracks}
<1>3. Yielded(c) = {x \in all : Takes(x)}
  BY DEF Yielded
<1>4. ASSUME NEW s \in DOMAIN tracks, NEW i \in DOMAIN tracks[s]
      PROVE  /\ Takes(<<s, i>>) <=> Chosen(c, s, tracks[s][i])
             /\ <<s, i>> \in all
  <2>1. tracks[s][i] \in Entry /\ i \in 1 .. Len(tracks[s])
    BY <1>1
  <2>2. tracks[s][i].dts \in Nat /\ tracks[s][i].pts \in Nat
    BY <2>1 DEF Entry
  <2>3. ToNanos(tracks[s][i].dts, s) \in Nat
    BY <1>1, <2>2, NanosTyped
  <2> DEFINE e == tracks[s][i]
             a == ToNanos(e.dts, s)
             b == ToNanos(c.pts, Anchor)
  <2>4. Takes(<<s, i>>) <=> IF s = Anchor THEN ~(e.dts < c.dts) /\ ~(e.pts < c.pts) ELSE a >= b
    BY DEF BeforeCut, Leading
  <2>5. Chosen(c, s, e) <=> IF s = Anchor THEN c.dts <= e.dts /\ c.pts <= e.pts ELSE b <= a
    BY DEF Chosen
  <2>6. /\ ~(e.dts < c.dts) <=> c.dts <= e.dts
        /\ ~(e.pts < c.pts) <=> c.pts <= e.pts
        /\ a >= b <=> b <= a
    BY SMTT(30), <1>2, <2>2, <2>3
  <2>7. Takes(<<s, i>>) <=> Chosen(c, s, e)
    <3> HIDE DEF Takes, e, a, b
    <3> QED
      BY <2>4, <2>5, <2>6
  <2>8. <<s, i>> \in all
    BY <2>1
  <2> QED
    BY <2>7, <2>8
<1>5. ASSUME NEW x \in all
      PROVE  \E s \in DOMAIN tracks : \E i \in DOMAIN tracks[s] : x = <<s, i>>
  <2>1. PICK s \in DOMAIN tracks : x \in {<<s, i>> : i \in 1 .. Len(tracks[s])}
    OBVIOUS
  <2>2. PICK i \in 1 .. Len(tracks[s]) : x = <<s, i>>
    BY <2>1
  <2>3. i \in DOMAIN tracks[s]
    BY <1>1
  <2> QED
    BY <2>2, <2>3
<1> HIDE DEF Takes, all
<1>6. \A s \in DOMAIN tracks : \A i \in DOMAIN tracks[s] :
        Chosen(c, s, tracks[s][i]) => <<s, i>> \in Yielded(c)
  BY <1>3, <1>4
<1>7. ASSUME NEW x \in Yielded(c)
      PROVE  \E s \in DOMAIN tracks : \E i \in DOMAIN tracks[s] :
               x = <<s, i>> /\ Chosen(c, s, tracks[s][i])
  <2>1. PICK s \in DOMAIN tracks : \E i \in DOMAIN tracks[s] : x = <<s, i>>
    BY <1>3, <1>5
  <2>2. PICK i \in DOMAIN tracks[s] : x = <<s, i>>
    BY <2>1
  <2>3. Chosen(c, s, tracks[s][i])
    BY <1>3, <1>4, <2>2
  <2> QED
    BY <2>2, <2>3
<1> QED
  BY <1>6, <1>7

\* An entry has the packet's times, and a clip wants the packets it would take.
LEMMA WantedIs ==
  ASSUME log \in Seq(Logged), NEW m \in 1 .. Len(cuts), NEW n, StandsFor(m, n), cuts \in Seq(Cut)
  PROVE  /\ \A p : p \in Wanted(n) <=> p \in 1 .. Len(log) /\ Chosen(cuts[m], log[p].stream, log[p])
         /\ n \in Wanted(n)
<1>1. /\ n \in 1 .. Len(log) /\ log[n].stream = Anchor /\ log[n].dts = cuts[m].dts
      /\ log[n].pts = cuts[m].pts /\ Anchor \in Streams
  BY OthersAssumption DEF StandsFor, Keys, Anchor, Streams
<1>2. \A p \in 1 .. Len(log) : /\ log[p].dts \in Nat /\ log[p].pts \in Nat
                               /\ log[p].stream \in Streams
  BY LoggedTyped
<1>3. ASSUME NEW p \in 1 .. Len(log)
      PROVE  p \in Wanted(n) <=> Chosen(cuts[m], log[p].stream, log[p])
  <2> DEFINE a == ToNanos(log[p].dts, log[p].stream)
             b == ToNanos(cuts[m].pts, Anchor)
  <2>1. a \in Nat /\ b \in Nat
    <3>1. log[p].dts \in Nat /\ log[p].stream \in Streams /\ cuts[m].pts \in Nat
      BY <1>1, <1>2
    <3> QED
      BY <1>1, <3>1, NanosTyped
  <2>2. p \in Wanted(n) <=> IF log[p].stream = Anchor
                              THEN log[p].dts >= cuts[m].dts /\ log[p].pts >= cuts[m].pts
                              ELSE a >= b
    BY <1>1 DEF Wanted
  <2>3. Chosen(cuts[m], log[p].stream, log[p])
          <=> IF log[p].stream = Anchor
                THEN cuts[m].dts <= log[p].dts /\ cuts[m].pts <= log[p].pts ELSE b <= a
    BY DEF Chosen
  <2>4. /\ log[p].dts >= cuts[m].dts <=> cuts[m].dts <= log[p].dts
        /\ log[p].pts >= cuts[m].pts <=> cuts[m].pts <= log[p].pts
        /\ a >= b <=> b <= a
    BY <1>1, <1>2, <2>1
  <2> HIDE DEF a, b
  <2> QED
    BY <2>2, <2>3, <2>4
<1>4. \A p : p \in Wanted(n) => p \in 1 .. Len(log)
  BY DEF Wanted
<1>5. Chosen(cuts[m], Anchor, log[n])
  BY <1>1, <1>2 DEF Chosen
<1> QED
  BY <1>1, <1>3, <1>4, <1>5

\* A clip has the packets it wants: of these none has been evicted.
LEMMA HoldsWanted ==
  ASSUME RingInv(tracks, cuts, bytes, log), NEW m \in 1 .. Len(cuts), NEW n, StandsFor(m, n)
  PROVE  {tracks[x[1]][x[2]].n : x \in Yielded(cuts[m])} = Wanted(n)
<1> DEFINE c == cuts[m]
<1>1. /\ tracks \in Seq(Seq(Entry)) /\ Len(tracks) \in Streams /\ cuts \in Seq(Cut)
      /\ log \in Seq(Logged) /\ LogInv(log, Len(tracks)) /\ TracksInv(tracks, log)
      /\ EvictedInv(tracks, cuts, log) /\ CutsInv(cuts, log)
  BY DEF RingInv
<1>2. c \in Cut /\ cuts # <<>> /\ 1 \in 1 .. Len(cuts) /\ cuts[1] \in Cut
  BY <1>1
<1>3. /\ \A s \in DOMAIN tracks : \A i \in DOMAIN tracks[s] :
           Chosen(c, s, tracks[s][i]) => <<s, i>> \in Yielded(c)
      /\ \A x \in Yielded(c) : \E s \in DOMAIN tracks : \E i \in DOMAIN tracks[s] :
           x = <<s, i>> /\ Chosen(c, s, tracks[s][i])
  <2> HIDE DEF c
  <2> QED
    BY <1>1, <1>2, YieldedIs
<1>4. \A p : p \in Wanted(n) <=> p \in 1 .. Len(log) /\ Chosen(c, log[p].stream, log[p])
  BY <1>1, WantedIs
<1>5. ASSUME NEW s \in DOMAIN tracks, NEW i \in DOMAIN tracks[s]
      PROVE  /\ tracks[s][i].n \in 1 .. Len(log) /\ log[tracks[s][i].n].stream = s
             /\ Chosen(c, s, tracks[s][i]) <=> Chosen(c, s, log[tracks[s][i].n])
  <2>1. Matches(tracks[s][i], s, log)
    BY <1>1 DEF TracksInv
  <2> QED
    BY <2>1 DEF Matches, Chosen
<1>6. ASSUME NEW p \in Wanted(n)
      PROVE  \E s \in DOMAIN tracks : \E i \in DOMAIN tracks[s] :
               tracks[s][i].n = p /\ Chosen(c, s, tracks[s][i])
  <2> DEFINE s == log[p].stream
  <2>1. p \in 1 .. Len(log) /\ Chosen(c, s, log[p])
    BY <1>4
  <2>2. s \in DOMAIN tracks /\ s \in Streams /\ log[p] \in Logged /\ log[p].dts \in Nat
    <3>1. s \in 1 .. Len(tracks)
      BY <1>1, <2>1 DEF LogInv
    <3>2. s \in DOMAIN tracks
      BY <1>1, <3>1
    <3> QED
      BY <1>1, <2>1, <3>2, LoggedTyped
  <2>3. ~Gone(log[p], cuts[1])
    <3> SUFFICES ASSUME Gone(log[p], cuts[1]) PROVE FALSE
      OBVIOUS
    <3>1. cuts[1].dts <= c.dts /\ cuts[1].pts <= c.pts
      <4>1. \A x \in Cut : x.dts \in Nat /\ x.pts \in Nat
        BY DEF Cut
      <4>2. cuts[1].dts \in Nat /\ cuts[1].pts \in Nat
        BY <1>2, <4>1
      <4>3. CASE m = 1
        BY <4>2, <4>3
      <4>4. CASE m # 1
        <5>1. 1 < m
          BY <4>4
        <5>2. cuts[1].pts < c.pts /\ cuts[1].dts <= c.dts
          BY <1>1, <1>2, <5>1 DEF CutsInv
        <5>3. c.pts \in Nat
          BY <1>2, <4>1
        <5> QED
          BY <4>2, <5>2, <5>3
      <4> QED
        BY <4>3, <4>4
    <3>2. Gone(log[p], c)
      <4> HIDE DEF c
      <4> QED
        BY <1>2, <2>2, <3>1, GoneLater
    <3>3. c.dts \in Nat /\ c.pts \in Nat /\ Anchor \in Streams
      BY <1>2, OthersAssumption DEF Cut, Anchor, Streams
    <3>4. ToNanos(c.pts, Anchor) \in Nat /\ ToNanos(log[p].dts, s) \in Nat
      BY <2>2, <3>3, NanosTyped
    <3>5. CASE s = Anchor
      BY <2>1, <2>2, <3>2, <3>3, <3>5 DEF Chosen, Gone
    <3>6. CASE s # Anchor
      BY <2>1, <3>2, <3>4, <3>6 DEF Chosen, Gone
    <3> QED
      BY <3>5, <3>6
  <2>4. PICK i \in DOMAIN tracks[s] : tracks[s][i].n = p
    BY <1>1, <2>1, <2>3 DEF EvictedInv
  <2>5. Chosen(c, s, tracks[s][i])
    BY <1>5, <2>1, <2>2, <2>4
  <2> QED
    BY <2>2, <2>4, <2>5
<1> HIDE DEF c
<1>7. ASSUME NEW x \in Yielded(c) PROVE tracks[x[1]][x[2]].n \in Wanted(n)
  <2>1. PICK s \in DOMAIN tracks : \E i \in DOMAIN tracks[s] : x = <<s, i>> /\ Chosen(c, s, tracks[s][i])
    BY <1>3
  <2>2. PICK i \in DOMAIN tracks[s] : x = <<s, i>> /\ Chosen(c, s, tracks[s][i])
    BY <2>1
  <2>3. tracks[s][i].n \in Wanted(n)
    BY <1>4, <1>5, <2>2
  <2> QED
    BY <2>2, <2>3
<1>8. ASSUME NEW p \in Wanted(n) PROVE \E x \in Yielded(c) : tracks[x[1]][x[2]].n = p
  <2>1. PICK s \in DOMAIN tracks : \E i \in DOMAIN tracks[s] :
          tracks[s][i].n = p /\ Chosen(c, s, tracks[s][i])
    BY <1>6
  <2>2. PICK i \in DOMAIN tracks[s] : tracks[s][i].n = p /\ Chosen(c, s, tracks[s][i])
    BY <2>1
  <2>3. <<s, i>> \in Yielded(c) /\ <<s, i>>[1] = s /\ <<s, i>>[2] = i
    BY <1>3, <2>2
  <2> QED
    BY <2>2, <2>3
<1> QED
  BY <1>7, <1>8 DEF c

\* One entry comes out of a clip before another.
LEMMA BeforeIs ==
  ASSUME NEW s, NEW i, NEW r, NEW j
  PROVE  YieldedBefore(<<s, i>>, <<r, j>>) <=>
           \/ ToNanos(tracks[s][i].dts, s) < ToNanos(tracks[r][j].dts, r)
           \/ /\ ToNanos(tracks[s][i].dts, s) = ToNanos(tracks[r][j].dts, r)
              /\ s < r \/ (s = r /\ i < j)
BY DEF YieldedBefore

\* A clip comes out with its keyframe first, at time zero, and nothing before it.
LEMMA FirstIsZero ==
  ASSUME RingInv(tracks, cuts, bytes, log), NEW m \in 1 .. Len(cuts), NEW n, StandsFor(m, n)
  PROVE  StartsAtZero(cuts[m])
<1> DEFINE c == cuts[m]
<1>1. /\ tracks \in Seq(Seq(Entry)) /\ Len(tracks) \in Streams /\ cuts \in Seq(Cut)
      /\ log \in Seq(Logged) /\ LogInv(log, Len(tracks)) /\ TracksInv(tracks, log)
  BY DEF RingInv
<1>2. /\ c \in Cut /\ DOMAIN tracks = 1 .. Len(tracks) /\ Anchor = 1 /\ Anchor \in Streams
      /\ \A s \in DOMAIN tracks : s \in Streams /\ s \in Nat /\ tracks[s] \in Seq(Entry)
  BY <1>1, OthersAssumption DEF Streams, Anchor
<1>3. /\ n \in 1 .. Len(log) /\ log[n].stream = Anchor /\ log[n].key /\ log[n].dts = c.dts
      /\ log[n].pts = c.pts /\ n \in Keys(log) /\ c.dts <= c.pts
  BY <1>1 DEF StandsFor, Keys, LogInv
<1>4. c.dts \in Nat /\ c.pts \in Nat
  BY <1>2 DEF Cut
<1>5. n \in Wanted(n) /\ {tracks[x[1]][x[2]].n : x \in Yielded(c)} = Wanted(n)
  BY <1>1, WantedIs, HoldsWanted
<1> HIDE DEF c
<1>6. /\ \A s \in DOMAIN tracks : \A i \in DOMAIN tracks[s] :
           Chosen(c, s, tracks[s][i]) => <<s, i>> \in Yielded(c)
      /\ \A x \in Yielded(c) : \E s \in DOMAIN tracks : \E i \in DOMAIN tracks[s] :
           x = <<s, i>> /\ Chosen(c, s, tracks[s][i])
  BY <1>1, <1>2, YieldedIs
<1>7. ASSUME NEW s \in DOMAIN tracks, NEW i \in DOMAIN tracks[s]
      PROVE  /\ Matches(tracks[s][i], s, log) /\ i \in Nat
             /\ tracks[s][i] \in Entry /\ tracks[s][i].dts \in Nat /\ tracks[s][i].pts \in Nat
             /\ tracks[s][i].dts <= tracks[s][i].pts /\ ToNanos(tracks[s][i].dts, s) \in Nat
  <2>1. Matches(tracks[s][i], s, log)
    BY <1>1 DEF TracksInv
  <2>2. tracks[s][i] \in Entry /\ i \in Nat
    BY <1>2
  <2>3. tracks[s][i].dts \in Nat /\ tracks[s][i].pts \in Nat
    BY <2>2 DEF Entry
  <2>4. tracks[s][i].dts <= tracks[s][i].pts
    BY <1>1, <2>1 DEF Matches, LogInv
  <2>5. ToNanos(tracks[s][i].dts, s) \in Nat
    BY <1>2, <2>3, NanosTyped
  <2> QED
    BY <2>1, <2>2, <2>3, <2>4, <2>5
<1>8. ToNanos(c.dts, Anchor) \in Nat /\ ToNanos(c.pts, Anchor) \in Nat
      /\ ToNanos(c.dts, Anchor) <= ToNanos(c.pts, Anchor)
  BY <1>2, <1>3, <1>4, NanosTyped, NanosMonotone
<1>9. PICK i \in DOMAIN tracks[Anchor] :
        /\ <<Anchor, i>> \in Yielded(c) /\ Anchor \in DOMAIN tracks /\ tracks[Anchor][i].n = n
        /\ tracks[Anchor][i].dts = c.dts /\ tracks[Anchor][i].key
  <2>1. PICK x \in Yielded(c) : tracks[x[1]][x[2]].n = n
    BY <1>5
  <2>2. PICK s \in DOMAIN tracks : \E i \in DOMAIN tracks[s] : x = <<s, i>>
    BY <1>6
  <2>3. PICK i \in DOMAIN tracks[s] : x = <<s, i>>
    BY <2>2
  <2>4. tracks[s][i].n = n
    BY <2>1, <2>3
  <2>5. Matches(tracks[s][i], s, log)
    BY <1>7
  <2>6. s = Anchor /\ tracks[s][i].dts = c.dts /\ tracks[s][i].key
    BY <1>3, <2>4, <2>5 DEF Matches
  <2> QED
    BY <2>1, <2>3, <2>4, <2>6
<1> DEFINE first == <<Anchor, i>>
<1>10. ToNanos(tracks[Anchor][i].dts, Anchor) = ToNanos(c.dts, Anchor)
  BY <1>9
<1>11. ASSUME NEW s \in DOMAIN tracks, NEW j \in DOMAIN tracks[s], Chosen(c, s, tracks[s][j]),
              <<s, j>> # first
       PROVE  YieldedBefore(first, <<s, j>>) /\ ~YieldedBefore(<<s, j>>, first)
  <2> DEFINE a == ToNanos(c.dts, Anchor)
             b == ToNanos(tracks[s][j].dts, s)
  <2>1. a \in Nat /\ b \in Nat
    BY <1>7, <1>8
  <2>2. /\ YieldedBefore(first, <<s, j>>) <=> a < b \/ (a = b /\ (Anchor < s \/ (Anchor = s /\ i < j)))
        /\ YieldedBefore(<<s, j>>, first) <=> b < a \/ (b = a /\ (s < Anchor \/ (s = Anchor /\ j < i)))
    BY <1>10, BeforeIs
  <2>3. i \in Nat /\ j \in Nat /\ s \in Nat /\ s >= 1
    <3>1. s \in 1 .. Len(tracks) /\ i \in Nat /\ j \in Nat
      BY <1>2, <1>7, <1>9
    <3> QED
      BY <1>1, <3>1
  <2>4. CASE s = Anchor
    <3>1. i # j /\ c.dts <= tracks[s][j].dts /\ c.pts <= tracks[s][j].pts
      BY <1>11, <2>4 DEF Chosen
    <3>2. a <= b
      BY <1>2, <1>4, <1>7, <2>4, <3>1, NanosMonotone
    <3>3. ~(j < i)
      <4> SUFFICES ASSUME j < i PROVE FALSE
        OBVIOUS
      <4>1. tracks[s][j].n < n /\ tracks[s][j].n \in 1 .. Len(log)
        <5>1. tracks[s][j].n < tracks[s][i].n
          BY <1>1, <1>9, <2>4 DEF TracksInv
        <5> QED
          BY <1>7, <1>9, <2>4, <5>1 DEF Matches
      <4>2. Matches(tracks[s][j], s, log)
        BY <1>7
      <4>3. log[tracks[s][j].n].stream = Anchor /\ log[tracks[s][j].n].pts = tracks[s][j].pts
        BY <2>4, <4>2 DEF Matches
      <4>4. tracks[s][j].pts < c.pts
        BY <1>1, <1>3, <4>1, <4>3 DEF LogInv
      <4>5. tracks[s][j].pts \in Nat
        BY <1>7
      <4> QED
        BY <1>4, <3>1, <4>4, <4>5
    <3> HIDE DEF a, b, first
    <3> QED
      BY <1>2, <2>1, <2>2, <2>3, <2>4, <3>1, <3>2, <3>3
  <2>5. CASE s # Anchor
    <3>1. ToNanos(c.pts, Anchor) <= b
      BY <1>11, <2>5 DEF Chosen
    <3>2. a <= b
      <4> DEFINE d == ToNanos(c.pts, Anchor)
      <4>1. d \in Nat /\ a <= d /\ d <= b
        BY <1>8, <3>1
      <4> HIDE DEF a, b, d
      <4> QED
        BY <2>1, <4>1
    <3>3. Anchor < s
      BY <1>2, <2>3, <2>5
    <3> HIDE DEF a, b, first
    <3> QED
      BY <1>2, <2>1, <2>2, <2>3, <2>5, <3>2, <3>3
  <2> QED
    BY <2>4, <2>5
<1>12. (CHOOSE x \in Yielded(c) : \A y \in Yielded(c) \ {x} : YieldedBefore(x, y)) = first
  <2>1. \A y \in Yielded(c) \ {first} : YieldedBefore(first, y) /\ ~YieldedBefore(y, first)
    <3> SUFFICES ASSUME NEW y \in Yielded(c), y # first
                 PROVE  YieldedBefore(first, y) /\ ~YieldedBefore(y, first)
      OBVIOUS
    <3>1. PICK s \in DOMAIN tracks : \E j \in DOMAIN tracks[s] :
            y = <<s, j>> /\ Chosen(c, s, tracks[s][j])
      BY <1>6
    <3>2. PICK j \in DOMAIN tracks[s] : y = <<s, j>> /\ Chosen(c, s, tracks[s][j])
      BY <3>1
    <3> HIDE DEF first
    <3>3. <<s, j>> # first
      BY <3>2
    <3> QED
      BY <1>11, <3>2, <3>3
  <2>2. first \in Yielded(c)
    BY <1>9
  <2> HIDE DEF first
  <2>3. \A x \in Yielded(c) : (\A y \in Yielded(c) \ {x} : YieldedBefore(x, y)) => x = first
    BY <2>1, <2>2
  <2> QED
    BY <2>1, <2>2, <2>3
<1>13. /\ first[1] = Anchor /\ first[2] = i
       /\ Rebased(c, first).key = tracks[Anchor][i].key
       /\ Rebased(c, first).dts = tracks[Anchor][i].dts - c.dts
  <2>1. tracks[Anchor][i] \in Entry
    BY <1>7, <1>9
  <2> DEFINE e == tracks[Anchor][i]
             o == Offset(c, Anchor)
  <2>2. o = c.dts
    BY DEF Offset
  <2>3. Rebased(c, first) = [e EXCEPT !.dts = @ - o, !.pts = @ - o]
    BY DEF Rebased
  <2> HIDE DEF e, o
  <2>4. [e EXCEPT !.dts = @ - o, !.pts = @ - o].key = e.key
        /\ [e EXCEPT !.dts = @ - o, !.pts = @ - o].dts = e.dts - o
    BY <2>1 DEF Entry, e
  <2> QED
    BY <2>2, <2>3, <2>4 DEF e
<1>14. ASSUME NEW x \in Yielded(c)
       PROVE  Rebased(c, x).dts >= 0 /\ Rebased(c, x).pts >= Rebased(c, x).dts
  <2>1. PICK s \in DOMAIN tracks : \E j \in DOMAIN tracks[s] :
          x = <<s, j>> /\ Chosen(c, s, tracks[s][j])
    BY <1>6
  <2>2. PICK j \in DOMAIN tracks[s] : x = <<s, j>> /\ Chosen(c, s, tracks[s][j])
    BY <2>1
  <2> DEFINE e == tracks[s][j]
             o == Offset(c, s)
  <2>3. e \in Entry /\ e.dts \in Nat /\ e.pts \in Nat /\ e.dts <= e.pts
    BY <1>7
  <2>4. o \in Int /\ o <= e.dts
    <3>1. CASE s = Anchor
      BY <1>4, <2>2, <3>1 DEF Offset, Chosen
    <3>2. CASE s # Anchor
      <4> DEFINE a == ToNanos(c.dts, Anchor)
                 d == ToNanos(c.pts, Anchor)
                 b == ToNanos(e.dts, s)
      <4>1. a \in Nat /\ d \in Nat /\ b \in Nat /\ a <= d /\ d <= b
        BY <1>7, <1>8, <2>2, <3>2 DEF Chosen
      <4>2. a <= ToNanos(e.dts, s)
        <5> HIDE DEF a, d
        <5>1. a <= b
          <6> HIDE DEF b
          <6> QED
            BY <4>1
        <5> QED
          BY <5>1
      <4>3. ToTicks(a, s) \in Int /\ ToTicks(a, s) <= e.dts
        <5>1. a \in Nat /\ e.dts \in Nat /\ s \in Streams
          BY <1>2, <2>3, <4>1
        <5> HIDE DEF a, e
        <5> QED
          BY <4>2, <5>1, TicksBelow
      <4>4. o = ToTicks(a, s)
        BY <3>2 DEF Offset
      <4> QED
        BY <4>3, <4>4
    <3> QED
      BY <3>1, <3>2
  <2>5. Rebased(c, x) = [e EXCEPT !.dts = @ - o, !.pts = @ - o]
    BY <2>2 DEF Rebased
  <2> HIDE DEF e, o
  <2>6. [e EXCEPT !.dts = @ - o, !.pts = @ - o].dts = e.dts - o
        /\ [e EXCEPT !.dts = @ - o, !.pts = @ - o].pts = e.pts - o
    BY <2>3 DEF Entry
  <2> QED
    BY <2>3, <2>4, <2>5, <2>6
<1>15. c.dts - c.dts = 0
  BY <1>4
<1> HIDE DEF first
<1>16. StartsAtZero(c)
  BY <1>9, <1>12, <1>13, <1>14, <1>15 DEF StartsAtZero
<1> QED
  BY <1>16 DEF c

\* A clip of any span is exactly what would be cut from everything ever pushed, and plays from
\* its keyframe at time zero (clip_last, Clip::entries).
THEOREM ClipsFaithful == Spec => []ClipFaithful
<1>1. ASSUME IInv PROVE ClipFaithful
  <2> SUFFICES ASSUME cuts # <<>>, NEW span \in Spans
               PROVE  /\ {tracks[x[1]][x[2]].n : x \in Yielded(CutFor(span))} = Wanted(StartFor(span))
                      /\ StartsAtZero(CutFor(span))
    BY DEF ClipFaithful
  <2>1. /\ RingInv(tracks, cuts, bytes, log) /\ newest \in Nat
        /\ cuts \in Seq(Cut) /\ CutsInv(cuts, log) /\ log \in Seq(Logged)
        /\ Len(tracks) \in Nat /\ LogInv(log, Len(tracks))
    BY <1>1, OthersAssumption DEF IInv, RingInv, Streams
  <2>2. newest - span \in Int
    BY <2>1, BoundAssumption DEF Spans
  <2> DEFINE limit == newest - span
  <2>3. limit \in Int /\ newest - span = limit
    BY <2>2
  <2> HIDE DEF limit
  <2>4. PICK m \in 1 .. Len(cuts) :
          /\ CutFor(span) = cuts[m]
          /\ \/ m = 1 /\ \A i \in 1 .. Len(cuts) : ~(ToNanos(cuts[i].dts, Anchor) <= limit)
             \/ \A i \in 1 .. Len(cuts) : ToNanos(cuts[i].dts, Anchor) <= limit <=> i <= m
    BY <2>1, <2>3, CutForIs
  <2>5. PICK n : StandsFor(m, n)
    <3>1. PICK n \in Keys(log) : log[n].dts = cuts[m].dts /\ log[n].pts = cuts[m].pts
      BY <2>1 DEF CutsInv
    <3> QED
      BY <3>1 DEF StandsFor
  <2>6. StartFor(span) = n
    BY <2>1, <2>3, <2>4, <2>5, StartForIs
  <2>7. {tracks[x[1]][x[2]].n : x \in Yielded(cuts[m])} = Wanted(n)
    BY <2>1, <2>5, HoldsWanted
  <2>8. StartsAtZero(cuts[m])
    BY <2>1, <2>5, FirstIsZero
  <2> QED
    BY <2>4, <2>6, <2>7, <2>8
<1> QED
  BY <1>1, Invariance, PTL
=============================================================================
