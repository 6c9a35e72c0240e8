--------------------------- MODULE SequenceLemmas ---------------------------
(* What the sums, folds and concatenations of sequences that the modules are *)
(* built from compute, for sequences of any length. They are recursive       *)
(* functions; that these exist, and what they return, is proved by induction *)
(* on a set of naturals.                                                     *)
EXTENDS SequenceSums, SequenceTheorems, WellFoundedInduction, TLAPS

\* A set of naturals that is not empty has a least member.
LEMMA LeastMember ==
  ASSUME NEW F, F \subseteq Nat, F # {}
  PROVE  \E x \in F : \A y \in F : x <= y
<1> DEFINE R == {p \in Nat \X Nat : p[1] < p[2]}
<1>1. IsWellFoundedOn(R, Nat)
  BY NatLessThanWellFounded DEF OpToRel
<1>2. PICK x \in F : \A y \in F : ~(<<y, x>> \in R)
  <2> HIDE DEF R
  <2> QED
    BY <1>1, WFMin
<1>3. ASSUME NEW y \in F PROVE x <= y
  <2>1. x \in Nat /\ y \in Nat /\ ~(<<y, x>> \in R)
    BY <1>2
  <2> QED
    BY <2>1
<1> QED
  BY <1>3

\* A set of naturals that holds 0 and the successors of its members is Nat.
LEMMA NatSetInduction ==
  ASSUME NEW T, 0 \in T, \A n \in Nat : n \in T => n + 1 \in T
  PROVE  Nat \subseteq T
<1> DEFINE F == Nat \ T
<1>1. SUFFICES ASSUME F # {} PROVE FALSE
  OBVIOUS
<1>2. PICK x \in F : \A y \in F : x <= y
  <2>1. F \subseteq Nat
    OBVIOUS
  <2> HIDE DEF F
  <2> QED
    BY <1>1, <2>1, LeastMember
<1>3. x # 0 /\ x - 1 \in Nat /\ x - 1 \in F
  OBVIOUS
<1> QED
  BY <1>2, <1>3

\* f[k] is what k steps from `base` come to.
Iterated(f, n, base, step, A) ==
  f \in [0 .. n -> A] /\ f[0] = base /\ \A k \in 1 .. n : f[k] = step[<<f[k - 1], k>>]

\* For every n there is such a function.
LEMMA Iteration ==
  ASSUME NEW A, NEW n \in Nat, NEW base \in A, NEW step \in [A \X (1 .. n) -> A]
  PROVE  \E f : Iterated(f, n, base, step, A)
<1> DEFINE Goal(f, m) == f[0] = base /\ \A k \in 1 .. m : f[k] = step[<<f[k - 1], k>>]
           Some(m) == \E f \in [0 .. m -> A] : Goal(f, m)
           D == {m \in Nat : m <= n => Some(m)}
<1>1. 0 \in D
  <2> DEFINE f == [k \in 0 .. 0 |-> base]
  <2>1. f \in [0 .. 0 -> A] /\ Goal(f, 0)
    OBVIOUS
  <2> QED
    BY <2>1
<1>2. ASSUME NEW m \in Nat, m \in D PROVE m + 1 \in D
  <2>1. SUFFICES ASSUME m + 1 <= n PROVE \E f \in [0 .. m + 1 -> A] : Goal(f, m + 1)
    OBVIOUS
  <2>2. PICK f \in [0 .. m -> A] : Goal(f, m)
    BY <1>2, <2>1
  <2> DEFINE g == [k \in 0 .. m + 1 |-> IF k <= m THEN f[k] ELSE step[<<f[m], m + 1>>]]
  <2>3. f[m] \in A /\ m + 1 \in 1 .. n
    BY <2>1, <2>2
  <2>4. g \in [0 .. m + 1 -> A]
    BY <2>2, <2>3
  <2>5. ASSUME NEW k \in 1 .. m + 1 PROVE g[k] = step[<<g[k - 1], k>>]
    <3>1. CASE k <= m
      BY <2>2, <3>1
    <3>2. CASE k = m + 1
      <4>1. k - 1 = m /\ g[m] = f[m] /\ g[m + 1] = step[<<f[m], m + 1>>]
        BY <3>2
      <4> HIDE DEF g
      <4> QED
        BY <3>2, <4>1
    <3> QED
      BY <3>1, <3>2
  <2>6. g[0] = base
    BY <2>2
  <2> HIDE DEF g
  <2> QED
    BY <2>4, <2>5, <2>6
<1>3. Nat \subseteq D
  <2> HIDE DEF D
  <2> QED
    BY <1>1, <1>2, NatSetInduction
<1>4. Some(n)
  <2> HIDE DEF Some
  <2> QED
    BY <1>3
<1> QED
  BY <1>4 DEF Iterated

-----------------------------------------------------------------------------
(* Folds.                                                                    *)

\* The largest of 1 .. n, and of any set of them that holds n.
LEMMA MaxOfInterval ==
  ASSUME NEW n \in Nat \ {0}, NEW S \in SUBSET (1 .. n), n \in S
  PROVE  Max(S) = n
<1>1. \E x \in S : \A y \in S : x >= y
  OBVIOUS
<1>2. Max(S) \in S /\ \A y \in S : Max(S) >= y
  BY <1>1 DEF Max
<1>3. Max(S) \in 1 .. n /\ Max(S) >= n
  BY <1>2
<1> QED
  BY <1>3

\* The function FoldLeft computes a sum with, from sets of indices, exists.
LEMMA SumFoldDefined ==
  ASSUME NEW s, NEW n \in Nat
  PROVE  \E it : it = [S \in SUBSET (1 .. n) |->
                         IF S = {} THEN 0 ELSE it[S \ {Max(S)}] + s[Max(S)]]
<1> DEFINE Some(m) == \E it : it = [S \in SUBSET (1 .. m) |->
                              IF S = {} THEN 0 ELSE it[S \ {Max(S)}] + s[Max(S)]]
           D == {m \in Nat : Some(m)}
<1>1. 0 \in D
  <2>1. \A S \in SUBSET (1 .. 0) : S = {}
    OBVIOUS
  <2> DEFINE it == [S \in SUBSET (1 .. 0) |-> 0]
  <2>2. it = [S \in SUBSET (1 .. 0) |-> IF S = {} THEN 0 ELSE it[S \ {Max(S)}] + s[Max(S)]]
    BY <2>1
  <2> QED
    BY <2>2
<1>2. ASSUME NEW m \in Nat, m \in D PROVE m + 1 \in D
  <2>1. PICK it : it = [S \in SUBSET (1 .. m) |->
                          IF S = {} THEN 0 ELSE it[S \ {Max(S)}] + s[Max(S)]]
    BY <1>2
  <2> DEFINE h == [S \in SUBSET (1 .. m + 1) |->
                     IF m + 1 \in S THEN it[S \ {m + 1}] + s[m + 1] ELSE it[S]]
  <2>2. ASSUME NEW S \in SUBSET (1 .. m + 1), S # {}
        PROVE  h[S] = h[S \ {Max(S)}] + s[Max(S)]
    <3>1. S \ {Max(S)} \in SUBSET (1 .. m + 1)
      OBVIOUS
    <3>2. CASE m + 1 \in S
      <4>1. Max(S) = m + 1
        BY <3>2, MaxOfInterval
      <4> QED
        BY <3>1, <3>2, <4>1
    <3>3. CASE m + 1 \notin S
      <4>1. S \in SUBSET (1 .. m) /\ h[S] = it[S] /\ h[S \ {Max(S)}] = it[S \ {Max(S)}]
        BY <3>1, <3>3
      <4>2. it[S] = it[S \ {Max(S)}] + s[Max(S)]
        BY <2>1, <2>2, <4>1
      <4> QED
        BY <4>1, <4>2
    <3> QED
      BY <3>2, <3>3
  <2>3. h[{}] = 0
    <3>1. {} \in SUBSET (1 .. m) /\ {} \in SUBSET (1 .. m + 1)
      OBVIOUS
    <3>2. it[{}] = 0
      BY <2>1, <3>1
    <3> QED
      BY <3>1, <3>2
  <2>4. h = [S \in SUBSET (1 .. m + 1) |-> IF S = {} THEN 0 ELSE h[S \ {Max(S)}] + s[Max(S)]]
    BY <2>2, <2>3
  <2>5. Some(m + 1)
    <3> HIDE DEF h
    <3> QED
      BY <2>4, Zenon
  <2> HIDE DEF Some
  <2> QED
    BY <2>5
<1>3. Nat \subseteq D
  <2> HIDE DEF D
  <2> QED
    BY <1>1, <1>2, NatSetInduction
<1>4. Some(n)
  <2> HIDE DEF Some
  <2> QED
    BY <1>3
<1> QED
  BY <1>4, Zenon

-----------------------------------------------------------------------------
(* Sums.                                                                     *)

\* P[k] is the sum of the first k elements of s.
PrefixSum(P, s) ==
  /\ P \in [0 .. Len(s) -> Nat] /\ P[0] = 0
  /\ \A k \in 1 .. Len(s) : P[k] = P[k - 1] + s[k]

\* Sums are naturals.
LEMMA PrefixSumType ==
  ASSUME NEW s, NEW P, PrefixSum(P, s), NEW k \in 0 .. Len(s)
  PROVE  P[k] \in Nat
BY DEF PrefixSum

\* Total adds all elements, from the first to the last.
LEMMA TotalIsPrefixSum ==
  ASSUME NEW s \in Seq(Nat)
  PROVE  \E P : PrefixSum(P, s) /\ Total(s) = P[Len(s)]
<1> DEFINE n == Len(s)
<1>1. n \in Nat /\ DOMAIN s = 1 .. n /\ \A k \in 1 .. n : s[k] \in Nat
  OBVIOUS
<1>2. Total(s) = (CHOOSE it : it = [S \in SUBSET DOMAIN s |->
                    IF S = {} THEN 0 ELSE it[S \ {Max(S)}] + s[Max(S)]])[DOMAIN s]
  BY DEF Total, FoldLeft, MapThenFoldSet
<1>3. PICK it : /\ it = [S \in SUBSET (1 .. n) |->
                           IF S = {} THEN 0 ELSE it[S \ {Max(S)}] + s[Max(S)]]
                /\ Total(s) = it[1 .. n]
  <2> DEFINE C == CHOOSE it : it = [S \in SUBSET (1 .. n) |->
                    IF S = {} THEN 0 ELSE it[S \ {Max(S)}] + s[Max(S)]]
  <2>1. \E it : it = [S \in SUBSET (1 .. n) |->
                        IF S = {} THEN 0 ELSE it[S \ {Max(S)}] + s[Max(S)]]
    <3> HIDE DEF n
    <3> QED
      BY <1>1, SumFoldDefined
  <2>2. C = [S \in SUBSET (1 .. n) |-> IF S = {} THEN 0 ELSE C[S \ {Max(S)}] + s[Max(S)]]
    BY <2>1, Zenon
  <2>3. Total(s) = C[1 .. n]
    BY <1>1, <1>2, Zenon
  <2> HIDE DEF C
  <2> QED
    BY <2>2, <2>3
<1> DEFINE P == [k \in 0 .. n |-> it[1 .. k]]
<1>4. P[0] = 0
  BY <1>1, <1>3
<1>5. ASSUME NEW k \in 1 .. n PROVE P[k] = P[k - 1] + s[k]
  <2>1. 1 .. k \in SUBSET (1 .. n) /\ 1 .. k # {} /\ (1 .. k) \ {k} = 1 .. k - 1
    BY <1>1
  <2>2. Max(1 .. k) = k
    <3>1. k \in Nat \ {0} /\ 1 .. k \in SUBSET (1 .. k) /\ k \in 1 .. k
      BY <1>1
    <3> QED
      BY <3>1, MaxOfInterval
  <2>3. it[1 .. k] = it[1 .. k - 1] + s[k]
    BY <1>3, <2>1, <2>2
  <2> QED
    BY <1>1, <2>3
<1>6. \A k \in 0 .. n : P[k] \in Nat
  <2> DEFINE D == {k \in Nat : k <= n => P[k] \in Nat}
  <2>1. 0 \in D
    BY <1>4
  <2>2. ASSUME NEW k \in Nat, k \in D PROVE k + 1 \in D
    <3> HIDE DEF P
    <3>1. CASE k + 1 <= n
      <4>1. P[k + 1] = P[k] + s[k + 1]
        BY <1>1, <1>5, <3>1
      <4> QED
        BY <1>1, <2>2, <3>1, <4>1
    <3> QED
      BY <1>1, <3>1
  <2>3. Nat \subseteq D
    <3> HIDE DEF D
    <3> QED
      BY <2>1, <2>2, NatSetInduction
  <2> HIDE DEF P
  <2> QED
    BY <1>1, <2>3
<1>7. P \in [0 .. n -> Nat] /\ Total(s) = P[n]
  <2>1. n \in 0 .. n
    BY <1>1
  <2> QED
    BY <1>3, <1>6, <2>1
<1> HIDE DEF P
<1> QED
  BY <1>4, <1>5, <1>7 DEF PrefixSum

AgreeUpTo(n, s, t) ==
  n \in Nat /\ n <= Len(s) /\ n <= Len(t) /\ \A k \in 1 .. n : s[k] = t[k]

\* Sequences that agree on their first n elements have the same first n sums.
LEMMA PrefixSumAgrees ==
  ASSUME NEW s \in Seq(Nat), NEW t \in Seq(Nat), NEW P, NEW Q,
         PrefixSum(P, s), PrefixSum(Q, t),
         NEW n, AgreeUpTo(n, s, t)
  PROVE  P[n] = Q[n]
<1> USE DEF AgreeUpTo
<1> DEFINE D == {k \in Nat : k <= n => P[k] = Q[k]}
<1>1. 0 \in D
  BY DEF PrefixSum
<1>2. ASSUME NEW k \in Nat, k \in D PROVE k + 1 \in D
  <2>1. CASE k + 1 <= n
    <3>1. k + 1 \in 1 .. n /\ k + 1 \in 1 .. Len(s) /\ k + 1 \in 1 .. Len(t)
      BY <2>1
    <3>2. P[k + 1] = P[k] + s[k + 1] /\ Q[k + 1] = Q[k] + t[k + 1]
      BY <3>1 DEF PrefixSum
    <3> QED
      BY <1>2, <2>1, <3>1, <3>2
  <2> QED
    BY <2>1
<1>3. Nat \subseteq D
  <2> HIDE DEF D
  <2> QED
    BY <1>1, <1>2, NatSetInduction
<1> QED
  BY <1>3

\* A sum is a natural, no sum at all is 0.
LEMMA TotalType == ASSUME NEW s \in Seq(Nat) PROVE Total(s) \in Nat
<1>1. PICK P : PrefixSum(P, s) /\ Total(s) = P[Len(s)]
  BY TotalIsPrefixSum
<1> QED
  BY <1>1 DEF PrefixSum

\* Nothing adds up to zero.
LEMMA TotalEmpty == Total(<<>>) = 0
<1>1. <<>> \in Seq(Nat) /\ Len(<<>>) = 0
  OBVIOUS
<1>2. PICK P : PrefixSum(P, <<>>) /\ Total(<<>>) = P[Len(<<>>)]
  BY <1>1, TotalIsPrefixSum
<1> QED
  BY <1>1, <1>2 DEF PrefixSum

\* The sum of a concatenation.
LEMMA TotalConcat ==
  ASSUME NEW s \in Seq(Nat), NEW t \in Seq(Nat)
  PROVE  Total(s \o t) = Total(s) + Total(t)
<1> DEFINE u == s \o t
<1>0. /\ u \in Seq(Nat) /\ Len(u) = Len(s) + Len(t)
      /\ Len(s) \in Nat /\ Len(t) \in Nat /\ Len(u) \in Nat
      /\ \A k \in 1 .. Len(s) : u[k] = s[k]
      /\ \A k \in 1 .. Len(t) : u[Len(s) + k] = t[k]
  OBVIOUS
<1> HIDE DEF u
<1>1. PICK P : PrefixSum(P, s) /\ Total(s) = P[Len(s)]
  BY TotalIsPrefixSum
<1>2. PICK Q : PrefixSum(Q, t) /\ Total(t) = Q[Len(t)]
  BY TotalIsPrefixSum
<1>3. PICK R : PrefixSum(R, u) /\ Total(u) = R[Len(u)]
  BY <1>0, TotalIsPrefixSum
<1>4. R[Len(s)] = P[Len(s)]
  <2>1. AgreeUpTo(Len(s), s, u)
    <3>1. Len(s) <= Len(u)
      BY <1>0
    <3>2. \A k \in 1 .. Len(s) : s[k] = u[k]
      BY <1>0
    <3> QED
      BY <1>0, <3>1, <3>2 DEF AgreeUpTo
  <2> QED
    BY <1>0, <1>1, <1>3, <2>1, PrefixSumAgrees
<1> DEFINE D == {k \in Nat : k <= Len(t) => R[Len(s) + k] = P[Len(s)] + Q[k]}
<1>5. 0 \in D
  <2>1. Q[0] = 0 /\ Len(s) + 0 = Len(s)
    BY <1>0, <1>2 DEF PrefixSum
  <2>2. P[Len(s)] \in Nat
    BY <1>0, <1>1, PrefixSumType
  <2> QED
    BY <1>4, <2>1, <2>2
<1>6. ASSUME NEW k \in Nat, k \in D PROVE k + 1 \in D
  <2>1. CASE k + 1 <= Len(t)
    <3>1. k + 1 \in 1 .. Len(t) /\ Len(s) + (k + 1) \in 1 .. Len(u)
      BY <1>0, <2>1
    <3>2. R[Len(s) + (k + 1)] = R[Len(s) + k] + u[Len(s) + (k + 1)]
      <4>1. (Len(s) + (k + 1)) - 1 = Len(s) + k
        BY <1>0
      <4> QED
        BY <1>3, <3>1, <4>1 DEF PrefixSum
    <3>3. Q[k + 1] = Q[k] + t[k + 1]
      BY <1>2, <3>1 DEF PrefixSum
    <3>4. P[Len(s)] \in Nat /\ Q[k] \in Nat /\ t[k + 1] \in Nat
      <4>1. Len(s) \in 0 .. Len(s) /\ k \in 0 .. Len(t)
        BY <1>0, <3>1
      <4> QED
        BY <1>1, <1>2, <3>1, <4>1, PrefixSumType
    <3>5. R[Len(s) + k] = P[Len(s)] + Q[k] /\ u[Len(s) + (k + 1)] = t[k + 1]
      BY <1>0, <1>6, <2>1, <3>1
    <3>6. R[Len(s) + (k + 1)] = P[Len(s)] + Q[k + 1]
      BY <3>2, <3>3, <3>4, <3>5
    <3> QED
      BY <3>6
  <2> QED
    BY <2>1
<1>7. Nat \subseteq D
  <2> HIDE DEF D
  <2> QED
    BY <1>5, <1>6, NatSetInduction
<1>8. R[Len(s) + Len(t)] = P[Len(s)] + Q[Len(t)]
  BY <1>0, <1>7
<1> QED
  BY <1>0, <1>1, <1>2, <1>3, <1>8 DEF u

\* The sum of one element, and of one more.
LEMMA TotalSingle == ASSUME NEW x \in Nat PROVE Total(<<x>>) = x
<1>1. <<x>> \in Seq(Nat) /\ Len(<<x>>) = 1 /\ <<x>>[1] = x
  OBVIOUS
<1>2. PICK P : PrefixSum(P, <<x>>) /\ Total(<<x>>) = P[Len(<<x>>)]
  BY <1>1, TotalIsPrefixSum
<1>3. P[0] = 0 /\ P[1] = P[0] + <<x>>[1]
  BY <1>1, <1>2 DEF PrefixSum
<1> QED
  BY <1>1, <1>2, <1>3

\* One number more.
LEMMA TotalAppend ==
  ASSUME NEW s \in Seq(Nat), NEW x \in Nat
  PROVE  Total(Append(s, x)) = Total(s) + x
<1>1. Append(s, x) = s \o <<x>> /\ <<x>> \in Seq(Nat)
  OBVIOUS
<1>2. Total(s \o <<x>>) = Total(s) + Total(<<x>>)
  BY <1>1, TotalConcat
<1> QED
  BY <1>1, <1>2, TotalSingle

\* The first elements and the rest.
LEMMA TotalSplit ==
  ASSUME NEW s \in Seq(Nat), NEW k \in 0 .. Len(s)
  PROVE  /\ SubSeq(s, 1, k) \in Seq(Nat) /\ SubSeq(s, k + 1, Len(s)) \in Seq(Nat)
         /\ Total(s) = Total(SubSeq(s, 1, k)) + Total(SubSeq(s, k + 1, Len(s)))
<1>1. SubSeq(s, 1, k) \in Seq(Nat) /\ SubSeq(s, k + 1, Len(s)) \in Seq(Nat)
  OBVIOUS
<1>2. s = SubSeq(s, 1, k) \o SubSeq(s, k + 1, Len(s))
  <2>1. 1 \in 1 .. Len(s) + 1 /\ k \in 1 - 1 .. Len(s) /\ Len(s) \in k .. Len(s)
    OBVIOUS
  <2>2. SubSeq(s, 1, k) \o SubSeq(s, k + 1, Len(s)) = SubSeq(s, 1, Len(s))
    BY <2>1, ConcatAdjacentSubSeq
  <2> QED
    BY <2>2, SubSeqFull
<1> QED
  BY <1>1, <1>2, TotalConcat

\* As many ones add up to as many.
LEMMA TotalOnes ==
  ASSUME NEW s \in Seq(Nat), \A i \in 1 .. Len(s) : s[i] = 1
  PROVE  Total(s) = Len(s)
<1>1. PICK P : PrefixSum(P, s) /\ Total(s) = P[Len(s)]
  BY TotalIsPrefixSum
<1> DEFINE D == {k \in Nat : k <= Len(s) => P[k] = k}
<1>2. 0 \in D
  BY <1>1 DEF PrefixSum
<1>3. ASSUME NEW k \in Nat, k \in D PROVE k + 1 \in D
  <2>1. CASE k + 1 <= Len(s)
    <3>1. k + 1 \in 1 .. Len(s) /\ (k + 1) - 1 = k
      BY <2>1
    <3>2. P[k + 1] = P[(k + 1) - 1] + s[k + 1] /\ s[k + 1] = 1
      BY <1>1, <3>1 DEF PrefixSum
    <3> QED
      BY <1>3, <2>1, <3>1, <3>2
  <2> QED
    BY <2>1
<1>4. Nat \subseteq D
  <2> HIDE DEF D
  <2> QED
    BY <1>2, <1>3, NatSetInduction
<1> QED
  BY <1>1, <1>4

\* As many zeros add up to zero.
LEMMA TotalZeros ==
  ASSUME NEW s \in Seq(Nat), \A i \in 1 .. Len(s) : s[i] = 0
  PROVE  Total(s) = 0
<1>1. PICK P : PrefixSum(P, s) /\ Total(s) = P[Len(s)]
  BY TotalIsPrefixSum
<1> DEFINE D == {k \in Nat : k <= Len(s) => P[k] = 0}
<1>2. 0 \in D
  BY <1>1 DEF PrefixSum
<1>3. ASSUME NEW k \in Nat, k \in D PROVE k + 1 \in D
  <2>1. CASE k + 1 <= Len(s)
    <3>1. k + 1 \in 1 .. Len(s) /\ (k + 1) - 1 = k
      BY <2>1
    <3>2. P[k + 1] = P[(k + 1) - 1] + s[k + 1] /\ s[k + 1] = 0
      BY <1>1, <3>1 DEF PrefixSum
    <3> QED
      BY <1>3, <2>1, <3>1, <3>2
  <2> QED
    BY <2>1
<1>4. Nat \subseteq D
  <2> HIDE DEF D
  <2> QED
    BY <1>2, <1>3, NatSetInduction
<1> QED
  BY <1>1, <1>4

-----------------------------------------------------------------------------
(* Concatenations.                                                           *)

\* F[k] is the concatenation of the first k sequences of q.
Joined(F, q, S) ==
  /\ F \in [0 .. Len(q) -> Seq(S)] /\ F[0] = <<>>
  /\ \A k \in 1 .. Len(q) : F[k] = F[k - 1] \o q[k]

\* Concatenations are sequences over the same set.
LEMMA JoinedType ==
  ASSUME NEW S, NEW q, NEW F, Joined(F, q, S), NEW k \in 0 .. Len(q)
  PROVE  F[k] \in Seq(S)
BY DEF Joined

\* One sequence more.
LEMMA JoinedStep ==
  ASSUME NEW S, NEW q, NEW F, Joined(F, q, S), NEW k \in Nat, k + 1 \in 1 .. Len(q)
  PROVE  F[k + 1] = F[k] \o q[k + 1]
<1>1. F[k + 1] = F[(k + 1) - 1] \o q[k + 1]
  BY DEF Joined
<1>2. (k + 1) - 1 = k
  OBVIOUS
<1> QED
  BY <1>1, <1>2

\* The concatenations one after the other exist.
LEMMA JoinedExists ==
  ASSUME NEW S, NEW q \in Seq(Seq(S))
  PROVE  \E F : Joined(F, q, S)
<1> DEFINE n == Len(q)
           A == Seq(S)
           step == [p \in A \X (1 .. n) |-> p[1] \o q[p[2]]]
<1>1. n \in Nat /\ <<>> \in A /\ \A k \in 1 .. n : q[k] \in A
  OBVIOUS
<1>2. step \in [A \X (1 .. n) -> A]
  <2>1. ASSUME NEW p \in A \X (1 .. n) PROVE p[1] \o q[p[2]] \in A
    <3>1. p[1] \in Seq(S) /\ q[p[2]] \in Seq(S)
      BY <1>1
    <3> QED
      BY <3>1
  <2> QED
    BY <2>1
<1>3. \A x \in A, k \in 1 .. n : step[<<x, k>>] = x \o q[k]
  OBVIOUS
<1>4. PICK f : Iterated(f, n, <<>>, step, A)
  <2> HIDE DEF step, A, n
  <2> QED
    BY <1>1, <1>2, Iteration
<1>5. /\ f \in [0 .. n -> A] /\ f[0] = <<>>
      /\ \A k \in 1 .. n : f[k] = step[<<f[k - 1], k>>]
  <2> HIDE DEF step
  <2> QED
    BY <1>4 DEF Iterated
<1>6. ASSUME NEW k \in 1 .. n PROVE f[k] = f[k - 1] \o q[k]
  <2>1. k - 1 \in 0 .. n
    BY <1>1
  <2>2. f[k - 1] \in A
    BY <1>5, <2>1
  <2> HIDE DEF step
  <2> QED
    BY <1>3, <1>5, <2>2
<1> HIDE DEF step
<1> QED
  BY <1>5, <1>6 DEF Joined

\* FlattenSeq joins all sequences, from the first to the last.
LEMMA FlattenIsJoined ==
  ASSUME NEW S, NEW q \in Seq(Seq(S))
  PROVE  \E F : Joined(F, q, S) /\ FlattenSeq(q) = F[Len(q)]
<1> DEFINE n == Len(q)
<1>1. n \in Nat /\ (n = 0 => q = <<>>) /\ \A k \in 1 .. n : q[k] \in Seq(S)
  OBVIOUS
<1>2. PICK F : Joined(F, q, S)
  BY JoinedExists
<1>3. CASE n = 0
  <2>1. FlattenSeq(q) = q /\ q = <<>>
    BY <1>1, <1>3 DEF FlattenSeq
  <2> QED
    BY <1>2, <1>3, <2>1 DEF Joined
<1>4. CASE n # 0
  <2> DEFINE C == CHOOSE g : g = [i \in 1 .. n |-> IF i = 1 THEN q[i] ELSE g[i - 1] \o q[i]]
             G == [i \in 1 .. n |-> F[i]]
  <2>1. FlattenSeq(q) = C[n]
    BY <1>4 DEF FlattenSeq
  <2>2. \E g : g = [i \in 1 .. n |-> IF i = 1 THEN q[i] ELSE g[i - 1] \o q[i]]
    <3>1. ASSUME NEW i \in 1 .. n PROVE G[i] = IF i = 1 THEN q[i] ELSE G[i - 1] \o q[i]
      <4>1. F[i] = F[i - 1] \o q[i]
        BY <1>2 DEF Joined
      <4>2. CASE i = 1
        <5>1. F[0] = <<>> /\ q[1] \in Seq(S) /\ <<>> \o q[1] = q[1]
          BY <1>1, <1>2, <1>4 DEF Joined
        <5>2. F[1] = F[0] \o q[1]
          <6>1. 1 - 1 = 0
            OBVIOUS
          <6> QED
            BY <4>1, <4>2, <6>1
        <5> QED
          BY <4>2, <5>1, <5>2
      <4>3. CASE i # 1
        <5>1. i - 1 \in 1 .. n
          BY <1>1, <4>3
        <5> QED
          BY <4>1, <4>3, <5>1
      <4> QED
        BY <4>2, <4>3
    <3>2. G = [i \in 1 .. n |-> IF i = 1 THEN q[i] ELSE G[i - 1] \o q[i]]
      BY <3>1
    <3> HIDE DEF G
    <3> QED
      BY <3>2, Zenon
  <2>3. C = [i \in 1 .. n |-> IF i = 1 THEN q[i] ELSE C[i - 1] \o q[i]]
    BY <2>2, Zenon
  <2> HIDE DEF C
  <2> DEFINE D == {k \in Nat : k \in 1 .. n => C[k] = F[k]}
  <2>4. 0 \in D
    OBVIOUS
  <2>5. ASSUME NEW k \in Nat, k \in D PROVE k + 1 \in D
    <3>1. CASE k + 1 \in 1 .. n
      <4>1. F[k + 1] = F[k] \o q[k + 1]
        BY ZenonT(30), <1>2, <3>1, JoinedStep
      <4>2. CASE k = 0
        <5>1. F[0] = <<>> /\ q[1] \in Seq(S) /\ <<>> \o q[1] = q[1] /\ C[1] = q[1]
          BY <1>1, <1>2, <1>4, <2>3 DEF Joined
        <5> QED
          BY <4>1, <4>2, <5>1
      <4>3. CASE k # 0
        <5>1. k \in 1 .. n /\ k + 1 # 1 /\ (k + 1) - 1 = k
          BY <1>1, <3>1, <4>3
        <5>2. C[k + 1] = C[k] \o q[k + 1]
          BY <2>3, <3>1, <5>1
        <5>3. C[k] = F[k]
          BY <2>5, <5>1
        <5>4. C[k + 1] = F[k + 1]
          BY <4>1, <5>2, <5>3
        <5> QED
          BY <5>4
      <4> QED
        BY <4>2, <4>3
    <3> QED
      BY <3>1
  <2>6. Nat \subseteq D
    <3> HIDE DEF D
    <3> QED
      BY <2>4, <2>5, NatSetInduction
  <2>7. n \in 1 .. n
    BY <1>1, <1>4
  <2>8. C[n] = F[n]
    BY <1>1, <2>6, <2>7
  <2> QED
    BY <1>2, <2>1, <2>8
<1> QED
  BY <1>3, <1>4

\* Sequences that agree on their first n members have the same concatenation of them.
LEMMA JoinedAgrees ==
  ASSUME NEW S, NEW q \in Seq(Seq(S)), NEW r \in Seq(Seq(S)), NEW F, NEW G,
         Joined(F, q, S), Joined(G, r, S), NEW n, AgreeUpTo(n, q, r)
  PROVE  F[n] = G[n]
<1> USE DEF AgreeUpTo
<1> DEFINE D == {k \in Nat : k <= n => F[k] = G[k]}
<1>1. 0 \in D
  BY DEF Joined
<1>2. ASSUME NEW k \in Nat, k \in D PROVE k + 1 \in D
  <2>1. CASE k + 1 <= n
    <3>1. k + 1 \in 1 .. n /\ k + 1 \in 1 .. Len(q) /\ k + 1 \in 1 .. Len(r)
      BY <2>1
    <3>2. F[k + 1] = F[k] \o q[k + 1] /\ G[k + 1] = G[k] \o r[k + 1]
      <4>1. F[k + 1] = F[k] \o q[k + 1]
        <5>1. F[k + 1] = F[(k + 1) - 1] \o q[k + 1]
          BY <3>1, Zenon DEF Joined
        <5>2. (k + 1) - 1 = k
          OBVIOUS
        <5> QED
          BY <5>1, <5>2
      <4>2. G[k + 1] = G[k] \o r[k + 1]
        <5>1. G[k + 1] = G[(k + 1) - 1] \o r[k + 1]
          BY <3>1, Zenon DEF Joined
        <5>2. (k + 1) - 1 = k
          OBVIOUS
        <5> QED
          BY <5>1, <5>2
      <4> QED
        BY <4>1, <4>2
    <3>3. F[k] = G[k] /\ q[k + 1] = r[k + 1]
      BY <1>2, <2>1, <3>1
    <3>4. F[k + 1] = G[k + 1]
      BY <3>2, <3>3
    <3> QED
      BY <3>4
  <2> QED
    BY <2>1
<1>3. Nat \subseteq D
  <2> HIDE DEF D
  <2> QED
    BY <1>1, <1>2, NatSetInduction
<1> QED
  BY <1>3

\* So is the concatenation of all.
LEMMA FlattenType ==
  ASSUME NEW S, NEW q \in Seq(Seq(S))
  PROVE  FlattenSeq(q) \in Seq(S)
<1>1. PICK F : Joined(F, q, S) /\ FlattenSeq(q) = F[Len(q)]
  BY FlattenIsJoined
<1>2. Len(q) \in 0 .. Len(q)
  OBVIOUS
<1> QED
  BY <1>1, <1>2, JoinedType

\* Nothing joins to the empty sequence.
LEMMA FlattenEmpty == FlattenSeq(<<>>) = <<>>
BY DEF FlattenSeq

\* The concatenation of a concatenation.
LEMMA FlattenConcat ==
  ASSUME NEW S, NEW q \in Seq(Seq(S)), NEW r \in Seq(Seq(S))
  PROVE  FlattenSeq(q \o r) = FlattenSeq(q) \o FlattenSeq(r)
<1> DEFINE u == q \o r
<1>0. /\ u \in Seq(Seq(S)) /\ Len(u) = Len(q) + Len(r)
      /\ Len(q) \in Nat /\ Len(r) \in Nat /\ Len(u) \in Nat
      /\ \A k \in 1 .. Len(q) : u[k] = q[k]
      /\ \A k \in 1 .. Len(r) : u[Len(q) + k] = r[k]
      /\ \A k \in 1 .. Len(r) : r[k] \in Seq(S)
  OBVIOUS
<1> HIDE DEF u
<1>1. PICK F : Joined(F, q, S) /\ FlattenSeq(q) = F[Len(q)]
  BY FlattenIsJoined
<1>2. PICK G : Joined(G, r, S) /\ FlattenSeq(r) = G[Len(r)]
  BY FlattenIsJoined
<1>3. PICK H : Joined(H, u, S) /\ FlattenSeq(u) = H[Len(u)]
  BY <1>0, FlattenIsJoined
<1>4. H[Len(q)] = F[Len(q)]
  <2>1. AgreeUpTo(Len(q), q, u)
    <3>1. Len(q) <= Len(u)
      BY <1>0
    <3>2. \A k \in 1 .. Len(q) : q[k] = u[k]
      BY <1>0
    <3> QED
      BY <1>0, <3>1, <3>2 DEF AgreeUpTo
  <2> QED
    BY <1>0, <1>1, <1>3, <2>1, JoinedAgrees
<1>5. F[Len(q)] \in Seq(S)
  <2>1. Len(q) \in 0 .. Len(q)
    BY <1>0
  <2> QED
    BY <1>1, <2>1, JoinedType
<1> DEFINE D == {k \in Nat : k <= Len(r) => H[Len(q) + k] = F[Len(q)] \o G[k]}
<1>6. 0 \in D
  <2>1. G[0] = <<>> /\ Len(q) + 0 = Len(q)
    BY <1>0, <1>2 DEF Joined
  <2>2. F[Len(q)] \o <<>> = F[Len(q)]
    BY <1>5
  <2> QED
    BY <1>4, <2>1, <2>2
<1>7. ASSUME NEW k \in Nat, k \in D PROVE k + 1 \in D
  <2>1. CASE k + 1 <= Len(r)
    <3>1. k + 1 \in 1 .. Len(r) /\ Len(q) + (k + 1) \in 1 .. Len(u) /\ k \in 0 .. Len(r)
      BY <1>0, <2>1
    <3>2. H[Len(q) + (k + 1)] = H[Len(q) + k] \o u[Len(q) + (k + 1)]
      <4>1. (Len(q) + (k + 1)) - 1 = Len(q) + k
        BY <1>0
      <4> QED
        BY <1>3, <3>1, <4>1 DEF Joined
    <3>3. G[k + 1] = G[k] \o r[k + 1]
      BY <1>2, <3>1, JoinedStep
    <3>4. G[k] \in Seq(S) /\ r[k + 1] \in Seq(S)
      BY <1>0, <1>2, <3>1, JoinedType
    <3>5. H[Len(q) + k] = F[Len(q)] \o G[k] /\ u[Len(q) + (k + 1)] = r[k + 1]
      <4>1. k <= Len(r)
        BY <1>0, <2>1
      <4> QED
        BY <1>0, <1>7, <3>1, <4>1
    <3>6. (F[Len(q)] \o G[k]) \o r[k + 1] = F[Len(q)] \o (G[k] \o r[k + 1])
      <4>1. \A x, y, z \in Seq(S) : (x \o y) \o z = x \o (y \o z)
        BY SMTT(30), ConcatAssociative
      <4> QED
        BY <1>5, <3>4, <4>1, Zenon
    <3>7. H[Len(q) + (k + 1)] = F[Len(q)] \o G[k + 1]
      BY <3>2, <3>3, <3>5, <3>6
    <3>8. k + 1 \in Nat
      OBVIOUS
    <3> QED
      BY <3>7, <3>8, Zenon
  <2>2. CASE ~(k + 1 <= Len(r))
    <3>1. k + 1 \in Nat
      OBVIOUS
    <3> QED
      BY <2>2, <3>1, Zenon
  <2> HIDE DEF D
  <2> QED
    BY <2>1, <2>2
<1>8. Nat \subseteq D
  <2> HIDE DEF D
  <2> QED
    BY <1>6, <1>7, NatSetInduction
<1>9. H[Len(q) + Len(r)] = F[Len(q)] \o G[Len(r)]
  <2>1. Len(r) \in D /\ Len(r) <= Len(r)
    <3> HIDE DEF D
    <3> QED
      BY <1>0, <1>8
  <2> QED
    BY <2>1, Zenon
<1> QED
  BY <1>0, <1>1, <1>2, <1>3, <1>9 DEF u

\* A single sequence is its own concatenation.
LEMMA FlattenSingle ==
  ASSUME NEW S, NEW s \in Seq(S)
  PROVE  FlattenSeq(<<s>>) = s
<1>1. <<s>> \in Seq(Seq(S)) /\ Len(<<s>>) = 1 /\ <<s>>[1] = s
  OBVIOUS
<1>2. PICK F : Joined(F, <<s>>, S) /\ FlattenSeq(<<s>>) = F[Len(<<s>>)]
  BY <1>1, FlattenIsJoined
<1>3. F[0] = <<>> /\ F[1] = F[0] \o <<s>>[1]
  <2>1. 1 \in 1 .. Len(<<s>>) /\ 1 - 1 = 0
    BY <1>1
  <2>2. F[1] = F[1 - 1] \o <<s>>[1]
    BY <1>2, <2>1, Zenon DEF Joined
  <2> QED
    BY <1>2, <2>1, <2>2 DEF Joined
<1>4. <<>> \o s = s
  OBVIOUS
<1> QED
  BY <1>1, <1>2, <1>3, <1>4

\* One sequence appended.
LEMMA FlattenAppend ==
  ASSUME NEW S, NEW q \in Seq(Seq(S)), NEW s \in Seq(S)
  PROVE  FlattenSeq(Append(q, s)) = FlattenSeq(q) \o s
<1>1. Append(q, s) = q \o <<s>> /\ <<s>> \in Seq(Seq(S))
  BY AppendIsConcat
<1>2. FlattenSeq(q \o <<s>>) = FlattenSeq(q) \o FlattenSeq(<<s>>)
  BY <1>1, FlattenConcat
<1> QED
  BY <1>1, <1>2, FlattenSingle

\* The first sequences and the rest.
LEMMA FlattenSplit ==
  ASSUME NEW S, NEW q \in Seq(Seq(S)), NEW k \in 0 .. Len(q)
  PROVE  /\ SubSeq(q, 1, k) \in Seq(Seq(S)) /\ SubSeq(q, k + 1, Len(q)) \in Seq(Seq(S))
         /\ FlattenSeq(q) = FlattenSeq(SubSeq(q, 1, k)) \o FlattenSeq(SubSeq(q, k + 1, Len(q)))
<1>1. SubSeq(q, 1, k) \in Seq(Seq(S)) /\ SubSeq(q, k + 1, Len(q)) \in Seq(Seq(S))
  OBVIOUS
<1>2. q = SubSeq(q, 1, k) \o SubSeq(q, k + 1, Len(q))
  <2>1. 1 \in 1 .. Len(q) + 1 /\ k \in 1 - 1 .. Len(q) /\ Len(q) \in k .. Len(q)
    OBVIOUS
  <2>2. SubSeq(q, 1, k) \o SubSeq(q, k + 1, Len(q)) = SubSeq(q, 1, Len(q))
    BY <2>1, ConcatAdjacentSubSeq
  <2> QED
    BY <2>2, SubSeqFull
<1> QED
  BY <1>1, <1>2, FlattenConcat

\* The length of a concatenation is the sum of the lengths.
LEMMA FlattenLength ==
  ASSUME NEW S, NEW q \in Seq(Seq(S))
  PROVE  /\ [i \in DOMAIN q |-> Len(q[i])] \in Seq(Nat)
         /\ Len(FlattenSeq(q)) = Total([i \in DOMAIN q |-> Len(q[i])])
<1> DEFINE lens == [i \in DOMAIN q |-> Len(q[i])]
<1>1. /\ Len(q) \in Nat /\ \A k \in 1 .. Len(q) : q[k] \in Seq(S)
      /\ lens = [i \in 1 .. Len(q) |-> Len(q[i])]
  OBVIOUS
<1>2. lens \in Seq(Nat) /\ Len(lens) = Len(q) /\ \A k \in 1 .. Len(q) : lens[k] = Len(q[k])
  BY <1>1
<1> HIDE DEF lens
<1>3. PICK F : Joined(F, q, S) /\ FlattenSeq(q) = F[Len(q)]
  BY FlattenIsJoined
<1>4. PICK P : PrefixSum(P, lens) /\ Total(lens) = P[Len(lens)]
  BY <1>2, TotalIsPrefixSum
<1> DEFINE D == {k \in Nat : k <= Len(q) => Len(F[k]) = P[k]}
<1>5. 0 \in D
  BY <1>3, <1>4 DEF Joined, PrefixSum
<1>6. ASSUME NEW k \in Nat, k \in D PROVE k + 1 \in D
  <2>1. CASE k + 1 <= Len(q)
    <3>1. k + 1 \in 1 .. Len(q) /\ k \in 0 .. Len(q)
      BY <1>1, <2>1
    <3>2. F[k + 1] = F[k] \o q[k + 1] /\ P[k + 1] = P[k] + Len(q[k + 1])
      <4>1. P[k + 1] = P[(k + 1) - 1] + lens[k + 1] /\ (k + 1) - 1 = k
        BY <1>2, <1>4, <3>1 DEF PrefixSum
      <4>2. F[k + 1] = F[k] \o q[k + 1]
        BY <1>3, <3>1, JoinedStep
      <4> QED
        BY <1>2, <3>1, <4>1, <4>2
    <3>3. F[k] \in Seq(S) /\ q[k + 1] \in Seq(S)
      BY <1>1, <1>3, <3>1, JoinedType
    <3>4. Len(F[k + 1]) = Len(F[k]) + Len(q[k + 1])
      BY <3>2, <3>3
    <3>5. Len(F[k]) = P[k]
      BY <1>1, <1>6, <2>1
    <3>6. Len(F[k + 1]) = P[k + 1] /\ k + 1 \in Nat
      BY <3>2, <3>4, <3>5
    <3> QED
      BY <3>6, Zenon
  <2> QED
    BY <2>1
<1>7. Nat \subseteq D
  <2> HIDE DEF D
  <2> QED
    BY <1>5, <1>6, NatSetInduction
<1>8. Len(F[Len(q)]) = P[Len(q)]
  BY <1>1, <1>7
<1> QED
  BY <1>2, <1>3, <1>4, <1>8 DEF lens

\* Whatever joins the sequences one by one computes their concatenation.
LEMMA FlattenUnique ==
  ASSUME NEW S, NEW q \in Seq(Seq(S)), NEW G, Joined(G, q, S)
  PROVE  FlattenSeq(q) = G[Len(q)]
<1>1. PICK F : Joined(F, q, S) /\ FlattenSeq(q) = F[Len(q)]
  BY FlattenIsJoined
<1>2. AgreeUpTo(Len(q), q, q)
  BY DEF AgreeUpTo
<1>3. F[Len(q)] = G[Len(q)]
  BY <1>1, <1>2, JoinedAgrees
<1> QED
  BY <1>1, <1>3

\* The sum of a concatenation of sequences is the sum of their sums.
LEMMA TotalFlatten ==
  ASSUME NEW q \in Seq(Seq(Nat))
  PROVE  /\ [i \in DOMAIN q |-> Total(q[i])] \in Seq(Nat)
         /\ Total(FlattenSeq(q)) = Total([i \in DOMAIN q |-> Total(q[i])])
<1> DEFINE sums == [i \in DOMAIN q |-> Total(q[i])]
<1>1. /\ Len(q) \in Nat /\ \A k \in 1 .. Len(q) : q[k] \in Seq(Nat)
      /\ sums = [i \in 1 .. Len(q) |-> Total(q[i])]
  OBVIOUS
<1>2. \A k \in 1 .. Len(q) : Total(q[k]) \in Nat
  BY <1>1, TotalType
<1>3. sums \in Seq(Nat) /\ Len(sums) = Len(q) /\ \A k \in 1 .. Len(q) : sums[k] = Total(q[k])
  BY <1>1, <1>2
<1> HIDE DEF sums
<1>4. PICK F : Joined(F, q, Nat) /\ FlattenSeq(q) = F[Len(q)]
  BY FlattenIsJoined
<1>5. PICK P : PrefixSum(P, sums) /\ Total(sums) = P[Len(sums)]
  BY <1>3, TotalIsPrefixSum
<1> DEFINE D == {k \in Nat : k <= Len(q) => Total(F[k]) = P[k]}
<1>6. 0 \in D
  BY <1>4, <1>5, TotalEmpty DEF Joined, PrefixSum
<1>7. ASSUME NEW k \in Nat, k \in D PROVE k + 1 \in D
  <2>1. CASE k + 1 <= Len(q)
    <3>1. k + 1 \in 1 .. Len(q) /\ k \in 0 .. Len(q)
      BY <1>1, <2>1
    <3>2. F[k + 1] = F[k] \o q[k + 1] /\ P[k + 1] = P[k] + Total(q[k + 1])
      <4>1. P[k + 1] = P[(k + 1) - 1] + sums[k + 1] /\ (k + 1) - 1 = k
        BY <1>3, <1>5, <3>1 DEF PrefixSum
      <4>2. sums[k + 1] = Total(q[k + 1])
        BY <1>3, <3>1, Zenon
      <4>3. F[k + 1] = F[k] \o q[k + 1]
        <5>1. F[k + 1] = F[(k + 1) - 1] \o q[k + 1]
          BY <1>4, <3>1, Zenon DEF Joined
        <5> QED
          BY <4>1, <5>1
      <4> QED
        BY <4>1, <4>2, <4>3, Zenon
    <3>3. F[k] \in Seq(Nat) /\ q[k + 1] \in Seq(Nat)
      BY <1>1, <1>4, <3>1, JoinedType
    <3>4. Total(F[k + 1]) = Total(F[k]) + Total(q[k + 1])
      BY <3>2, <3>3, TotalConcat
    <3>5. Total(F[k]) = P[k]
      BY <1>1, <1>7, <2>1
    <3>6. Total(F[k + 1]) = P[k + 1] /\ k + 1 \in Nat
      BY <3>2, <3>4, <3>5
    <3> QED
      BY <3>6, Zenon
  <2> QED
    BY <2>1
<1>8. Nat \subseteq D
  <2> HIDE DEF D
  <2> QED
    BY <1>6, <1>7, NatSetInduction
<1>9. Total(F[Len(q)]) = P[Len(q)]
  BY <1>1, <1>8
<1> QED
  BY <1>3, <1>4, <1>5, <1>9 DEF sums

-----------------------------------------------------------------------------
(* The elements that lie in a set.                                           *)

\* What Only joins.
Picks(s, T) == [i \in DOMAIN s |-> IF s[i] \in T THEN <<s[i]>> ELSE <<>>]

Picked(p, s, T, S) ==
  /\ p \in Seq(Seq(S)) /\ Len(p) = Len(s) /\ Len(s) \in Nat
  /\ \A i \in 1 .. Len(s) : s[i] \in T => p[i] = <<s[i]>>
  /\ \A i \in 1 .. Len(s) : s[i] \notin T => p[i] = <<>>

\* One element of the sequence each, or none.
LEMMA PicksType ==
  ASSUME NEW S, NEW s \in Seq(S), NEW T
  PROVE  Picked(Picks(s, T), s, T, S) /\ Picks(s, T) \in Seq(Seq(S \cap T))
<1>1. Len(s) \in Nat /\ DOMAIN s = 1 .. Len(s) /\ \A i \in 1 .. Len(s) : s[i] \in S
  OBVIOUS
<1>2. \A i \in 1 .. Len(s) : (IF s[i] \in T THEN <<s[i]>> ELSE <<>>) \in Seq(S \cap T)
  <2> DEFINE both == S \cap T
  <2> TAKE i \in 1 .. Len(s)
  <2>1. s[i] \in T => s[i] \in both
    BY <1>1
  <2> HIDE DEF both
  <2>2. (IF s[i] \in T THEN <<s[i]>> ELSE <<>>) \in Seq(both)
    BY <2>1
  <2> QED
    BY <2>2 DEF both
<1>3. \A i \in 1 .. Len(s) : (IF s[i] \in T THEN <<s[i]>> ELSE <<>>) \in Seq(S)
  BY <1>1
<1> QED
  BY <1>1, <1>2, <1>3 DEF Picks, Picked

\* They are elements of the sequence, and of the set.
LEMMA OnlyType ==
  ASSUME NEW S, NEW s \in Seq(S), NEW T
  PROVE  Only(s, T) \in Seq(S) /\ Only(s, T) \in Seq(S \cap T)
<1>1. Only(s, T) = FlattenSeq(Picks(s, T))
  BY DEF Only, Picks
<1>2. Picks(s, T) \in Seq(Seq(S)) /\ Picks(s, T) \in Seq(Seq(S \cap T))
  BY PicksType DEF Picked
<1>3. FlattenSeq(Picks(s, T)) \in Seq(S)
  BY <1>2, FlattenType
<1>4. FlattenSeq(Picks(s, T)) \in Seq(S \cap T)
  BY <1>2, FlattenType
<1> QED
  BY <1>1, <1>3, <1>4

\* Those of the first part come before those of the second.
LEMMA OnlyConcat ==
  ASSUME NEW S, NEW s \in Seq(S), NEW t \in Seq(S), NEW T
  PROVE  Only(s \o t, T) = Only(s, T) \o Only(t, T)
<1> DEFINE u == s \o t
           p == Picks(s, T)
           q == Picks(t, T)
           r == Picks(u, T)
<1>1. /\ u \in Seq(S) /\ Len(u) = Len(s) + Len(t) /\ Len(s) \in Nat /\ Len(t) \in Nat
      /\ \A k \in 1 .. Len(s) : u[k] = s[k]
      /\ \A k \in 1 .. Len(t) : u[Len(s) + k] = t[k]
  OBVIOUS
<1>2. /\ p \in Seq(Seq(S)) /\ Len(p) = Len(s)
      /\ \A i \in 1 .. Len(s) : s[i] \in T => p[i] = <<s[i]>>
      /\ \A i \in 1 .. Len(s) : s[i] \notin T => p[i] = <<>>
  <2>1. Picked(p, s, T, S)
    BY PicksType
  <2> HIDE DEF p
  <2> QED
    BY <2>1 DEF Picked
<1>3. /\ q \in Seq(Seq(S)) /\ Len(q) = Len(t)
      /\ \A i \in 1 .. Len(t) : t[i] \in T => q[i] = <<t[i]>>
      /\ \A i \in 1 .. Len(t) : t[i] \notin T => q[i] = <<>>
  <2>1. Picked(q, t, T, S)
    BY PicksType
  <2> HIDE DEF q
  <2> QED
    BY <2>1 DEF Picked
<1> HIDE DEF u
<1>4. /\ r \in Seq(Seq(S)) /\ Len(r) = Len(u)
      /\ \A i \in 1 .. Len(u) : u[i] \in T => r[i] = <<u[i]>>
      /\ \A i \in 1 .. Len(u) : u[i] \notin T => r[i] = <<>>
  <2>1. Picked(r, u, T, S)
    BY <1>1, PicksType
  <2> HIDE DEF r
  <2> QED
    BY <2>1 DEF Picked
<1> HIDE DEF p, q, r
<1> DEFINE w == p \o q
<1>5. /\ w \in Seq(Seq(S)) /\ Len(w) = Len(p) + Len(q)
      /\ \A k \in 1 .. Len(p) : w[k] = p[k]
      /\ \A k \in 1 .. Len(q) : w[Len(p) + k] = q[k]
  <2>1. p \in Seq(Seq(S)) /\ q \in Seq(Seq(S))
    BY <1>2, <1>3
  <2> QED
    BY <2>1
<1> HIDE DEF w
<1>6. \A k \in 1 .. Len(r) : r[k] = w[k]
  <2> TAKE k \in 1 .. Len(r)
  <2>1. CASE k <= Len(s)
    <3>1. k \in 1 .. Len(s) /\ k \in 1 .. Len(u)
      BY <1>1, <1>4, <2>1
    <3>2. r[k] = IF s[k] \in T THEN <<s[k]>> ELSE <<>>
      BY <3>1, <1>1, <1>4
    <3> QED
      BY <3>1, <3>2, <1>2, <1>5
  <2>2. CASE ~(k <= Len(s))
    <3> DEFINE j == k - Len(s)
    <3>1. j \in 1 .. Len(t) /\ k \in 1 .. Len(u) /\ Len(s) + j = k
      BY <1>1, <1>4, <2>2
    <3> HIDE DEF j
    <3>2. u[k] = t[j]
      BY <3>1, <1>1
    <3>3. r[k] = IF t[j] \in T THEN <<t[j]>> ELSE <<>>
      BY <3>1, <3>2, <1>4
    <3>4. w[k] = q[j]
      BY <3>1, <1>2, <1>3, <1>5
    <3> QED
      BY <3>1, <3>3, <3>4, <1>3
  <2> QED
    BY <2>1, <2>2
<1>7. r = w
  BY <1>1, <1>2, <1>3, <1>4, <1>5, <1>6, SeqEqual
<1>8. FlattenSeq(p \o q) = FlattenSeq(p) \o FlattenSeq(q)
  BY <1>2, <1>3, FlattenConcat
<1> QED
  BY <1>7, <1>8 DEF Only, Picks, p, q, r, w, u

\* All of them, when all lie in the set.
LEMMA OnlyAll ==
  ASSUME NEW S, NEW s \in Seq(S), NEW T, \A i \in 1 .. Len(s) : s[i] \in T
  PROVE  Only(s, T) = s
<1> DEFINE q == Picks(s, T)
           G == [k \in 0 .. Len(s) |-> SubSeq(s, 1, k)]
<1>1. /\ q \in Seq(Seq(S)) /\ Len(q) = Len(s) /\ Len(s) \in Nat
      /\ \A i \in 1 .. Len(s) : q[i] = <<s[i]>>
  <2>1. Picked(q, s, T, S)
    BY PicksType
  <2> HIDE DEF q
  <2> QED
    BY <2>1 DEF Picked
<1> HIDE DEF q
<1>2. G \in [0 .. Len(q) -> Seq(S)] /\ G[0] = <<>>
  BY <1>1
<1>3. ASSUME NEW k \in 1 .. Len(s) PROVE G[k] = G[k - 1] \o q[k]
  <2>1. SubSeq(s, 1, k) = SubSeq(s, 1, k - 1) \o <<s[k]>>
    <3>1. 1 \in 1 .. Len(s) /\ k \in 1 .. Len(s)
      BY <1>1
    <3> QED
      BY <3>1, SubSeqRecursiveSecond
  <2>2. q[k] = <<s[k]>>
    BY <1>1
  <2>3. G[k] = SubSeq(s, 1, k) /\ G[k - 1] = SubSeq(s, 1, k - 1)
    BY SMTT(30), <1>1
  <2> QED
    BY <2>1, <2>2, <2>3, Zenon
<1>4. Joined(G, q, S)
  <2> HIDE DEF G
  <2> QED
    BY <1>1, <1>2, <1>3 DEF Joined
<1>5. FlattenSeq(q) = G[Len(q)]
  <2> HIDE DEF G
  <2> QED
    BY <1>1, <1>4, FlattenUnique
<1>6. G[Len(q)] = s
  BY <1>1, SubSeqFull
<1> QED
  BY <1>5, <1>6 DEF Only, Picks, q

\* None, when none does.
LEMMA OnlyNone ==
  ASSUME NEW S, NEW s \in Seq(S), NEW T, \A i \in 1 .. Len(s) : s[i] \notin T
  PROVE  Only(s, T) = <<>>
<1> DEFINE q == Picks(s, T)
           G == [k \in 0 .. Len(s) |-> <<>>]
<1>1. /\ q \in Seq(Seq(S)) /\ Len(q) = Len(s) /\ Len(s) \in Nat
      /\ \A i \in 1 .. Len(s) : q[i] = <<>>
  <2>1. /\ q \in Seq(Seq(S)) /\ Len(q) = Len(s) /\ Len(s) \in Nat
        /\ \A i \in 1 .. Len(s) : s[i] \in T => q[i] = <<s[i]>>
        /\ \A i \in 1 .. Len(s) : s[i] \notin T => q[i] = <<>>
    <3>1. Picked(q, s, T, S)
      BY PicksType
    <3> HIDE DEF q
    <3> QED
      BY <3>1 DEF Picked
  <2> HIDE DEF q
  <2> QED
    BY <2>1
<1> HIDE DEF q
<1>2. <<>> \in Seq(S) /\ <<>> \o <<>> = <<>>
  OBVIOUS
<1>3. Joined(G, q, S)
  <2>1. G \in [0 .. Len(q) -> Seq(S)] /\ G[0] = <<>>
    BY <1>1, <1>2
  <2>2. \A k \in 1 .. Len(q) : G[k] = <<>> /\ G[k - 1] = <<>>
    BY <1>1
  <2>3. \A k \in 1 .. Len(q) : G[k] = G[k - 1] \o q[k]
    BY <1>1, <1>2, <2>2
  <2> HIDE DEF G
  <2> QED
    BY <2>1, <2>3 DEF Joined
<1>4. FlattenSeq(q) = G[Len(q)]
  <2> HIDE DEF G
  <2> QED
    BY <1>1, <1>3, FlattenUnique
<1>5. G[Len(q)] = <<>>
  BY <1>1
<1> QED
  BY <1>4, <1>5 DEF Only, Picks, q

\* They are no more than the sequence has.
LEMMA OnlyShorter ==
  ASSUME NEW S, NEW s \in Seq(S), NEW T
  PROVE  Len(Only(s, T)) \in Nat /\ Len(Only(s, T)) <= Len(s)
<1> DEFINE q == Picks(s, T)
<1>1. /\ q \in Seq(Seq(S)) /\ Len(q) = Len(s) /\ Len(s) \in Nat
      /\ \A i \in 1 .. Len(s) : s[i] \in T => q[i] = <<s[i]>>
      /\ \A i \in 1 .. Len(s) : s[i] \notin T => q[i] = <<>>
  <2>1. Picked(q, s, T, S)
    BY PicksType
  <2> HIDE DEF q
  <2> QED
    BY <2>1 DEF Picked
<1> HIDE DEF q
<1>2. \A i \in 1 .. Len(s) : q[i] \in Seq(S) /\ Len(q[i]) \in 0 .. 1
  <2>1. \A i \in 1 .. Len(s) : q[i] \in Seq(S)
    BY <1>1
  <2>2. \A i \in 1 .. Len(s) : q[i] = <<s[i]>> \/ q[i] = <<>>
    BY <1>1, Zenon
  <2>3. Len(<<>>) \in 0 .. 1 /\ \A i \in 1 .. Len(s) : Len(<<s[i]>>) \in 0 .. 1
    OBVIOUS
  <2>4. \A i \in 1 .. Len(s) : Len(q[i]) \in 0 .. 1
    BY <2>2, <2>3, Zenon
  <2> QED
    BY <2>1, <2>4
<1>3. PICK F : Joined(F, q, S) /\ FlattenSeq(q) = F[Len(q)]
  BY <1>1, FlattenIsJoined
<1> DEFINE D == {k \in Nat : k <= Len(s) => Len(F[k]) \in Nat /\ Len(F[k]) <= k}
<1>4. 0 \in D
  <2>1. F[0] = <<>> /\ Len(<<>>) = 0
    BY <1>3 DEF Joined
  <2> QED
    BY <2>1
<1>5. ASSUME NEW k \in Nat, k \in D PROVE k + 1 \in D
  <2>1. CASE k + 1 <= Len(s)
    <3>1. k + 1 \in 1 .. Len(q) /\ k \in 0 .. Len(q) /\ k <= Len(s)
      BY <1>1, <2>1
    <3>2. F[k + 1] = F[k] \o q[k + 1]
      BY <1>3, <3>1, JoinedStep
    <3>3. F[k] \in Seq(S) /\ q[k + 1] \in Seq(S) /\ Len(q[k + 1]) \in 0 .. 1
      BY <1>1, <1>2, <1>3, <3>1, JoinedType
    <3>4. Len(F[k + 1]) = Len(F[k]) + Len(q[k + 1])
      BY <3>2, <3>3
    <3>5. Len(F[k]) \in Nat /\ Len(F[k]) <= k
      BY <1>5, <3>1
    <3>6. Len(F[k + 1]) \in Nat /\ Len(F[k + 1]) <= k + 1 /\ k + 1 \in Nat
      <4> DEFINE a == Len(F[k])
                 b == Len(q[k + 1])
      <4>1. a \in Nat /\ a <= k /\ b \in 0 .. 1 /\ Len(F[k + 1]) = a + b
        BY <3>3, <3>4, <3>5
      <4> HIDE DEF a, b
      <4> QED
        BY <4>1
    <3> QED
      BY <3>6, Zenon
  <2> QED
    BY <2>1
<1>6. Nat \subseteq D
  <2> HIDE DEF D
  <2> QED
    BY <1>4, <1>5, NatSetInduction
<1>7. Len(F[Len(s)]) \in Nat /\ Len(F[Len(s)]) <= Len(s)
  BY <1>1, <1>6
<1>8. Only(s, T) = F[Len(s)]
  BY <1>1, <1>3 DEF Only, Picks, q
<1> QED
  BY <1>7, <1>8

\* One element, or none.
LEMMA OnlySingle ==
  ASSUME NEW x, NEW T
  PROVE  Only(<<x>>, T) = IF x \in T THEN <<x>> ELSE <<>>
<1>1. <<x>> \in Seq({x}) /\ Len(<<x>>) = 1 /\ <<x>>[1] = x
  OBVIOUS
<1>2. \A i \in 1 .. Len(<<x>>) : <<x>>[i] = x
  BY <1>1
<1> DEFINE s == <<x>>
<1> HIDE DEF s
<1>3. CASE x \in T
  <2>1. \A i \in 1 .. Len(s) : s[i] \in T
    BY <1>2, <1>3 DEF s
  <2>2. Only(s, T) = s
    BY <1>1, <2>1, OnlyAll DEF s
  <2> QED
    BY <1>3, <2>2 DEF s
<1>4. CASE x \notin T
  <2>1. \A i \in 1 .. Len(s) : s[i] \notin T
    BY <1>2, <1>4 DEF s
  <2>2. Only(s, T) = <<>>
    BY <1>1, <2>1, OnlyNone DEF s
  <2> QED
    BY <1>4, <2>2 DEF s
<1> QED
  BY <1>3, <1>4
=============================================================================
