------------------------ MODULE WasapiPlaybackProofs ------------------------
(* Theorems about WasapiPlayback: any queue, buffer and lead, frames of any  *)
(* size, any number of samples and of flushes.                               *)
EXTENDS WasapiPlayback, SequenceLemmas, FiniteSetTheorems

-----------------------------------------------------------------------------
(* The invariant.                                                            *)

\* n samples, those accepted after sample a.
Run(a, n) == [i \in 1 .. n |-> a + i]

\* The queue holds what was accepted last, and nothing from before a flush.
QueueInv ==
  /\ accepted \in 0 .. MaxSamples /\ asked \in 0 .. accepted /\ answered \in 0 .. asked
  /\ queue \in Seq(Seq(1 .. accepted)) /\ Len(queue) <= QueueCap
  /\ cursor = 0 \/ (queue # <<>> /\ cursor \in 1 .. Len(queue[1]) - 1)
  /\ Queued \in 0 .. accepted - asked
  /\ Samples = Run(accepted - Queued, Queued)

\* Samples in flight, none newer than top: while a flush is unanswered all are
\* older than it, after its answer all are younger.
Age(s, flushed, open) == IF open THEN s <= flushed ELSE s = 0 \/ s > flushed
Flies(s, top, flushed, open) ==
  s \in Seq(0 .. top) /\ \A i \in 1 .. Len(s) : Age(s[i], flushed, open)

FlightInv ==
  /\ Flies(buffer, accepted - Queued, asked, requested)
  /\ Flies(chunk, accepted - Queued, asked, requested)
  /\ worker # "release" => chunk = <<>>

\* A flush is answered by a worker that holds nothing.
FlushInv ==
  /\ call \in {"idle", "flushing", "closing", "closed"}
  /\ worker \in {"top", "reset", "rezero", "answer", "padding", "clock", "measure", "fill",
                 "release", "exited"}
  /\ requested \in BOOLEAN /\ stop \in BOOLEAN /\ lost \in BOOLEAN
  /\ worker \in {"reset", "rezero", "answer"} => requested
  /\ worker \in {"rezero", "answer"} => buffer = <<>> /\ tracker = NewTracker /\ since = 0

\* What the worker found in a turn holds until it releases the buffer, unless a
\* flush comes in between.
TurnInv ==
  /\ padding \in 0 .. BufferSize /\ take \in [frames : 0 .. BufferSize, data : BOOLEAN]
  /\ Len(buffer) <= BufferSize
  /\ worker \in {"clock", "measure", "fill", "release"} => Len(buffer) <= padding
  /\ worker \in {"fill", "release"} =>
       /\ take.frames \in 1 .. BufferSize - padding
       /\ ~take.data => padding + take.frames <= Lead
  /\ worker = "fill" /\ take.data /\ ~requested => take.frames <= Queued
  /\ worker = "release" =>
       /\ Len(chunk) = take.frames
       /\ ~requested => \A i \in 1 .. Len(chunk) : chunk[i] # 0 <=> take.data

Stretch == [frames : Nat, data : BOOLEAN]
Tracker == [released : Seq(Stretch), before : Nat]

\* What the tracker says of each sample it holds: 1, one of the caller's; 0, silence.
Kind(stretch) == [j \in 1 .. stretch.frames |-> IF stretch.data THEN 1 ELSE 0]
KindList(released) == [i \in DOMAIN released |-> Kind(released[i])]
Kinds(released) == FlattenSeq(KindList(released))

\* The tracker is right about what endpoint b still holds and about how many of
\* the caller's samples were heard.
Tracks(t, b, n) ==
  LET k == Kinds(t.released)
      gone == Len(k) - Len(b)
  IN /\ \A i \in 1 .. Len(b) : b[i] # 0 <=> k[gone + i] = 1
     /\ n = t.before + Total(SubSeq(k, 1, gone))

\* It is, but for a turn that a flush has overtaken and whose end is a reset.
TrackerInv ==
  /\ tracker \in Tracker /\ since \in Nat /\ played \in Nat
  /\ Len(buffer) <= Unplayed(tracker)
  /\ (requested /\ worker \in {"top", "reset", "exited"}) \/ Tracks(tracker, buffer, since)
  /\ worker # "rezero" => played <= since

IInv ==
  QueueInv /\ FlightInv /\ FlushInv /\ TurnInv /\ TrackerInv /\ LeadBounded

-----------------------------------------------------------------------------
(* Runs of samples.                                                          *)

\* A run is a sequence of the samples it is named for.
LEMMA RunTyped ==
  ASSUME NEW a \in Nat, NEW n \in Nat
  PROVE  /\ Run(a, n) \in Seq(1 .. a + n) /\ Run(a, n) \in Seq(Nat) /\ Len(Run(a, n)) = n
         /\ \A i \in 1 .. n : Run(a, n)[i] = a + i
BY DEF Run

\* Two runs, one after the other.
LEMMA RunJoined ==
  ASSUME NEW a \in Nat, NEW m \in Nat, NEW n \in Nat
  PROVE  Run(a, m) \o Run(a + m, n) = Run(a, m + n)
<1> DEFINE r == Run(a, m) \o Run(a + m, n)
           s == Run(a, m + n)
<1>1. r \in Seq(Nat) /\ s \in Seq(Nat) /\ Len(r) = m + n /\ Len(s) = m + n
  <2>1. a + m \in Nat /\ m + n \in Nat
    OBVIOUS
  <2>2. /\ Run(a, m) \in Seq(Nat) /\ Run(a + m, n) \in Seq(Nat) /\ Run(a, m + n) \in Seq(Nat)
        /\ Len(Run(a, m)) = m /\ Len(Run(a + m, n)) = n /\ Len(Run(a, m + n)) = m + n
    BY <2>1, RunTyped
  <2>3. \A x, y \in Seq(Nat) : x \o y \in Seq(Nat) /\ Len(x \o y) = Len(x) + Len(y)
    OBVIOUS
  <2> QED
    BY <2>2, <2>3
<1>2. \A i \in 1 .. m + n : r[i] = a + i /\ s[i] = a + i
  BY DEF Run
<1> HIDE DEF r, s
<1>3. r = s
  BY <1>1, <1>2, SeqEqual
<1> QED
  BY <1>3 DEF r, s

\* The first k samples of a run, and the others.
LEMMA RunParted ==
  ASSUME NEW a \in Nat, NEW n \in Nat, NEW k \in 0 .. n
  PROVE  SubSeq(Run(a, n), 1, k) = Run(a, k) /\ SubSeq(Run(a, n), k + 1, n) = Run(a + k, n - k)
<1>1. Len(Run(a, n)) = n /\ Run(a, n) \in Seq(Nat) /\ \A i \in 1 .. n : Run(a, n)[i] = a + i
  BY RunTyped
<1>2. /\ Run(a, k) \in Seq(Nat) /\ Len(Run(a, k)) = k
      /\ \A i \in 1 .. k : Run(a, k)[i] = a + i
  BY RunTyped
<1>3. n - k \in Nat /\ a + k \in Nat
  OBVIOUS
<1>4. /\ Run(a + k, n - k) \in Seq(Nat) /\ Len(Run(a + k, n - k)) = n - k
      /\ \A i \in 1 .. n - k : Run(a + k, n - k)[i] = (a + k) + i
  BY <1>3, RunTyped
<1> DEFINE r == Run(a, n)
           first == SubSeq(r, 1, k)
           rest == SubSeq(r, k + 1, n)
<1> HIDE DEF r
<1>5. /\ first \in Seq(Nat) /\ Len(first) = k /\ \A i \in 1 .. k : first[i] = r[i]
      /\ rest \in Seq(Nat) /\ Len(rest) = n - k /\ \A i \in 1 .. n - k : rest[i] = r[k + i]
  BY <1>1 DEF r
<1> HIDE DEF first, rest
<1>6. first = Run(a, k)
  <2>1. \A i \in 1 .. k : first[i] = Run(a, k)[i]
    BY <1>1, <1>2, <1>5 DEF r
  <2> QED
    BY <1>2, <1>5, <2>1, SeqEqual
<1>7. rest = Run(a + k, n - k)
  <2>1. \A i \in 1 .. n - k : rest[i] = Run(a + k, n - k)[i]
    BY <1>1, <1>4, <1>5 DEF r
  <2> QED
    BY <1>4, <1>5, <2>1, SeqEqual
<1> QED
  BY <1>6, <1>7 DEF first, rest, r
-----------------------------------------------------------------------------
(* The queue.                                                                *)

\* What is queued, in samples and in number.
LEMMA QueueTyped ==
  ASSUME QueueInv
  PROVE  /\ queue \in Seq(Seq(Nat)) /\ FlattenSeq(queue) \in Seq(Nat)
         /\ cursor \in Nat /\ cursor + Queued = Len(FlattenSeq(queue))
         /\ Queued \in Nat /\ Samples \in Seq(Nat) /\ Len(Samples) = Queued
         /\ accepted \in Nat /\ asked \in Nat /\ accepted - Queued \in Nat
<1>1. queue \in Seq(Seq(Nat)) /\ Len(queue) \in Nat
  <2>1. 1 .. accepted \subseteq Nat
    BY DEF QueueInv
  <2>2. Seq(1 .. accepted) \subseteq Seq(Nat)
    BY <2>1, SeqMonotonic
  <2> QED
    BY <2>2, SeqMonotonic DEF QueueInv
<1>2. cursor \in Nat
  BY DEF QueueInv
<1>3. FlattenSeq(queue) \in Seq(Nat)
  BY <1>1, FlattenType
<1>4. Len(FlattenSeq(queue)) = Total([i \in DOMAIN queue |-> Len(queue[i])])
  BY <1>1, FlattenLength
<1>5. Queued \in Nat /\ accepted \in Nat /\ asked \in Nat /\ accepted - Queued \in Nat
  BY DEF QueueInv
<1>6. cursor + Queued = Len(FlattenSeq(queue))
  <2> DEFINE len == Len(FlattenSeq(queue))
  <2>1. len \in Nat /\ Queued = len - cursor
    BY <1>3, <1>4 DEF Queued
  <2> HIDE DEF len
  <2>2. cursor + Queued = len
    BY <1>2, <1>5, <2>1
  <2> QED
    BY <2>2 DEF len
<1>7. Samples \in Seq(Nat) /\ Len(Samples) = Queued
  BY <1>5, RunTyped DEF QueueInv
<1> QED
  BY <1>1, <1>2, <1>3, <1>5, <1>6, <1>7

\* What is appended to a sequence is appended to its later part as well.
LEMMA LaterPart ==
  ASSUME NEW s \in Seq(Nat), NEW t \in Seq(Nat), NEW c \in 0 .. Len(s)
  PROVE  SubSeq(s \o t, c + 1, Len(s \o t)) = SubSeq(s, c + 1, Len(s)) \o t
<1> DEFINE u == s \o t
           m == Len(s)
           n == Len(t)
           p == SubSeq(u, c + 1, Len(u))
           l == SubSeq(s, c + 1, Len(s))
           q == l \o t
<1>1. /\ m \in Nat /\ n \in Nat /\ u \in Seq(Nat) /\ Len(u) = m + n
      /\ \A i \in 1 .. m : u[i] = s[i]
      /\ \A i \in 1 .. n : u[m + i] = t[i]
  OBVIOUS
<1>2. l \in Seq(Nat) /\ Len(l) = m - c /\ \A i \in 1 .. m - c : l[i] = s[c + i]
  BY SMTT(30)
<1> HIDE DEF l
<1>3. /\ q \in Seq(Nat) /\ Len(q) = (m - c) + n
      /\ \A i \in 1 .. m - c : q[i] = l[i]
      /\ \A i \in 1 .. n : q[(m - c) + i] = t[i]
  <2>1. t \in Seq(Nat) /\ Len(t) = n /\ Len(l) \in Nat
    BY <1>2
  <2>2. \A x \in Seq(Nat) :
          /\ x \o t \in Seq(Nat) /\ Len(x \o t) = Len(x) + Len(t)
          /\ \A i \in 1 .. Len(x) : (x \o t)[i] = x[i]
          /\ \A i \in 1 .. Len(t) : (x \o t)[Len(x) + i] = t[i]
    OBVIOUS
  <2> HIDE DEF m, n, q
  <2>3. /\ q \in Seq(Nat) /\ Len(q) = Len(l) + n
        /\ \A i \in 1 .. Len(l) : q[i] = l[i]
        /\ \A i \in 1 .. n : q[Len(l) + i] = t[i]
    BY <1>2, <2>1, <2>2, Zenon DEF q
  <2> QED
    BY <1>2, <2>3, Zenon
<1> HIDE DEF u, q
<1>4. /\ p \in Seq(Nat) /\ Len(p) = (m + n) - c /\ \A i \in 1 .. (m + n) - c : p[i] = u[c + i]
  <2>1. c \in 0 .. m
    OBVIOUS
  <2> HIDE DEF m, n
  <2> QED
    BY SMTT(30), <1>1, <2>1
<1>5. c \in 0 .. m
  OBVIOUS
<1> HIDE DEF p, m, n
<1>6. ASSUME NEW i \in 1 .. (m + n) - c PROVE p[i] = q[i]
  <2>1. CASE i <= m - c
    <3>1. i \in 1 .. m - c /\ c + i \in 1 .. m
      BY <1>1, <1>5, <2>1
    <3> QED
      BY <1>1, <1>2, <1>3, <1>4, <3>1
  <2>2. CASE ~(i <= m - c)
    <3>1. PICK j \in 1 .. n : i = (m - c) + j /\ c + i = m + j
      <4>1. i - (m - c) \in 1 .. n /\ i = (m - c) + (i - (m - c)) /\ c + i = m + (i - (m - c))
        BY <1>1, <1>5, <2>2
      <4> QED
        BY <4>1, Zenon
    <3>2. q[i] = t[j] /\ p[i] = t[j]
      BY <1>1, <1>3, <1>4, <3>1
    <3> QED
      BY <3>2
  <2> QED
    BY <2>1, <2>2
<1>7. (m + n) - c = (m - c) + n
  BY <1>1, <1>5
<1>8. p = q
  BY <1>3, <1>4, <1>6, <1>7, SeqEqual
<1> QED
  BY <1>8 DEF p, q, u, l

\* A frame that is accepted joins the queue as it is.
LEMMA WriteQueued ==
  ASSUME QueueInv, NEW n \in Nat, Write(n)
  PROVE  /\ queue' \in Seq(Seq(1 .. accepted'))
         /\ Queued' = Queued + n /\ Samples' = Samples \o Run(accepted, n)
<1>1. /\ queue' = Append(queue, Run(accepted, n)) /\ accepted' = accepted + n
      /\ cursor' = cursor
  BY DEF Write, Run
<1>2. /\ accepted \in Nat /\ cursor \in 0 .. Len(FlattenSeq(queue))
      /\ queue \in Seq(Seq(Nat)) /\ FlattenSeq(queue) \in Seq(Nat)
      /\ cursor + Queued = Len(FlattenSeq(queue)) /\ Queued \in Nat
  BY QueueTyped
<1>3. /\ Run(accepted, n) \in Seq(1 .. accepted') /\ Run(accepted, n) \in Seq(Nat)
      /\ Len(Run(accepted, n)) = n
  BY <1>1, <1>2, RunTyped
<1>4. queue' \in Seq(Seq(1 .. accepted'))
  <2>1. 1 .. accepted \subseteq 1 .. accepted'
    BY <1>1, <1>2
  <2>2. Seq(1 .. accepted) \subseteq Seq(1 .. accepted')
    BY <2>1, SeqMonotonic
  <2>3. queue \in Seq(Seq(1 .. accepted'))
    BY <2>2, SeqMonotonic DEF QueueInv
  <2> QED
    BY <1>1, <1>3, <2>3, AppendProperties
<1> DEFINE all == FlattenSeq(queue)
           run == Run(accepted, n)
<1>5. FlattenSeq(queue') = all \o run
  BY <1>1, <1>2, <1>3, FlattenAppend
<1>6. Samples' = Samples \o run
  <2>1. SubSeq(all \o run, cursor + 1, Len(all \o run))
          = SubSeq(all, cursor + 1, Len(all)) \o run
    BY <1>2, <1>3, LaterPart
  <2>2. Samples' = SubSeq(FlattenSeq(queue'), cursor' + 1, Len(FlattenSeq(queue')))
    BY DEF Samples
  <2> HIDE DEF run
  <2> QED
    BY <1>1, <1>5, <2>1, <2>2 DEF Samples
<1>7. Queued' = Queued + n
  <2>1. queue' \in Seq(Seq(Nat))
    BY <1>1, <1>2, <1>3, AppendProperties
  <2>2. Len(FlattenSeq(queue')) = Total([i \in DOMAIN queue' |-> Len(queue'[i])])
    BY <2>1, FlattenLength
  <2>3. Queued' = Len(FlattenSeq(queue')) - cursor
    BY <1>1, <2>2 DEF Queued
  <2>4. all \in Seq(Nat) /\ run \in Seq(Nat) /\ Len(run) = n /\ cursor + Queued = Len(all)
    BY <1>2, <1>3
  <2>5. cursor \in Nat /\ Queued \in Nat
    BY <1>2
  <2> HIDE DEF all, run
  <2>6. Len(all \o run) = Len(all) + n
    BY SMTT(30), <2>4
  <2>7. Queued' = (Len(all) + n) - cursor
    BY <1>5, <2>3, <2>6
  <2>8. \A c, k, l \in Nat : c + k = l => (l + n) - c = k + n
    OBVIOUS
  <2>9. Len(all) \in Nat
    BY <2>4
  <2> QED
    BY <2>4, <2>5, <2>7, <2>8, <2>9, Zenon
<1> QED
  BY <1>4, <1>6, <1>7

\* The samples in the first k frames of the queue.
LEMMA EndsTyped ==
  ASSUME QueueInv, NEW k \in 0 .. Len(queue)
  PROVE  /\ Ends(k) \in Nat /\ SubSeq(queue, 1, k) \in Seq(Seq(Nat))
         /\ Ends(k) = Len(FlattenSeq(SubSeq(queue, 1, k)))
<1> DEFINE h == SubSeq(queue, 1, k)
<1>1. queue \in Seq(Seq(Nat)) /\ Len(queue) \in Nat
  BY QueueTyped
<1>2. h \in Seq(Seq(Nat)) /\ DOMAIN h = 1 .. k /\ \A i \in 1 .. k : h[i] = queue[i]
  BY <1>1
<1> HIDE DEF h
<1>3. [i \in DOMAIN h |-> Len(h[i])] = [i \in 1 .. k |-> Len(queue[i])]
  BY <1>2
<1>4. FlattenSeq(h) \in Seq(Nat) /\ Len(FlattenSeq(h)) = Total([i \in DOMAIN h |-> Len(h[i])])
  BY <1>2, FlattenLength, FlattenType
<1>5. Ends(k) = Len(FlattenSeq(h)) /\ Len(FlattenSeq(h)) \in Nat
  BY SMTT(30), <1>3, <1>4 DEF Ends
<1> QED
  BY <1>2, <1>5 DEF h

\* One frame more.
LEMMA EndsStep ==
  ASSUME QueueInv, NEW k \in 1 .. Len(queue)
  PROVE  /\ Ends(k - 1) \in Nat /\ Ends(k) \in Nat /\ Len(queue[k]) \in Nat
         /\ Ends(k) = Ends(k - 1) + Len(queue[k])
<1> DEFINE e == [i \in 1 .. k |-> Len(queue[i])]
           d == [i \in 1 .. k - 1 |-> Len(queue[i])]
           x == Len(queue[k])
<1>1. Len(queue) \in Nat /\ \A i \in 1 .. Len(queue) : Len(queue[i]) \in Nat
  <2>1. queue \in Seq(Seq(Nat))
    BY QueueTyped
  <2> QED
    BY <2>1
<1>2. /\ e \in Seq(Nat) /\ d \in Seq(Nat) /\ x \in Nat /\ Len(e) = k /\ Len(d) = k - 1
      /\ e[k] = x /\ \A i \in 1 .. k - 1 : e[i] = d[i]
  BY <1>1
<1> HIDE DEF e, d, x
<1>3. e = Append(d, x)
  <2>1. Append(d, x) \in Seq(Nat) /\ Len(Append(d, x)) = k
    BY <1>2
  <2>2. \A i \in 1 .. k : e[i] = Append(d, x)[i]
    BY <1>2
  <2> QED
    BY <1>2, <2>1, <2>2, SeqEqual
<1>4. Total(e) = Total(d) + x
  BY <1>2, <1>3, TotalAppend
<1>5. k \in 0 .. Len(queue) /\ k - 1 \in 0 .. Len(queue)
  BY <1>1
<1>6. Ends(k - 1) \in Nat /\ Ends(k) \in Nat
  BY <1>5, EndsTyped
<1>7. Ends(k) = Total(e) /\ Ends(k - 1) = Total(d)
  BY DEF Ends, e, d
<1> QED
  BY <1>2, <1>4, <1>6, <1>7 DEF x

\* Frames end in their order.
LEMMA EndsMonotone ==
  ASSUME QueueInv, NEW j \in 0 .. Len(queue), NEW k \in j .. Len(queue)
  PROVE  Ends(j) <= Ends(k)
<1>1. Len(queue) \in Nat
  <2>1. queue \in Seq(Seq(Nat))
    BY QueueTyped
  <2> QED
    BY <2>1
<1>2. Ends(j) \in Nat
  BY EndsTyped
<1> DEFINE D == {i \in Nat : j + i <= Len(queue) => Ends(j) <= Ends(j + i)}
<1>3. 0 \in D
  BY <1>2
<1>4. ASSUME NEW i \in Nat, i \in D PROVE i + 1 \in D
  <2>1. CASE j + (i + 1) <= Len(queue)
    <3>1. j + (i + 1) \in 1 .. Len(queue) /\ (j + (i + 1)) - 1 = j + i
      BY <1>1, <2>1
    <3>2. /\ Ends((j + (i + 1)) - 1) \in Nat /\ Ends(j + (i + 1)) \in Nat
          /\ Len(queue[j + (i + 1)]) \in Nat
          /\ Ends(j + (i + 1)) = Ends((j + (i + 1)) - 1) + Len(queue[j + (i + 1)])
      BY <3>1, EndsStep
    <3>3. Ends(j) <= Ends(j + i)
      BY <1>1, <1>4, <2>1
    <3> DEFINE a == Ends(j)
               b == Ends(j + i)
               c == Ends(j + (i + 1))
               x == Len(queue[j + (i + 1)])
    <3>4. a \in Nat /\ b \in Nat /\ c \in Nat /\ x \in Nat /\ c = b + x /\ a <= b
      BY <1>2, <3>1, <3>2, <3>3
    <3> HIDE DEF a, b, c, x
    <3>5. a <= c
      BY <3>4
    <3> QED
      BY <3>5 DEF a, c
  <2> QED
    BY <2>1
<1>5. Nat \subseteq D
  <2> HIDE DEF D
  <2> QED
    BY <1>3, <1>4, NatSetInduction
<1>6. k - j \in Nat /\ j + (k - j) = k
  BY <1>1
<1> QED
  BY <1>1, <1>5, <1>6

\* The frames that end with the n samples taken are the first ones; the next,
\* if there is one, begins with the samples that are left or goes on with them.
LEMMA PoppedFirst ==
  ASSUME QueueInv, NEW n \in Nat, n > 0, n = take.frames, n <= Queued
  PROVE  LET p == Popped(n) IN
         /\ p \in 0 .. Len(queue) /\ Ends(p) <= cursor + n
         /\ p = Len(queue) => Ends(p) = cursor + n
         /\ p # Len(queue) => Ends(p) = cursor + n \/ Ends(p + 1) > cursor + n
<1> DEFINE all == {k \in DOMAIN queue :
                     Ends(k) <= cursor + n /\ (Ends(k - 1) < cursor + n \/ n < take.frames)}
           F == {k \in Nat : k > 0 /\ k \notin all}
           m == Len(queue)
<1>1. /\ queue \in Seq(Seq(Nat)) /\ m \in Nat /\ DOMAIN queue = 1 .. m
      /\ cursor \in Nat /\ Queued \in Nat /\ cursor + Queued = Len(FlattenSeq(queue))
  BY QueueTyped
<1>2. \A k \in Nat : k \in all <=>
        k \in 1 .. m /\ Ends(k) <= cursor + n /\ Ends(k - 1) < cursor + n
  BY <1>1
<1>3. PICK f \in F : \A k \in F : f <= k
  <2>1. m + 1 \in F
    BY <1>1, <1>2
  <2>2. F \subseteq Nat /\ F # {}
    BY <2>1
  <2> HIDE DEF F
  <2> QED
    BY <2>2, LeastMember
<1> DEFINE p == f - 1
<1>4. p \in 0 .. m /\ f \in Nat /\ f > 0 /\ f \notin all
  <2>1. m + 1 \in F
    BY <1>1, <1>2
  <2> QED
    BY <1>1, <1>3, <2>1
<1>5. \A k \in Nat \ {0} : k <= p => k \in all
  BY <1>3, <1>4
<1>6. \A k \in all : k <= p
  <2> SUFFICES ASSUME NEW k \in all, k > p PROVE FALSE
    BY <1>1, <1>4
  <2>1. k \in 1 .. m /\ Ends(k) <= cursor + n /\ Ends(k - 1) < cursor + n
    BY <1>1, <1>2
  <2>2. f \in 1 .. m /\ f <= k
    BY <1>1, <1>4, <2>1
  <2>3. Ends(f) <= Ends(k) /\ Ends(f - 1) <= Ends(k - 1)
    <3>1. f \in 0 .. m /\ k \in f .. m /\ f - 1 \in 0 .. m /\ k - 1 \in f - 1 .. m
      BY SMTT(30), <1>1, <2>1, <2>2
    <3> QED
      BY <3>1, EndsMonotone
  <2>4. Ends(f) \in Nat /\ Ends(f - 1) \in Nat /\ Ends(k) \in Nat /\ Ends(k - 1) \in Nat
    BY <2>1, <2>2, EndsStep
  <2>5. Ends(f) <= cursor + n /\ Ends(f - 1) < cursor + n
    <3> DEFINE a == Ends(f)
               b == Ends(k)
               c == Ends(f - 1)
               d == Ends(k - 1)
               e == cursor + n
    <3>1. /\ a \in Nat /\ b \in Nat /\ c \in Nat /\ d \in Nat /\ e \in Nat
          /\ a <= b /\ b <= e /\ c <= d /\ d < e
      <4>1. e \in Nat
        BY SMTT(30), <1>1
      <4>2. a <= b /\ c <= d
        BY <2>3
      <4>3. b <= e /\ d < e
        BY <2>1
      <4> QED
        BY <2>4, <4>1, <4>2, <4>3
    <3> HIDE DEF a, b, c, d, e
    <3>2. a <= e /\ c < e
      BY <3>1
    <3> QED
      BY <3>2 DEF a, c, e
  <2> HIDE DEF all
  <2> QED
    BY <1>2, <1>4, <2>2, <2>5
<1>7. all = 1 .. p
  <2>1. all \subseteq Nat \ {0}
    BY <1>1
  <2>2. p \in Nat
    BY <1>4
  <2> HIDE DEF all, p
  <2>3. \A k : k \in all => k \in 1 .. p
    BY <1>6, <2>1, <2>2
  <2>4. \A k : k \in 1 .. p => k \in all
    BY <1>5, <2>2
  <2> QED
    BY <2>3, <2>4, Zenon
<1>8. Popped(n) = p
  <2>1. Cardinality(1 .. p) = p
    BY <1>4, FS_Interval
  <2> QED
    BY <1>7, <2>1 DEF Popped
<1>9. Ends(p) \in Nat /\ Ends(p) <= cursor + n
  <2>1. Ends(p) \in Nat
    BY <1>4, EndsTyped
  <2>2. CASE p = 0
    <3>1. Ends(0) = 0
      <4>1. [i \in 1 .. 0 |-> Len(queue[i])] = <<>>
        OBVIOUS
      <4> QED
        BY <4>1, TotalEmpty DEF Ends
    <3> QED
      BY <1>1, <2>2, <3>1
  <2>3. CASE p # 0
    <3>1. p \in Nat \ {0} /\ p <= p
      BY <1>4, <2>3
    <3> HIDE DEF all, p
    <3>2. p \in all /\ p \in Nat
      BY <1>5, <3>1, Zenon
    <3> QED
      BY <1>2, <2>1, <3>2, Zenon
  <2> QED
    BY <2>1, <2>2, <2>3
<1>10. CASE p = m
  <2>1. Ends(m) = cursor + Queued
    <3>1. m \in 0 .. Len(queue) /\ SubSeq(queue, 1, m) = queue
      BY <1>1, SubSeqFull
    <3> QED
      BY <1>1, <3>1, EndsTyped
  <2>2. Ends(p) = cursor + n
    <3>1. cursor + Queued <= cursor + n
      BY <1>9, <1>10, <2>1
    <3> HIDE DEF p, m
    <3>2. Queued = n
      BY <1>1, <3>1
    <3> QED
      BY <1>10, <2>1, <3>2
  <2> QED
    BY <1>4, <1>8, <1>9, <1>10, <2>2
<1>11. CASE p # m
  <2>1. f \in 1 .. m /\ p + 1 = f
    BY SMTT(30), <1>1, <1>4, <1>11
  <2>2. Ends(f) > cursor + n \/ Ends(p) >= cursor + n
    <3>1. Ends(f) \in Nat
      BY <2>1, EndsStep
    <3>2. ~(Ends(f) <= cursor + n /\ Ends(f - 1) < cursor + n) /\ f - 1 = p
      <4>1. f - 1 = p
        OBVIOUS
      <4> HIDE DEF all, p
      <4> QED
        BY <1>2, <1>4, <2>1, <4>1
    <3>3. \A a, b, e \in Nat : ~(a <= e /\ b < e) => a > e \/ b >= e
      OBVIOUS
    <3>4. cursor + n \in Nat
      BY <1>1
    <3> HIDE DEF p
    <3> QED
      BY <1>9, <3>1, <3>2, <3>3, <3>4, Zenon
  <2>3. \A a, e \in Nat : a <= e /\ a >= e => a = e
    OBVIOUS
  <2>4. cursor + n \in Nat
    BY <1>1
  <2> HIDE DEF p, m
  <2>5. Ends(f) > cursor + n \/ Ends(p) = cursor + n
    BY <1>9, <2>2, <2>3, <2>4, Zenon
  <2>6. p \in 0 .. m
    BY <1>4
  <2> QED
    BY <1>8, <1>9, <1>11, <2>1, <2>5, <2>6, Zenon DEF m
<1> QED
  BY <1>10, <1>11

\* The later part of a sequence, from a place in its second half on.
LEMMA PartAfter ==
  ASSUME NEW s \in Seq(Nat), NEW t \in Seq(Nat), NEW c \in 0 .. Len(t)
  PROVE  SubSeq(s \o t, Len(s) + c + 1, Len(s \o t)) = SubSeq(t, c + 1, Len(t))
<1> DEFINE u == s \o t
           m == Len(s)
           n == Len(t)
           p == SubSeq(u, m + c + 1, Len(u))
           q == SubSeq(t, c + 1, n)
<1>1. /\ m \in Nat /\ n \in Nat /\ c \in 0 .. n /\ u \in Seq(Nat) /\ Len(u) = m + n
      /\ \A i \in 1 .. n : u[m + i] = t[i]
  OBVIOUS
<1>2. q \in Seq(Nat) /\ Len(q) = n - c /\ \A i \in 1 .. n - c : q[i] = t[c + i]
  BY SMTT(30)
<1> HIDE DEF u, m, n, q
<1>3. p \in Seq(Nat) /\ Len(p) = n - c /\ \A i \in 1 .. n - c : p[i] = u[m + c + i]
  BY <1>1
<1> HIDE DEF p
<1>4. ASSUME NEW i \in 1 .. n - c PROVE p[i] = q[i]
  <2>1. c + i \in 1 .. n /\ m + c + i = m + (c + i)
    BY <1>1
  <2>2. u[m + (c + i)] = t[c + i]
    BY <1>1, <2>1
  <2> QED
    BY <1>2, <1>3, <2>1, <2>2
<1>5. p = q
  BY <1>2, <1>3, <1>4, SeqEqual
<1> QED
  BY <1>5 DEF p, q, u, m, n

\* The later part of a later part.
LEMMA PartOfPart ==
  ASSUME NEW s \in Seq(Nat), NEW c \in Nat, NEW k \in Nat, c + k <= Len(s)
  PROVE  SubSeq(SubSeq(s, c + 1, Len(s)), k + 1, Len(s) - c) = SubSeq(s, c + k + 1, Len(s))
<1> DEFINE m == Len(s)
           u == SubSeq(s, c + 1, m)
           p == SubSeq(u, k + 1, m - c)
           q == SubSeq(s, c + k + 1, m)
           n == (m - c) - k
<1>1. m \in Nat /\ c + k <= m
  OBVIOUS
<1>2. /\ u \in Seq(Nat) /\ Len(u) = m - c /\ \A i \in 1 .. m - c : u[i] = s[c + i]
  OBVIOUS
<1>3. q \in Seq(Nat) /\ Len(q) = n /\ \A i \in 1 .. n : q[i] = s[c + k + i]
  OBVIOUS
<1> HIDE DEF u, q, m
<1>4. p \in Seq(Nat) /\ Len(p) = n /\ \A i \in 1 .. n : p[i] = u[k + i]
  BY <1>1, <1>2
<1> HIDE DEF p
<1>5. ASSUME NEW i \in 1 .. n PROVE p[i] = q[i]
  <2>1. k + i \in 1 .. m - c /\ c + (k + i) = c + k + i
    BY <1>1
  <2>2. u[k + i] = s[c + (k + i)]
    BY <1>2, <2>1
  <2> QED
    BY <1>3, <1>4, <2>1, <2>2
<1> HIDE DEF n
<1>6. p = q
  BY <1>3, <1>4, <1>5, SeqEqual
<1> QED
  BY <1>6 DEF p, q, u, m

\* Filling takes the oldest samples of the queue, and leaves the others as they are.
LEMMA FillQueued ==
  ASSUME QueueInv, NEW n \in Nat, n > 0, n = take.frames, n <= Queued, Fill, ~Skipped
  PROVE  /\ chunk' = Run(accepted - Queued, n)
         /\ queue' \in Seq(Seq(1 .. accepted)) /\ Len(queue') <= QueueCap
         /\ cursor' = 0 \/ (queue' # <<>> /\ cursor' \in 1 .. Len(queue'[1]) - 1)
         /\ Queued' = Queued - n
         /\ Samples' = Run(accepted - Queued', Queued')
<1> DEFINE p == Popped(n)
           m == Len(queue)
           first == SubSeq(queue, 1, p)
           rest == SubSeq(queue, p + 1, m)
           all == FlattenSeq(queue)
           head == FlattenSeq(first)
           tail == FlattenSeq(rest)
           e == Ends(p)
           q == Queued
           a == accepted - q
<1>1. /\ queue \in Seq(Seq(Nat)) /\ m \in Nat /\ all \in Seq(Nat)
      /\ cursor \in Nat /\ q \in Nat /\ cursor + q = Len(all) /\ a \in Nat
      /\ accepted \in Nat
  BY QueueTyped
<1>2. /\ p \in 0 .. m /\ e <= cursor + n
      /\ p = m => e = cursor + n
      /\ p # m => e = cursor + n \/ Ends(p + 1) > cursor + n
  BY PoppedFirst
<1>3. /\ chunk' = SubSeq(Samples, 1, n) \o Silence(0)
      /\ queue' = rest /\ cursor' = cursor + n - e /\ accepted' = accepted
  <2>1. Least(take.frames, Queued) = n /\ take.frames - n = 0
    BY <1>1 DEF Least
  <2> DEFINE k == Least(take.frames, Queued)
  <2>2. /\ chunk' = SubSeq(Samples, 1, k) \o Silence(take.frames - k)
        /\ queue' = SubSeq(queue, Popped(k) + 1, Len(queue))
        /\ cursor' = cursor + k - Ends(Popped(k)) /\ accepted' = accepted
    BY DEF Fill, callerVars
  <2> HIDE DEF k
  <2>3. k = n /\ take.frames - k = 0
    BY <2>1 DEF k
  <2> QED
    BY <2>2, <2>3, Zenon
<1>4. n <= q /\ Samples = Run(a, q)
  BY DEF QueueInv
<1>5. chunk' = Run(a, n)
  <2>0. a \in Nat /\ q \in Nat /\ n \in 0 .. q
    BY <1>1, <1>4
  <2>1. SubSeq(Run(a, q), 1, n) = Run(a, n)
    <3> HIDE DEF a, q
    <3> QED
      BY <2>0, RunParted
  <2>2. Silence(0) = <<>> /\ Run(a, n) \in Seq(Nat)
    <3> HIDE DEF a
    <3>1. Run(a, n) \in Seq(Nat)
      BY <2>0, RunTyped
    <3> QED
      BY <3>1 DEF Silence
  <2>3. Run(a, n) \o <<>> = Run(a, n)
    BY <2>2, ConcatEmptySeq
  <2> HIDE DEF a, q
  <2> QED
    BY <1>3, <1>4, <2>1, <2>2, <2>3
<1>6. queue' \in Seq(Seq(1 .. accepted)) /\ Len(queue') <= QueueCap
  <2>1. queue \in Seq(Seq(1 .. accepted)) /\ m <= QueueCap /\ QueueCap \in Nat
    BY PlaybackAssumption DEF QueueInv
  <2>2. rest \in Seq(Seq(1 .. accepted)) /\ Len(rest) = m - p
    <3> DEFINE S == Seq(1 .. accepted)
    <3> HIDE DEF S, p
    <3>1. rest \in Seq(S) /\ Len(rest) = m - p
      BY <1>2, <2>1 DEF S
    <3> QED
      BY <3>1 DEF S
  <2> HIDE DEF p, rest, m
  <2> QED
    BY <1>1, <1>2, <1>3, <2>1, <2>2
<1>7. /\ rest \in Seq(Seq(Nat)) /\ all = head \o tail
      /\ head \in Seq(Nat) /\ tail \in Seq(Nat) /\ Len(head) = e /\ e \in Nat
  <2>1. /\ first \in Seq(Seq(Nat)) /\ rest \in Seq(Seq(Nat)) /\ all = head \o tail
    <3> HIDE DEF p
    <3> QED
      BY <1>1, <1>2, FlattenSplit
  <2>2. head \in Seq(Nat) /\ tail \in Seq(Nat)
    BY <2>1, FlattenType
  <2>3. e \in Nat /\ e = Len(head)
    <3> HIDE DEF p
    <3> QED
      BY <1>2, EndsTyped
  <2> QED
    BY <2>1, <2>2, <2>3
<1>8. cursor' \in Nat /\ e + cursor' = cursor + n /\ cursor' <= Len(tail)
      /\ Len(tail) - cursor' = q - n
  <2>1. Len(all) = e + Len(tail) /\ Len(tail) \in Nat
    <3> HIDE DEF all, head, tail, e
    <3>1. \A x, y \in Seq(Nat) : Len(x \o y) = Len(x) + Len(y) /\ Len(y) \in Nat
      OBVIOUS
    <3> QED
      BY <1>7, <3>1, Zenon
  <2> DEFINE c == cursor
             d == cursor'
             l == Len(tail)
  <2>2. /\ c \in Nat /\ q \in Nat /\ e \in Nat /\ l \in Nat /\ n <= q /\ e <= c + n
        /\ d = c + n - e /\ c + q = e + l
    <3> HIDE DEF e, q, all, tail, p
    <3> QED
      BY <1>1, <1>2, <1>3, <1>4, <1>7, <2>1
  <2> HIDE DEF c, d, e, q, l
  <2>3. d \in Nat /\ e + d = c + n /\ d <= l /\ l - d = q - n
    BY <2>2
  <2> QED
    BY <2>3 DEF c, d, l
<1>9. cursor' = 0 \/ (queue' # <<>> /\ cursor' \in 1 .. Len(queue'[1]) - 1)
  <2>1. CASE e = cursor + n
    <3> HIDE DEF e
    <3>1. \A x, y \in Nat : x + y = x => y = 0
      OBVIOUS
    <3>2. cursor' = 0
      BY <1>7, <1>8, <2>1, <3>1, Zenon
    <3> QED
      BY <3>2
  <2>2. CASE e # cursor + n
    <3>1. p + 1 \in 1 .. m /\ p \in Nat /\ p # m
      <4> HIDE DEF p, m, e
      <4> QED
        BY <1>1, <1>2, <2>2
    <3>2. rest # <<>> /\ rest[1] = queue[p + 1]
      <4> DEFINE S == Seq(Nat)
      <4>1. queue \in Seq(S) /\ m = Len(queue) /\ m \in Nat
        BY <1>1
      <4> HIDE DEF p, S, m
      <4>2. Len(rest) = m - p /\ m - p > 0 /\ rest[1] = queue[p + 1]
        BY <3>1, <4>1
      <4>3. Len(<<>>) = 0
        OBVIOUS
      <4> HIDE DEF rest
      <4> QED
        BY <4>2, <4>3
    <3> DEFINE f == p + 1
               x == Len(queue[f])
               d == Ends(f)
    <3>3. d > cursor + n /\ d = e + x /\ x \in Nat /\ d \in Nat
      <4>1. f \in 1 .. m /\ f - 1 = p
        BY <3>1
      <4>2. Ends(f) > cursor + n
        BY <1>2, <2>2, <3>1
      <4> HIDE DEF f, p
      <4> QED
        BY <4>1, <4>2, EndsStep
    <3>4. x = Len(queue'[1])
      BY <1>3, <3>2
    <3> HIDE DEF x, d, e
    <3>5. cursor' < x
      BY <1>1, <1>7, <1>8, <3>3
    <3> HIDE DEF rest
    <3> QED
      BY SMTT(30), <1>3, <1>8, <3>2, <3>3, <3>4, <3>5
  <2> QED
    BY <2>1, <2>2
<1>10. Queued' = q - n
  <2>1. Total([i \in DOMAIN rest |-> Len(rest[i])]) = Len(tail)
    <3> HIDE DEF rest
    <3> QED
      BY <1>7, FlattenLength
  <2>2. Queued' = Total([i \in DOMAIN queue' |-> Len(queue'[i])]) - cursor'
    BY DEF Queued
  <2> HIDE DEF rest, tail, q
  <2> QED
    BY <1>3, <1>8, <2>1, <2>2
<1>11. Samples' = Run(a + n, q - n)
  <2>1. Samples' = SubSeq(tail, cursor' + 1, Len(tail))
    BY <1>3 DEF Samples
  <2>2. SubSeq(tail, cursor' + 1, Len(tail)) = SubSeq(all, e + cursor' + 1, Len(all))
    <3> HIDE DEF all, head, tail, e
    <3>1. cursor' \in 0 .. Len(tail)
      BY <1>7, <1>8
    <3> QED
      BY <1>7, <3>1, PartAfter
  <2>3. SubSeq(Samples, n + 1, q) = SubSeq(all, cursor + n + 1, Len(all))
    <3>1. Samples = SubSeq(all, cursor + 1, Len(all))
      BY DEF Samples
    <3> HIDE DEF all, q
    <3>2. Len(all) - cursor = q /\ cursor + n <= Len(all)
      BY <1>1, <1>4
    <3>3. SubSeq(SubSeq(all, cursor + 1, Len(all)), n + 1, Len(all) - cursor)
            = SubSeq(all, cursor + n + 1, Len(all))
      BY <1>1, <3>2, PartOfPart
    <3> QED
      BY <3>1, <3>2, <3>3
  <2>4. SubSeq(Run(a, q), n + 1, q) = Run(a + n, q - n)
    <3>1. a \in Nat /\ q \in Nat /\ n \in 0 .. q
      BY <1>1, <1>4
    <3> HIDE DEF a, q
    <3> QED
      BY <3>1, RunParted
  <2>5. e + cursor' + 1 = cursor + n + 1
    <3> HIDE DEF e
    <3> QED
      BY <1>1, <1>7, <1>8
  <2> HIDE DEF a, q, all, tail, e
  <2> QED
    BY <1>4, <2>1, <2>2, <2>3, <2>4, <2>5
<1>12. a + n = accepted - Queued'
  <2> HIDE DEF q
  <2> QED
    BY <1>1, <1>4, <1>10
<1> HIDE DEF a, q
<1> QED
  BY <1>5, <1>6, <1>9, <1>10, <1>11, <1>12 DEF a, q

-----------------------------------------------------------------------------
(* Steps keep the queue in order.                                            *)

\* An empty queue has no samples.
LEMMA NothingQueued ==
  ASSUME queue' = <<>>, cursor' = 0, accepted' \in Nat
  PROVE  Queued' = 0 /\ Samples' = Run(accepted' - Queued', Queued') /\ Samples' = <<>>
<1>1. [i \in DOMAIN <<>> |-> Len((<<>>)[i])] = <<>>
  OBVIOUS
<1>2. Queued' = 0
  <2>1. Queued' = Total([i \in DOMAIN queue' |-> Len(queue'[i])]) - cursor'
    BY DEF Queued
  <2>2. [i \in DOMAIN queue' |-> Len(queue'[i])] = <<>>
    BY <1>1
  <2>3. Queued' = 0 - 0
    BY <2>1, <2>2, TotalEmpty, Zenon
  <2> QED
    BY <2>3
<1>3. Samples' = <<>>
  BY FlattenEmpty DEF Samples
<1>4. \A a : Run(a, 0) = <<>>
  BY DEF Run
<1> QED
  BY <1>2, <1>3, <1>4, Zenon

\* A queue that is left alone, of samples that are.
LEMMA QueueUntouched ==
  ASSUME QueueInv, UNCHANGED <<accepted, asked, queue, cursor>>, answered' \in 0 .. asked'
  PROVE  QueueInv' /\ Queued' = Queued /\ Samples' = Samples
<1>1. Queued' = Queued /\ Samples' = Samples
  BY DEF Queued, Samples
<1> QED
  BY <1>1 DEF QueueInv

\* write_frame appends a run of new samples.
LEMMA WriteKeepsQueue ==
  ASSUME QueueInv, NEW n \in Nat, Write(n)
  PROVE  QueueInv'
<1> DEFINE q == Queued
           a == accepted - q
<1>1. /\ queue' = Append(queue, Run(accepted, n)) /\ accepted' = accepted + n
      /\ cursor' = cursor /\ asked' = asked /\ answered' = answered
      /\ Len(queue) < QueueCap /\ accepted + n <= MaxSamples
  BY DEF Write, Run
<1>2. /\ accepted \in Nat /\ asked \in Nat /\ queue \in Seq(Seq(Nat)) /\ q \in Nat /\ a \in Nat
      /\ a + q = accepted /\ Len(queue) \in Nat
  <2>1. accepted \in Nat /\ asked \in Nat /\ queue \in Seq(Seq(Nat)) /\ q \in Nat /\ a \in Nat
    BY QueueTyped
  <2> HIDE DEF q
  <2> QED
    BY <2>1
<1>3. /\ queue' \in Seq(Seq(1 .. accepted'))
      /\ Queued' = q + n /\ Samples' = Samples \o Run(accepted, n)
  BY WriteQueued
<1>4. q <= accepted - asked /\ Samples = Run(a, q)
  BY DEF QueueInv
<1>5. Queued' \in 0 .. accepted' - asked' /\ accepted' - Queued' = a
  <2> HIDE DEF q
  <2> QED
    BY <1>1, <1>2, <1>3, <1>4
<1>6. Samples' = Run(a, q + n)
  <2> HIDE DEF a, q
  <2>1. Run(a, q) \o Run(a + q, n) = Run(a, q + n)
    BY ZenonT(30), <1>2, RunJoined
  <2> QED
    BY <1>2, <1>3, <1>4, <2>1
<1>7. Len(queue') <= QueueCap
  BY <1>1, <1>2, PlaybackAssumption
<1>8. cursor' = 0 \/ (queue' # <<>> /\ cursor' \in 1 .. Len(queue'[1]) - 1)
  <2> SUFFICES ASSUME cursor # 0 PROVE queue' # <<>> /\ queue'[1] = queue[1]
    BY <1>1 DEF QueueInv
  <2> DEFINE S == Seq(Nat)
             x == Run(accepted, n)
  <2>1. queue # <<>> /\ queue \in Seq(S) /\ x \in S
    <3>1. queue # <<>>
      BY DEF QueueInv
    <3> QED
      BY <1>2, <3>1, RunTyped
  <2> HIDE DEF S, x
  <2>2. Append(queue, x) # <<>> /\ Append(queue, x)[1] = queue[1]
    BY <2>1
  <2> QED
    BY <1>1, <2>2 DEF x
<1>9. accepted' \in 0 .. MaxSamples /\ asked' \in 0 .. accepted' /\ answered' \in 0 .. asked'
  BY <1>1, <1>2, PlaybackAssumption DEF QueueInv
<1> HIDE DEF a, q
<1> QED
  BY <1>3, <1>5, <1>6, <1>7, <1>8, <1>9 DEF QueueInv

\* fill_from_queue takes the front of what was queued, or finds too little and
\* leaves it.
LEMMA FillKeepsQueue ==
  ASSUME QueueInv, TurnInv, Fill
  PROVE  /\ QueueInv' /\ accepted' = accepted /\ asked' = asked
         /\ Skipped => Queued' = Queued /\ Samples' = Samples
         /\ ~Skipped => /\ take.frames \in 1 .. Queued /\ Queued' = Queued - take.frames
                        /\ chunk' = Run(accepted - Queued, take.frames)
<1>1. accepted' = accepted /\ asked' = asked /\ answered' = answered
  BY DEF Fill, callerVars
<1>2. CASE Skipped
  <2>1. queue' = queue /\ cursor' = cursor
    BY <1>2 DEF Fill
  <2>2. answered' \in 0 .. asked'
    BY <1>1 DEF QueueInv
  <2> QED
    BY <1>1, <1>2, <2>1, <2>2, QueueUntouched
<1>3. CASE ~Skipped
  <2> DEFINE n == take.frames
  <2>1. n \in Nat /\ n > 0 /\ n <= Queued
    <3>1. worker = "fill" /\ take.data /\ ~requested
      BY <1>3 DEF Fill, Skipped
    <3>2. n \in 1 .. BufferSize - padding /\ n <= Queued
      BY <3>1 DEF TurnInv
    <3> QED
      BY <3>2
  <2>2. /\ chunk' = Run(accepted - Queued, n)
        /\ queue' \in Seq(Seq(1 .. accepted)) /\ Len(queue') <= QueueCap
        /\ cursor' = 0 \/ (queue' # <<>> /\ cursor' \in 1 .. Len(queue'[1]) - 1)
        /\ Queued' = Queued - n
        /\ Samples' = Run(accepted - Queued', Queued')
    BY <1>3, <2>1, FillQueued
  <2>3. Queued' \in 0 .. accepted' - asked' /\ n \in 1 .. Queued
    <3>1. Queued \in 0 .. accepted - asked /\ accepted \in Nat /\ asked \in Nat
      BY QueueTyped DEF QueueInv
    <3> HIDE DEF n
    <3> QED
      BY <1>1, <2>1, <2>2, <3>1
  <2> HIDE DEF n
  <2>4. QueueInv'
    BY <1>1, <2>2, <2>3 DEF QueueInv
  <2> QED
    BY <1>1, <1>3, <2>2, <2>3, <2>4 DEF n
<1> QED
  BY <1>2, <1>3

\* The steps that leave the queue alone.
QueueAlone == UNCHANGED <<accepted, asked, answered, queue, cursor>>

\* Every step but Write, BeginFlush, FlushReturns and Fill is one.
LEMMA MostLeaveTheQueue ==
  ASSUME [FlushFails \/ Close \/ Join \/ StartTurn \/ Reset \/ Rezero \/ AnswerFlush
            \/ ReadPadding \/ ReadClock \/ Measure \/ Release \/ DeviceFails \/ Play]_vars
  PROVE  QueueAlone
<1> USE DEF QueueAlone, callerVars, sharedVars
<1>1. CASE FlushFails \/ Close \/ Join
  BY <1>1 DEF FlushFails, Close, Join
<1>2. CASE StartTurn \/ Reset \/ Rezero \/ AnswerFlush
  BY <1>2 DEF StartTurn, Reset, Rezero, AnswerFlush
<1>3. CASE ReadPadding \/ ReadClock \/ Measure \/ Release
  BY <1>3 DEF ReadPadding, ReadClock, Measure, Release
<1>4. CASE DeviceFails \/ Play
  BY <1>4 DEF DeviceFails, Play
<1>5. CASE UNCHANGED vars
  BY <1>5 DEF vars
<1> QED
  BY <1>1, <1>2, <1>3, <1>4, <1>5

\* Every step keeps the queue's samples in order up to the last one accepted.
LEMMA QueueKept ==
  ASSUME QueueInv, TurnInv, [Next]_vars
  PROVE  QueueInv'
<1>1. ASSUME NEW n \in FrameSizes, Write(n) PROVE QueueInv'
  BY <1>1, WriteKeepsQueue, PlaybackAssumption
<1>2. CASE BeginFlush
  <2>1. /\ queue' = <<>> /\ cursor' = 0 /\ accepted' = accepted /\ asked' = accepted
        /\ answered' = answered
    BY <1>2 DEF BeginFlush
  <2>2. /\ accepted \in Nat /\ asked \in Nat /\ accepted \in 0 .. MaxSamples
        /\ answered \in 0 .. asked /\ asked <= accepted
    BY QueueTyped DEF QueueInv
  <2>3. Queued' = 0 /\ Samples' = Run(accepted' - Queued', Queued')
    BY <2>1, <2>2, NothingQueued
  <2>4. queue' \in Seq(Seq(1 .. accepted')) /\ Len(queue') <= QueueCap
    BY <2>1, PlaybackAssumption
  <2>5. Queued' \in 0 .. accepted' - asked'
    BY <2>1, <2>2, <2>3
  <2> QED
    BY <2>1, <2>2, <2>3, <2>4, <2>5 DEF QueueInv
<1>3. CASE FlushReturns
  <2>1. UNCHANGED <<accepted, asked, queue, cursor>> /\ answered' = asked
    BY <1>3 DEF FlushReturns, sharedVars
  <2>2. answered' \in 0 .. asked'
    BY <2>1 DEF QueueInv
  <2> QED
    BY <2>1, <2>2, QueueUntouched
<1>4. CASE Fill
  BY <1>4, FillKeepsQueue
<1>5. CASE QueueAlone
  <2>1. answered' \in 0 .. asked'
    BY <1>5 DEF QueueInv, QueueAlone
  <2> QED
    BY <1>5, <2>1, QueueUntouched DEF QueueAlone
<1> QED
  BY <1>1, <1>2, <1>3, <1>4, <1>5, MostLeaveTheQueue DEF Next, Worker

-----------------------------------------------------------------------------
(* Steps keep what is in flight on its side of a flush.                      *)

\* A worker that answers a flush has reset the endpoint before.
LEMMA FlushKept ==
  ASSUME FlushInv, [Next]_vars
  PROVE  FlushInv'
<1> USE DEF FlushInv, callerVars, sharedVars, workerVars, endpointVars
<1>1. ASSUME NEW n \in FrameSizes, Write(n) PROVE FlushInv'
  BY <1>1 DEF Write
<1>2. CASE BeginFlush \/ FlushReturns \/ FlushFails \/ Close \/ Join
  BY <1>2 DEF BeginFlush, FlushReturns, FlushFails, Close, Join
<1>3. CASE StartTurn
  BY <1>3 DEF StartTurn
<1>4. CASE Reset
  BY <1>4 DEF Reset, Restarted
<1>5. CASE Rezero \/ AnswerFlush
  BY <1>5 DEF Rezero, AnswerFlush, Outstanding
<1>6. CASE ReadPadding \/ Measure \/ Fill \/ Release
  <2>1. /\ worker' \in {"clock", "top", "fill", "release"}
        /\ UNCHANGED <<call, requested, stop, lost>>
    BY <1>6 DEF ReadPadding, Measure, Fill, Release
  <2> QED
    BY <2>1
<1>7. CASE ReadClock
  <2>1. worker' = "measure" /\ UNCHANGED <<call, requested, stop, lost>>
    BY <1>7 DEF ReadClock
  <2> QED
    BY <2>1
<1>8. CASE DeviceFails
  BY <1>8 DEF DeviceFails
<1>9. CASE Play
  <2>1. buffer # <<>> /\ UNCHANGED <<call, worker, requested, stop, lost>>
    BY <1>9 DEF Play
  <2> QED
    BY <2>1
<1>10. CASE UNCHANGED vars
  BY <1>10 DEF vars
<1> QED
  BY <1>1, <1>2, <1>3, <1>4, <1>5, <1>6, <1>7, <1>8, <1>9, <1>10 DEF Next, Worker

\* The steps that leave alone what is in flight and what a flush asked for.
FlightAlone ==
  /\ UNCHANGED <<accepted, asked, queue, cursor, requested, buffer, chunk>>
  /\ worker = "release" => worker' = "release"

\* Steps of the caller and the worker that neither move samples nor begin or
\* answer a flush.
LEMMA MostMoveNothing ==
  ASSUME [FlushReturns \/ FlushFails \/ Close \/ Join \/ StartTurn \/ Rezero
            \/ ReadPadding \/ ReadClock \/ Measure \/ DeviceFails]_vars
  PROVE  FlightAlone
<1> USE DEF FlightAlone, callerVars, sharedVars, workerVars, endpointVars
<1>1. CASE FlushReturns \/ FlushFails \/ Close \/ Join
  BY <1>1 DEF FlushReturns, FlushFails, Close, Join
<1>2. CASE StartTurn \/ Rezero
  BY <1>2 DEF StartTurn, Rezero
<1>3. CASE ReadPadding
  BY <1>3 DEF ReadPadding
<1>4. CASE ReadClock
  <2>1. worker = "clock" /\ UNCHANGED <<accepted, asked, queue, cursor, requested, buffer, chunk>>
    BY <1>4 DEF ReadClock
  <2> QED
    BY <2>1
<1>5. CASE Measure
  <2>1. worker = "measure" /\ UNCHANGED <<accepted, asked, queue, cursor, requested, buffer, chunk>>
    BY <1>5 DEF Measure
  <2> QED
    BY <2>1
<1>6. CASE DeviceFails
  BY <1>6 DEF DeviceFails
<1>7. CASE UNCHANGED vars
  BY <1>7 DEF vars
<1> QED
  BY <1>1, <1>2, <1>3, <1>4, <1>5, <1>6, <1>7

\* Nothing flies.
LEMMA NothingFlies ==
  ASSUME NEW top \in Nat, NEW a, NEW r PROVE Flies(<<>>, top, a, r)
BY DEF Flies

\* Silence is older than any flush and younger than it.
LEMMA SilenceFlies ==
  ASSUME NEW top \in Nat, NEW a \in Nat, NEW r, NEW n \in Nat PROVE Flies(Silence(n), top, a, r)
<1>1. Silence(n) \in Seq(0 .. top) /\ Len(Silence(n)) = n /\ \A i \in 1 .. n : Silence(n)[i] = 0
  BY DEF Silence
<1>2. Age(0, a, r)
  BY DEF Age
<1> QED
  BY <1>1, <1>2 DEF Flies

\* The samples just taken from the queue are a flight of their own.
LEMMA RunFlies ==
  ASSUME NEW b \in Nat, NEW a \in 0 .. b, NEW n \in Nat
  PROVE  Flies(Run(b, n), b + n, a, FALSE)
<1>1. /\ Run(b, n) \in Seq(1 .. b + n) /\ Len(Run(b, n)) = n
      /\ \A i \in 1 .. n : Run(b, n)[i] = b + i
  BY RunTyped
<1>2. Run(b, n) \in Seq(0 .. b + n)
  <2>1. 1 .. b + n \subseteq 0 .. b + n
    OBVIOUS
  <2> QED
    BY <1>1, <2>1, SeqMonotonic
<1>3. \A i \in 1 .. n : Age(b + i, a, FALSE)
  BY DEF Age
<1> QED
  BY <1>1, <1>2, <1>3 DEF Flies

\* Two flights with the same bounds, one behind the other, are one.
LEMMA FlightsJoin ==
  ASSUME NEW top, NEW a, NEW r, NEW s, NEW t, Flies(s, top, a, r), Flies(t, top, a, r)
  PROVE  Flies(s \o t, top, a, r)
<1> DEFINE S == 0 .. top
           u == s \o t
<1>1. s \in Seq(S) /\ t \in Seq(S)
  BY DEF Flies
<1> HIDE DEF S
<1>2. /\ u \in Seq(S) /\ Len(u) = Len(s) + Len(t)
      /\ Len(s) \in Nat /\ Len(t) \in Nat
      /\ \A i \in 1 .. Len(s) : u[i] = s[i]
      /\ \A i \in 1 .. Len(t) : u[Len(s) + i] = t[i]
  BY <1>1
<1> HIDE DEF u
<1>3. ASSUME NEW i \in 1 .. Len(u) PROVE Age(u[i], a, r)
  <2>1. CASE i <= Len(s)
    BY <1>2, <2>1 DEF Flies
  <2>2. CASE ~(i <= Len(s))
    <3>1. i - Len(s) \in 1 .. Len(t) /\ Len(s) + (i - Len(s)) = i
      BY <1>2, <2>2
    <3>2. u[i] = t[i - Len(s)]
      BY <1>2, <3>1
    <3> QED
      BY <3>1, <3>2 DEF Flies
  <2> QED
    BY <2>1, <2>2
<1> QED
  BY <1>2, <1>3 DEF Flies, S, u

\* A flight that loses its first sample to the speaker is still one.
LEMMA FlightsEnd ==
  ASSUME NEW top, NEW a, NEW r, NEW s, s # <<>>, Flies(s, top, a, r)
  PROVE  Flies(Tail(s), top, a, r)
<1> DEFINE S == 0 .. top
           u == Tail(s)
<1>1. s \in Seq(S)
  BY DEF Flies
<1> HIDE DEF S
<1>2. /\ u \in Seq(S) /\ Len(u) = Len(s) - 1 /\ Len(s) \in Nat
      /\ \A i \in 1 .. Len(u) : u[i] = s[i + 1]
  BY <1>1
<1> HIDE DEF u
<1>3. ASSUME NEW i \in 1 .. Len(u) PROVE Age(u[i], a, r)
  <2>1. i + 1 \in 1 .. Len(s) /\ u[i] = s[i + 1]
    BY <1>2
  <2> QED
    BY <2>1 DEF Flies
<1> QED
  BY <1>2, <1>3 DEF Flies, S, u

\* A flight keeps within any wider bound.
LEMMA FlightWiden ==
  ASSUME NEW top \in Nat, NEW wide \in Nat, top <= wide, NEW a, NEW r, NEW s,
         Flies(s, top, a, r)
  PROVE  Flies(s, wide, a, r)
<1>1. 0 .. top \subseteq 0 .. wide
  OBVIOUS
<1>2. s \in Seq(0 .. wide)
  BY <1>1, SeqMonotonic DEF Flies
<1> QED
  BY <1>2 DEF Flies

\* All that flies is older than a flush that begins now.
LEMMA FlightFlushed ==
  ASSUME NEW top \in Nat, NEW now \in Nat, top <= now, NEW a, NEW r, NEW s,
         Flies(s, top, a, r)
  PROVE  Flies(s, now, now, TRUE)
<1>1. 0 .. top \subseteq 0 .. now /\ s \in Seq(0 .. top)
  BY DEF Flies
<1>2. s \in Seq(0 .. now)
  BY <1>1, SeqMonotonic
<1>3. \A i \in 1 .. Len(s) : s[i] \in 0 .. now
  BY <1>2
<1> QED
  BY <1>2, <1>3 DEF Flies, Age

\* Every step keeps what is in the endpoint and in the worker's hands in order.
LEMMA FlightKept ==
  ASSUME QueueInv, FlightInv, FlushInv, TurnInv, [Next]_vars
  PROVE  FlightInv'
<1> DEFINE top == accepted - Queued
<1>1. /\ Flies(buffer, top, asked, requested) /\ Flies(chunk, top, asked, requested)
      /\ worker # "release" => chunk = <<>>
  BY DEF FlightInv
<1>2. /\ accepted \in Nat /\ Queued \in Nat /\ asked \in 0 .. top /\ top \in 0 .. accepted
      /\ requested \in BOOLEAN
  <2>1. accepted \in Nat /\ Queued \in Nat /\ asked \in Nat /\ Queued <= accepted - asked
    BY QueueTyped DEF QueueInv
  <2>2. asked \in 0 .. top /\ top \in 0 .. accepted
    BY <2>1
  <2> QED
    BY <2>1, <2>2 DEF FlushInv
<1>3. ASSUME NEW n \in FrameSizes, Write(n) PROVE FlightInv'
  <2>1. n \in Nat
    BY PlaybackAssumption
  <2>2. Queued' = Queued + n /\ accepted' = accepted + n
    BY <1>3, <2>1, WriteQueued DEF Write
  <2>3. (accepted - Queued)' = accepted - Queued
    BY <1>2, <2>1, <2>2
  <2>4. UNCHANGED <<buffer, chunk, asked, requested, worker>>
    BY <1>3 DEF Write, workerVars, endpointVars
  <2> QED
    BY <2>3, <2>4 DEF FlightInv
<1>4. CASE BeginFlush
  <2>1. /\ queue' = <<>> /\ cursor' = 0 /\ accepted' = accepted /\ asked' = accepted
        /\ requested' = TRUE /\ UNCHANGED <<buffer, chunk, worker>>
    BY <1>4 DEF BeginFlush, workerVars, endpointVars
  <2>2. Queued' = 0
    BY <1>2, <2>1, NothingQueued
  <2>3. (accepted - Queued)' = accepted
    BY <1>2, <2>1, <2>2
  <2>4. top \in Nat /\ top <= accepted
    BY <1>2
  <2> HIDE DEF top
  <2>5. Flies(buffer, accepted, accepted, TRUE) /\ Flies(chunk, accepted, accepted, TRUE)
    BY <1>1, <1>2, <2>4, FlightFlushed
  <2> QED
    BY <1>1, <2>1, <2>3, <2>5 DEF FlightInv
<1>5. CASE Reset
  <2>1. /\ buffer' = <<>> /\ chunk' = chunk /\ worker = "reset" /\ worker' = "rezero"
        /\ UNCHANGED <<accepted, asked, queue, cursor, requested>>
    BY <1>5 DEF Reset, callerVars, sharedVars
  <2>2. (accepted - Queued)' = top
    BY <2>1 DEF Queued
  <2> HIDE DEF top
  <2>3. Flies(<<>>, top, asked, requested) /\ chunk = <<>>
    BY <1>1, <1>2, <2>1, NothingFlies
  <2> QED
    BY <2>1, <2>2, <2>3 DEF FlightInv
<1>6. CASE AnswerFlush
  <2>1. /\ worker = "answer" /\ worker' = "padding"
        /\ UNCHANGED <<accepted, asked, queue, cursor, buffer, chunk>>
    BY <1>6 DEF AnswerFlush, callerVars, endpointVars
  <2>2. (accepted - Queued)' = top
    BY <2>1 DEF Queued
  <2>3. buffer = <<>> /\ chunk = <<>>
    BY <1>1, <2>1 DEF FlushInv
  <2> HIDE DEF top
  <2>4. Flies(<<>>, top, asked, requested')
    BY <1>2, NothingFlies
  <2> QED
    BY <2>1, <2>2, <2>3, <2>4 DEF FlightInv
<1>7. CASE Fill
  <2>1. /\ QueueInv' /\ accepted' = accepted /\ asked' = asked
        /\ Skipped => Queued' = Queued /\ Samples' = Samples
        /\ ~Skipped => /\ take.frames \in 1 .. Queued /\ Queued' = Queued - take.frames
                       /\ chunk' = Run(accepted - Queued, take.frames)
    BY <1>7, FillKeepsQueue
  <2>2. worker' = "release" /\ worker = "fill" /\ UNCHANGED <<buffer, requested>>
    BY <1>7 DEF Fill, endpointVars
  <2>3. take.frames \in Nat
    BY DEF TurnInv
  <2>4. CASE Skipped
    <3>1. chunk' = Silence(take.frames) /\ (accepted - Queued)' = top
      BY <1>7, <2>1, <2>4 DEF Fill
    <3> HIDE DEF top
    <3>2. Flies(chunk', top, asked, requested)
      BY <1>2, <2>3, <3>1, SilenceFlies
    <3> QED
      BY <1>1, <2>1, <2>2, <3>1, <3>2 DEF FlightInv
  <2>5. CASE ~Skipped
    <3>1. /\ (accepted - Queued)' = top + take.frames /\ top + take.frames \in Nat
          /\ top <= top + take.frames
      BY <1>2, <2>1, <2>3, <2>5
    <3>2. requested = FALSE /\ top \in Nat
      BY <1>2, <2>5 DEF Skipped
    <3> HIDE DEF top
    <3>3. Flies(Run(top, take.frames), top + take.frames, asked, FALSE)
      <4>1. asked \in 0 .. top
        BY <1>2
      <4> QED
        BY <2>3, <3>2, <4>1, RunFlies
    <3>4. Flies(buffer, top + take.frames, asked, requested)
      BY <1>1, <1>2, <3>1, FlightWiden
    <3> QED
      BY <2>1, <2>2, <2>5, <3>1, <3>2, <3>3, <3>4 DEF FlightInv, top
  <2> QED
    BY <2>4, <2>5
<1>8. CASE Release
  <2>1. /\ buffer' = buffer \o chunk /\ chunk' = <<>>
        /\ UNCHANGED <<accepted, asked, queue, cursor, requested>>
    BY <1>8 DEF Release, callerVars, sharedVars
  <2>2. (accepted - Queued)' = top
    BY <2>1 DEF Queued
  <2> HIDE DEF top
  <2>3. Flies(buffer \o chunk, top, asked, requested) /\ Flies(<<>>, top, asked, requested)
    BY <1>1, <1>2, FlightsJoin, NothingFlies
  <2> QED
    BY <2>1, <2>2, <2>3 DEF FlightInv
<1>9. CASE Play
  <2>1. /\ buffer # <<>> /\ buffer' = Tail(buffer)
        /\ UNCHANGED <<accepted, asked, queue, cursor, requested, chunk, worker>>
    BY <1>9 DEF Play, callerVars, sharedVars, workerVars
  <2>2. (accepted - Queued)' = top
    BY <2>1 DEF Queued
  <2> HIDE DEF top
  <2>3. Flies(Tail(buffer), top, asked, requested)
    BY <1>1, <2>1, FlightsEnd
  <2> QED
    BY <1>1, <2>1, <2>2, <2>3 DEF FlightInv
<1>10. CASE FlightAlone
  <2>1. (accepted - Queued)' = top
    BY <1>10 DEF FlightAlone, Queued
  <2>2. asked' = asked /\ requested' = requested /\ buffer' = buffer /\ chunk' = chunk
    BY <1>10 DEF FlightAlone
  <2>3. worker' # "release" => chunk' = <<>>
    <3>1. worker = "release" => worker' = "release"
      BY <1>10 DEF FlightAlone
    <3>2. worker # "release" => chunk = <<>>
      BY DEF FlightInv
    <3> QED
      BY <2>2, <3>1, <3>2, Zenon
  <2> HIDE DEF top
  <2>4. Flies(buffer', top, asked', requested') /\ Flies(chunk', top, asked', requested')
    BY <1>1, <2>2
  <2> QED
    BY <2>1, <2>3, <2>4 DEF FlightInv
<1> QED
  BY <1>3, <1>4, <1>5, <1>6, <1>7, <1>8, <1>9, <1>10, MostMoveNothing DEF Next, Worker

-----------------------------------------------------------------------------
(* What the worker measured holds when it fills the buffer.                  *)

\* What is in flight, in numbers.
LEMMA FlightTyped ==
  ASSUME QueueInv, FlightInv
  PROVE  /\ buffer \in Seq(Nat) /\ chunk \in Seq(Nat) /\ Len(buffer) \in Nat /\ Len(chunk) \in Nat
         /\ \A i \in 1 .. Len(buffer) : buffer[i] <= accepted - Queued
         /\ \A i \in 1 .. Len(chunk) : chunk[i] <= accepted - Queued
<1> DEFINE top == accepted - Queued
<1>1. top \in Nat
  BY QueueTyped
<1>2. buffer \in Seq(0 .. top) /\ chunk \in Seq(0 .. top)
  BY DEF FlightInv, Flies
<1> HIDE DEF top
<1>3. 0 .. top \subseteq Nat
  BY <1>1
<1>4. buffer \in Seq(Nat) /\ chunk \in Seq(Nat)
  BY <1>2, <1>3, SeqMonotonic
<1>5. /\ \A i \in 1 .. Len(buffer) : buffer[i] \in 0 .. top
      /\ \A i \in 1 .. Len(chunk) : chunk[i] \in 0 .. top
  <2> DEFINE S == 0 .. top
  <2>1. buffer \in Seq(S) /\ chunk \in Seq(S)
    BY <1>2
  <2> HIDE DEF S
  <2>2. /\ \A i \in 1 .. Len(buffer) : buffer[i] \in S
        /\ \A i \in 1 .. Len(chunk) : chunk[i] \in S
    BY <2>1
  <2> QED
    BY <2>2 DEF S
<1>6. /\ \A i \in 1 .. Len(buffer) : buffer[i] <= top
      /\ \A i \in 1 .. Len(chunk) : chunk[i] <= top
  BY <1>1, <1>5
<1> QED
  BY <1>4, <1>6 DEF top

\* What a turn takes fits into the room there is and, if it is silence, into the lead.
LEMMA MeasureTakes ==
  ASSUME QueueInv, TurnInv, Measure
  PROVE  /\ take' \in [frames : 0 .. BufferSize, data : BOOLEAN]
         /\ take'.frames <= BufferSize - padding
         /\ take'.data => take'.frames <= Queued
         /\ ~take'.data /\ take'.frames # 0 => padding + take'.frames <= Lead
<1>1. /\ Queued \in Nat /\ padding \in 0 .. BufferSize /\ BufferSize \in Nat /\ Lead \in Nat
  BY QueueTyped, PlaybackAssumption DEF TurnInv
<1>2. CASE Queued > 0
  <2> DEFINE n == Least(Room, Queued)
  <2>1. take' = [frames |-> n, data |-> TRUE]
    BY <1>2 DEF Measure
  <2>2. n \in 0 .. BufferSize /\ n <= BufferSize - padding /\ n <= Queued
    BY <1>1 DEF Least, Room
  <2> HIDE DEF n
  <2> QED
    BY <2>1, <2>2
<1>3. CASE ~(Queued > 0)
  <2> DEFINE n == Least(Room, Shortfall)
  <2>1. take' = [frames |-> n, data |-> FALSE]
    BY <1>3 DEF Measure
  <2>2. n \in 0 .. BufferSize /\ n <= BufferSize - padding /\ (n # 0 => padding + n <= Lead)
    BY <1>1 DEF Least, Room, Shortfall
  <2> HIDE DEF n
  <2> QED
    BY <2>1, <2>2
<1> QED
  BY <1>2, <1>3

\* The worker fills the buffer with as many frames as it took, of the kind it took.
LEMMA FillMatches ==
  ASSUME QueueInv, TurnInv, FlushInv, Fill
  PROVE  /\ Len(chunk') = take.frames
         /\ ~requested => \A i \in 1 .. Len(chunk') : chunk'[i] # 0 <=> take.data
<1>1. take.frames \in Nat /\ take.data \in BOOLEAN
  BY DEF TurnInv
<1>2. CASE Skipped
  <2>1. chunk' = Silence(take.frames)
    BY <1>2 DEF Fill
  <2>2. Len(chunk') = take.frames /\ \A i \in 1 .. Len(chunk') : chunk'[i] = 0
    BY <1>1, <2>1 DEF Silence
  <2>3. ~requested => ~take.data
    BY <1>2 DEF Skipped
  <2> QED
    BY <2>2, <2>3
<1>3. CASE ~Skipped
  <2> DEFINE top == accepted - Queued
             n == take.frames
  <2>1. chunk' = Run(top, n) /\ n \in Nat
    BY <1>1, <1>3, FillKeepsQueue
  <2>2. top \in Nat
    BY QueueTyped
  <2> HIDE DEF top, n
  <2>3. Len(chunk') = n /\ \A i \in 1 .. n : chunk'[i] = top + i
    BY <2>1, <2>2, RunTyped
  <2>4. \A i \in 1 .. n : top + i # 0
    BY <2>1, <2>2
  <2>5. \A i \in 1 .. n : chunk'[i] # 0
    BY <2>3, <2>4
  <2>6. take.data
    BY <1>1, <1>3 DEF Skipped
  <2> QED
    BY <2>3, <2>5, <2>6 DEF n
<1> QED
  BY <1>2, <1>3

\* Every step keeps what the worker has read in this turn true enough to act on.
LEMMA TurnKept ==
  ASSUME QueueInv, FlightInv, FlushInv, TurnInv, [Next]_vars
  PROVE  TurnInv'
<1>1. /\ padding \in 0 .. BufferSize /\ take \in [frames : 0 .. BufferSize, data : BOOLEAN]
      /\ Len(buffer) <= BufferSize /\ Len(buffer) \in Nat /\ Len(chunk) \in Nat
      /\ BufferSize \in Nat /\ buffer \in Seq(Nat) /\ chunk \in Seq(Nat)
  BY FlightTyped, PlaybackAssumption DEF TurnInv
<1>2. ASSUME NEW n \in FrameSizes, Write(n) PROVE TurnInv'
  <2>1. n \in Nat
    BY PlaybackAssumption
  <2>2. UNCHANGED <<padding, take, buffer, worker, requested, chunk>>
    BY <1>2 DEF Write, workerVars, endpointVars
  <2>3. Queued' = Queued + n /\ Queued \in Nat
    BY <1>2, <2>1, WriteQueued, QueueTyped
  <2>4. worker = "fill" /\ take.data /\ ~requested => take.frames <= Queued'
    <3>1. worker = "fill" /\ take.data /\ ~requested => take.frames <= Queued
      BY DEF TurnInv
    <3>2. take.frames \in Nat
      BY <1>1
    <3> QED
      BY <2>1, <2>3, <3>1, <3>2
  <2> QED
    BY <2>2, <2>4 DEF TurnInv
<1>3. CASE BeginFlush
  <2>1. UNCHANGED <<padding, take, buffer, worker, chunk>> /\ requested' = TRUE
    BY <1>3 DEF BeginFlush, workerVars, endpointVars
  <2> QED
    BY <2>1 DEF TurnInv
<1>4. CASE FlushReturns \/ FlushFails \/ Close \/ Join
  <2>1. UNCHANGED <<padding, take, buffer, worker, chunk, requested, queue, cursor>>
    BY <1>4 DEF FlushReturns, FlushFails, Close, Join, workerVars, endpointVars, sharedVars
  <2>2. Queued' = Queued
    BY <2>1 DEF Queued
  <2> QED
    BY <2>1, <2>2 DEF TurnInv
<1>5. CASE StartTurn \/ Rezero \/ AnswerFlush \/ DeviceFails
  <2>1. /\ UNCHANGED <<padding, take, buffer>>
        /\ worker' \in {"exited", "reset", "padding", "answer"}
    BY <1>5 DEF StartTurn, Rezero, AnswerFlush, DeviceFails, endpointVars
  <2> QED
    BY <2>1 DEF TurnInv
<1>6. CASE Reset
  <2>1. UNCHANGED <<padding, take>> /\ buffer' = <<>> /\ worker' = "rezero"
    BY <1>6 DEF Reset
  <2>2. Len(buffer') <= BufferSize
    BY <1>1, <2>1
  <2> QED
    BY <2>1, <2>2 DEF TurnInv
<1>7. CASE ReadPadding
  <2>1. UNCHANGED <<take, buffer>> /\ padding' = Len(buffer) /\ worker' = "clock"
    BY <1>7 DEF ReadPadding, endpointVars
  <2>2. padding' \in 0 .. BufferSize /\ Len(buffer') <= padding'
    BY <1>1, <2>1
  <2> QED
    BY <1>1, <2>1, <2>2 DEF TurnInv
<1>8. CASE ReadClock
  <2>1. UNCHANGED <<padding, take, buffer>> /\ worker = "clock" /\ worker' = "measure"
    BY <1>8 DEF ReadClock, endpointVars
  <2> QED
    BY <2>1 DEF TurnInv
<1>9. CASE Measure
  <2>1. /\ UNCHANGED <<padding, buffer, queue, cursor, requested>> /\ worker = "measure"
        /\ worker' = IF take'.frames = 0 THEN "top" ELSE "fill"
    BY <1>9 DEF Measure, endpointVars, sharedVars
  <2>2. Queued' = Queued
    BY <2>1 DEF Queued
  <2>3. /\ take' \in [frames : 0 .. BufferSize, data : BOOLEAN]
        /\ take'.frames <= BufferSize - padding
        /\ take'.data => take'.frames <= Queued
        /\ ~take'.data /\ take'.frames # 0 => padding + take'.frames <= Lead
    BY <1>9, MeasureTakes
  <2>4. take'.frames \in Nat /\ (take'.frames # 0 => take'.frames \in 1 .. BufferSize - padding)
    BY <1>1, <2>3
  <2>5. Len(buffer) <= padding
    BY <2>1 DEF TurnInv
  <2> QED
    BY <1>1, <2>1, <2>2, <2>3, <2>4, <2>5 DEF TurnInv
<1>10. CASE Fill
  <2>1. /\ UNCHANGED <<padding, take, buffer, requested>> /\ worker = "fill" /\ worker' = "release"
    BY <1>10 DEF Fill, endpointVars
  <2>2. /\ Len(chunk') = take.frames
        /\ ~requested => \A i \in 1 .. Len(chunk') : chunk'[i] # 0 <=> take.data
    BY <1>10, FillMatches
  <2> QED
    BY <2>1, <2>2 DEF TurnInv
<1>11. CASE Release
  <2>1. /\ UNCHANGED <<padding, take>> /\ worker = "release" /\ worker' = "top"
        /\ buffer' = buffer \o chunk
    BY <1>11 DEF Release
  <2>2. Len(buffer') = Len(buffer) + Len(chunk)
    BY <1>1, <2>1
  <2>3. /\ Len(buffer) <= padding /\ take.frames <= BufferSize - padding
        /\ Len(chunk) = take.frames
    BY <2>1 DEF TurnInv
  <2>4. Len(buffer') <= BufferSize
    <3> DEFINE a == Len(buffer)
               b == take.frames
    <3>1. /\ a \in Nat /\ b \in Nat /\ a <= padding /\ b <= BufferSize - padding
          /\ padding \in Nat /\ BufferSize \in Nat /\ Len(buffer') = a + b
      BY <1>1, <2>2, <2>3
    <3> HIDE DEF a, b
    <3> QED
      BY <3>1
  <2> QED
    BY <1>1, <2>1, <2>4 DEF TurnInv
<1>12. CASE Play
  <2>1. /\ UNCHANGED <<padding, take, worker, requested, chunk, queue, cursor>>
        /\ buffer # <<>> /\ buffer' = Tail(buffer)
    BY <1>12 DEF Play, workerVars, sharedVars
  <2>2. Queued' = Queued
    BY <2>1 DEF Queued
  <2>3. Len(buffer') = Len(buffer) - 1
    BY <1>1, <2>1
  <2>4. Len(buffer') <= BufferSize
    BY <1>1, <2>3
  <2>5. worker \in {"clock", "measure", "fill", "release"} => Len(buffer') <= padding
    <3>1. worker \in {"clock", "measure", "fill", "release"} => Len(buffer) <= padding
      BY DEF TurnInv
    <3> QED
      BY <1>1, <2>3, <3>1
  <2> QED
    BY <2>1, <2>2, <2>4, <2>5 DEF TurnInv
<1>13. CASE UNCHANGED vars
  <2>1. UNCHANGED <<padding, take, buffer, worker, chunk, requested, queue, cursor>>
    BY <1>13 DEF vars, workerVars, endpointVars, sharedVars
  <2>2. Queued' = Queued
    BY <2>1 DEF Queued
  <2> QED
    BY <2>1, <2>2 DEF TurnInv
<1> QED
  BY <1>2, <1>3, <1>4, <1>5, <1>6, <1>7, <1>8, <1>9, <1>10, <1>11, <1>12, <1>13
     DEF Next, Worker

\* No more silence than the lead has is in front of anything.
LEMMA LeadKept ==
  ASSUME QueueInv, FlightInv, FlushInv, TurnInv, LeadBounded, [Next]_vars
  PROVE  LeadBounded'
<1>1. buffer \in Seq(Nat) /\ chunk \in Seq(Nat) /\ Lead \in Nat
  BY FlightTyped, PlaybackAssumption
<1>2. Only(<<>>, {0}) = <<>> /\ Len(<<>>) = 0
  BY FlattenEmpty DEF Only
<1>3. CASE buffer' = <<>>
  BY <1>1, <1>2, <1>3 DEF LeadBounded
<1>4. CASE Release
  <2>1. /\ buffer' = buffer \o chunk /\ requested' = requested /\ worker = "release"
    BY <1>4 DEF Release, sharedVars
  <2>2. SUFFICES ASSUME ~requested PROVE Len(Only(buffer \o chunk, {0})) <= Lead
    BY <2>1 DEF LeadBounded
  <2>3. /\ Len(buffer) <= padding /\ (~take.data => padding + take.frames <= Lead)
        /\ Len(chunk) = take.frames /\ take.data \in BOOLEAN
        /\ \A i \in 1 .. Len(chunk) : chunk[i] # 0 <=> take.data
        /\ padding \in Nat /\ take.frames \in Nat
    BY <2>1, <2>2 DEF TurnInv
  <2>4. CASE take.data
    <3>1. \A i \in 1 .. Len(chunk) : chunk[i] \notin {0}
      BY <2>3, <2>4
    <3>2. Only(chunk, {0}) = <<>>
      BY <1>1, <3>1, OnlyNone
    <3>3. Only(buffer \o chunk, {0}) = Only(buffer, {0}) \o <<>>
      <4>1. Only(buffer \o chunk, {0}) = Only(buffer, {0}) \o Only(chunk, {0})
        BY <1>1, OnlyConcat
      <4> QED
        BY <3>2, <4>1, Zenon
    <3>4. Only(buffer, {0}) \in Seq(Nat)
      BY <1>1, OnlyType
    <3>5. Only(buffer, {0}) \o <<>> = Only(buffer, {0})
      BY <3>4, ConcatEmptySeq
    <3> QED
      BY <2>2, <3>3, <3>5 DEF LeadBounded
  <2>5. CASE ~take.data
    <3>1. /\ buffer \o chunk \in Seq(Nat) /\ Len(buffer \o chunk) = Len(buffer) + Len(chunk)
          /\ Len(buffer) \in Nat
      BY <1>1
    <3>2. /\ Len(Only(buffer \o chunk, {0})) \in Nat
          /\ Len(Only(buffer \o chunk, {0})) <= Len(buffer \o chunk)
      BY <3>1, OnlyShorter
    <3> DEFINE a == Len(Only(buffer \o chunk, {0}))
               b == Len(buffer)
               c == take.frames
    <3>3. /\ a \in Nat /\ b \in Nat /\ c \in Nat /\ padding \in Nat /\ a <= b + c
          /\ b <= padding /\ padding + c <= Lead
      BY <2>3, <2>5, <3>1, <3>2
    <3> HIDE DEF a, b, c
    <3>4. a <= Lead
      BY <1>1, <3>3
    <3> QED
      BY <3>4 DEF a
  <2> QED
    BY <2>3, <2>4, <2>5
<1>5. CASE Play
  <2>1. buffer # <<>> /\ buffer' = Tail(buffer) /\ requested' = requested
    BY <1>5 DEF Play, sharedVars
  <2> DEFINE h == <<Head(buffer)>>
             r == Tail(buffer)
  <2>2. buffer = h \o r /\ h \in Seq(Nat) /\ r \in Seq(Nat)
    BY <1>1, <2>1
  <2> HIDE DEF h, r
  <2>3. Only(buffer, {0}) = Only(h, {0}) \o Only(r, {0})
    BY <2>2, OnlyConcat
  <2>4. Only(h, {0}) \in Seq(Nat) /\ Only(r, {0}) \in Seq(Nat)
    BY <2>2, OnlyType
  <2>5. Len(Only(r, {0})) <= Len(Only(buffer, {0})) /\ Len(Only(r, {0})) \in Nat
        /\ Len(Only(buffer, {0})) \in Nat
    BY <2>3, <2>4
  <2> QED
    BY <1>1, <2>1, <2>5 DEF LeadBounded, r
<1>6. CASE buffer' = buffer /\ (~requested' => ~requested)
  BY <1>6 DEF LeadBounded
<1>7. CASE AnswerFlush
  <2>1. buffer' = <<>>
    BY <1>7 DEF AnswerFlush, FlushInv, endpointVars
  <2> QED
    BY <1>3, <2>1
<1>8. CASE Reset
  BY <1>3, <1>8 DEF Reset
<1>9. ASSUME NEW n \in FrameSizes, Write(n) PROVE LeadBounded'
  BY <1>6, <1>9 DEF Write, endpointVars
<1>10. CASE BeginFlush \/ FlushReturns \/ FlushFails \/ Close \/ Join
  BY <1>6, <1>10 DEF BeginFlush, FlushReturns, FlushFails, Close, Join, sharedVars, endpointVars
<1>11. CASE StartTurn \/ Rezero \/ ReadPadding \/ Measure \/ Fill \/ DeviceFails
  BY <1>6, <1>11 DEF StartTurn, Rezero, ReadPadding, Measure, Fill, DeviceFails, sharedVars,
                     endpointVars
<1>12. CASE ReadClock
  <2>1. buffer' = buffer /\ requested' = requested
    BY <1>12 DEF ReadClock, endpointVars
  <2> QED
    BY <1>6, <2>1
<1>13. CASE UNCHANGED vars
  BY <1>6, <1>13 DEF vars, sharedVars, endpointVars
<1> QED
  BY <1>4, <1>5, <1>7, <1>8, <1>9, <1>10, <1>11, <1>12, <1>13 DEF Next, Worker

-----------------------------------------------------------------------------
(* What the tracker says of single samples.                                  *)

\* A stretch is of one kind.
LEMMA KindTyped ==
  ASSUME NEW x \in Stretch
  PROVE  /\ Kind(x) \in Seq(Nat) /\ Len(Kind(x)) = x.frames /\ x.frames \in Nat
         /\ \A i \in 1 .. x.frames : Kind(x)[i] = IF x.data THEN 1 ELSE 0
<1>1. x.frames \in Nat /\ x.data \in BOOLEAN
  BY DEF Stretch
<1> QED
  BY <1>1 DEF Kind

\* Any part of a stretch of the caller's samples counts, no part of another one.
LEMMA KindTotal ==
  ASSUME NEW x \in Stretch, NEW k \in 0 .. x.frames
  PROVE  /\ SubSeq(Kind(x), 1, k) \in Seq(Nat)
         /\ Total(SubSeq(Kind(x), 1, k)) = IF x.data THEN k ELSE 0
<1> DEFINE s == SubSeq(Kind(x), 1, k)
<1>1. s \in Seq(Nat) /\ Len(s) = k /\ \A i \in 1 .. k : s[i] = IF x.data THEN 1 ELSE 0
  <2> DEFINE y == Kind(x)
             m == x.frames
  <2>1. /\ y \in Seq(Nat) /\ Len(y) = m /\ m \in Nat /\ k \in 0 .. m
        /\ \A i \in 1 .. m : y[i] = IF x.data THEN 1 ELSE 0
    BY KindTyped
  <2>2. s = SubSeq(y, 1, k)
    OBVIOUS
  <2> HIDE DEF y, m, s
  <2>3. s \in Seq(Nat) /\ Len(s) = k /\ \A i \in 1 .. k : s[i] = y[i] /\ i \in 1 .. m
    BY <2>1, <2>2
  <2> QED
    BY <2>1, <2>3
<1> HIDE DEF s
<1>2. CASE x.data
  BY <1>1, <1>2, TotalOnes DEF s
<1>3. CASE ~x.data
  BY <1>1, <1>3, TotalZeros DEF s
<1> QED
  BY <1>2, <1>3

\* As many samples as the stretches have, and of those as many of the caller's.
LEMMA KindsTyped ==
  ASSUME NEW r \in Seq(Stretch)
  PROVE  /\ KindList(r) \in Seq(Seq(Nat)) /\ Kinds(r) \in Seq(Nat) /\ Len(Kinds(r)) \in Nat
         /\ Len(Kinds(r)) = Total([i \in DOMAIN r |-> r[i].frames])
         /\ Total(Kinds(r)) = Total([i \in DOMAIN r |-> IF r[i].data THEN r[i].frames ELSE 0])
<1> DEFINE q == KindList(r)
<1>1. \A i \in 1 .. Len(r) : r[i] \in Stretch /\ DOMAIN r = 1 .. Len(r) /\ Len(r) \in Nat
  OBVIOUS
<1>2. /\ q \in Seq(Seq(Nat)) /\ DOMAIN q = DOMAIN r
      /\ \A i \in DOMAIN r : q[i] = Kind(r[i])
  <2>1. \A i \in 1 .. Len(r) : Kind(r[i]) \in Seq(Nat)
    BY <1>1, KindTyped
  <2> QED
    BY <1>1, <2>1 DEF KindList
<1>3. \A i \in DOMAIN r :
        Len(q[i]) = r[i].frames /\ Total(q[i]) = IF r[i].data THEN r[i].frames ELSE 0
  <2> TAKE i \in DOMAIN r
  <2>1. r[i] \in Stretch
    OBVIOUS
  <2>2. q[i] = Kind(r[i])
    BY <1>2
  <2> DEFINE x == r[i]
             s == Kind(x)
  <2> HIDE DEF q
  <2>3. s \in Seq(Nat) /\ Len(s) = x.frames /\ x.frames \in Nat
    BY <2>1, KindTyped
  <2>4. SubSeq(s, 1, x.frames) = s
    BY <2>3, SubSeqFull
  <2>5. Total(SubSeq(s, 1, x.frames)) = IF x.data THEN x.frames ELSE 0
    <3>1. x.frames \in 0 .. x.frames
      BY <2>3
    <3> HIDE DEF x
    <3> QED
      BY <2>1, <3>1, KindTotal DEF x
  <2> QED
    BY <2>2, <2>3, <2>4, <2>5
<1> HIDE DEF q
<1>4. Kinds(r) \in Seq(Nat) /\ Len(Kinds(r)) = Total([i \in DOMAIN q |-> Len(q[i])])
  BY <1>2, FlattenType, FlattenLength DEF Kinds, q
<1>5. Total(Kinds(r)) = Total([i \in DOMAIN q |-> Total(q[i])])
  BY <1>2, TotalFlatten DEF Kinds, q
<1>6. /\ [i \in DOMAIN q |-> Len(q[i])] = [i \in DOMAIN r |-> r[i].frames]
      /\ [i \in DOMAIN q |-> Total(q[i])]
           = [i \in DOMAIN r |-> IF r[i].data THEN r[i].frames ELSE 0]
  BY <1>2, <1>3
<1>7. Len(Kinds(r)) \in Nat
  BY <1>4
<1> QED
  BY <1>2, <1>4, <1>5, <1>6, <1>7, Zenon DEF q

\* The kinds of one stretch after the other.
LEMMA KindsJoined ==
  ASSUME NEW r \in Seq(Stretch), NEW s \in Seq(Stretch)
  PROVE  Kinds(r \o s) = Kinds(r) \o Kinds(s)
<1> DEFINE u == r \o s
           p == KindList(r)
           q == KindList(s)
           w == p \o q
           v == KindList(u)
<1>1. /\ Len(r) \in Nat /\ Len(s) \in Nat /\ u \in Seq(Stretch) /\ Len(u) = Len(r) + Len(s)
      /\ \A i \in 1 .. Len(r) : u[i] = r[i]
      /\ \A i \in 1 .. Len(s) : u[Len(r) + i] = s[i]
  OBVIOUS
<1> HIDE DEF u
<1>2. \A x \in Seq(Stretch) :
        /\ KindList(x) \in Seq(Seq(Nat)) /\ Len(KindList(x)) = Len(x)
        /\ \A i \in 1 .. Len(x) : KindList(x)[i] = Kind(x[i])
  <2> TAKE x \in Seq(Stretch)
  <2>1. KindList(x) \in Seq(Seq(Nat))
    BY KindsTyped
  <2> QED
    BY <2>1 DEF KindList
<1>3. /\ p \in Seq(Seq(Nat)) /\ Len(p) = Len(r) /\ \A i \in 1 .. Len(r) : p[i] = Kind(r[i])
  BY <1>2
<1>4. /\ q \in Seq(Seq(Nat)) /\ Len(q) = Len(s) /\ \A i \in 1 .. Len(s) : q[i] = Kind(s[i])
  BY <1>2
<1>5. /\ v \in Seq(Seq(Nat)) /\ Len(v) = Len(u) /\ \A i \in 1 .. Len(u) : v[i] = Kind(u[i])
  BY <1>1, <1>2
<1> HIDE DEF p, q, v
<1>6. /\ w \in Seq(Seq(Nat)) /\ Len(w) = Len(r) + Len(s)
      /\ \A i \in 1 .. Len(r) : w[i] = p[i]
      /\ \A i \in 1 .. Len(s) : w[Len(r) + i] = q[i]
  <2>1. \A a, b \in Seq(Seq(Nat)) :
          /\ a \o b \in Seq(Seq(Nat)) /\ Len(a \o b) = Len(a) + Len(b)
          /\ \A i \in 1 .. Len(a) : (a \o b)[i] = a[i]
          /\ \A i \in 1 .. Len(b) : (a \o b)[Len(a) + i] = b[i]
    OBVIOUS
  <2>2. /\ w \in Seq(Seq(Nat)) /\ Len(w) = Len(p) + Len(q)
        /\ \A i \in 1 .. Len(p) : w[i] = p[i]
        /\ \A i \in 1 .. Len(q) : w[Len(p) + i] = q[i]
    BY <1>3, <1>4, <2>1, Zenon
  <2> HIDE DEF w
  <2> QED
    BY <1>3, <1>4, <2>2
<1> HIDE DEF w
<1>7. ASSUME NEW i \in 1 .. Len(u) PROVE v[i] = w[i]
  <2>1. CASE i <= Len(r)
    BY <1>1, <1>3, <1>5, <1>6, <2>1
  <2>2. CASE ~(i <= Len(r))
    <3>1. PICK j \in 1 .. Len(s) : i = Len(r) + j
      <4>1. i - Len(r) \in 1 .. Len(s) /\ i = Len(r) + (i - Len(r))
        BY <1>1, <2>2
      <4> QED
        BY <4>1, Zenon
    <3> QED
      BY <1>1, <1>4, <1>5, <1>6, <3>1
  <2> QED
    BY <2>1, <2>2
<1>8. v = w
  BY <1>1, <1>5, <1>6, <1>7, SeqEqual
<1>9. FlattenSeq(w) = FlattenSeq(p) \o FlattenSeq(q)
  BY <1>3, <1>4, FlattenConcat DEF w
<1> QED
  BY <1>8, <1>9 DEF Kinds, p, q, v, u

\* The kinds of a single stretch.
LEMMA KindsOfOne ==
  ASSUME NEW x \in Stretch
  PROVE  Kinds(<<x>>) = Kind(x)
<1>1. KindList(<<x>>) = <<Kind(x)>>
  BY DEF KindList
<1> QED
  BY <1>1, KindTyped, FlattenSingle DEF Kinds

\* Those of the first n stretches, and of the others.
LEMMA KindsParted ==
  ASSUME NEW r \in Seq(Stretch), NEW n \in 0 .. Len(r)
  PROVE  /\ SubSeq(r, 1, n) \in Seq(Stretch) /\ SubSeq(r, n + 1, Len(r)) \in Seq(Stretch)
         /\ Kinds(r) = Kinds(SubSeq(r, 1, n)) \o Kinds(SubSeq(r, n + 1, Len(r)))
<1>1. SubSeq(r, 1, n) \in Seq(Stretch) /\ SubSeq(r, n + 1, Len(r)) \in Seq(Stretch)
  OBVIOUS
<1>2. r = SubSeq(r, 1, n) \o SubSeq(r, n + 1, Len(r))
  <2>1. 1 \in 1 .. Len(r) + 1 /\ n \in 1 - 1 .. Len(r) /\ Len(r) \in n .. Len(r)
    OBVIOUS
  <2>2. SubSeq(r, 1, n) \o SubSeq(r, n + 1, Len(r)) = SubSeq(r, 1, Len(r))
    BY <2>1, ConcatAdjacentSubSeq
  <2> QED
    BY <2>2, SubSeqFull
<1> QED
  BY <1>1, <1>2, KindsJoined

\* What the tracker holds is what it says the kinds of.
LEMMA TrackerTyped ==
  ASSUME NEW t \in Tracker
  PROVE  /\ t.released \in Seq(Stretch) /\ t.before \in Nat
         /\ Unplayed(t) \in Nat /\ Unplayed(t) = Len(Kinds(t.released))
<1>1. t.released \in Seq(Stretch) /\ t.before \in Nat
  BY DEF Tracker
<1> QED
  BY <1>1, KindsTyped DEF Unplayed

\* A tracker that starts holds nothing.
LEMMA NewTracks ==
  NewTracker \in Tracker /\ Unplayed(NewTracker) = 0 /\ Tracks(NewTracker, <<>>, 0)
<1>1. NewTracker \in Tracker /\ NewTracker.released = <<>> /\ NewTracker.before = 0
  BY DEF NewTracker, Tracker
<1>2. KindList(<<>>) = <<>>
  BY DEF KindList
<1>3. Kinds(<<>>) = <<>>
  BY <1>2, FlattenEmpty DEF Kinds
<1>4. Len(<<>>) = 0 /\ SubSeq(<<>>, 1, 0) = <<>>
  OBVIOUS
<1>5. Unplayed(NewTracker) = 0
  BY <1>1, <1>3, <1>4, TrackerTyped
<1>6. Tracks(NewTracker, <<>>, 0)
  <2>1. Len(Kinds(NewTracker.released)) - Len(<<>>) = 0
    BY <1>1, <1>3, <1>4
  <2>2. Total(SubSeq(Kinds(NewTracker.released), 1, 0)) = 0
    BY <1>1, <1>3, <1>4, TotalEmpty
  <2>3. \A i \in 1 .. Len(<<>>) : FALSE
    BY <1>4
  <2> QED
    BY <1>1, <2>1, <2>2, <2>3 DEF Tracks
<1> QED
  BY <1>1, <1>5, <1>6

\* What is released is tracked after what was, sample by sample.
LEMMA ReleasedKinds ==
  ASSUME NEW t \in Tracker, NEW frames \in Nat, NEW data \in BOOLEAN
  PROVE  LET u == Released(t, frames, data) IN
         /\ u \in Tracker /\ u.before = t.before
         /\ Kinds(u.released) = Kinds(t.released) \o Kind([frames |-> frames, data |-> data])
<1> DEFINE r == t.released
           n == Len(r)
           x == [frames |-> frames, data |-> data]
           u == Released(t, frames, data)
<1>1. r \in Seq(Stretch) /\ n \in Nat /\ x \in Stretch /\ t = [released |-> r, before |-> t.before]
      /\ t.before \in Nat
  BY DEF Tracker, Stretch
<1>2. CASE n > 0 /\ r[n].data = data
  <2> DEFINE y == r[n]
             z == [frames |-> y.frames + frames, data |-> data]
             s == SubSeq(r, 1, n - 1)
             v == [r EXCEPT ![n] = z]
  <2>1. y \in Stretch /\ y.data = data /\ y.frames \in Nat
    <3>1. y \in Stretch /\ y.data = data
      BY <1>1, <1>2
    <3> QED
      BY <3>1 DEF Stretch
  <2>2. z \in Stretch
    BY <2>1 DEF Stretch
  <2>3. u = [released |-> v, before |-> t.before]
    <3>1. u = [t EXCEPT !.released = [r EXCEPT ![n] = [r[n] EXCEPT !.frames = r[n].frames + frames]]]
      BY <1>2, Zenon DEF Released
    <3>2. [r[n] EXCEPT !.frames = r[n].frames + frames] = z
      BY <2>1 DEF Stretch
    <3> HIDE DEF z, r, n
    <3>3. u = [t EXCEPT !.released = v]
      BY <3>1, <3>2, Zenon
    <3> HIDE DEF v, u
    <3> QED
      BY <1>1, <3>3
  <2>4. s \in Seq(Stretch) /\ Len(s) = n - 1 /\ \A i \in 1 .. n - 1 : s[i] = r[i]
    <3>1. r \in Seq(Stretch) /\ Len(r) = n /\ n \in Nat /\ n > 0
      BY <1>1, <1>2
    <3> HIDE DEF r, n
    <3> QED
      BY <3>1
  <2>5. r = s \o <<y>>
    <3>1. SubSeq(r, 1, n) = r /\ SubSeq(r, 1, n) = SubSeq(r, 1, n - 1) \o <<r[n]>>
      <4>1. 1 \in 1 .. n /\ n \in 1 .. n
        BY <1>1, <1>2
      <4> QED
        BY <1>1, <4>1, SubSeqFull, SubSeqRecursiveSecond
    <3> QED
      BY <3>1
  <2>6. v = s \o <<z>>
    <3>1. v \in Seq(Stretch) /\ Len(v) = n /\ v[n] = z /\ \A i \in 1 .. n - 1 : v[i] = r[i]
      <4> HIDE DEF z, r
      <4> QED
        BY <1>1, <1>2, <2>2
    <3> DEFINE w == s \o <<z>>
    <3>0. n \in Nat /\ n > 0
      BY <1>1, <1>2
    <3> HIDE DEF s, z, v, r, n
    <3>2. w \in Seq(Stretch) /\ Len(w) = n /\ w[n] = z /\ \A i \in 1 .. n - 1 : w[i] = s[i]
      BY <2>2, <2>4, <3>0
    <3> HIDE DEF w
    <3>3. ASSUME NEW i \in 1 .. n PROVE v[i] = w[i]
      <4>1. i = n \/ i \in 1 .. n - 1
        BY <3>0
      <4> QED
        BY <2>4, <3>1, <3>2, <4>1
    <3>4. v = w
      BY <3>1, <3>2, <3>3, SeqEqual
    <3> QED
      BY <3>4 DEF w
  <2>7. Kind(z) = Kind(y) \o Kind(x)
    <3> DEFINE w == Kind(y) \o Kind(x)
               k == Kind(z)
               c == IF data THEN 1 ELSE 0
               m == y.frames
    <3>1. /\ Kind(y) \in Seq(Nat) /\ Len(Kind(y)) = m /\ m \in Nat
          /\ \A i \in 1 .. m : Kind(y)[i] = c
      BY <2>1, KindTyped
    <3>2. /\ Kind(x) \in Seq(Nat) /\ Len(Kind(x)) = frames
          /\ \A i \in 1 .. frames : Kind(x)[i] = c
      BY <1>1, KindTyped
    <3>3. /\ k \in Seq(Nat) /\ Len(k) = m + frames
          /\ \A i \in 1 .. m + frames : k[i] = c
      BY <2>2, KindTyped
    <3>4. /\ w \in Seq(Nat) /\ Len(w) = m + frames
          /\ \A i \in 1 .. m : w[i] = Kind(y)[i]
          /\ \A i \in 1 .. frames : w[m + i] = Kind(x)[i]
      <4>1. \A a, b \in Seq(Nat) :
              /\ a \o b \in Seq(Nat) /\ Len(a \o b) = Len(a) + Len(b)
              /\ \A i \in 1 .. Len(a) : (a \o b)[i] = a[i]
              /\ \A i \in 1 .. Len(b) : (a \o b)[Len(a) + i] = b[i]
        OBVIOUS
      <4> DEFINE a == Kind(y)
                 b == Kind(x)
      <4>2. a \in Seq(Nat) /\ b \in Seq(Nat) /\ Len(a) = m /\ Len(b) = frames
        BY <3>1, <3>2
      <4> HIDE DEF a, b, m
      <4>3. /\ a \o b \in Seq(Nat) /\ Len(a \o b) = m + frames
            /\ \A i \in 1 .. m : (a \o b)[i] = a[i]
            /\ \A i \in 1 .. frames : (a \o b)[m + i] = b[i]
        BY <4>1, <4>2
      <4> QED
        BY <4>3 DEF a, b
    <3> HIDE DEF k, w, m, c, x, y
    <3>5. ASSUME NEW i \in 1 .. m + frames PROVE k[i] = w[i]
      <4>1. CASE i <= m
        BY <3>1, <3>3, <3>4, <4>1
      <4>2. CASE ~(i <= m)
        <5>1. PICK j \in 1 .. frames : i = m + j
          <6>1. i - m \in 1 .. frames /\ i = m + (i - m)
            BY <3>1, <4>2
          <6> QED
            BY <6>1, Zenon
        <5> QED
          BY <3>2, <3>3, <3>4, <5>1
      <4> QED
        BY <4>1, <4>2
    <3>6. k = w
      BY <3>3, <3>4, <3>5, SeqEqual
    <3> QED
      BY <3>6 DEF k, w
  <2>8. Kinds(v) = Kinds(r) \o Kind(x)
    <3>1. <<y>> \in Seq(Stretch) /\ <<z>> \in Seq(Stretch)
      BY <2>1, <2>2
    <3>2. Kinds(v) = Kinds(s) \o Kind(z) /\ Kinds(r) = Kinds(s) \o Kind(y)
      <4>1. /\ Kinds(s \o <<y>>) = Kinds(s) \o Kinds(<<y>>)
            /\ Kinds(s \o <<z>>) = Kinds(s) \o Kinds(<<z>>)
        <5> HIDE DEF s, y, z
        <5> QED
          BY <2>4, <3>1, KindsJoined
      <4>2. Kinds(<<y>>) = Kind(y) /\ Kinds(<<z>>) = Kind(z)
        <5> HIDE DEF y, z
        <5> QED
          BY <2>1, <2>2, KindsOfOne
      <4> HIDE DEF r, s, v, y, z
      <4> QED
        BY <2>5, <2>6, <4>1, <4>2, Zenon
    <3>3. Kinds(s) \in Seq(Nat) /\ Kind(y) \in Seq(Nat) /\ Kind(x) \in Seq(Nat)
      <4> HIDE DEF s, x, y
      <4> QED
        BY <1>1, <2>1, <2>4, KindsTyped, KindTyped
    <3>4. (Kinds(s) \o Kind(y)) \o Kind(x) = Kinds(s) \o (Kind(y) \o Kind(x))
      <4> HIDE DEF s, x, y
      <4> QED
        BY SMTT(30), <3>3, ConcatAssociative
    <3> HIDE DEF r, s, v, x, y, z
    <3> QED
      BY <2>7, <3>2, <3>4, Zenon
  <2>9. v \in Seq(Stretch)
    <3> HIDE DEF z
    <3> QED
      BY <1>1, <1>2, <2>2
  <2>10. u \in Tracker /\ u.released = v /\ u.before = t.before
    <3> HIDE DEF v, u
    <3> QED
      BY <1>1, <2>3, <2>9 DEF Tracker
  <2> QED
    BY <2>8, <2>10
<1>3. CASE ~(n > 0 /\ r[n].data = data)
  <2> DEFINE v == Append(r, x)
  <2>1. u = [released |-> v, before |-> t.before]
    <3>1. u = [t EXCEPT !.released = v]
      BY <1>3, Zenon DEF Released
    <3> HIDE DEF v, u
    <3> QED
      BY <1>1, <3>1
  <2>2. v = r \o <<x>> /\ <<x>> \in Seq(Stretch) /\ v \in Seq(Stretch)
    BY <1>1
  <2>3. Kinds(v) = Kinds(r) \o Kind(x)
    <3> HIDE DEF r, x, v
    <3>1. Kinds(r \o <<x>>) = Kinds(r) \o Kinds(<<x>>)
      BY <1>1, <2>2, KindsJoined
    <3> QED
      BY <1>1, <2>2, <3>1, KindsOfOne
  <2>4. u \in Tracker /\ u.released = v /\ u.before = t.before
    <3> HIDE DEF v, u
    <3> QED
      BY <1>1, <2>1, <2>2 DEF Tracker
  <2> QED
    BY <2>3, <2>4
<1> QED
  BY <1>2, <1>3

-----------------------------------------------------------------------------
(* The tracker stays right.                                                  *)

\* What is left of the tracker once the first n stretches are dropped.
Rest(t, n) == SubSeq(t.released, n + 1, Len(t.released))

\* There is a number of stretches that may be dropped: those that were played in full.
LEMMA PlayedInFull ==
  ASSUME NEW t \in Tracker, NEW l \in 0 .. Unplayed(t)
  PROVE  \E n \in 0 .. Len(t.released) :
           /\ Len(Kinds(Rest(t, n))) >= l
           /\ n = Len(t.released) \/ Len(Kinds(Rest(t, n + 1))) < l
<1> DEFINE m == Len(t.released)
           Left(n) == Len(Kinds(Rest(t, n)))
           F == {n \in 0 .. m : n = m \/ Left(n + 1) < l}
<1>1. m \in Nat /\ t.released \in Seq(Stretch)
  BY DEF Tracker
<1>2. \A n \in 0 .. m : Left(n) \in Nat
  <2> TAKE n \in 0 .. m
  <2>1. Rest(t, n) \in Seq(Stretch)
    BY <1>1 DEF Rest
  <2> QED
    BY <2>1, KindsTyped
<1>3. PICK n \in F : \A k \in F : n <= k
  <2>1. F \subseteq Nat /\ m \in F
    BY <1>1
  <2> HIDE DEF F
  <2> QED
    BY <2>1, LeastMember
<1>4. Left(n) >= l
  <2>1. CASE n = 0
    <3>1. Rest(t, 0) = t.released
      BY <1>1, SubSeqFull DEF Rest
    <3>2. Left(0) = Unplayed(t) /\ Unplayed(t) \in Nat
      BY <3>1, TrackerTyped
    <3> HIDE DEF Left
    <3> QED
      BY <2>1, <3>2
  <2>2. CASE n # 0
    <3>1. n - 1 \in 0 .. m /\ n - 1 # m /\ n - 1 \notin F /\ (n - 1) + 1 = n /\ n \in 0 .. m
      <4>1. n \in 0 .. m /\ n - 1 \in 0 .. m /\ n - 1 # m /\ (n - 1) + 1 = n
        BY <1>1, <1>3, <2>2
      <4>2. n - 1 \notin F
        <5> HIDE DEF F, m
        <5>1. n \in Nat /\ ~(n <= n - 1)
          BY <1>1, <4>1
        <5> QED
          BY <1>3, <5>1
      <4> QED
        BY <4>1, <4>2
    <3>2. ~(Left((n - 1) + 1) < l)
      BY <3>1
    <3>3. Left(n) \in Nat /\ l \in Nat
      <4>1. Unplayed(t) \in Nat
        BY TrackerTyped
      <4> QED
        BY <1>2, <3>1, <4>1
    <3> HIDE DEF Left
    <3> QED
      BY <3>1, <3>2, <3>3
  <2> QED
    BY <2>1, <2>2
<1>5. n \in 0 .. m /\ (n = m \/ Left(n + 1) < l)
  BY <1>3
<1> QED
  BY <1>4, <1>5

\* The samples that the stretches dropped and the part of the first one left count,
\* which is what the position returned counts: it takes all of the part, or nothing.
LEMMA CaughtTracks ==
  ASSUME NEW t \in Tracker, NEW b \in Seq(Nat), Len(b) <= Unplayed(t), NEW heardSince \in Nat,
         Tracks(t, b, heardSince)
  PROVE  LET u == Caught(t, Len(b)) IN
         /\ u \in Tracker /\ Len(b) <= Unplayed(u) /\ Tracks(u, b, heardSince)
         /\ Count(u, Len(b)) = heardSince
<1> DEFINE r == t.released
           m == Len(r)
           l == Len(b)
           Choice(n) == /\ n \in 0 .. m
                        /\ Len(Kinds(Rest(t, n))) >= l
                        /\ n = m \/ Len(Kinds(Rest(t, n + 1))) < l
           n == CHOOSE n : Choice(n)
           first == SubSeq(r, 1, n)
           rest == Rest(t, n)
           data == [i \in 1 .. n |-> IF r[i].data THEN r[i].frames ELSE 0]
           u == Caught(t, l)
           K == Kinds(r)
           F == Kinds(first)
           G == Kinds(rest)
           gone == Len(K) - l
           left == Len(G) - l
<1>1. r \in Seq(Stretch) /\ m \in Nat /\ l \in Nat /\ t.before \in Nat /\ Len(K) = Unplayed(t)
      /\ K \in Seq(Nat) /\ l <= Len(K) /\ Len(K) \in Nat
  <2>1. r \in Seq(Stretch) /\ t.before \in Nat /\ Unplayed(t) \in Nat /\ Unplayed(t) = Len(K)
    BY TrackerTyped
  <2>2. m \in Nat /\ l \in Nat
    BY <2>1
  <2>3. K \in Seq(Nat)
    BY <2>1, KindsTyped
  <2> QED
    BY <2>1, <2>2, <2>3
<1>2. Choice(n)
  <2>1. l \in 0 .. Unplayed(t)
    BY <1>1
  <2>2. \E k : Choice(k)
    BY <2>1, PlayedInFull
  <2> HIDE DEF Choice
  <2> QED
    BY <2>2, Zenon
<1>3. u = [released |-> rest, before |-> t.before + Total(data)]
  <2> DEFINE From(i) == SubSeq(t.released, i + 1, Len(t.released))
             Left(i) == Unplayed([t EXCEPT !.released = From(i)])
  <2>1. \A i \in 0 .. m + 1 : Left(i) = Len(Kinds(Rest(t, i)))
    <3> TAKE i \in 0 .. m + 1
    <3>1. From(i) \in Seq(Stretch) /\ From(i) = Rest(t, i)
      BY <1>1 DEF Rest
    <3> HIDE DEF From
    <3>2. [t EXCEPT !.released = From(i)] \in Tracker /\ [t EXCEPT !.released = From(i)].released = From(i)
      BY <3>1 DEF Tracker
    <3> QED
      BY <3>1, <3>2, TrackerTyped
  <2> DEFINE Q(k) == Left(k) >= l /\ (k = Len(t.released) \/ Left(k + 1) < l)
  <2>2. \A k : Choice(k) <=> k \in 0 .. Len(t.released) /\ Q(k)
    <3> TAKE k
    <3>1. CASE k \in 0 .. m
      <4>1. k \in 0 .. m + 1 /\ k + 1 \in 0 .. m + 1
        BY <1>1, <3>1
      <4>2. Left(k) = Len(Kinds(Rest(t, k))) /\ Left(k + 1) = Len(Kinds(Rest(t, k + 1)))
        BY <2>1, <4>1
      <4> HIDE DEF Left, l
      <4> QED
        BY <4>2, Zenon
    <3>2. CASE k \notin 0 .. m
      <4> HIDE DEF Q
      <4> QED
        BY <3>2, Zenon
    <3> QED
      BY <3>1, <3>2
  <2>3. n = CHOOSE k \in 0 .. Len(t.released) :
              Left(k) >= l /\ (k = Len(t.released) \/ Left(k + 1) < l)
    <3> HIDE DEF Choice, Q
    <3>1. (CHOOSE k : Choice(k)) = CHOOSE k \in 0 .. Len(t.released) : Q(k)
      BY <2>2
    <3> QED
      BY <3>1, Zenon DEF Q
  <2> HIDE DEF n
  <2> QED
    BY <2>3, Zenon DEF Caught, Rest
<1>4. n \in 0 .. m /\ Len(G) >= l /\ (n = m \/ Len(Kinds(Rest(t, n + 1))) < l)
  <2> HIDE DEF n
  <2> QED
    BY <1>2
<1> HIDE DEF n
<1>5. first \in Seq(Stretch) /\ rest \in Seq(Stretch) /\ K = F \o G
  BY <1>1, <1>4, KindsParted DEF Rest
<1>6. F \in Seq(Nat) /\ G \in Seq(Nat) /\ Len(F) \in Nat /\ Len(G) \in Nat
  <2> HIDE DEF first, rest
  <2> QED
    BY <1>5, KindsTyped
<1>7. Total(F) = Total(data) /\ Total(data) \in Nat
  <2>1. Total(F) = Total([i \in DOMAIN first |-> IF first[i].data THEN first[i].frames ELSE 0])
    <3> HIDE DEF first
    <3> QED
      BY <1>5, KindsTyped
  <2>2. DOMAIN first = 1 .. n /\ \A i \in 1 .. n : first[i] = r[i]
    <3> HIDE DEF r, m
    <3> QED
      BY <1>1, <1>4 DEF m
  <2>3. [i \in DOMAIN first |-> IF first[i].data THEN first[i].frames ELSE 0] = data
    <3> HIDE DEF first, r
    <3> QED
      BY <2>2
  <2>4. Total(F) \in Nat
    <3> HIDE DEF F
    <3> QED
      BY <1>6, TotalType
  <2> HIDE DEF F, data, first
  <2> QED
    BY <2>1, <2>3, <2>4
<1>8. u \in Tracker /\ u.released = rest /\ u.before = t.before + Total(F)
  <2> HIDE DEF u, rest, data, F
  <2> QED
    BY <1>1, <1>3, <1>5, <1>7 DEF Tracker
<1>9. Len(K) = Len(F) + Len(G) /\ gone = Len(F) + left /\ gone \in Nat /\ left \in Nat
      /\ left <= Len(G) /\ gone <= Len(K)
  <2> HIDE DEF K, F, G, l
  <2>1. Len(K) = Len(F) + Len(G)
    BY <1>5, <1>6
  <2> QED
    BY SMTT(30), <1>1, <1>4, <1>6, <2>1
<1>10. Unplayed(u) = Len(G) /\ l <= Unplayed(u)
  <2> HIDE DEF u, rest
  <2>1. Unplayed(u) = Len(G)
    BY <1>8, TrackerTyped
  <2> HIDE DEF G, l
  <2> QED
    BY <1>1, <1>4, <1>6, <2>1
<1>11. \A i \in 1 .. l : K[gone + i] = G[left + i]
  <2> DEFINE f == Len(F)
             g == Len(G)
  <2>1. f \in Nat /\ g \in Nat /\ gone = f + left /\ left \in Nat /\ left + l = g /\ l \in Nat
    <3> HIDE DEF F, G, K, l
    <3> QED
      BY <1>1, <1>6, <1>9
  <2>2. \A i \in 1 .. g : K[f + i] = G[i]
    <3> HIDE DEF F, G, K
    <3> QED
      BY <1>5, <1>6
  <2> HIDE DEF f, g, K, G, l, gone, left
  <2>3. \A i \in 1 .. l : left + i \in 1 .. g /\ gone + i = f + (left + i)
    BY <2>1
  <2> QED
    BY <2>2, <2>3
<1>12. /\ SubSeq(K, 1, gone) = F \o SubSeq(G, 1, left) /\ SubSeq(G, 1, left) \in Seq(Nat)
       /\ Total(SubSeq(K, 1, gone)) = Total(F) + Total(SubSeq(G, 1, left))
  <2> HIDE DEF F, G, K, gone, left
  <2>1. SubSeq(K, 1, gone) = F \o SubSeq(G, 1, left) /\ SubSeq(G, 1, left) \in Seq(Nat)
    <3> DEFINE p == SubSeq(K, 1, gone)
               s == SubSeq(G, 1, left)
               q == F \o s
               f == Len(F)
    <3>1. s \in Seq(Nat) /\ Len(s) = left /\ \A i \in 1 .. left : s[i] = G[i]
      BY <1>6, <1>9
    <3>2. p \in Seq(Nat) /\ Len(p) = gone /\ \A i \in 1 .. gone : p[i] = K[i]
      <4>1. K \in Seq(Nat) /\ gone \in 0 .. Len(K) /\ Len(K) \in Nat
        BY <1>1, <1>9
      <4> QED
        BY <4>1
    <3>3. /\ f \in Nat /\ gone = f + left
          /\ \A i \in 1 .. f : K[i] = F[i]
          /\ \A i \in 1 .. left : K[f + i] = G[i]
      BY <1>5, <1>6, <1>9
    <3> HIDE DEF s
    <3>4. /\ q \in Seq(Nat) /\ Len(q) = f + left
          /\ \A i \in 1 .. f : q[i] = F[i]
          /\ \A i \in 1 .. left : q[f + i] = s[i]
      <4>1. \A x, y \in Seq(Nat) :
              /\ x \o y \in Seq(Nat) /\ Len(x \o y) = Len(x) + Len(y)
              /\ \A i \in 1 .. Len(x) : (x \o y)[i] = x[i]
              /\ \A i \in 1 .. Len(y) : (x \o y)[Len(x) + i] = y[i]
        OBVIOUS
      <4>2. /\ q \in Seq(Nat) /\ Len(q) = f + Len(s)
            /\ \A i \in 1 .. f : q[i] = F[i]
            /\ \A i \in 1 .. Len(s) : q[f + i] = s[i]
        BY <1>6, <3>1, <4>1, Zenon
      <4> HIDE DEF q, f
      <4> QED
        BY <3>1, <4>2
    <3> HIDE DEF p, q, f
    <3>5. ASSUME NEW i \in 1 .. gone PROVE p[i] = q[i]
      <4>1. CASE i <= f
        <5>1. i \in 1 .. f
          BY <1>9, <3>3, <4>1
        <5> QED
          BY <3>2, <3>3, <3>4, <5>1
      <4>2. CASE ~(i <= f)
        <5>1. PICK j \in 1 .. left : i = f + j
          <6>1. i - f \in 1 .. left /\ i = f + (i - f)
            BY <1>9, <3>3, <4>2
          <6> QED
            BY <6>1, Zenon
        <5> QED
          BY ZenonT(30), <3>1, <3>2, <3>3, <3>4, <5>1
      <4> QED
        BY <4>1, <4>2
    <3>6. p = q
      BY <3>2, <3>3, <3>4, <3>5, SeqEqual
    <3> QED
      BY <3>1, <3>6 DEF p, q, s
  <2> DEFINE s == SubSeq(G, 1, left)
  <2> HIDE DEF s
  <2>2. Total(F \o s) = Total(F) + Total(s)
    BY <1>6, <2>1, TotalConcat DEF s
  <2> QED
    BY <2>1, <2>2 DEF s
<1> DEFINE part == Total(SubSeq(G, 1, left))
<1>13. part \in Nat /\ heardSince = u.before + part
  <2>1. part \in Nat
    <3> HIDE DEF G, left
    <3> QED
      BY <1>12, TotalType
  <2>2. heardSince = t.before + Total(SubSeq(K, 1, gone))
    BY DEF Tracks
  <2> HIDE DEF part, F, K, gone, u
  <2>3. heardSince = t.before + (Total(F) + part)
    BY <1>12, <2>2 DEF part
  <2>4. Total(F) \in Nat
    BY <1>7
  <2> QED
    BY <1>1, <1>8, <2>1, <2>3, <2>4
<1>14. Tracks(u, b, heardSince)
  <2>1. \A i \in 1 .. Len(b) : b[i] # 0 <=> K[gone + i] = 1
    BY DEF Tracks
  <2> HIDE DEF K, u, gone, rest
  <2>2. \A i \in 1 .. Len(b) : b[i] # 0 <=> G[left + i] = 1
    BY <1>11, <2>1
  <2> QED
    BY <1>8, <1>13, <2>2 DEF Tracks
<1>15. Count(u, l) = heardSince
  <2>1. CASE n = m
    <3>1. rest = <<>>
      BY <1>1, <2>1 DEF Rest
    <3>2. G = <<>>
      <4>1. KindList(<<>>) = <<>>
        BY DEF KindList
      <4> QED
        BY <3>1, <4>1, FlattenEmpty DEF Kinds
    <3>3. left = 0 /\ SubSeq(<<>>, 1, 0) = <<>>
      <4>1. Len(G) = 0
        BY <3>2
      <4> HIDE DEF G, l
      <4> QED
        BY <1>1, <1>9, <4>1
    <3>4. part = 0
      <4> HIDE DEF G, left
      <4> QED
        BY <3>2, <3>3, TotalEmpty
    <3> HIDE DEF part, u, rest, F
    <3>5. Count(u, l) = u.before + 0 /\ u.before \in Nat
      <4>1. u.before \in Nat
        BY <1>8, TrackerTyped
      <4> QED
        BY <1>8, <3>1, <4>1 DEF Count
    <3> QED
      BY <1>13, <3>4, <3>5
  <2>2. CASE n # m
    <3> DEFINE x == r[n + 1]
               more == Rest(t, n + 1)
               H == Kinds(more)
    <3>1. /\ n + 1 \in 1 .. m /\ x \in Stretch /\ more \in Seq(Stretch)
          /\ rest = <<x>> \o more /\ rest # <<>> /\ rest[1] = x
      <4>1. n + 1 \in 1 .. m /\ m \in n + 1 .. m /\ n + 1 \in Nat
        BY <1>1, <1>4, <2>2
      <4>2. x \in Stretch
        BY <1>1, <4>1
      <4>3. SubSeq(r, n + 1, m) = <<r[n + 1]>> \o SubSeq(r, n + 1 + 1, m)
        <5> HIDE DEF r
        <5> QED
          BY <1>1, <4>1, SubSeqRecursiveFirst
      <4>4. more \in Seq(Stretch)
        BY <1>1, <4>1 DEF Rest
      <4>5. rest = <<x>> \o more
        BY <4>3 DEF Rest
      <4> HIDE DEF rest, x, more
      <4>6. rest # <<>> /\ rest[1] = x
        BY <4>2, <4>4, <4>5
      <4> QED
        BY <4>1, <4>2, <4>4, <4>5, <4>6
    <3>2. G = Kind(x) \o H /\ H \in Seq(Nat)
      <4> HIDE DEF rest, x, more
      <4>1. Kinds(<<x>> \o more) = Kinds(<<x>>) \o Kinds(more) /\ Kinds(<<x>>) = Kind(x)
        <5>1. <<x>> \in Seq(Stretch)
          BY <3>1
        <5> QED
          BY <3>1, <5>1, KindsJoined, KindsOfOne
      <4>2. H \in Seq(Nat)
        BY <3>1, KindsTyped
      <4> QED
        BY <3>1, <4>1, <4>2
    <3>3. Kind(x) \in Seq(Nat) /\ Len(Kind(x)) = x.frames /\ x.frames \in Nat
      <4> HIDE DEF x
      <4> QED
        BY <3>1, KindTyped
    <3>4. left \in 0 .. x.frames
      <4> DEFINE f == x.frames
                 h == Len(H)
      <4>1. Len(G) = f + h /\ h \in Nat
        <5>1. \A a, c \in Seq(Nat) : Len(a \o c) = Len(a) + Len(c) /\ Len(c) \in Nat
          OBVIOUS
        <5> HIDE DEF G, H, x
        <5> QED
          BY <3>2, <3>3, <5>1
      <4>2. h < l
        BY <1>4, <2>2
      <4> HIDE DEF f, h, l, G
      <4>3. f \in Nat
        BY <3>3 DEF f
      <4>4. left \in 0 .. f
        BY <1>1, <1>9, <4>1, <4>2, <4>3
      <4> QED
        BY <4>4 DEF f
    <3>5. SubSeq(G, 1, left) = SubSeq(Kind(x), 1, left)
      <4> DEFINE k == Kind(x)
                 p == SubSeq(G, 1, left)
                 q == SubSeq(k, 1, left)
      <4>1. k \in Seq(Nat) /\ left \in 0 .. Len(k)
        BY <3>3, <3>4
      <4> HIDE DEF H, left, k
      <4>2. \A i \in 1 .. left : G[i] = k[i]
        <5>1. G = k \o H
          BY <3>2 DEF k
        <5> HIDE DEF G
        <5> QED
          BY <3>2, <4>1, <5>1
      <4>3. p \in Seq(Nat) /\ Len(p) = left /\ \A i \in 1 .. left : p[i] = G[i]
        <5> HIDE DEF G
        <5> QED
          BY <1>6, <1>9
      <4>4. q \in Seq(Nat) /\ Len(q) = left /\ \A i \in 1 .. left : q[i] = k[i]
        BY <4>1
      <4> HIDE DEF p, q
      <4>5. p = q
        BY <4>2, <4>3, <4>4, SeqEqual
      <4> QED
        BY <4>5 DEF p, q, k
    <3>6. part = IF x.data THEN left ELSE 0
      <4> HIDE DEF left, x, G
      <4>1. Total(SubSeq(Kind(x), 1, left)) = IF x.data THEN left ELSE 0
        BY <3>1, <3>4, KindTotal
      <4> QED
        BY <3>5, <4>1, Zenon
    <3>7. Count(u, l) = u.before + (IF x.data THEN left ELSE 0)
      <4> HIDE DEF u, rest, x, G, l
      <4> QED
        BY <1>8, <1>10, <3>1 DEF Count
    <3> HIDE DEF part, u, x, left, l
    <3> QED
      BY <1>13, <3>6, <3>7
  <2> QED
    BY <2>1, <2>2
<1> HIDE DEF u, l
<1> QED
  BY <1>8, <1>10, <1>14, <1>15 DEF u, l

\* A sample counts, or it does not.
LEMMA KindsBinary ==
  ASSUME NEW r \in Seq(Stretch)
  PROVE  \A i \in 1 .. Len(Kinds(r)) : Kinds(r)[i] \in {0, 1}
<1> DEFINE S == {0, 1}
           q == KindList(r)
<1>1. Len(r) \in Nat /\ DOMAIN r = 1 .. Len(r) /\ \A i \in 1 .. Len(r) : r[i] \in Stretch
  OBVIOUS
<1>2. \A i \in 1 .. Len(r) : Kind(r[i]) \in Seq(S)
  <2> TAKE i \in 1 .. Len(r)
  <2>1. r[i].frames \in Nat
    BY <1>1 DEF Stretch
  <2> QED
    BY <2>1 DEF Kind
<1> HIDE DEF S
<1>3. q \in Seq(Seq(S))
  BY <1>1, <1>2 DEF KindList
<1> HIDE DEF q
<1>4. FlattenSeq(q) \in Seq(S)
  BY <1>3, FlattenType
<1> DEFINE k == FlattenSeq(q)
<1> HIDE DEF k
<1>5. \A i \in 1 .. Len(k) : k[i] \in S
  BY <1>4 DEF k
<1> QED
  BY <1>5 DEF k, q, Kinds, S

\* The tracker is right about what is left once the endpoint has played a sample.
LEMMA PlayedTracks ==
  ASSUME NEW t \in Tracker, NEW b \in Seq(Nat), b # <<>>, Len(b) <= Unplayed(t),
         NEW n \in Nat, Tracks(t, b, n)
  PROVE  Tracks(t, Tail(b), IF Head(b) = 0 THEN n ELSE n + 1)
<1> DEFINE K == Kinds(t.released)
           l == Len(b)
           c == Tail(b)
           gone == Len(K) - l
           x == K[gone + 1]
<1>1. /\ K \in Seq(Nat) /\ Len(K) \in Nat /\ Len(K) = Unplayed(t) /\ t.before \in Nat
      /\ \A i \in 1 .. Len(K) : K[i] \in {0, 1}
  <2>1. t.released \in Seq(Stretch) /\ t.before \in Nat
    BY TrackerTyped
  <2> QED
    BY <2>1, KindsTyped, KindsBinary, TrackerTyped
<1>2. l \in Nat /\ l > 0 /\ l <= Len(K) /\ Len(c) = l - 1 /\ Head(b) = b[1]
      /\ \A i \in 1 .. l - 1 : c[i] = b[i + 1]
  <2>1. l \in Nat /\ l > 0 /\ Len(c) = l - 1 /\ Head(b) = b[1]
        /\ \A i \in 1 .. l - 1 : c[i] = b[i + 1]
    OBVIOUS
  <2> QED
    BY <1>1, <2>1
<1>3. (\A i \in 1 .. l : b[i] # 0 <=> K[gone + i] = 1) /\ n = t.before + Total(SubSeq(K, 1, gone))
  BY DEF Tracks
<1> HIDE DEF K, l, c
<1>4. gone \in Nat /\ gone + 1 \in 1 .. Len(K) /\ Len(K) - Len(c) = gone + 1
  BY <1>1, <1>2
<1>5. (x = 1 <=> Head(b) # 0) /\ x \in {0, 1}
  <2>1. 1 \in 1 .. l
    BY <1>2
  <2> QED
    BY <1>1, <1>2, <1>3, <1>4, <2>1
<1> HIDE DEF gone, x
<1>6. Total(SubSeq(K, 1, gone + 1)) = Total(SubSeq(K, 1, gone)) + x
  <2> DEFINE s == SubSeq(K, 1, gone)
  <2>1. SubSeq(K, 1, gone + 1) = SubSeq(K, 1, (gone + 1) - 1) \o <<K[gone + 1]>>
    <3>1. 1 \in 1 .. Len(K) /\ gone + 1 \in 1 .. Len(K)
      BY <1>1, <1>4
    <3> QED
      BY <1>1, <1>4, <3>1, SubSeqRecursiveSecond
  <2>2. s \in Seq(Nat) /\ <<x>> \in Seq(Nat) /\ x \in Nat /\ (gone + 1) - 1 = gone
    BY SMTT(30), <1>1, <1>4, <1>5
  <2>3. SubSeq(K, 1, gone + 1) = s \o <<x>>
    BY <2>1, <2>2 DEF x
  <2> HIDE DEF s
  <2>4. Total(s \o <<x>>) = Total(s) + Total(<<x>>) /\ Total(<<x>>) = x
    BY <2>2, TotalConcat, TotalSingle
  <2> QED
    BY <2>3, <2>4 DEF s
<1>7. Total(SubSeq(K, 1, gone)) \in Nat
  <2>1. SubSeq(K, 1, gone) \in Seq(Nat)
    BY <1>1, <1>4
  <2> QED
    BY <2>1, TotalType
<1>8. (IF Head(b) = 0 THEN n ELSE n + 1) = t.before + Total(SubSeq(K, 1, gone + 1))
  <2> DEFINE a == Total(SubSeq(K, 1, gone))
  <2> HIDE DEF a
  <2>1. Total(SubSeq(K, 1, gone + 1)) = a + x /\ n = t.before + a /\ a \in Nat
    BY <1>3, <1>6, <1>7 DEF a
  <2>2. CASE Head(b) = 0
    BY <1>1, <1>5, <2>1, <2>2
  <2>3. CASE Head(b) # 0
    BY SMTT(30), <1>1, <1>5, <2>1, <2>3
  <2> QED
    BY <2>2, <2>3
<1>9. \A i \in 1 .. Len(c) : c[i] # 0 <=> K[(gone + 1) + i] = 1
  <2> TAKE i \in 1 .. Len(c)
  <2>1. i \in 1 .. l - 1 /\ i + 1 \in 1 .. l /\ gone + (i + 1) = (gone + 1) + i
    BY <1>2, <1>4
  <2>2. b[i + 1] # 0 <=> K[gone + (i + 1)] = 1
    BY <1>3, <2>1
  <2> QED
    BY <1>2, <2>1, <2>2
<1> QED
  BY <1>4, <1>8, <1>9 DEF Tracks, K, c

\* And about what is there once the worker has released what it says it has.
LEMMA ReleasedTracks ==
  ASSUME NEW t \in Tracker, NEW b \in Seq(Nat), Len(b) <= Unplayed(t),
         NEW frames \in Nat, NEW data \in BOOLEAN, NEW c \in Seq(Nat), Len(c) = frames
  PROVE  LET u == Released(t, frames, data) IN
         /\ u \in Tracker /\ Len(b \o c) <= Unplayed(u)
         /\ \A n \in Nat : Tracks(t, b, n) /\ (\A i \in 1 .. Len(c) : c[i] # 0 <=> data)
                           => Tracks(u, b \o c, n)
<1> DEFINE u == Released(t, frames, data)
           K == Kinds(t.released)
           x == [frames |-> frames, data |-> data]
           k == Kind(x)
           M == K \o k
           d == b \o c
           l == Len(b)
           m == Len(K)
           gone == m - l
<1>1. u \in Tracker /\ u.before = t.before /\ Kinds(u.released) = M
  BY ReleasedKinds
<1>2. /\ K \in Seq(Nat) /\ m \in Nat /\ m = Unplayed(t) /\ l \in Nat /\ l <= m
  <2>1. t.released \in Seq(Stretch) /\ m = Unplayed(t) /\ m \in Nat
    BY TrackerTyped
  <2>2. K \in Seq(Nat)
    BY <2>1, KindsTyped
  <2>3. l \in Nat
    OBVIOUS
  <2> HIDE DEF K, l, m
  <2> QED
    BY <2>1, <2>2, <2>3 DEF l
<1>3. /\ k \in Seq(Nat) /\ Len(k) = frames /\ \A i \in 1 .. frames : k[i] = IF data THEN 1 ELSE 0
  <2>1. x \in Stretch
    BY DEF Stretch
  <2> QED
    BY <2>1, KindTyped
<1>4. \A p, q \in Seq(Nat) :
        /\ p \o q \in Seq(Nat) /\ Len(p \o q) = Len(p) + Len(q)
        /\ \A i \in 1 .. Len(p) : (p \o q)[i] = p[i]
        /\ \A i \in 1 .. Len(q) : (p \o q)[Len(p) + i] = q[i]
  OBVIOUS
<1>5. /\ d \in Seq(Nat) /\ Len(d) = l + frames
      /\ \A i \in 1 .. l : d[i] = b[i]
      /\ \A i \in 1 .. frames : d[l + i] = c[i]
  <2>1. /\ d \in Seq(Nat) /\ Len(d) = l + Len(c)
        /\ \A i \in 1 .. l : d[i] = b[i]
        /\ \A i \in 1 .. Len(c) : d[l + i] = c[i]
    BY <1>4, Zenon
  <2> HIDE DEF d, l
  <2> QED
    BY <2>1
<1> HIDE DEF K, k, d, l
<1>6. /\ M \in Seq(Nat) /\ Len(M) = m + frames
      /\ \A i \in 1 .. m : M[i] = K[i]
      /\ \A i \in 1 .. frames : M[m + i] = k[i]
  <2>1. /\ M \in Seq(Nat) /\ Len(M) = m + Len(k)
        /\ \A i \in 1 .. m : M[i] = K[i]
        /\ \A i \in 1 .. Len(k) : M[m + i] = k[i]
    BY <1>2, <1>3, <1>4, Zenon
  <2> HIDE DEF M, m
  <2> QED
    BY <1>3, <2>1
<1> HIDE DEF M, m, u
<1>7. Unplayed(u) = m + frames /\ Len(d) <= Unplayed(u)
  <2>1. Unplayed(u) = m + frames
    BY <1>1, <1>6, TrackerTyped
  <2> QED
    BY <1>2, <1>5, <2>1
<1>8. ASSUME NEW n \in Nat, Tracks(t, b, n), \A i \in 1 .. Len(c) : c[i] # 0 <=> data
      PROVE  Tracks(u, d, n)
  <2>1. /\ \A i \in 1 .. l : b[i] # 0 <=> K[gone + i] = 1
        /\ n = t.before + Total(SubSeq(K, 1, gone))
    BY <1>8 DEF Tracks, K, l, m
  <2>2. Len(M) - Len(d) = gone /\ gone \in Nat /\ gone <= m /\ gone + l = m
    <3>1. Len(M) - Len(d) = (m + frames) - (l + frames)
      BY <1>5, <1>6
    <3> QED
      BY <1>2, <3>1
  <2> HIDE DEF gone
  <2>3. SubSeq(M, 1, gone) = SubSeq(K, 1, gone)
    <3> DEFINE p == SubSeq(M, 1, gone)
               q == SubSeq(K, 1, gone)
    <3>1. p \in Seq(Nat) /\ Len(p) = gone /\ \A i \in 1 .. gone : p[i] = M[i]
      <4>1. gone \in 0 .. Len(M)
        BY <1>2, <1>6, <2>2
      <4> QED
        BY <1>6, <4>1
    <3>2. q \in Seq(Nat) /\ Len(q) = gone /\ \A i \in 1 .. gone : q[i] = K[i]
      <4>1. gone \in 0 .. Len(K)
        BY <1>2, <2>2 DEF m
      <4> QED
        BY <1>2, <4>1
    <3> HIDE DEF p, q
    <3>3. \A i \in 1 .. gone : p[i] = q[i]
      <4> TAKE i \in 1 .. gone
      <4>1. i \in 1 .. m
        BY <1>2, <2>2
      <4> QED
        BY <1>6, <3>1, <3>2, <4>1
    <3>4. p = q
      BY <3>1, <3>2, <3>3, SeqEqual
    <3> QED
      BY <3>4 DEF p, q
  <2>4. ASSUME NEW i \in 1 .. Len(d) PROVE d[i] # 0 <=> M[gone + i] = 1
    <3>1. CASE i <= l
      <4>1. i \in 1 .. l /\ gone + i \in 1 .. m
        BY <1>2, <2>2, <3>1
      <4> QED
        BY <1>5, <1>6, <2>1, <4>1
    <3>2. CASE ~(i <= l)
      <4>1. PICK j \in 1 .. frames : i = l + j
        <5>1. i - l \in 1 .. frames /\ i = l + (i - l)
          BY <1>2, <1>5, <3>2
        <5> QED
          BY <5>1, Zenon
      <4>2. gone + i = m + j
        BY <1>2, <2>2, <4>1
      <4>3. d[i] = c[j] /\ M[gone + i] = IF data THEN 1 ELSE 0
        BY <1>3, <1>5, <1>6, <4>1, <4>2
      <4>4. c[j] # 0 <=> data
        BY <1>8, <4>1
      <4> QED
        BY <4>3, <4>4
    <3> QED
      BY <3>1, <3>2
  <2> QED
    BY <1>1, <2>1, <2>2, <2>3, <2>4 DEF Tracks
<1> QED
  BY <1>1, <1>7, <1>8 DEF u, d

\* The turn a flush has overtaken, from its release to the reset.
Overtaken == requested /\ worker \in {"top", "reset", "exited"}

\* Every step keeps the tracker in step with the endpoint.
LEMMA TrackerKept ==
  ASSUME QueueInv, FlightInv, FlushInv, TurnInv, TrackerInv, [Next]_vars
  PROVE  TrackerInv'
<1> USE DEF callerVars, sharedVars, workerVars, endpointVars
<1>1. /\ tracker \in Tracker /\ since \in Nat /\ played \in Nat
      /\ Len(buffer) <= Unplayed(tracker)
      /\ Overtaken \/ Tracks(tracker, buffer, since)
      /\ worker # "rezero" => played <= since
  BY DEF TrackerInv, Overtaken
<1>2. buffer \in Seq(Nat) /\ chunk \in Seq(Nat) /\ Len(buffer) \in Nat
  BY FlightTyped
<1>3. ASSUME /\ UNCHANGED <<tracker, buffer, since, played>>
             /\ Overtaken => Overtaken'
             /\ worker = "rezero" => worker' = "rezero"
      PROVE  TrackerInv'
  <2>1. Overtaken' \/ Tracks(tracker', buffer', since')
    BY <1>1, <1>3
  <2>2. worker' # "rezero" => played' <= since'
    BY <1>1, <1>3
  <2> QED
    BY <1>1, <1>3, <2>1, <2>2 DEF TrackerInv, Overtaken
<1>4. ASSUME NEW n \in FrameSizes, Write(n) PROVE TrackerInv'
  BY <1>3, <1>4 DEF Write, Overtaken
<1>5. CASE BeginFlush \/ FlushReturns \/ FlushFails \/ Close \/ Join
  BY <1>3, <1>5 DEF BeginFlush, FlushReturns, FlushFails, Close, Join, Overtaken
<1>6. CASE StartTurn
  <2>1. /\ UNCHANGED <<tracker, buffer, since, played, requested>> /\ worker = "top"
        /\ worker' = IF stop THEN "exited" ELSE IF requested THEN "reset" ELSE "padding"
    BY <1>6 DEF StartTurn
  <2>2. Overtaken => Overtaken'
    BY <2>1 DEF Overtaken
  <2> QED
    BY <1>3, <2>1, <2>2
<1>7. CASE DeviceFails
  <2>1. /\ UNCHANGED <<tracker, buffer, since, played, requested>> /\ worker' = "exited"
        /\ worker \in {"reset", "padding", "fill"}
    BY <1>7 DEF DeviceFails
  <2>2. Overtaken => Overtaken'
    BY <2>1 DEF Overtaken
  <2> QED
    BY <1>3, <2>1, <2>2
<1>8. CASE Reset
  <2>1. /\ tracker' = NewTracker /\ buffer' = <<>> /\ since' = 0 /\ played' = played
        /\ worker' = "rezero"
    BY <1>8 DEF Reset, Restarted
  <2>2. Len(buffer') <= Unplayed(tracker')
    BY <2>1, NewTracks
  <2> QED
    BY <1>1, <2>1, <2>2, NewTracks DEF TrackerInv
<1>9. CASE Rezero
  <2>1. /\ UNCHANGED <<tracker, buffer, since>> /\ played' = 0 /\ worker = "rezero"
    BY <1>9 DEF Rezero
  <2>2. Tracks(tracker', buffer', since')
    BY <1>1, <2>1 DEF Overtaken
  <2>3. played' <= since'
    BY <1>1, <2>1
  <2> QED
    BY <1>1, <2>1, <2>2, <2>3 DEF TrackerInv
<1>10. CASE AnswerFlush
  <2>1. UNCHANGED <<tracker, buffer, since, played>> /\ worker = "answer"
    BY <1>10 DEF AnswerFlush
  <2> QED
    BY <1>3, <1>10, <2>1 DEF Overtaken, AnswerFlush
<1>11. CASE ReadPadding
  BY <1>3, <1>11 DEF ReadPadding, Overtaken
<1>12. CASE ReadClock
  <2>1. UNCHANGED <<buffer, since, requested>> /\ worker = "clock" /\ worker' = "measure"
    BY <1>12 DEF ReadClock
  <2>2. Tracks(tracker, buffer, since)
    BY <1>1, <2>1 DEF Overtaken
  <2>3. CASE tracker' = Caught(tracker, Len(buffer)) /\ played' = Count(tracker', Len(buffer))
    <3>1. /\ tracker' \in Tracker /\ Len(buffer) <= Unplayed(tracker')
          /\ Tracks(tracker', buffer, since) /\ Count(tracker', Len(buffer)) = since
      BY <1>1, <1>2, <2>2, <2>3, CaughtTracks
    <3>2. played' = since
      BY <2>3, <3>1
    <3> QED
      BY <1>1, <2>1, <3>1, <3>2 DEF TrackerInv
  <2>4. CASE UNCHANGED <<tracker, played>>
    BY <1>3, <2>1, <2>4 DEF Overtaken
  <2> QED
    BY <1>12, <2>3, <2>4 DEF ReadClock
<1>13. CASE Measure
  <2>1. UNCHANGED <<tracker, buffer, since, played>> /\ worker = "measure"
    BY <1>13 DEF Measure
  <2> QED
    BY <1>3, <2>1 DEF Overtaken
<1>14. CASE Fill
  <2>1. UNCHANGED <<tracker, buffer, since, played>> /\ worker = "fill"
    BY <1>14 DEF Fill
  <2> QED
    BY <1>3, <2>1 DEF Overtaken
<1>15. CASE Release
  <2>1. /\ tracker' = Released(tracker, take.frames, take.data) /\ buffer' = buffer \o chunk
        /\ UNCHANGED <<since, played, requested>> /\ worker = "release" /\ worker' = "top"
    BY <1>15 DEF Release
  <2>2. take.frames \in Nat /\ take.data \in BOOLEAN /\ Len(chunk) = take.frames
    BY <2>1 DEF TurnInv
  <2>3. /\ tracker' \in Tracker /\ Len(buffer') <= Unplayed(tracker')
        /\ Tracks(tracker, buffer, since) /\ (\A i \in 1 .. Len(chunk) : chunk[i] # 0 <=> take.data)
             => Tracks(tracker', buffer', since)
    BY <1>1, <1>2, <2>1, <2>2, ReleasedTracks
  <2>4. Overtaken' \/ Tracks(tracker', buffer', since')
    <3>1. CASE requested
      BY <2>1, <3>1 DEF Overtaken
    <3>2. CASE ~requested
      <4>1. \A i \in 1 .. Len(chunk) : chunk[i] # 0 <=> take.data
        BY <2>1, <3>2 DEF TurnInv
      <4>2. Tracks(tracker, buffer, since)
        BY <1>1, <3>2 DEF Overtaken
      <4> QED
        BY <2>1, <2>3, <4>1, <4>2
    <3> QED
      BY <3>1, <3>2
  <2> QED
    BY <1>1, <2>1, <2>3, <2>4 DEF TrackerInv, Overtaken
<1>16. CASE Play
  <2>1. /\ buffer # <<>> /\ buffer' = Tail(buffer)
        /\ since' = IF Head(buffer) = 0 THEN since ELSE since + 1
        /\ UNCHANGED <<tracker, played, requested, worker>>
    BY <1>16 DEF Play
  <2>2. Len(buffer') <= Unplayed(tracker)
    <3>1. Len(Tail(buffer)) = Len(buffer) - 1 /\ Unplayed(tracker) \in Nat
      BY <1>1, <1>2, <2>1, TrackerTyped
    <3> QED
      BY <1>1, <1>2, <2>1, <3>1
  <2>3. Overtaken' \/ Tracks(tracker', buffer', since')
    <3>1. CASE Overtaken
      BY <2>1, <3>1 DEF Overtaken
    <3>2. CASE Tracks(tracker, buffer, since)
      BY <1>1, <1>2, <2>1, <3>2, PlayedTracks
    <3> QED
      BY <1>1, <3>1, <3>2
  <2>4. since' \in Nat /\ since <= since'
    BY <1>1, <2>1
  <2>5. worker' # "rezero" => played' <= since'
    BY <1>1, <2>1, <2>4
  <2> QED
    BY <1>1, <2>1, <2>2, <2>3, <2>4, <2>5 DEF TrackerInv, Overtaken
<1>17. CASE UNCHANGED vars
  BY <1>3, <1>17 DEF vars, Overtaken
<1> QED
  BY <1>4, <1>5, <1>6, <1>7, <1>8, <1>9, <1>10, <1>11, <1>12, <1>13, <1>14, <1>15, <1>16, <1>17
     DEF Next, Worker

-----------------------------------------------------------------------------
(* The theorems.                                                             *)

\* The invariant holds when the session opens.
LEMMA InvStarts == Init => IInv
<1> SUFFICES ASSUME Init PROVE IInv
  OBVIOUS
<1> USE DEF Init
<1>1. QueueCap \in Nat /\ BufferSize \in Nat /\ Lead \in Nat /\ MaxSamples \in Nat
  BY PlaybackAssumption
<1>2. Queued = 0 /\ Samples = <<>>
  <2>1. [i \in DOMAIN <<>> |-> Len((<<>>)[i])] = <<>>
    OBVIOUS
  <2>2. Queued = 0 - 0
    BY <2>1, TotalEmpty DEF Queued
  <2> QED
    BY <2>2, FlattenEmpty DEF Samples
<1>3. QueueInv
  <2>1. Run(accepted - Queued, Queued) = <<>>
    BY <1>2 DEF Run
  <2>2. accepted \in 0 .. MaxSamples /\ asked \in 0 .. accepted /\ answered \in 0 .. asked
    BY <1>1
  <2>3. queue \in Seq(Seq(1 .. accepted)) /\ Len(queue) <= QueueCap
    BY <1>1
  <2>4. Queued \in 0 .. accepted - asked
    BY <1>2
  <2> QED
    BY <1>2, <2>1, <2>2, <2>3, <2>4 DEF QueueInv
<1>4. FlightInv
  <2>1. accepted - Queued = 0
    BY <1>2
  <2>2. Flies(<<>>, 0, asked, requested)
    BY NothingFlies
  <2> QED
    BY <2>1, <2>2 DEF FlightInv
<1>5. FlushInv
  BY DEF FlushInv
<1>6. TurnInv
  BY <1>1 DEF TurnInv
<1>7. TrackerInv
  <2>1. Len(<<>>) = 0
    OBVIOUS
  <2> QED
    BY <2>1, NewTracks DEF TrackerInv
<1>8. LeadBounded
  BY <1>1, FlattenEmpty DEF LeadBounded, Only
<1> QED
  BY <1>3, <1>4, <1>5, <1>6, <1>7, <1>8 DEF IInv

\* The invariant holds throughout: what a turn of the worker has read of the queue,
\* the buffer and the tracker is still true when it acts on it, or a flush came in
\* between and the turn ends in a reset (pump_playback_loop, fill_from_queue).
THEOREM Invariance == Spec => []IInv
<1>1. IInv /\ [Next]_vars => IInv'
  BY QueueKept, FlightKept, FlushKept, TurnKept, TrackerKept, LeadKept DEF IInv
<1> QED
  BY <1>1, InvStarts, PTL DEF Spec

\* The session's state stays within its types: the queue within its capacity, the
\* endpoint within its buffer, the tracker ahead of the endpoint.
THEOREM TypeCorrect == Spec => []TypeOK
<1>1. IInv => TypeOK
  <2> SUFFICES ASSUME IInv PROVE TypeOK
    OBVIOUS
  <2> USE DEF IInv
  <2>1. {requested, stop, lost, take.data} \subseteq BOOLEAN
    BY DEF FlushInv, TurnInv
  <2>2. Len(buffer) + (IF worker = "release" THEN Len(chunk) ELSE 0) <= BufferSize
    <3>1. Len(buffer) \in Nat /\ Len(chunk) \in Nat /\ BufferSize \in Nat
      BY FlightTyped, PlaybackAssumption
    <3>2. CASE worker = "release"
      <4> DEFINE a == Len(buffer)
                 c == Len(chunk)
      <4>1. /\ a \in Nat /\ c \in Nat /\ a <= padding /\ c <= BufferSize - padding
            /\ padding \in Nat
        BY <3>1, <3>2 DEF TurnInv
      <4> HIDE DEF a, c
      <4>2. a + c <= BufferSize
        BY <3>1, <4>1
      <4> QED
        BY <3>2, <4>2 DEF a, c
    <3>3. CASE worker # "release"
      BY <3>1, <3>3 DEF TurnInv
    <3> QED
      BY <3>2, <3>3
  <2> QED
    BY <2>1, <2>2 DEF TypeOK, QueueInv, FlushInv, TrackerInv
<1> QED
  BY <1>1, Invariance, PTL

\* played_frames never runs ahead of what was heard, and what the tracker holds is
\* enough to tell exactly how much that is (PlayedTracker::played).
THEOREM PositionTrue == Spec => []PlayedTrue
<1>1. IInv => PlayedTrue
  <2> SUFFICES ASSUME IInv PROVE PlayedTrue
    OBVIOUS
  <2> USE DEF IInv
  <2>1. worker # "rezero" => played <= since
    BY DEF TrackerInv
  <2>2. ASSUME ~requested PROVE Count(Caught(tracker, Len(buffer)), Len(buffer)) = since
    <3>1. /\ tracker \in Tracker /\ since \in Nat /\ Len(buffer) <= Unplayed(tracker)
          /\ Tracks(tracker, buffer, since)
      BY <2>2 DEF TrackerInv
    <3>2. buffer \in Seq(Nat)
      BY FlightTyped
    <3> QED
      BY <3>1, <3>2, CaughtTracks
  <2> QED
    BY <2>1, <2>2 DEF PlayedTrue
<1> QED
  BY <1>1, Invariance, PTL

\* However late the caller writes, no more than the lead's length of silence is
\* queued up in front of what it writes (WasapiPlaybackConfig::silence_lead).
THEOREM LeadHeld == Spec => []LeadBounded
<1>1. IInv => LeadBounded
  BY DEF IInv
<1> QED
  BY <1>1, Invariance, PTL

-----------------------------------------------------------------------------
(* The session as a queue of the caller's samples.                           *)

\* The samples of a sequence that are not silence.
Voiced(s) == Only(s, Nat \ {0})

\* Nothing has no voiced sample.
LEMMA NothingVoiced == Voiced(<<>>) = <<>>
<1>1. <<>> \in Seq({}) /\ \A i \in 1 .. Len(<<>>) : (<<>>)[i] \notin Nat \ {0}
  OBVIOUS
<1> QED
  BY <1>1, OnlyNone DEF Voiced

\* PlayoutQueue's filter is this module's.
LEMMA SameOnly == ASSUME NEW s, NEW T PROVE Playout!Only(s, T) = Only(s, T)
BY DEF Playout!Only, Only, Playout!FlattenSeq, FlattenSeq

\* Concatenation is associative, and the empty sequence its unit.
LEMMA Concatenated ==
  ASSUME NEW S, NEW s \in Seq(S), NEW t \in Seq(S), NEW u \in Seq(S)
  PROVE  /\ (s \o t) \o u = s \o (t \o u) /\ s \o <<>> = s /\ <<>> \o s = s
         /\ s \o t \in Seq(S) /\ s \o (t \o u) \in Seq(S) /\ <<>> \in Seq(S)
BY ConcatAssociative, ConcatEmptySeq, ConcatProperties, EmptySeq

\* The voiced samples in flight are on the same side of a flush as all of them.
LEMMA VoicedFlies ==
  ASSUME NEW top \in Nat, NEW a, NEW r, NEW s, Flies(s, top, a, r)
  PROVE  Voiced(s) \in Seq({x \in 1 .. top : IF r THEN x <= a ELSE x > a})
<1> DEFINE S == {x \in 0 .. top : Age(x, a, r)}
<1>1. s \in Seq(S)
  <2> DEFINE Z == 0 .. top
  <2>1. s \in Seq(Z) /\ \A i \in 1 .. Len(s) : Age(s[i], a, r)
    BY DEF Flies
  <2> HIDE DEF Z
  <2>2. \A i \in 1 .. Len(s) : s[i] \in Z
    BY <2>1
  <2>3. \A i \in 1 .. Len(s) : s[i] \in S
    BY <2>1, <2>2 DEF Z
  <2> HIDE DEF S
  <2> QED
    BY <2>1, <2>3
<1> HIDE DEF S
<1>2. Voiced(s) \in Seq(S \cap (Nat \ {0}))
  BY <1>1, OnlyType DEF Voiced
<1>3. S \cap (Nat \ {0}) \subseteq {x \in 1 .. top : IF r THEN x <= a ELSE x > a}
  BY DEF S, Age
<1> QED
  BY <1>2, <1>3, SeqMonotonic

\* No sample of a run is silence.
LEMMA RunVoiced ==
  ASSUME NEW a \in Nat, NEW n \in Nat
  PROVE  Voiced(Run(a, n)) = Run(a, n) /\ Run(a, n) \in Seq(a + 1 .. a + n)
<1>1. Run(a, n) \in Seq(Nat) /\ Len(Run(a, n)) = n /\ \A i \in 1 .. n : Run(a, n)[i] = a + i
  BY RunTyped
<1>2. \A i \in 1 .. Len(Run(a, n)) : Run(a, n)[i] \in Nat \ {0}
  BY <1>1
<1>3. Run(a, n) \in Seq(a + 1 .. a + n)
  BY DEF Run
<1> QED
  BY <1>1, <1>2, <1>3, OnlyAll DEF Voiced

\* What is voiced of three sequences in flight.
LEMMA VoicedParts ==
  ASSUME NEW b \in Seq(Nat), NEW c \in Seq(Nat), NEW r \in Seq(Nat), Voiced(r) = r
  PROVE  Voiced((b \o c) \o r) = (Voiced(b) \o Voiced(c)) \o r
<1>1. b \o c \in Seq(Nat)
  BY Concatenated
<1>2. Voiced((b \o c) \o r) = Voiced(b \o c) \o Voiced(r)
  <2> DEFINE d == b \o c
  <2> HIDE DEF d
  <2>1. d \in Seq(Nat)
    BY <1>1 DEF d
  <2>2. \A x, y \in Seq(Nat) : Voiced(x \o y) = Voiced(x) \o Voiced(y)
    <3> DEFINE N == Nat
               T == Nat \ {0}
    <3> HIDE DEF N, T
    <3>1. \A x, y \in Seq(N) : Only(x \o y, T) = Only(x, T) \o Only(y, T)
      BY OnlyConcat
    <3> QED
      BY <3>1 DEF N, T, Voiced
  <2>3. Voiced(d \o r) = Voiced(d) \o Voiced(r)
    BY <2>1, <2>2, Zenon
  <2> QED
    BY <2>3 DEF d
<1>3. Voiced(b \o c) = Voiced(b) \o Voiced(c)
  BY OnlyConcat DEF Voiced
<1> QED
  BY <1>2, <1>3

\* What is pending: of the buffer, of what is handed over, and all that waits.
LEMMA PendingParts ==
  ASSUME QueueInv, FlightInv
  PROVE  /\ Pending = (Voiced(buffer) \o Voiced(chunk)) \o Run(accepted - Queued, Queued)
         /\ {Voiced(buffer), Voiced(chunk)}
              \subseteq Seq({x \in 1 .. accepted - Queued :
                               IF requested THEN x <= asked ELSE x > asked})
         /\ Run(accepted - Queued, Queued) \in Seq(accepted - Queued + 1 .. accepted)
         /\ accepted - Queued \in Nat /\ Queued \in Nat /\ accepted \in Nat
         /\ asked \in 0 .. accepted - Queued
<1> DEFINE q == Queued
           t == accepted - q
           r == Run(t, q)
<1>1. t \in Nat /\ q \in Nat /\ accepted \in Nat /\ asked \in 0 .. t /\ t + q = accepted
  <2>1. accepted \in Nat /\ asked \in Nat /\ q \in Nat /\ q <= accepted - asked
    BY QueueTyped DEF QueueInv
  <2> HIDE DEF q
  <2> QED
    BY <2>1
<1>2. buffer \in Seq(Nat) /\ chunk \in Seq(Nat)
  BY FlightTyped
<1>3. Flies(buffer, t, asked, requested) /\ Flies(chunk, t, asked, requested)
  BY DEF FlightInv
<1>4. Samples = r
  BY DEF QueueInv
<1> HIDE DEF q, t
<1>5. r \in Seq(Nat) /\ Voiced(r) = r /\ r \in Seq(t + 1 .. accepted)
  BY <1>1, RunTyped, RunVoiced
<1> HIDE DEF r
<1>6. Pending = Voiced((buffer \o chunk) \o r)
  BY <1>4 DEF Pending, InFlight, Voiced
<1>7. Pending = (Voiced(buffer) \o Voiced(chunk)) \o r
  BY <1>2, <1>5, <1>6, VoicedParts
<1>8. {Voiced(buffer), Voiced(chunk)}
        \subseteq Seq({x \in 1 .. t : IF requested THEN x <= asked ELSE x > asked})
  BY <1>1, <1>3, VoicedFlies
<1> QED
  BY <1>1, <1>5, <1>7, <1>8 DEF q, t, r

\* The same of the next state, whatever step led there.
LEMMA PendingNext ==
  ASSUME QueueInv', FlightInv'
  PROVE  Pending' = (Voiced(buffer') \o Voiced(chunk')) \o Run(accepted' - Queued', Queued')
<1>1. (QueueInv /\ FlightInv =>
         Pending = (Voiced(buffer) \o Voiced(chunk)) \o Run(accepted - Queued, Queued))'
  BY PendingParts, PTL
<1> QED
  BY <1>1

\* What a flush that spares T keeps of a sequence, and that this is s.
Keeps(w, S, T, s) ==
  LET kept == Playout!ToSet(w) \cap T IN
  /\ \A x \in Playout!ToSet(w) \ kept : x \in S \ T
  /\ s = Playout!Only(w, kept)

\* A filter by membership keeps the first part of a sequence.
LEMMA KeepFirst ==
  ASSUME NEW S, NEW T, NEW u \in Seq(S), NEW v \in Seq(S),
         \A i \in 1 .. Len(u) : u[i] \in T, \A i \in 1 .. Len(v) : v[i] \notin T
  PROVE  Keeps(u \o v, S, T, u)
<1> DEFINE w == u \o v
           all == Playout!ToSet(w)
           kept == all \cap T
<1>1. /\ w \in Seq(S) /\ all = {w[i] : i \in 1 .. Len(w)} /\ Len(w) = Len(u) + Len(v)
      /\ Len(u) \in Nat /\ Len(v) \in Nat /\ \A i \in 1 .. Len(u) : w[i] = u[i]
      /\ \A i \in 1 .. Len(w) : w[i] \in S
  BY SMTT(30) DEF Playout!ToSet
<1> HIDE DEF w
<1>2. \A s \in all \ kept : s \in S \ T
  BY <1>1
<1>3. \A i \in 1 .. Len(u) : u[i] \in kept
  <2> TAKE i \in 1 .. Len(u)
  <2>1. i \in 1 .. Len(w) /\ w[i] = u[i] /\ u[i] \in T
    BY <1>1
  <2> QED
    BY <1>1, <2>1
<1>4. \A i \in 1 .. Len(v) : v[i] \notin kept
  OBVIOUS
<1> HIDE DEF kept, all
<1>6. Only(u, kept) = u /\ Only(v, kept) = <<>>
  BY <1>3, <1>4, OnlyAll, OnlyNone
<1>7. Only(w, kept) = u \o <<>>
  <2>1. \A x, y \in Seq(S) : Only(x \o y, kept) = Only(x, kept) \o Only(y, kept)
    BY SMTT(30), OnlyConcat
  <2>2. Only(w, kept) = Only(u, kept) \o Only(v, kept)
    BY <2>1, Zenon DEF w
  <2> QED
    BY <1>6, <2>2
<1>8. Playout!Only(w, kept) = u
  BY <1>7, SameOnly, Concatenated
<1> QED
  BY <1>2, <1>8 DEF Keeps, all, kept, w

\* Or the last.
LEMMA KeepLast ==
  ASSUME NEW S, NEW T, NEW u \in Seq(S), NEW v \in Seq(S),
         \A i \in 1 .. Len(u) : u[i] \notin T, \A i \in 1 .. Len(v) : v[i] \in T
  PROVE  Keeps(u \o v, S, T, v)
<1> DEFINE w == u \o v
           all == Playout!ToSet(w)
           kept == all \cap T
<1>1. /\ w \in Seq(S) /\ all = {w[i] : i \in 1 .. Len(w)} /\ Len(w) = Len(u) + Len(v)
      /\ Len(u) \in Nat /\ Len(v) \in Nat /\ \A i \in 1 .. Len(v) : w[Len(u) + i] = v[i]
      /\ \A i \in 1 .. Len(w) : w[i] \in S
  BY DEF Playout!ToSet
<1> HIDE DEF w
<1>2. \A s \in all \ kept : s \in S \ T
  BY <1>1
<1>3. \A i \in 1 .. Len(v) : v[i] \in kept
  <2> TAKE i \in 1 .. Len(v)
  <2>1. Len(u) + i \in 1 .. Len(w) /\ w[Len(u) + i] = v[i] /\ v[i] \in T
    BY <1>1
  <2> QED
    BY <1>1, <2>1
<1>4. \A i \in 1 .. Len(u) : u[i] \notin kept
  OBVIOUS
<1> HIDE DEF kept, all
<1>6. Only(v, kept) = v /\ Only(u, kept) = <<>>
  BY <1>3, <1>4, OnlyAll, OnlyNone
<1>7. Only(w, kept) = <<>> \o v
  <2>1. \A x, y \in Seq(S) : Only(x \o y, kept) = Only(x, kept) \o Only(y, kept)
    BY SMTT(30), OnlyConcat
  <2>2. Only(w, kept) = Only(u, kept) \o Only(v, kept)
    BY <2>1, Zenon DEF w
  <2> QED
    BY <1>6, <2>2
<1>8. Playout!Only(w, kept) = v
  BY <1>7, SameOnly, Concatenated
<1> QED
  BY <1>2, <1>8 DEF Keeps, all, kept, w

\* What is accepted is pending after the rest.
LEMMA WriteRefines ==
  ASSUME IInv, IInv', NEW n \in FrameSizes, Write(n)
  PROVE  [Playout!Next]_Playout!vars
<1> DEFINE q == Queued
           t == accepted - q
           u == Voiced(buffer) \o Voiced(chunk)
           x == Run(accepted, n)
<1>1. n \in Nat /\ QueueInv /\ FlightInv /\ QueueInv' /\ FlightInv'
  BY PlaybackAssumption DEF IInv
<1>2. /\ Pending = u \o Run(t, q) /\ t \in Nat /\ q \in Nat /\ accepted \in Nat
      /\ u \in Seq(Nat) /\ Run(t, q) \in Seq(Nat) /\ x \in Seq(Nat)
  <2>1. {Voiced(buffer), Voiced(chunk)} \subseteq Seq(Nat)
    <3>1. buffer \in Seq(Nat) /\ chunk \in Seq(Nat)
      BY <1>1, FlightTyped
    <3> QED
      BY <3>1, OnlyType DEF Voiced
  <2>2. u \in Seq(Nat)
    BY <2>1, Concatenated
  <2>3. Pending = u \o Run(t, q) /\ t \in Nat /\ q \in Nat /\ accepted \in Nat
    BY <1>1, PendingParts
  <2> HIDE DEF q, u, t
  <2>4. Run(t, q) \in Seq(Nat) /\ Run(accepted, n) \in Seq(Nat)
    BY <1>1, <2>3, RunTyped
  <2> QED
    BY <2>2, <2>3, <2>4
<1>3. /\ accepted' = accepted + n /\ buffer' = buffer /\ chunk' = chunk
      /\ UNCHANGED <<heard, asked, answered>>
  BY DEF Write, workerVars, endpointVars
<1>4. Pending' = u \o Run(t, q + n)
  <2>1. Queued' = q + n
    BY <1>1, WriteQueued
  <2>2. Pending' = u \o Run(accepted' - Queued', Queued')
    BY <1>1, <1>3, PendingNext
  <2>3. accepted' - Queued' = t
    <3> HIDE DEF q
    <3> QED
      BY <1>1, <1>2, <1>3, <2>1
  <2> HIDE DEF q, u, t
  <2> QED
    BY <2>1, <2>2, <2>3
<1>5. t + q = accepted
  <2> HIDE DEF q
  <2> QED
    BY <1>2
<1> HIDE DEF q, u, t
<1>6. Run(t, q + n) = Run(t, q) \o Run(accepted, n)
  BY <1>1, <1>2, <1>5, RunJoined
<1>7. Pending' = Pending \o x
  <2>1. \A a, b, c \in Seq(Nat) : (a \o b) \o c = a \o (b \o c)
    <3> DEFINE N == Nat
    <3> HIDE DEF N
    <3>1. \A a, b, c \in Seq(N) : (a \o b) \o c = a \o (b \o c)
      BY Concatenated
    <3> QED
      BY <3>1 DEF N
  <2>2. (u \o Run(t, q)) \o x = u \o (Run(t, q) \o x)
    BY <1>2, <2>1, Zenon
  <2> QED
    BY <1>2, <1>4, <1>6, <2>2
<1>8. CASE n = 0
  <2>1. x = <<>> /\ Pending \in Seq(Nat)
    BY <1>2, <1>8, Concatenated DEF Run
  <2>2. Pending' = Pending
    BY <1>7, <2>1, Concatenated
  <2>3. accepted' = accepted
    BY <1>2, <1>3, <1>8
  <2> QED
    BY <1>3, <2>2, <2>3 DEF Playout!vars
<1>9. CASE n # 0
  <2>1. accepted' > accepted /\ accepted' - accepted = n
    BY <1>1, <1>2, <1>3, <1>9
  <2>2. x = [i \in 1 .. accepted' - accepted |-> accepted + i]
    BY <2>1 DEF Run
  <2>3. Playout!Write
    BY <1>3, <1>7, <2>1, <2>2 DEF Playout!Write
  <2> QED
    BY <2>3 DEF Playout!Next
<1> QED
  BY <1>8, <1>9

\* A flush that begins lets go of what is queued.
LEMMA BeginFlushRefines ==
  ASSUME IInv, IInv', BeginFlush
  PROVE  Playout!Next
<1> DEFINE q == Queued
           t == accepted - q
           u == Voiced(buffer) \o Voiced(chunk)
           r == Run(t, q)
           S == 1 .. accepted
<1>1. QueueInv /\ FlightInv /\ QueueInv' /\ FlightInv'
  BY DEF IInv
<1>2. /\ queue' = <<>> /\ cursor' = 0 /\ accepted' = accepted /\ asked' = accepted
      /\ UNCHANGED <<buffer, chunk, heard, answered>>
  BY DEF BeginFlush, workerVars, endpointVars
<1>3. /\ Pending = u \o r /\ t \in 0 .. accepted /\ accepted \in Nat
      /\ u \in Seq(1 .. t) /\ r \in Seq(t + 1 .. accepted)
  <2>1. /\ Pending = u \o r /\ t \in Nat /\ q \in Nat /\ accepted \in Nat
        /\ {Voiced(buffer), Voiced(chunk)}
             \subseteq Seq({x \in 1 .. t : IF requested THEN x <= asked ELSE x > asked})
        /\ r \in Seq(t + 1 .. accepted)
    BY <1>1, PendingParts
  <2>2. t \in 0 .. accepted
    <3> HIDE DEF q
    <3> QED
      BY <2>1
  <2> HIDE DEF t
  <2>3. {x \in 1 .. t : IF requested THEN x <= asked ELSE x > asked} \subseteq 1 .. t
    OBVIOUS
  <2>4. Voiced(buffer) \in Seq(1 .. t) /\ Voiced(chunk) \in Seq(1 .. t)
    BY <2>1, <2>3, SeqMonotonic
  <2>5. u \in Seq(1 .. t)
    BY <2>4, Concatenated
  <2> QED
    BY <2>1, <2>2, <2>5
<1>4. Pending' = u
  <2>1. Queued' = 0
    BY <1>2, <1>3, NothingQueued
  <2>2. Pending' = u \o Run(accepted' - Queued', Queued')
    BY <1>1, <1>2, PendingNext
  <2>3. Run(accepted' - Queued', 0) = <<>>
    BY DEF Run
  <2> HIDE DEF u
  <2> QED
    BY <1>3, <2>1, <2>2, <2>3, Concatenated
<1> HIDE DEF q, t, u, r
<1>5. u \in Seq(S) /\ r \in Seq(S)
  <2>1. 1 .. t \subseteq S /\ t + 1 .. accepted \subseteq S
    BY <1>3
  <2> QED
    BY <1>3, <2>1, SeqMonotonic
<1>6. /\ \A i \in 1 .. Len(u) : u[i] \in 1 .. t
      /\ \A i \in 1 .. Len(r) : r[i] \notin 1 .. t
  <2> DEFINE A == 1 .. t
             B == t + 1 .. accepted
  <2>1. u \in Seq(A) /\ r \in Seq(B) /\ A \cap B = {}
    BY <1>3
  <2> HIDE DEF A, B
  <2>2. /\ \A i \in 1 .. Len(u) : u[i] \in A
        /\ \A i \in 1 .. Len(r) : r[i] \in B
    BY <2>1
  <2>3. \A i \in 1 .. Len(r) : r[i] \notin A
    BY <2>1, <2>2
  <2> QED
    BY <2>2, <2>3 DEF A
<1> DEFINE T == 1 .. t
<1> HIDE DEF S, T
<1>7. Keeps(Pending, S, T, u)
  <2>1. /\ \A i \in 1 .. Len(u) : u[i] \in T
        /\ \A i \in 1 .. Len(r) : r[i] \notin T
    BY <1>6 DEF T
  <2>2. Keeps(u \o r, S, T, u)
    BY <1>5, <2>1, KeepFirst
  <2> QED
    BY <1>3, <2>2, Zenon
<1>8. \A s \in S : s <= asked'
  BY <1>2, <1>3 DEF S
<1>9. Playout!Forget
  BY <1>2, <1>4, <1>7, <1>8 DEF Playout!Forget, Keeps
<1> QED
  BY <1>9 DEF Playout!Next

\* A reset of the endpoint lets go of what it holds, all of it asked for.
LEMMA ResetRefines ==
  ASSUME IInv, IInv', Reset
  PROVE  Playout!Next
<1> DEFINE q == Queued
           t == accepted - q
           u == Voiced(buffer)
           r == Run(t, q)
           S == 1 .. accepted
           T == asked + 1 .. accepted
<1>1. QueueInv /\ FlightInv /\ QueueInv' /\ FlightInv'
  BY DEF IInv
<1>2. /\ buffer' = <<>> /\ chunk = <<>> /\ chunk' = <<>> /\ requested = TRUE
      /\ UNCHANGED <<accepted, queue, cursor, asked, answered, heard>>
  BY DEF Reset, callerVars, sharedVars, IInv, FlightInv, FlushInv
<1>3. Voiced(<<>>) = <<>>
  BY NothingVoiced
<1>4. /\ Pending = (u \o <<>>) \o r /\ t \in 0 .. accepted /\ accepted \in Nat /\ asked \in 0 .. t
      /\ u \in Seq(1 .. asked) /\ r \in Seq(t + 1 .. accepted)
  <2>1. /\ Pending = (u \o <<>>) \o r /\ t \in Nat /\ q \in Nat /\ accepted \in Nat
        /\ u \in Seq({x \in 1 .. t : x <= asked})
        /\ r \in Seq(t + 1 .. accepted) /\ asked \in 0 .. t
    BY <1>1, <1>2, <1>3, PendingParts
  <2>2. t \in 0 .. accepted
    <3> HIDE DEF q
    <3> QED
      BY <2>1
  <2> HIDE DEF t
  <2>3. {x \in 1 .. t : x <= asked} \subseteq 1 .. asked
    BY <2>1, <2>2
  <2>4. u \in Seq(1 .. asked)
    BY <2>1, <2>3, SeqMonotonic
  <2> QED
    BY <2>1, <2>2, <2>4
<1>5. Pending' = (<<>> \o <<>>) \o r
  <2>1. Queued' = Queued
    BY <1>2 DEF Queued
  <2> QED
    BY <1>1, <1>2, <1>3, <2>1, PendingNext
<1> HIDE DEF q, t, u, r
<1>6. u \in Seq(S) /\ r \in Seq(S)
  <2>1. 1 .. asked \subseteq S /\ t + 1 .. accepted \subseteq S
    BY <1>4
  <2> QED
    BY <1>4, <2>1, SeqMonotonic
<1>7. Pending = u \o r /\ Pending' = r
  BY <1>4, <1>5, <1>6, Concatenated
<1>8. /\ \A i \in 1 .. Len(u) : u[i] \notin T
      /\ \A i \in 1 .. Len(r) : r[i] \in T
  <2> DEFINE A == 1 .. asked
             B == t + 1 .. accepted
  <2>1. u \in Seq(A) /\ r \in Seq(B) /\ A \cap T = {} /\ B \subseteq T
    BY <1>4
  <2> HIDE DEF A, B, T
  <2>2. /\ \A i \in 1 .. Len(u) : u[i] \in A
        /\ \A i \in 1 .. Len(r) : r[i] \in B
    BY <2>1
  <2> QED
    BY <2>1, <2>2
<1>9. \A s \in S \ T : s <= asked'
  BY <1>2, <1>4
<1> HIDE DEF S, T
<1>10. Keeps(Pending, S, T, r)
  <2>1. Keeps(u \o r, S, T, r)
    BY <1>6, <1>8, KeepLast
  <2> QED
    BY <1>7, <2>1, Zenon
<1>11. Playout!Forget
  BY <1>2, <1>7, <1>9, <1>10 DEF Playout!Forget, Keeps
<1> QED
  BY <1>11 DEF Playout!Next

\* A flush returns when all that it asked for is gone.
LEMMA FlushReturnsRefines ==
  ASSUME IInv, IInv', FlushReturns
  PROVE  Playout!Next
<1> DEFINE q == Queued
           t == accepted - q
           u == Voiced(buffer) \o Voiced(chunk)
           r == Run(t, q)
           S == asked + 1 .. accepted
<1>1. QueueInv /\ FlightInv /\ QueueInv' /\ FlightInv'
  BY DEF IInv
<1>2. /\ answered' = asked /\ requested = FALSE
      /\ UNCHANGED <<accepted, queue, cursor, asked, heard, buffer, chunk>>
  BY DEF FlushReturns, sharedVars, workerVars, endpointVars, IInv, FlushInv
<1>3. Pending' = Pending
  BY <1>2 DEF Pending, InFlight, Samples
<1>4. /\ Pending = u \o r /\ t \in 0 .. accepted /\ accepted \in Nat /\ asked \in 0 .. t
      /\ u \in Seq({x \in 1 .. t : x > asked}) /\ r \in Seq(t + 1 .. accepted)
  <2>1. /\ Pending = u \o r /\ t \in Nat /\ q \in Nat /\ accepted \in Nat
        /\ {Voiced(buffer), Voiced(chunk)} \subseteq Seq({x \in 1 .. t : x > asked})
        /\ r \in Seq(t + 1 .. accepted) /\ asked \in 0 .. t
    BY <1>1, <1>2, PendingParts
  <2>2. t \in 0 .. accepted
    <3> HIDE DEF q
    <3> QED
      BY <2>1
  <2> HIDE DEF t
  <2>3. u \in Seq({x \in 1 .. t : x > asked})
    BY <2>1, Concatenated
  <2> QED
    BY <2>1, <2>2, <2>3
<1> HIDE DEF q, t, u, r
<1>5. Pending \in Seq(S)
  <2>1. {x \in 1 .. t : x > asked} \subseteq S /\ t + 1 .. accepted \subseteq S
    BY <1>4
  <2>2. u \in Seq(S) /\ r \in Seq(S)
    BY <1>4, <2>1, SeqMonotonic
  <2> QED
    BY <1>4, <2>2, Concatenated
<1>6. \A s \in S : s > asked
  BY <1>4
<1> HIDE DEF S
<1>7. \A s \in Playout!ToSet(Pending) : s \in S
  BY <1>5 DEF Playout!ToSet
<1>8. Playout!Answer
  BY <1>2, <1>3, <1>6, <1>7 DEF Playout!Answer
<1> QED
  BY <1>8 DEF Playout!Next

\* The endpoint plays silence, which nobody hears, or what is pending first.
LEMMA PlayRefines ==
  ASSUME IInv, IInv', Play
  PROVE  [Playout!Next]_Playout!vars
<1> DEFINE h == Head(buffer)
           b == Tail(buffer)
           v == Voiced(b)
           c == Voiced(chunk)
           r == Run(accepted - Queued, Queued)
<1>1. QueueInv /\ FlightInv /\ QueueInv' /\ FlightInv'
  BY DEF IInv
<1>2. /\ buffer # <<>> /\ buffer' = b /\ UNCHANGED <<accepted, queue, cursor, asked, answered, chunk>>
      /\ h = 0 => heard' = heard
      /\ h # 0 => heard' = h
  BY DEF Play, callerVars, sharedVars, workerVars
<1>3. Pending = (Voiced(buffer) \o c) \o r
  BY <1>1, PendingParts
<1>4. Pending' = (v \o c) \o r
  <2>1. Queued' = Queued
    BY <1>2 DEF Queued
  <2> QED
    BY <1>1, <1>2, <2>1, PendingNext
<1>5. /\ buffer = <<h>> \o b /\ h \in Nat /\ b \in Seq(Nat) /\ chunk \in Seq(Nat)
      /\ <<h>> \in Seq(Nat)
  BY <1>1, <1>2, FlightTyped
<1>6. v \in Seq(Nat) /\ c \in Seq(Nat) /\ r \in Seq(Nat)
  <2>1. accepted - Queued \in Nat /\ Queued \in Nat
    BY <1>1, QueueTyped
  <2> QED
    BY <1>5, <2>1, RunTyped, OnlyType DEF Voiced
<1> HIDE DEF h, b
<1>7. Voiced(buffer) = Voiced(<<h>>) \o v
  <2> DEFINE N == Nat
             T == Nat \ {0}
  <2>1. <<h>> \in Seq(N) /\ b \in Seq(N)
    BY <1>5
  <2> HIDE DEF N, T
  <2>2. \A x, y \in Seq(N) : Only(x \o y, T) = Only(x, T) \o Only(y, T)
    BY OnlyConcat
  <2>3. Only(<<h>> \o b, T) = Only(<<h>>, T) \o Only(b, T)
    BY <2>1, <2>2, Zenon
  <2> QED
    BY <1>5, <2>3 DEF Voiced, T
<1>8. Voiced(<<h>>) = IF h = 0 THEN <<>> ELSE <<h>>
  <2> DEFINE T == Nat \ {0}
  <2>1. h \in T <=> h # 0
    BY <1>5
  <2> HIDE DEF T
  <2>2. Only(<<h>>, T) = IF h \in T THEN <<h>> ELSE <<>>
    BY OnlySingle
  <2> QED
    BY <2>1, <2>2 DEF Voiced, T
<1> HIDE DEF v, c, r
<1>9. CASE h = 0
  <2>1. Pending' = Pending
    BY <1>3, <1>4, <1>6, <1>7, <1>8, <1>9, Concatenated
  <2> QED
    BY <1>2, <1>9, <2>1 DEF Playout!vars
<1>10. CASE h # 0
  <2> DEFINE rest == (v \o c) \o r
  <2>1. Pending = <<h>> \o rest /\ rest \in Seq(Nat)
    <3> DEFINE N == Nat
               a == <<h>>
    <3>1. a \in Seq(N) /\ v \in Seq(N) /\ c \in Seq(N) /\ r \in Seq(N)
      BY <1>5, <1>6
    <3> HIDE DEF N, a
    <3>2. \A x, y, z \in Seq(N) : (x \o y) \o z = x \o (y \o z)
      BY Concatenated
    <3>3. v \o c \in Seq(N)
      BY <3>1, Concatenated
    <3>4. (v \o c) \o r \in Seq(N)
      BY <3>1, <3>3, Concatenated
    <3>5. (a \o v) \o c = a \o (v \o c)
      BY <3>1, <3>2
    <3>6. (a \o (v \o c)) \o r = a \o ((v \o c) \o r)
      BY SMTT(30), <3>1, <3>2, <3>3
    <3>7. ((a \o v) \o c) \o r = a \o ((v \o c) \o r)
      BY <3>5, <3>6
    <3> QED
      BY <1>3, <1>7, <1>8, <1>10, <3>4, <3>7 DEF N, a
  <2>2. Pending' = rest
    BY <1>4
  <2> HIDE DEF rest
  <2>3. Pending # <<>> /\ Head(Pending) = h /\ Tail(Pending) = rest
    BY <1>5, <2>1
  <2>4. Playout!Hear
    BY <1>2, <1>10, <2>2, <2>3 DEF Playout!Hear
  <2> QED
    BY <2>4 DEF Playout!Next
<1> QED
  BY <1>9, <1>10

\* What the worker takes from the queue stays pending.
LEMMA FillRefines ==
  ASSUME IInv, IInv', Fill
  PROVE  UNCHANGED Playout!vars
<1> DEFINE q == Queued
           t == accepted - q
           n == take.frames
           u == Voiced(buffer)
<1>1. QueueInv /\ FlightInv /\ QueueInv' /\ FlightInv' /\ TurnInv
  BY DEF IInv
<1>2. /\ chunk = <<>> /\ UNCHANGED <<accepted, asked, answered, heard, buffer>>
  BY DEF Fill, callerVars, endpointVars, IInv, FlightInv
<1>3. /\ Skipped => Queued' = q
      /\ ~Skipped => n \in 1 .. q /\ Queued' = q - n /\ chunk' = Run(t, n)
  BY <1>1, FillKeepsQueue
<1>4. Voiced(<<>>) = <<>>
  BY NothingVoiced
<1>5. t \in Nat /\ q \in Nat /\ accepted \in Nat /\ n \in Nat
  BY <1>1, QueueTyped DEF TurnInv
<1>6. u \in Seq(Nat) /\ Run(t, q) \in Seq(Nat)
  <2>1. buffer \in Seq(Nat)
    BY <1>1, FlightTyped
  <2> HIDE DEF t, q
  <2> QED
    BY <1>5, <2>1, RunTyped, OnlyType DEF Voiced
<1>7. Pending = (u \o <<>>) \o Run(t, q)
  BY <1>1, <1>2, <1>4, PendingParts
<1>8. Pending' = (u \o Voiced(chunk')) \o Run(accepted' - Queued', Queued')
  BY <1>1, <1>2, PendingNext
<1>9. Pending' = Pending
  <2>1. CASE Skipped
    <3>1. chunk' = Silence(n)
      BY <2>1 DEF Fill
    <3>2. Voiced(chunk') = <<>>
      <4>1. Silence(n) \in Seq({0}) /\ \A i \in 1 .. Len(Silence(n)) : Silence(n)[i] \notin Nat \ {0}
        BY <1>5 DEF Silence
      <4> HIDE DEF n
      <4> QED
        BY <3>1, <4>1, OnlyNone DEF Voiced
    <3> QED
      BY <1>2, <1>3, <1>7, <1>8, <2>1, <3>2
  <2>2. CASE ~Skipped
    <3>1. /\ n \in 1 .. q /\ Queued' = q - n /\ Voiced(chunk') = Run(t, n)
          /\ accepted' - Queued' = t + n /\ q - n \in Nat /\ t + n \in Nat
      <4>1. n \in 1 .. q /\ Queued' = q - n /\ chunk' = Run(t, n)
        BY <1>3, <2>2
      <4>2. Voiced(Run(t, n)) = Run(t, n)
        <5> HIDE DEF t, n
        <5> QED
          BY <1>5, RunVoiced
      <4>3. accepted' - Queued' = t + n /\ q - n \in Nat /\ t + n \in Nat
        <5> HIDE DEF q, n
        <5> QED
          BY <1>2, <1>5, <4>1
      <4> QED
        BY <4>1, <4>2, <4>3
    <3> HIDE DEF q, t, n, u
    <3>2. Run(t, n) \o Run(t + n, q - n) = Run(t, q)
      <4>1. n + (q - n) = q
        BY <1>5
      <4>2. Run(t, n) \o Run(t + n, q - n) = Run(t, n + (q - n))
        BY ZenonT(30), <1>5, <3>1, RunJoined
      <4> QED
        BY <4>1, <4>2
    <3>3. Pending' = (u \o Run(t, n)) \o Run(t + n, q - n)
      BY <1>8, <3>1
    <3>4. (u \o Run(t, n)) \o Run(t + n, q - n) = u \o (Run(t, n) \o Run(t + n, q - n))
      <4> DEFINE N == Nat
      <4>1. u \in Seq(N) /\ Run(t, n) \in Seq(N) /\ Run(t + n, q - n) \in Seq(N)
        BY <1>5, <1>6, <3>1, RunTyped
      <4> HIDE DEF N
      <4>2. \A x, y, z \in Seq(N) : (x \o y) \o z = x \o (y \o z)
        BY Concatenated
      <4> QED
        BY <4>1, <4>2, Zenon
    <3> QED
      BY <1>6, <1>7, <3>2, <3>3, <3>4, Concatenated
  <2> QED
    BY <2>1, <2>2
<1> QED
  BY <1>2, <1>9 DEF Playout!vars

\* So does what it releases.
LEMMA ReleaseRefines ==
  ASSUME IInv, IInv', Release
  PROVE  UNCHANGED Playout!vars
<1>1. /\ buffer' = buffer \o chunk /\ chunk' = <<>>
      /\ UNCHANGED <<accepted, asked, answered, heard, queue, cursor>>
  BY DEF Release, callerVars, sharedVars
<1>2. buffer \in Seq(Nat) /\ chunk \in Seq(Nat)
  BY FlightTyped DEF IInv
<1>3. InFlight' = (buffer \o chunk) \o <<>> \o Samples
  BY <1>1 DEF InFlight, Samples
<1>4. (buffer \o chunk) \o <<>> = buffer \o chunk
  <2> DEFINE d == buffer \o chunk
  <2>1. d \in Seq(Nat)
    BY <1>2, Concatenated
  <2> HIDE DEF d
  <2>2. d \o <<>> = d
    BY <2>1, Concatenated
  <2> QED
    BY <2>2 DEF d
<1>5. Pending' = Pending
  BY <1>3, <1>4 DEF Pending, InFlight
<1> QED
  BY <1>1, <1>5 DEF Playout!vars

\* Every step of the session is one of the queue, or none.
LEMMA StepRefines ==
  ASSUME IInv, IInv', [Next]_vars
  PROVE  [Playout!Next]_Playout!vars
<1>1. ASSUME NEW n \in FrameSizes, Write(n) PROVE [Playout!Next]_Playout!vars
  BY <1>1, WriteRefines
<1>2. CASE BeginFlush
  BY <1>2, BeginFlushRefines
<1>3. CASE FlushReturns
  BY <1>3, FlushReturnsRefines
<1>4. CASE Reset
  BY <1>4, ResetRefines
<1>5. CASE Fill
  BY <1>5, FillRefines
<1>6. CASE Release
  BY <1>6, ReleaseRefines
<1>7. CASE Play
  BY <1>7, PlayRefines
<1>8. CASE \/ FlushFails \/ Close \/ Join \/ StartTurn \/ Rezero \/ AnswerFlush
           \/ ReadPadding \/ ReadClock \/ Measure \/ DeviceFails \/ UNCHANGED vars
  <2>1. UNCHANGED <<accepted, asked, answered, heard, queue, cursor, buffer, chunk>>
    <3> USE DEF callerVars, sharedVars, workerVars, endpointVars
    <3>1. CASE FlushFails \/ Close \/ Join \/ UNCHANGED vars
      BY <3>1 DEF FlushFails, Close, Join, vars
    <3>2. CASE StartTurn \/ Rezero \/ AnswerFlush
      BY <3>2 DEF StartTurn, Rezero, AnswerFlush
    <3>3. CASE ReadPadding \/ DeviceFails
      BY <3>3 DEF ReadPadding, DeviceFails
    <3>4. CASE ReadClock
      BY <3>4 DEF ReadClock
    <3>5. CASE Measure
      BY <3>5 DEF Measure
    <3> QED
      BY <1>8, <3>1, <3>2, <3>3, <3>4, <3>5
  <2>2. Pending' = Pending
    BY <2>1 DEF Pending, InFlight, Samples
  <2> QED
    BY <2>1, <2>2 DEF Playout!vars
<1> QED
  BY <1>1, <1>2, <1>3, <1>4, <1>5, <1>6, <1>7, <1>8 DEF Next, Worker

\* RefinesPlayout (WasapiPlayback.tla): whatever the interleaving of writes, of
\* flushes, answered or given up, and of the worker's turns, the caller's samples
\* are heard in their order, once, and none is lost but to a flush that came after it.
THEOREM Refinement == Spec => RefinesPlayout
<1>1. Init => Playout!Init
  <2> SUFFICES ASSUME Init PROVE Playout!Init
    OBVIOUS
  <2>1. QueueInv /\ FlightInv
    BY InvStarts DEF IInv
  <2>2. /\ accepted = 0 /\ asked = 0 /\ answered = 0 /\ heard = 0
        /\ buffer = <<>> /\ chunk = <<>> /\ queue = <<>>
    BY DEF Init
  <2>3. Samples = <<>>
    <3>1. FlattenSeq(queue) = <<>> /\ cursor = 0
      BY <2>2, FlattenEmpty DEF Init
    <3> QED
      BY <3>1 DEF Samples
  <2>4. InFlight = <<>>
    BY <2>2, <2>3 DEF InFlight
  <2>5. Pending = <<>>
    BY <2>4, NothingVoiced DEF Pending, Voiced
  <2> QED
    BY <2>2, <2>5 DEF Playout!Init
<1>2. IInv /\ IInv' /\ [Next]_vars => [Playout!Next]_Playout!vars
  BY StepRefines
<1>3. Spec => []IInv
  BY Invariance
<1> QED
  BY <1>1, <1>2, <1>3, PTL DEF Spec, RefinesPlayout, Playout!Spec
=============================================================================
