-------------------------- MODULE ChunkStreamProofs --------------------------
(* Theorems about ChunkStream, for any messages, chunk sizes, clock and      *)
(* interleaving. The wire carries items that mean something only from where  *)
(* the decoder stands, so the proof says what they mean: they are the chunks *)
(* that lead a sender the decoder has caught up with, one chunk at a time,   *)
(* to the state the sender is in. Taking the first of them moves the decoder *)
(* one state on; a call of the sender adds states at the other end; arriving *)
(* bytes move nothing.                                                       *)
EXTENDS ChunkStream, SequenceLemmas, TLAPS

-----------------------------------------------------------------------------
(* Senders, as their receiver may know them.                                 *)

\* What the code takes for granted of its caller: no message is longer than its
\* length field can say, and a Muxer's chunks hold the announcement of their size.
WithinLimits ==
  /\ \A m \in Calls : m.len <= MaxLen
  /\ MuxSizes \subseteq AnnounceLen .. SizeWrap - 1

\* The messages there can be, what of them is returned, and how a sender keeps one
\* it is in the middle of.
Messages == Calls \cup {Announcement(v) : v \in 1 .. SizeWrap - 1}
Contents == {Content(m) : m \in Messages}
Parts == [m : Messages, v : 0 .. Wrap - 1, at : Nat]

\* What stands on the wire.
Items ==
  {Basic(fmt, c) : fmt \in 0 .. 3, c \in Csid}
    \cup {Field(is, v) : is \in {"time", "len", "stream", "ext"},
          v \in Nat \cup {m.stream : m \in Messages}}
    \cup {TypeField(m.type) : m \in Messages}
    \cup {[is |-> "byte", of |-> m.csid, at |-> i, value |-> m.value] : m \in Messages, i \in Nat}

\* A sender as its receiver may know it: its headers, what it is in the middle of,
\* its chunk size, and the messages it began of which the receiver lacks a part.
States == [hdr : [Csid -> Header \cup {None}], part : [Csid -> Parts \cup {None}],
           size : Nat \ {0}, queue : [Csid -> Seq(Contents)]]

\* The time field of the message a header was sent with.
Stamp(h) == IF h.delta = NoDelta THEN h.time ELSE h.delta

\* A message is left unfinished under its own header, and is no announcement.
PartSound(h, p, c) ==
  p # None => /\ h # None /\ p.m.csid = c /\ p.m.type # Control.type
              /\ p.at \in 1 .. p.m.len - 1 /\ p.v = Stamp(h)
              /\ h.time = p.m.time /\ h.len = p.m.len /\ h.type = p.m.type
                 /\ h.stream = p.m.stream

\* A sender as it can be.
Sound(L) == L \in States /\ \A c \in Csid : PartSound(L.hdr[c], L.part[c], c)

\* The chunk that begins m, and the sender after it.
CanStart(L, m, fmt) ==
  /\ m \in Messages /\ fmt \in 0 .. 3 /\ L.part[m.csid] = None
  /\ fmt <= ChooseFmt(L.hdr[m.csid], m)
  /\ m.type = Control.type => AnnounceLen <= L.size
Start(L, m, fmt) == FirstChunk(fmt, TimeField(fmt, L.hdr[m.csid], m), m, L.size)
Started(L, m, fmt) ==
  [hdr |-> [L.hdr EXCEPT ![m.csid] = SentHeader(fmt, L.hdr[m.csid], m)],
   part |-> [L.part EXCEPT ![m.csid] =
               IF m.len <= L.size THEN None
               ELSE [m |-> m, v |-> TimeField(fmt, L.hdr[m.csid], m), at |-> L.size]],
   size |-> IF m.type = Control.type THEN m.value ELSE L.size,
   queue |-> [L.queue EXCEPT ![m.csid] = Append(L.queue[m.csid], Content(m))]]

\* The next chunk on c, and the sender after it.
More(L, c) == NextChunk(L.part[c].v, L.part[c].m, L.part[c].at, L.size)
Went(L, c) ==
  [L EXCEPT !.part[c] =
     IF L.part[c].m.len <= L.part[c].at + L.size THEN None
     ELSE [m |-> L.part[c].m, v |-> L.part[c].v, at |-> L.part[c].at + L.size]]

\* The chunk x takes a sender from state L to state M.
Sends(L, x, M) ==
  \/ \E m \in Messages, fmt \in 0 .. 3 :
       CanStart(L, m, fmt) /\ x = Start(L, m, fmt) /\ M = Started(L, m, fmt)
  \/ \E c \in Csid : L.part[c] # None /\ x = More(L, c) /\ M = Went(L, c)

\* The chunks q take the sender through the states tr, and S is their items.
Run(q, tr) ==
  /\ q \in Seq(Seq(Items)) /\ tr \in [0 .. Len(q) -> States]
  /\ \A k \in 0 .. Len(q) : Sound(tr[k])
  /\ \A k \in 1 .. Len(q) : Sends(tr[k - 1], q[k], tr[k])
Leads(L, S, M) == \E q, tr : Run(q, tr) /\ S = FlattenSeq(q) /\ tr[0] = L /\ tr[Len(q)] = M

-----------------------------------------------------------------------------
(* Constants.                                                                *)

\* What a message is made of, within the limits.
LEMMA MessageFacts ==
  ASSUME WithinLimits, NEW m \in Messages
  PROVE  /\ m.csid \in Csid /\ m.time \in 0 .. Wrap - 1 /\ m.len \in 0 .. MaxLen
         /\ m.type \in {n.type : n \in Calls \cup {Control}}
         /\ m.stream \in {n.stream : n \in Calls \cup {Control}}
         /\ m.type = Control.type => \E v \in 1 .. SizeWrap - 1 : m = Announcement(v)
<1>1. CASE m \in Calls
  BY <1>1, TimeAssumption, LengthAssumption, ControlAssumption DEF WithinLimits, Csid
<1>2. ASSUME NEW v \in 1 .. SizeWrap - 1, m = Announcement(v) PROVE
         /\ m.csid = Control.csid /\ m.time = 0 /\ m.len = AnnounceLen
         /\ m.type = Control.type /\ m.stream = Control.stream
  BY <1>2 DEF Announcement, Control
<1> QED
  BY <1>1, <1>2, TimeAssumption, LengthAssumption DEF Messages, Csid

\* The fields of an announcement.
LEMMA AnnouncementFacts ==
  ASSUME NEW v
  PROVE  /\ Announcement(v).csid = Control.csid /\ Announcement(v).len = AnnounceLen
         /\ Announcement(v).type = Control.type /\ Announcement(v).value = v
         /\ Announcement(v).time = 0 /\ Announcement(v).stream = Control.stream
BY DEF Announcement, Control

\* None is neither a header nor a part of a message.
LEMMA NoneIsNone == None \notin Parts /\ None \notin Header
<1>1. ASSUME NEW p \in Parts PROVE p # None
  <2>1. "none" \in DOMAIN None /\ "none" \notin DOMAIN p
    BY DEF Parts, None
  <2> QED
    BY <2>1
<1>2. ASSUME NEW p \in Header PROVE p # None
  <2>1. "none" \in DOMAIN None /\ "none" \notin DOMAIN p
    BY DEF Header, None
  <2> QED
    BY <2>1
<1> QED
  BY <1>1, <1>2

\* A number and its sum with the modulus.
LEMMA WrapOnce ==
  ASSUME NEW W \in Nat \ {0}, NEW a \in 0 .. W - 1
  PROVE  a % W = a /\ (a + W) % W = a
<1>1. W \in Nat /\ W > 0
  OBVIOUS
<1> DEFINE q == a \div W
           r == a % W
           p == (a + W) \div W
           t == (a + W) % W
<1>2. q \in Int /\ r \in 0 .. W - 1 /\ a = W * q + r
  BY <1>1
<1>3. p \in Int /\ t \in 0 .. W - 1 /\ a + W = W * p + t
  BY <1>1
<1>4. q = 0
  <2>1. W * q < W /\ W * q > 0 - W
    BY <1>1, <1>2
  <2> HIDE DEF q
  <2> QED
    BY <1>1, <1>2, <2>1
<1>5. p = 1
  <2>1. W * p < 2 * W /\ W * p > 0
    BY <1>1, <1>3
  <2> HIDE DEF p
  <2> QED
    BY <1>1, <1>3, <2>1
<1> QED
  BY <1>1, <1>2, <1>3, <1>4, <1>5

\* The clock at m, from a header's clock and the delta.
LEMMA DeltaWraps ==
  ASSUME NEW t \in 0 .. Wrap - 1, NEW u \in 0 .. Wrap - 1
  PROVE  /\ (u - t + Wrap) % Wrap \in 0 .. Wrap - 1
         /\ (t + ((u - t + Wrap) % Wrap)) % Wrap = u
<1>1. Wrap \in Nat \ {0} /\ Wrap > 0
  BY TimeAssumption
<1>2. CASE u >= t
  <2>1. u - t \in 0 .. Wrap - 1
    BY <1>1, <1>2
  <2>2. ((u - t) + Wrap) % Wrap = u - t
    BY <1>1, <2>1, WrapOnce
  <2>3. (u - t + Wrap) % Wrap = u - t /\ t + (u - t) = u
    BY <2>2
  <2> QED
    BY <1>1, <2>1, <2>3, WrapOnce
<1>3. CASE u < t
  <2>1. u - t + Wrap \in 0 .. Wrap - 1
    BY <1>1, <1>3
  <2>2. (u - t + Wrap) % Wrap = u - t + Wrap
    BY <1>1, <2>1, WrapOnce
  <2>3. t + (u - t + Wrap) = u + Wrap
    BY <1>1
  <2> QED
    BY <1>1, <2>1, <2>2, <2>3, WrapOnce
<1> QED
  BY <1>1, <1>2, <1>3

\* Sending nothing.
LEMMA LeadsNowhere == ASSUME NEW L, Sound(L) PROVE Leads(L, <<>>, L)
<1> DEFINE tr == [k \in 0 .. 0 |-> L]
           q == <<>>
<1>1. L \in States
  BY DEF Sound
<1>2. q \in Seq(Seq(Items)) /\ Len(q) = 0
  OBVIOUS
<1>3. tr \in [0 .. Len(q) -> States] /\ tr[0] = L /\ tr[Len(q)] = L
      /\ \A k \in 0 .. Len(q) : Sound(tr[k])
  BY <1>1, <1>2
<1>4. Run(q, tr)
  BY <1>2, <1>3 DEF Run
<1> QED
  BY <1>3, <1>4, FlattenEmpty DEF Leads

\* One chunk more.
LEMMA LeadsOn ==
  ASSUME NEW L, NEW S, NEW M, Leads(L, S, M), NEW x \in Seq(Items), NEW Z, Sends(M, x, Z),
         Sound(Z)
  PROVE  Leads(L, S \o x, Z)
<1>1. PICK q, tr : Run(q, tr) /\ S = FlattenSeq(q) /\ tr[0] = L /\ tr[Len(q)] = M
  BY DEF Leads
<1> DEFINE n == Len(q)
           r == Append(q, x)
           ts == [k \in 0 .. n + 1 |-> IF k <= n THEN tr[k] ELSE Z]
<1>2. /\ q \in Seq(Seq(Items)) /\ n \in Nat /\ tr \in [0 .. n -> States]
      /\ \A k \in 0 .. n : Sound(tr[k])
      /\ \A k \in 1 .. n : Sends(tr[k - 1], q[k], tr[k])
  BY <1>1 DEF Run
<1>3. /\ r \in Seq(Seq(Items)) /\ Len(r) = n + 1 /\ r[n + 1] = x
      /\ \A k \in 1 .. n : r[k] = q[k]
  BY <1>2
<1>4. ts \in [0 .. n + 1 -> States] /\ \A k \in 0 .. n + 1 : Sound(ts[k])
  BY <1>2 DEF Sound
<1>5. ASSUME NEW k \in 1 .. n + 1 PROVE Sends(ts[k - 1], r[k], ts[k])
  <2>1. CASE k <= n
    <3>1. k \in 1 .. n /\ ts[k] = tr[k] /\ ts[k - 1] = tr[k - 1] /\ r[k] = q[k]
      BY <1>2, <1>3, <2>1
    <3> QED
      BY <1>2, <3>1
  <2>2. CASE k = n + 1
    <3>1. ts[k] = Z /\ ts[k - 1] = M /\ r[k] = x
      BY <1>1, <1>2, <1>3, <2>2
    <3> QED
      BY <3>1
  <2> QED
    BY <1>2, <2>1, <2>2
<1>6. Run(r, ts)
  BY <1>3, <1>4, <1>5 DEF Run
<1>7. FlattenSeq(r) = S \o x
  BY <1>1, <1>2, FlattenAppend
<1>8. ts[0] = L /\ ts[Len(r)] = Z
  BY <1>1, <1>2, <1>3
<1> QED
  BY <1>6, <1>7, <1>8 DEF Leads

\* Where nothing was sent, nothing happened.
LEMMA LeadsByNothing ==
  ASSUME NEW L, NEW M, Leads(L, <<>>, M), \A A, x, B : Sends(A, x, B) => x # <<>>
  PROVE  L = M
<1>1. PICK q, tr : Run(q, tr) /\ <<>> = FlattenSeq(q) /\ tr[0] = L /\ tr[Len(q)] = M
  BY DEF Leads
<1>2. q \in Seq(Seq(Items)) /\ Len(q) \in Nat
  BY <1>1 DEF Run
<1>3. CASE Len(q) = 0
  BY <1>1, <1>3
<1>4. CASE Len(q) # 0
  <2>1. 1 \in 0 .. Len(q) /\ 1 \in 1 .. Len(q)
    BY <1>2, <1>4
  <2>2. /\ SubSeq(q, 1, 1) \in Seq(Seq(Items)) /\ SubSeq(q, 2, Len(q)) \in Seq(Seq(Items))
        /\ FlattenSeq(q) = FlattenSeq(SubSeq(q, 1, 1)) \o FlattenSeq(SubSeq(q, 2, Len(q)))
    BY <1>2, <2>1, FlattenSplit
  <2>3. SubSeq(q, 1, 1) = <<q[1]>> /\ q[1] \in Seq(Items)
    <3>1. q[1] \in Seq(Items)
      BY <1>2, <2>1
    <3>2. Len(SubSeq(q, 1, 1)) = 1 /\ SubSeq(q, 1, 1)[1] = q[1]
      BY <1>2, <2>1
    <3> DEFINE h == SubSeq(q, 1, 1)
    <3>3. h \in Seq(Seq(Items)) /\ Len(h) = 1 /\ h[1] = q[1]
      BY <2>2, <3>2
    <3> HIDE DEF h
    <3>4. h = <<q[1]>>
      BY <3>1, <3>3
    <3> QED
      BY <3>1, <3>4 DEF h
  <2>4. FlattenSeq(<<q[1]>>) = q[1] /\ FlattenSeq(SubSeq(q, 2, Len(q))) \in Seq(Items)
    BY <2>2, <2>3, FlattenSingle, FlattenType
  <2>5. q[1] # <<>>
    BY <1>1, <2>1 DEF Run
  <2> DEFINE rest_ == FlattenSeq(SubSeq(q, 2, Len(q)))
  <2>6. q[1] \o rest_ = <<>> /\ rest_ \in Seq(Items)
    BY <1>1, <2>2, <2>3, <2>4
  <2> HIDE DEF rest_
  <2> QED
    BY <2>3, <2>5, <2>6
<1> QED
  BY <1>3, <1>4

\* The first of the chunks.
LEMMA LeadsBy ==
  ASSUME NEW L, NEW S, NEW Z, Leads(L, S, Z), S # <<>>
  PROVE  \E x, y, M :
           /\ x \in Seq(Items) /\ y \in Seq(Items)
           /\ S = x \o y /\ Sound(L) /\ Sends(L, x, M) /\ Sound(M) /\ Leads(M, y, Z)
<1>1. PICK q, tr : Run(q, tr) /\ S = FlattenSeq(q) /\ tr[0] = L /\ tr[Len(q)] = Z
  BY DEF Leads
<1> DEFINE n == Len(q)
           r == SubSeq(q, 2, n)
           ts == [k \in 0 .. n - 1 |-> tr[k + 1]]
<1>2. /\ q \in Seq(Seq(Items)) /\ n \in Nat /\ tr \in [0 .. n -> States]
      /\ \A k \in 0 .. n : Sound(tr[k])
      /\ \A k \in 1 .. n : Sends(tr[k - 1], q[k], tr[k])
  BY <1>1 DEF Run
<1>3. n # 0
  <2>1. n = 0 => q = <<>>
    BY <1>2
  <2> QED
    BY <1>1, <2>1, FlattenEmpty
<1>4. 1 \in 0 .. n /\ 1 \in 1 .. n /\ 0 \in 0 .. n
  BY <1>2, <1>3
<1>5. /\ SubSeq(q, 1, 1) \in Seq(Seq(Items)) /\ SubSeq(q, 1 + 1, n) \in Seq(Seq(Items))
      /\ FlattenSeq(q) = FlattenSeq(SubSeq(q, 1, 1)) \o FlattenSeq(SubSeq(q, 1 + 1, n))
  BY <1>2, <1>4, FlattenSplit
<1>6. SubSeq(q, 1, 1) = <<q[1]>> /\ q[1] \in Seq(Items) /\ 1 + 1 = 2
  <2>1. q[1] \in Seq(Items) /\ 1 + 1 = 2
    BY <1>2, <1>4
  <2>2. SubSeq(q, 1, 1) = <<q[1]>>
    <3> DEFINE a == SubSeq(q, 1, 1)
               b == <<q[1]>>
    <3>1. b \in Seq(Seq(Items)) /\ Len(b) = 1 /\ b[1] = q[1]
      BY <2>1
    <3>2. a \in Seq(Seq(Items)) /\ Len(a) = 1 /\ a[1] = q[1]
      BY <1>2, <1>4, <1>5
    <3> HIDE DEF a, b
    <3>3. a = b
      BY <3>1, <3>2, SeqEqual
    <3> QED
      BY <3>3 DEF a, b
  <2> QED
    BY <2>1, <2>2
<1>7. FlattenSeq(<<q[1]>>) = q[1]
  BY <1>6, FlattenSingle
<1>8. S = q[1] \o FlattenSeq(r) /\ FlattenSeq(r) \in Seq(Items)
  BY <1>1, <1>5, <1>6, <1>7, FlattenType
<1>9. /\ r \in Seq(Seq(Items)) /\ Len(r) = n - 1
      /\ \A k \in 1 .. n - 1 : r[k] = q[k + 1]
  <2>1. r \in Seq(Seq(Items)) /\ Len(r) = n - 1
    <3>1. Len(SubSeq(q, 2, n)) = n - 1
      BY <1>2, <1>3
    <3> QED
      BY <1>5, <1>6, <3>1
  <2>2. ASSUME NEW k \in 1 .. n - 1 PROVE r[k] = q[k + 1]
    BY <1>2, <1>3
  <2> QED
    BY <2>1, <2>2
<1>10. ts \in [0 .. n - 1 -> States] /\ \A k \in 0 .. n - 1 : Sound(ts[k])
  BY <1>2, <1>3
<1>11. ASSUME NEW k \in 1 .. n - 1 PROVE Sends(ts[k - 1], r[k], ts[k])
  <2>1. k + 1 \in 1 .. n /\ (k + 1) - 1 = k /\ k \in 0 .. n - 1 /\ k - 1 \in 0 .. n - 1
        /\ (k - 1) + 1 = k
    BY <1>2, <1>3
  <2>2. Sends(tr[k], q[k + 1], tr[k + 1])
    BY <1>2, <2>1
  <2> QED
    BY <1>9, <2>1, <2>2
<1>12. Run(r, ts)
  BY <1>9, <1>10, <1>11 DEF Run
<1>13. ts[0] = tr[1] /\ ts[Len(r)] = Z
  BY <1>1, <1>2, <1>3, <1>9
<1>14. Leads(tr[1], FlattenSeq(r), Z)
  BY <1>12, <1>13 DEF Leads
<1>15. Sound(L) /\ Sends(L, q[1], tr[1]) /\ Sound(tr[1])
  <2>1. 1 - 1 = 0
    OBVIOUS
  <2> QED
    BY <1>1, <1>2, <1>4, <2>1
<1> QED
  BY <1>6, <1>8, <1>14, <1>15

-----------------------------------------------------------------------------
(* A message that was returned is forgotten in all states since.             *)

\* The sender without the oldest message of its queue on c.
Popped(L, c) == [L EXCEPT !.queue[c] = Tail(L.queue[c])]

\* A chunk is the same, and means the same, to a sender that has forgotten a
\* message returned before.
LEMMA SendsPopped ==
  ASSUME WithinLimits, NEW L, NEW x, NEW M, Sends(L, x, M), Sound(L), Sound(M), NEW c \in Csid,
         L.queue[c] # <<>>
  PROVE  /\ Sends(Popped(L, c), x, Popped(M, c)) /\ Sound(Popped(L, c)) /\ Sound(Popped(M, c))
         /\ M.queue[c] # <<>> /\ Head(M.queue[c]) = Head(L.queue[c])
<1> DEFINE PL == Popped(L, c)
           PM == Popped(M, c)
<1>1. /\ L \in States /\ M \in States /\ L.queue[c] \in Seq(Contents)
  BY DEF Sound, States
<1>2. /\ PL.hdr = L.hdr /\ PL.part = L.part /\ PL.size = L.size
      /\ PL.queue = [L.queue EXCEPT ![c] = Tail(L.queue[c])]
  BY <1>1 DEF Popped, States
<1>3. /\ PM.hdr = M.hdr /\ PM.part = M.part /\ PM.size = M.size
      /\ PM.queue = [M.queue EXCEPT ![c] = Tail(M.queue[c])]
  BY <1>1 DEF Popped, States
<1>4. M.queue[c] # <<>> /\ Head(M.queue[c]) = Head(L.queue[c])
  <2>1. CASE \E m \in Messages, fmt \in 0 .. 3 :
               CanStart(L, m, fmt) /\ x = Start(L, m, fmt) /\ M = Started(L, m, fmt)
    <3>1. PICK m \in Messages, fmt \in 0 .. 3 : M = Started(L, m, fmt)
      BY <2>1
    <3>2. M.queue = [L.queue EXCEPT ![m.csid] = Append(L.queue[m.csid], Content(m))]
      BY <3>1 DEF Started
    <3>3. M.queue[c] = L.queue[c] \/ M.queue[c] = Append(L.queue[c], Content(m))
      BY <1>1, <3>2 DEF States
    <3>4. Content(m) \in Contents
      BY DEF Contents
    <3> QED
      BY <1>1, <3>3, <3>4
  <2>2. CASE \E d \in Csid : L.part[d] # None /\ x = More(L, d) /\ M = Went(L, d)
    <3>1. M.queue = L.queue
      BY <2>2, <1>1 DEF Went, States
    <3> QED
      BY <3>1
  <2> QED
    BY <2>1, <2>2 DEF Sends
<1>5. Sound(PL) /\ Sound(PM)
  <2>1. Tail(L.queue[c]) \in Seq(Contents) /\ Tail(M.queue[c]) \in Seq(Contents)
    <3>1. M.queue[c] \in Seq(Contents)
      BY <1>1 DEF States
    <3> QED
      BY <1>1, <1>4, <3>1
  <2>2. PL.queue \in [Csid -> Seq(Contents)] /\ PM.queue \in [Csid -> Seq(Contents)]
    BY <1>1, <1>2, <1>3, <2>1 DEF States
  <2>3. PL \in States /\ PM \in States
    BY <1>1, <2>2 DEF Popped, States
  <2> QED
    BY <1>2, <1>3, <2>3 DEF Sound
<1>6. Sends(PL, x, PM)
  <2>1. ASSUME NEW m \in Messages, NEW fmt \in 0 .. 3,
               CanStart(L, m, fmt), x = Start(L, m, fmt), M = Started(L, m, fmt)
        PROVE  Sends(PL, x, PM)
    <3>0. m.csid \in Csid
      BY MessageFacts
    <3>1. CanStart(PL, m, fmt) /\ x = Start(PL, m, fmt)
      BY <1>2, <2>1 DEF CanStart, Start
    <3> DEFINE N == Started(PL, m, fmt)
    <3>2. N.hdr = M.hdr /\ N.part = M.part /\ N.size = M.size
      BY <1>2, <2>1 DEF Started
    <3>3. /\ N.queue = [PL.queue EXCEPT ![m.csid] = Append(PL.queue[m.csid], Content(m))]
          /\ M.queue = [L.queue EXCEPT ![m.csid] = Append(L.queue[m.csid], Content(m))]
      BY <2>1 DEF Started
    <3>4. Tail(Append(L.queue[c], Content(m))) = Append(Tail(L.queue[c]), Content(m))
      <4>1. Content(m) \in Contents
        BY DEF Contents
      <4> QED
        BY <1>1, <4>1
    <3>5. N.queue = PM.queue
      <4>1. L.queue \in [Csid -> Seq(Contents)] /\ M.queue \in [Csid -> Seq(Contents)]
        BY <1>1 DEF States
      <4>2. ASSUME NEW d \in Csid PROVE N.queue[d] = PM.queue[d]
        <5> HIDE DEF PL, PM, N
        <5>0. /\ PL.queue[d] = IF d = c THEN Tail(L.queue[d]) ELSE L.queue[d]
              /\ PM.queue[d] = IF d = c THEN Tail(M.queue[d]) ELSE M.queue[d]
              /\ DOMAIN PL.queue = Csid
          BY <1>2, <1>3, <4>1
        <5>1. CASE d # m.csid
          <6>1. N.queue[d] = PL.queue[d] /\ M.queue[d] = L.queue[d]
            BY <3>3, <4>1, <5>0, <5>1
          <6> QED
            BY <5>0, <6>1
        <5>2. CASE d = m.csid /\ d # c
          <6>1. /\ N.queue[d] = Append(PL.queue[d], Content(m))
                /\ M.queue[d] = Append(L.queue[d], Content(m))
            BY <3>3, <4>1, <5>0, <5>2
          <6> QED
            BY <5>0, <5>2, <6>1
        <5>3. CASE d = m.csid /\ d = c
          <6>1. M.queue[c] = Append(L.queue[c], Content(m)) /\ M.queue \in [Csid -> Seq(Contents)]
            BY <1>1, <3>3, <4>1, <5>3 DEF States
          <6>2. PM.queue[c] = Tail(M.queue[c]) /\ PL.queue[c] = Tail(L.queue[c])
            BY <1>2, <1>3, <4>1, <6>1
          <6>3. N.queue[c] = Append(PL.queue[c], Content(m))
            BY <1>2, <3>3, <4>1, <5>3
          <6> QED
            BY <3>4, <5>3, <6>1, <6>2, <6>3
        <5> QED
          BY <5>1, <5>2, <5>3
      <4>3. DOMAIN N.queue = Csid /\ DOMAIN PM.queue = Csid
        BY <1>2, <1>3, <3>3, <4>1
      <4>4. N.queue = [d \in Csid |-> N.queue[d]] /\ PM.queue = [d \in Csid |-> PM.queue[d]]
        BY <1>2, <1>3, <3>3, <4>1
      <4> QED
        BY <4>2, <4>4
    <3>6. N = PM
      <4>1. N = [hdr |-> N.hdr, part |-> N.part, size |-> N.size, queue |-> N.queue]
        BY DEF Started
      <4>2. PM = [hdr |-> PM.hdr, part |-> PM.part, size |-> PM.size, queue |-> PM.queue]
        BY <1>5 DEF Sound, States
      <4> QED
        BY <1>3, <3>2, <3>5, <4>1, <4>2
    <3> QED
      BY <3>1, <3>6 DEF Sends
  <2>2. ASSUME NEW d \in Csid, L.part[d] # None, x = More(L, d), M = Went(L, d)
        PROVE  Sends(PL, x, PM)
    <3>1. PL.part[d] # None /\ x = More(PL, d)
      BY <1>2, <2>2 DEF More
    <3> DEFINE N == Went(PL, d)
    <3>2. M.queue = L.queue /\ M.hdr = L.hdr /\ M.size = L.size
      BY <1>1, <2>2 DEF Went, States
    <3>3. N.hdr = M.hdr /\ N.part = M.part /\ N.size = M.size /\ N.queue = PL.queue
      <4>1. PL \in States
        BY <1>5 DEF Sound
      <4> QED
        BY <1>1, <1>2, <2>2, <4>1 DEF Went, States
    <3>4. N = PM
      <4>1. N = [hdr |-> N.hdr, part |-> N.part, size |-> N.size, queue |-> N.queue]
        <5>1. PL = [hdr |-> PL.hdr, part |-> PL.part, size |-> PL.size, queue |-> PL.queue]
          BY <1>5 DEF Sound, States
        <5> HIDE DEF PL
        <5> QED
          BY <5>1 DEF Went
      <4>2. PM = [hdr |-> PM.hdr, part |-> PM.part, size |-> PM.size, queue |-> PM.queue]
        BY <1>5 DEF Sound, States
      <4> QED
        BY <1>2, <1>3, <3>2, <3>3, <4>1, <4>2
    <3> QED
      BY <3>1, <3>4 DEF Sends
  <2> QED
    BY <2>1, <2>2 DEF Sends
<1> QED
  BY <1>4, <1>5, <1>6

\* So is a run of chunks.
LEMMA LeadsPopped ==
  ASSUME WithinLimits, NEW L, NEW S, NEW Z, Leads(L, S, Z), NEW c \in Csid, L.queue[c] # <<>>
  PROVE  /\ Leads(Popped(L, c), S, Popped(Z, c))
         /\ Z.queue[c] # <<>> /\ Head(Z.queue[c]) = Head(L.queue[c])
<1>1. PICK q, tr : Run(q, tr) /\ S = FlattenSeq(q) /\ tr[0] = L /\ tr[Len(q)] = Z
  BY DEF Leads
<1> DEFINE n == Len(q)
           ts == [k \in 0 .. n |-> Popped(tr[k], c)]
           D == {k \in Nat : k <= n => tr[k].queue[c] # <<>>
                 /\ Head(tr[k].queue[c]) = Head(L.queue[c])}
<1>2. /\ q \in Seq(Seq(Items)) /\ n \in Nat /\ tr \in [0 .. n -> States]
      /\ \A k \in 0 .. n : Sound(tr[k])
      /\ \A k \in 1 .. n : Sends(tr[k - 1], q[k], tr[k])
  BY <1>1 DEF Run
<1>3. 0 \in D
  BY <1>1
<1>4. ASSUME NEW k \in Nat, k \in D PROVE k + 1 \in D
  <2>1. SUFFICES ASSUME k + 1 <= n
                 PROVE  tr[k + 1].queue[c] # <<>> /\ Head(tr[k + 1].queue[c]) = Head(L.queue[c])
    OBVIOUS
  <2>2. k + 1 \in 1 .. n /\ k \in 0 .. n /\ k + 1 \in 0 .. n /\ (k + 1) - 1 = k
    BY <1>2, <2>1
  <2>3. Sends(tr[k], q[k + 1], tr[k + 1]) /\ Sound(tr[k]) /\ Sound(tr[k + 1])
    BY <1>2, <2>2
  <2>4. tr[k].queue[c] # <<>> /\ Head(tr[k].queue[c]) = Head(L.queue[c])
    BY <1>4, <2>1, <1>2
  <2> QED
    BY <2>3, <2>4, SendsPopped
<1> HIDE DEF D
<1>5. Nat \subseteq D
  BY <1>3, <1>4, NatSetInduction
<1>6. ASSUME NEW k \in 0 .. n
      PROVE  tr[k].queue[c] # <<>> /\ Head(tr[k].queue[c]) = Head(L.queue[c])
  BY <1>2, <1>5 DEF D
<1>7. ASSUME NEW k \in 0 .. n PROVE Sound(ts[k])
  <2>1. tr[k] \in States /\ tr[k].queue[c] \in Seq(Contents) /\ tr[k].queue[c] # <<>>
    BY <1>2, <1>6 DEF States
  <2>2. Tail(tr[k].queue[c]) \in Seq(Contents)
    BY <2>1
  <2>3. /\ ts[k].hdr = tr[k].hdr /\ ts[k].part = tr[k].part /\ ts[k].size = tr[k].size
        /\ ts[k] \in States
    BY <2>1, <2>2 DEF Popped, States
  <2> QED
    BY <1>2, <2>3 DEF Sound
<1>8. ASSUME NEW k \in 1 .. n PROVE Sends(ts[k - 1], q[k], ts[k])
  <2>1. k \in 0 .. n /\ k - 1 \in 0 .. n
    BY <1>2
  <2>2. Sends(tr[k - 1], q[k], tr[k]) /\ Sound(tr[k - 1]) /\ Sound(tr[k])
        /\ tr[k - 1].queue[c] # <<>>
    BY <1>2, <1>6, <2>1
  <2>3. Sends(Popped(tr[k - 1], c), q[k], Popped(tr[k], c))
    BY <2>2, SendsPopped
  <2> QED
    BY <2>1, <2>3
<1>9. ts \in [0 .. n -> States]
  BY <1>7 DEF Sound
<1>10. Run(q, ts)
  BY <1>2, <1>7, <1>8, <1>9 DEF Run
<1>11. ts[0] = Popped(L, c) /\ ts[n] = Popped(Z, c) /\ tr[n] = Z /\ n \in 0 .. n
  BY <1>1, <1>2
<1> QED
  BY <1>1, <1>6, <1>10, <1>11 DEF Leads

\* The names of the fields of a message header.
Names == <<"time", "len", "type", "stream">>
Words == {"basic", "time", "len", "type", "stream", "ext", "byte"}

\* The number of fields by format (write_message_header).
LEMMA HeaderLenIs ==
  HeaderLen(0) = 4 /\ HeaderLen(1) = 3 /\ HeaderLen(2) = 1 /\ HeaderLen(3) = 0
BY DEF HeaderLen

\* The first n names.
LEMMA NamesOf ==
  ASSUME NEW n \in 0 .. 4
  PROVE  Len(SubSeq(Names, 1, n)) = n /\ \A i \in 1 .. n : SubSeq(Names, 1, n)[i] = Names[i]
<1>1. Names \in Seq(Words) /\ Len(Names) = 4
  BY DEF Names, Words
<1> QED
  BY <1>1

\* The fields of a message header, in their places.
LEMMA HeaderIs ==
  ASSUME WithinLimits, NEW m \in Messages, NEW fmt \in 0 .. 3, NEW v \in Nat
  PROVE  LET H == HeaderItems(fmt, v, m) IN
           /\ H \in Seq(Items) /\ Len(H) = HeaderLen(fmt)
           /\ \A i \in 1 .. HeaderLen(fmt) : H[i].is = Names[i]
           /\ fmt <= 2 => H[1] = Field("time", Min2(v, Escape))
           /\ fmt <= 1 => H[2] = Field("len", m.len) /\ H[3] = TypeField(m.type)
           /\ fmt = 0 => H[4] = Field("stream", m.stream)
<1> DEFINE H == HeaderItems(fmt, v, m)
           F == <<Field("time", Min2(v, Escape)), Field("len", Min2(m.len, MaxLen)),
                  TypeField(m.type), Field("stream", m.stream)>>
<1>1. Min2(m.len, MaxLen) = m.len /\ m.len \in Nat
  BY MessageFacts, LengthAssumption DEF Min2
<1>2. Min2(v, Escape) \in Nat
  BY TimeAssumption DEF Min2
<1>3. /\ Field("time", Min2(v, Escape)) \in Items /\ Field("len", Min2(m.len, MaxLen)) \in Items
      /\ TypeField(m.type) \in Items /\ Field("stream", m.stream) \in Items
  BY <1>1, <1>2 DEF Items
<1>4. F \in Seq(Items) /\ Len(F) = 4
  BY <1>3
<1>5. HeaderLen(fmt) \in 0 .. 4
  BY HeaderLenIs
<1>6. H = SubSeq(F, 1, HeaderLen(fmt))
  BY DEF HeaderItems
<1>7. H \in Seq(Items) /\ Len(H) = HeaderLen(fmt) /\ \A i \in 1 .. HeaderLen(fmt) : H[i] = F[i]
  <2> HIDE DEF F, H
  <2> QED
    BY <1>4, <1>5, <1>6
<1>8. /\ F[1] = Field("time", Min2(v, Escape)) /\ F[2] = Field("len", m.len)
      /\ F[3] = TypeField(m.type) /\ F[4] = Field("stream", m.stream)
  BY <1>1
<1>9. \A i \in 1 .. 4 : F[i].is = Names[i]
  <2>1. F[1].is = "time" /\ F[2].is = "len" /\ F[3].is = "type" /\ F[4].is = "stream"
    BY DEF Field, TypeField
  <2>2. Names[1] = "time" /\ Names[2] = "len" /\ Names[3] = "type" /\ Names[4] = "stream"
    BY DEF Names
  <2> HIDE DEF F
  <2> QED
    BY <2>1, <2>2
<1> HIDE DEF F, H
<1>10. \A i \in 1 .. HeaderLen(fmt) : H[i].is = Names[i]
  BY <1>5, <1>7, <1>9
<1>11. /\ fmt <= 2 => 1 \in 1 .. HeaderLen(fmt)
       /\ fmt <= 1 => 2 \in 1 .. HeaderLen(fmt) /\ 3 \in 1 .. HeaderLen(fmt)
       /\ fmt = 0 => 4 \in 1 .. HeaderLen(fmt)
  BY HeaderLenIs
<1> QED
  BY <1>7, <1>8, <1>10, <1>11 DEF H

\* The bytes of a message, some of them.
LEMMA PayloadIs ==
  ASSUME WithinLimits, NEW m \in Messages
  PROVE  /\ Payload(m) \in Seq(Items) /\ Len(Payload(m)) = m.len
         /\ \A i \in 1 .. m.len : Payload(m)[i].is = "byte" /\ Payload(m)[i].value = m.value
<1>1. m.len \in Nat
  BY MessageFacts
<1>2. \A i \in 1 .. m.len : [is |-> "byte", of |-> m.csid, at |-> i, value |-> m.value] \in Items
  BY <1>1 DEF Items
<1>4. Payload(m) \in Seq(Items) /\ Len(Payload(m)) = m.len
  <2> HIDE DEF Items
  <2> QED
    BY <1>1, <1>2 DEF Payload
<1>5. \A i \in 1 .. m.len : Payload(m)[i].is = "byte" /\ Payload(m)[i].value = m.value
  BY DEF Payload
<1> QED
  BY <1>4, <1>5

\* A piece of a payload is as many bytes as it should be.
LEMMA PieceIs ==
  ASSUME WithinLimits, NEW m \in Messages, NEW a \in 0 .. m.len, NEW b \in a .. m.len
  PROVE  LET p == SubSeq(Payload(m), a + 1, b) IN
           p \in Seq(Items) /\ Len(p) = b - a /\ \A i \in 1 .. b - a : p[i].is = "byte"
<1>1. m.len \in Nat
  BY MessageFacts
<1> DEFINE s == Payload(m)
<1>2. s \in Seq(Items) /\ Len(s) = m.len /\ \A i \in 1 .. m.len : s[i].is = "byte"
  BY PayloadIs
<1> HIDE DEF s
<1> DEFINE p == SubSeq(s, a + 1, b)
<1>3. p \in Seq(Items) /\ Len(p) = b - a /\ \A i \in 1 .. b - a : p[i] = s[a + i]
  <2>1. Len(p) = b - a
    BY <1>1, <1>2
  <2>2. p \in Seq(Items)
    BY <1>1, <1>2
  <2>3. \A i \in 1 .. b - a : p[i] = s[a + i]
    <3> TAKE i \in 1 .. b - a
    <3>1. p[i] = s[(a + 1) + i - 1]
      BY <1>1, <1>2
    <3> QED
      BY <1>1, <3>1
  <2> QED
    BY <2>1, <2>2, <2>3
<1>4. \A i \in 1 .. b - a : a + i \in 1 .. m.len
  BY <1>1
<1> HIDE DEF p
<1> QED
  BY <1>2, <1>3, <1>4 DEF p, s

\* A sequence of n and one of k, one after the other.
Glued(x, a, b, n, k, T) ==
  /\ x \in Seq(T) /\ Len(x) = n + k
  /\ \A i \in 1 .. n : x[i] = a[i]
  /\ \A i \in 1 .. k : x[n + i] = b[i]
  /\ SubSeq(x, n + 1, n + k) = b /\ SubSeq(x, 1, n) = a

\* What \o makes of them.
LEMMA GluedIs ==
  ASSUME NEW T, NEW a \in Seq(T), NEW b \in Seq(T), NEW n \in Nat, NEW k \in Nat,
         Len(a) = n, Len(b) = k
  PROVE  Glued(a \o b, a, b, n, k, T)
<1>1. a \o b \in Seq(T) /\ Len(a \o b) = n + k
  OBVIOUS
<1>2. \A i \in 1 .. n : (a \o b)[i] = a[i]
  OBVIOUS
<1>3. \A i \in 1 .. k : (a \o b)[n + i] = b[i]
  OBVIOUS
<1>4. SubSeq(a \o b, n + 1, n + k) = b
  OBVIOUS
<1>5. SubSeq(a \o b, 1, n) = a
  OBVIOUS
<1> QED
  BY <1>1, <1>2, <1>3, <1>4, <1>5 DEF Glued

\* What stands in a chunk, and where.
ChunkOf(x, fmt, c, H, v, P) ==
  /\ x \in Seq(Items) /\ x # <<>>
  /\ Len(x) = 1 + HeaderLen(fmt) + (IF v >= Escape THEN 1 ELSE 0) + Len(P)
  /\ x[1] = Basic(fmt, c)
  /\ \A i \in 1 .. HeaderLen(fmt) : x[1 + i] = H[i]
  /\ v >= Escape => x[2 + HeaderLen(fmt)] = Field("ext", v)
  /\ SubSeq(x, Len(x) - Len(P) + 1, Len(x)) = P
  /\ Len(Shape(fmt, v >= Escape, Len(P))) = Len(x)
  /\ \A i \in 1 .. Len(x) : x[i].is = Shape(fmt, v >= Escape, Len(P))[i]

\* A basic header, a message header, an extended time and a payload are a chunk.
LEMMA ChunkIs ==
  ASSUME NEW fmt \in 0 .. 3, NEW c \in Csid, NEW v \in Nat, NEW P \in Seq(Items),
         \A i \in 1 .. Len(P) : P[i].is = "byte",
         NEW H \in Seq(Items), Len(H) = HeaderLen(fmt),
         \A i \in 1 .. HeaderLen(fmt) : H[i].is = Names[i]
  PROVE  ChunkOf(<<Basic(fmt, c)>> \o H \o Extended(v) \o P, fmt, c, H, v, P)
<1> DEFINE h == HeaderLen(fmt)
           e == IF v >= Escape THEN 1 ELSE 0
           b == <<Basic(fmt, c)>>
           E == Extended(v)
           x1 == b \o H
           x2 == x1 \o E
           x == x2 \o P
           N == SubSeq(Names, 1, h)
           F == IF v >= Escape THEN <<"ext">> ELSE <<>>
           B == [i \in 1 .. Len(P) |-> "byte"]
           s1 == <<"basic">> \o N
           s2 == s1 \o F
           s == s2 \o B
<1>1. h \in 0 .. 4 /\ Escape \in Nat /\ Len(P) \in Nat
  BY HeaderLenIs, TimeAssumption
<1>2. b \in Seq(Items) /\ Len(b) = 1 /\ b[1] = Basic(fmt, c) /\ b[1].is = "basic"
  BY DEF Basic, Items
<1>3. /\ E \in Seq(Items) /\ Len(E) = e
      /\ v >= Escape => E[1] = Field("ext", v)
      /\ \A i \in 1 .. e : E[i].is = "ext"
  <2>1. CASE v >= Escape
    <3>1. Field("ext", v) \in Items /\ Field("ext", v).is = "ext"
      BY DEF Items, Field
    <3> QED
      BY <2>1, <3>1 DEF Extended
  <2>2. CASE ~(v >= Escape)
    BY <2>2 DEF Extended
  <2> QED
    BY <2>1, <2>2
<1>4. N \in Seq(Words) /\ Len(N) = h /\ \A i \in 1 .. h : N[i] = Names[i]
  <2>1. Names \in Seq(Words) /\ Len(Names) = 4
    BY DEF Names, Words
  <2>2. N \in Seq(Words)
    BY <1>1, <2>1
  <2> QED
    BY <1>1, <2>2, NamesOf
<1>5. F \in Seq(Words) /\ Len(F) = e /\ \A i \in 1 .. e : F[i] = "ext"
  <2>1. CASE v >= Escape
    BY <2>1 DEF Words
  <2>2. CASE ~(v >= Escape)
    BY <2>2
  <2> QED
    BY <2>1, <2>2
<1>6. B \in Seq(Words) /\ Len(B) = Len(P) /\ \A i \in 1 .. Len(P) : B[i] = "byte"
  <2>1. "byte" \in Words
    BY DEF Words
  <2> QED
    BY <1>1, <2>1
<1>7. Shape(fmt, v >= Escape, Len(P)) = s
  BY DEF Shape, Names
<1>8. e \in 0 .. 1 /\ <<"basic">> \in Seq(Words) /\ Len(<<"basic">>) = 1
      /\ <<"basic">>[1] = "basic"
  BY DEF Words
<1> HIDE DEF h, e, b, E, N, F, B
<1>9. /\ x1 \in Seq(Items) /\ Len(x1) = 1 + h /\ x1[1] = b[1]
      /\ \A i \in 1 .. h : x1[1 + i] = H[i]
  <2>1. Len(H) = h
    BY DEF h
  <2>2. Glued(b \o H, b, H, Len(b), h, Items)
    <3>1. b \in Seq(Items) /\ H \in Seq(Items) /\ Len(b) \in Nat /\ h \in Nat /\ Len(H) = h
      BY <1>1, <1>2, <2>1
    <3> QED
      BY ONLY <3>1, GluedIs
  <2> QED
    BY <1>1, <1>2, <2>2 DEF Glued
<1>10. /\ s1 \in Seq(Words) /\ Len(s1) = 1 + h /\ s1[1] = "basic"
       /\ \A i \in 1 .. h : s1[1 + i] = N[i]
  <2> DEFINE w == <<"basic">>
  <2>0. w \in Seq(Words) /\ Len(w) = 1 /\ w[1] = "basic" /\ s1 = w \o N
    BY <1>8
  <2> HIDE DEF w, s1
  <2>1. Glued(w \o N, w, N, Len(w), h, Words)
    <3>1. w \in Seq(Words) /\ N \in Seq(Words) /\ Len(w) \in Nat /\ h \in Nat /\ Len(N) = h
      BY <1>1, <1>4, <2>0
    <3> QED
      BY ONLY <3>1, GluedIs
  <2> QED
    BY <1>1, <2>0, <2>1 DEF Glued
<1> HIDE DEF x1, s1
<1>11. /\ x2 \in Seq(Items) /\ Len(x2) = 1 + h + e
       /\ \A i \in 1 .. 1 + h : x2[i] = x1[i]
       /\ \A i \in 1 .. e : x2[(1 + h) + i] = E[i]
  <2>1. Glued(x1 \o E, x1, E, 1 + h, e, Items)
    BY <1>1, <1>3, <1>8, <1>9, GluedIs
  <2> QED
    BY <2>1 DEF Glued
<1>12. /\ s2 \in Seq(Words) /\ Len(s2) = 1 + h + e
       /\ \A i \in 1 .. 1 + h : s2[i] = s1[i]
       /\ \A i \in 1 .. e : s2[(1 + h) + i] = F[i]
  <2>1. Glued(s1 \o F, s1, F, 1 + h, e, Words)
    BY <1>1, <1>5, <1>8, <1>10, GluedIs
  <2> QED
    BY <2>1 DEF Glued
<1> HIDE DEF x2, s2
<1>13. /\ x \in Seq(Items) /\ Len(x) = 1 + h + e + Len(P)
       /\ \A i \in 1 .. 1 + h + e : x[i] = x2[i]
       /\ \A i \in 1 .. Len(P) : x[(1 + h + e) + i] = P[i]
       /\ SubSeq(x, (1 + h + e) + 1, 1 + h + e + Len(P)) = P
  <2>1. Glued(x2 \o P, x2, P, 1 + h + e, Len(P), Items)
    BY <1>1, <1>8, <1>11, GluedIs
  <2> QED
    BY <2>1 DEF Glued
<1>14. /\ s \in Seq(Words) /\ Len(s) = 1 + h + e + Len(P)
       /\ \A i \in 1 .. 1 + h + e : s[i] = s2[i]
       /\ \A i \in 1 .. Len(P) : s[(1 + h + e) + i] = B[i]
  <2>1. Glued(s2 \o B, s2, B, 1 + h + e, Len(P), Words)
    BY <1>1, <1>6, <1>8, <1>12, GluedIs
  <2> QED
    BY <2>1 DEF Glued
<1> HIDE DEF x, s
<1>15. x[1] = Basic(fmt, c) /\ x[1].is = s[1]
  <2>1. 1 \in 1 .. 1 + h /\ 1 \in 1 .. 1 + h + e
    BY <1>1, <1>8
  <2>2. x[1] = x2[1] /\ s[1] = s2[1]
    BY <1>13, <1>14, <2>1
  <2>3. x2[1] = x1[1] /\ s2[1] = s1[1]
    BY <1>11, <1>12, <2>1
  <2> QED
    BY <1>2, <1>9, <1>10, <2>2, <2>3
<1>16. ASSUME NEW i \in 1 .. h PROVE x[1 + i] = H[i] /\ x[1 + i].is = s[1 + i]
  <2>1. 1 + i \in 1 .. 1 + h /\ 1 + i \in 1 .. 1 + h + e
    BY <1>1, <1>8
  <2>2. x[1 + i] = H[i] /\ s[1 + i] = N[i]
    <3>1. x[1 + i] = x2[1 + i] /\ s[1 + i] = s2[1 + i]
      BY <1>13, <1>14, <2>1
    <3>2. x2[1 + i] = x1[1 + i] /\ s2[1 + i] = s1[1 + i]
      BY <1>11, <1>12, <2>1
    <3>3. x1[1 + i] = H[i] /\ s1[1 + i] = N[i]
      BY <1>9, <1>10
    <3> QED
      BY <3>1, <3>2, <3>3
  <2>3. H[i].is = Names[i] /\ N[i] = Names[i]
    BY <1>4 DEF h
  <2> QED
    BY <2>2, <2>3
<1>17. ASSUME NEW i \in 1 .. e PROVE x[(1 + h) + i] = E[i] /\ x[(1 + h) + i].is = s[(1 + h) + i]
  <2>1. (1 + h) + i \in 1 .. 1 + h + e
    BY <1>1, <1>8
  <2>2. x[(1 + h) + i] = E[i] /\ s[(1 + h) + i] = F[i]
    BY <1>11, <1>12, <1>13, <1>14, <2>1
  <2> QED
    BY <1>3, <1>5, <2>2
<1>18. ASSUME NEW i \in 1 .. Len(P) PROVE x[(1 + h + e) + i].is = s[(1 + h + e) + i]
  BY <1>6, <1>13, <1>14
<1>19. ASSUME NEW i \in 1 .. Len(x) PROVE x[i].is = s[i]
  <2>1. CASE i = 1
    BY <1>15, <2>1
  <2>2. CASE i \in 2 .. 1 + h
    <3>1. i - 1 \in 1 .. h /\ 1 + (i - 1) = i
      BY <1>1, <2>2
    <3> QED
      BY <1>16, <3>1
  <2>3. CASE i \in 2 + h .. 1 + h + e
    <3>1. i - (1 + h) \in 1 .. e /\ (1 + h) + (i - (1 + h)) = i
      BY <1>1, <1>8, <2>3
    <3> QED
      BY <1>17, <3>1
  <2>4. CASE i \in 2 + h + e .. Len(x)
    <3>1. i - (1 + h + e) \in 1 .. Len(P) /\ (1 + h + e) + (i - (1 + h + e)) = i
      BY <1>1, <1>8, <1>13, <2>4
    <3> QED
      BY <1>18, <3>1
  <2> QED
    BY <1>1, <1>8, <1>13, <2>1, <2>2, <2>3, <2>4
<1>20. v >= Escape => x[2 + h] = Field("ext", v)
  <2>1. v >= Escape => 1 \in 1 .. e /\ (1 + h) + 1 = 2 + h
    BY <1>1 DEF e
  <2> QED
    BY <1>3, <1>17, <2>1
<1>21. x # <<>> /\ Len(x) - Len(P) + 1 = (1 + h + e) + 1
  BY <1>1, <1>8, <1>13
<1>22. ChunkOf(x, fmt, c, H, v, P)
  <2>1. Len(x) = 1 + HeaderLen(fmt) + (IF v >= Escape THEN 1 ELSE 0) + Len(P)
    BY <1>13 DEF h, e
  <2>2. SubSeq(x, Len(x) - Len(P) + 1, Len(x)) = P
    BY <1>13, <1>21
  <2>3. /\ Len(Shape(fmt, v >= Escape, Len(P))) = Len(x)
        /\ \A i \in 1 .. Len(x) : x[i].is = Shape(fmt, v >= Escape, Len(P))[i]
    BY <1>7, <1>13, <1>14, <1>19
  <2> QED
    BY <1>13, <1>15, <1>16, <1>20, <1>21, <2>1, <2>2, <2>3 DEF ChunkOf, h
<1> QED
  BY <1>22 DEF x, x2, x1, b, E

\* What a form says of the header it refers to.
LEMMA FormIs ==
  ASSUME NEW h, NEW m, NEW fmt \in 0 .. 3, fmt <= ChooseFmt(h, m)
  PROVE  /\ fmt >= 1 => h # None /\ h.stream = m.stream
         /\ fmt >= 2 => h.type = m.type /\ h.len = Min2(m.len, MaxLen)
         /\ fmt = 3 => h.delta = Delta(h, m)
BY DEF ChooseFmt

\* The header a sender keeps of a message it begins.
LEMMA SentIs ==
  ASSUME WithinLimits, NEW h \in Header \cup {None}, NEW m \in Messages, NEW fmt \in 0 .. 3,
         fmt <= ChooseFmt(h, m)
  PROVE  LET s == SentHeader(fmt, h, m)
             v == TimeField(fmt, h, m)
         IN /\ s \in Header /\ s # None /\ v \in 0 .. Wrap - 1 /\ Stamp(s) = v
            /\ s.time = m.time /\ s.len = m.len /\ s.type = m.type /\ s.stream = m.stream
            /\ s.delta = IF fmt = 0 THEN NoDelta ELSE v
            /\ fmt # 0 => h \in Header /\ (h.time + v) % Wrap = m.time
<1> DEFINE s == SentHeader(fmt, h, m)
           v == TimeField(fmt, h, m)
<1>1. /\ m.time \in 0 .. Wrap - 1 /\ m.len \in 0 .. MaxLen
      /\ m.type \in {n.type : n \in Calls \cup {Control}}
      /\ m.stream \in {n.stream : n \in Calls \cup {Control}}
  BY MessageFacts
<1>2. fmt # 0 => h \in Header /\ h.time \in 0 .. Wrap - 1
  <2>1. fmt # 0 => h # None
    BY FormIs
  <2> QED
    BY <2>1 DEF Header
<1>3. v \in 0 .. Wrap - 1 /\ (fmt = 0 => v = m.time)
      /\ (fmt # 0 => v = Delta(h, m) /\ (h.time + v) % Wrap = m.time)
  <2>1. CASE fmt = 0
    BY <1>1, <2>1 DEF TimeField
  <2>2. CASE fmt # 0
    <3>1. v = (m.time - h.time + Wrap) % Wrap /\ v = Delta(h, m)
      BY <2>2 DEF TimeField, Delta
    <3>2. /\ (m.time - h.time + Wrap) % Wrap \in 0 .. Wrap - 1
          /\ (h.time + ((m.time - h.time + Wrap) % Wrap)) % Wrap = m.time
      BY <1>1, <1>2, <2>2, DeltaWraps
    <3> QED
      BY <2>2, <3>1, <3>2
  <2> QED
    BY <2>1, <2>2
<1>4. Min2(m.len, MaxLen) = m.len
  BY <1>1, LengthAssumption DEF Min2
<1>5. s = [time |-> m.time, len |-> m.len, type |-> m.type, stream |-> m.stream,
           delta |-> IF fmt = 0 THEN NoDelta ELSE v]
  BY <1>3, <1>4 DEF SentHeader
<1> HIDE DEF s, v
<1>6. s \in Header
  BY <1>1, <1>3, <1>5 DEF Header
<1>7. s # None
  BY <1>6, NoneIsNone
<1>8. Stamp(s) = v
  <2>1. v # NoDelta
    BY <1>3 DEF NoDelta
  <2> QED
    BY <1>3, <1>5, <2>1 DEF Stamp
<1> QED
  BY <1>2, <1>3, <1>5, <1>6, <1>7, <1>8 DEF s, v

\* The chunk that begins a message is one.
LEMMA StartIs ==
  ASSUME WithinLimits, NEW L, Sound(L), NEW m, NEW fmt, CanStart(L, m, fmt)
  PROVE  LET v == TimeField(fmt, L.hdr[m.csid], m) IN
         ChunkOf(Start(L, m, fmt), fmt, m.csid, HeaderItems(fmt, v, m), v,
                 SubSeq(Payload(m), 1, Min2(L.size, m.len)))
<1> DEFINE v == TimeField(fmt, L.hdr[m.csid], m)
           n == Min2(L.size, m.len)
           P == SubSeq(Payload(m), 1, n)
           H == HeaderItems(fmt, v, m)
<1>1. m \in Messages /\ fmt \in 0 .. 3 /\ fmt <= ChooseFmt(L.hdr[m.csid], m)
  BY DEF CanStart
<1>2. m.csid \in Csid /\ m.len \in 0 .. MaxLen
  BY <1>1, MessageFacts
<1>3. L.hdr[m.csid] \in Header \cup {None} /\ L.size \in Nat \ {0}
  BY <1>2 DEF Sound, States
<1>4. v \in 0 .. Wrap - 1 /\ v \in Nat
  BY <1>1, <1>3, SentIs, TimeAssumption
<1>5. n \in 0 .. m.len
  BY <1>2, <1>3 DEF Min2
<1>6. P \in Seq(Items) /\ Len(P) = n /\ \A i \in 1 .. n : P[i].is = "byte"
  <2>1. 0 \in 0 .. m.len /\ n \in 0 .. m.len /\ 0 + 1 = 1 /\ n - 0 = n
    BY <1>2, <1>5
  <2>2. ASSUME NEW a \in 0 .. m.len, a = 0
        PROVE  LET p == SubSeq(Payload(m), a + 1, n) IN
                 p \in Seq(Items) /\ Len(p) = n - a /\ \A i \in 1 .. n - a : p[i].is = "byte"
    BY <1>1, <2>1, <2>2, PieceIs
  <2> HIDE DEF n
  <2> QED
    BY <2>1, <2>2
<1>7. H \in Seq(Items) /\ Len(H) = HeaderLen(fmt)
      /\ \A i \in 1 .. HeaderLen(fmt) : H[i].is = Names[i]
  BY <1>1, <1>4, HeaderIs
<1>8. Start(L, m, fmt) = <<Basic(fmt, m.csid)>> \o H \o Extended(v) \o P
  BY DEF Start, FirstChunk
<1> HIDE DEF v, n, P, H
<1>9. ChunkOf(<<Basic(fmt, m.csid)>> \o H \o Extended(v) \o P, fmt, m.csid, H, v, P)
  BY <1>1, <1>2, <1>4, <1>6, <1>7, ChunkIs
<1> QED
  BY <1>8, <1>9 DEF v, n, P, H

\* The chunk that continues a message is one.
LEMMA MoreIs ==
  ASSUME WithinLimits, NEW L, Sound(L), NEW c \in Csid, L.part[c] # None
  PROVE  LET p == L.part[c] IN
         /\ p \in Parts /\ p.m \in Messages /\ p.m.csid = c /\ p.at \in 1 .. p.m.len - 1
         /\ p.m.len \in 0 .. MaxLen /\ L.size \in Nat \ {0} /\ p.v \in Nat
         /\ ChunkOf(More(L, c), 3, c, <<>>, p.v,
                    SubSeq(Payload(p.m), p.at + 1, Min2(p.at + L.size, p.m.len)))
         /\ Len(SubSeq(Payload(p.m), p.at + 1,
                       Min2(p.at + L.size, p.m.len)))
              = Min2(p.at + L.size, p.m.len) - p.at
<1> DEFINE p == L.part[c]
           n == Min2(p.at + L.size, p.m.len)
           P == SubSeq(Payload(p.m), p.at + 1, n)
<1>1. p \in Parts /\ p.m.csid = c /\ p.at \in 1 .. p.m.len - 1 /\ L.size \in Nat \ {0}
  BY DEF Sound, States, PartSound
<1>2. p.m \in Messages /\ p.v \in Nat
  BY <1>1, TimeAssumption DEF Parts
<1>3. p.m.len \in 0 .. MaxLen
  BY <1>2, MessageFacts
<1>4. n \in p.at .. p.m.len /\ p.at \in 0 .. p.m.len
  BY <1>1, <1>3 DEF Min2
<1>5. P \in Seq(Items) /\ Len(P) = n - p.at /\ \A i \in 1 .. n - p.at : P[i].is = "byte"
  BY <1>2, <1>4, PieceIs
<1>6. More(L, c) = <<Basic(3, c)>> \o Extended(p.v) \o P
  BY <1>1 DEF More, NextChunk
<1> HIDE DEF p, n, P
<1>7. <<>> \in Seq(Items) /\ Len(<<>>) = HeaderLen(3)
      /\ \A i \in 1 .. HeaderLen(3) : <<>>[i].is = Names[i]
  BY HeaderLenIs
<1>8. ChunkOf(<<Basic(3, c)>> \o <<>> \o Extended(p.v) \o P, 3, c, <<>>, p.v, P)
  <2>1. 3 \in 0 .. 3
    OBVIOUS
  <2> QED
    BY <1>2, <1>5, <1>7, <2>1, ChunkIs
<1>9. <<Basic(3, c)>> \o <<>> = <<Basic(3, c)>>
  <2>1. <<Basic(3, c)>> \in Seq(Items)
    BY DEF Items
  <2> QED
    BY <2>1
<1> QED
  BY <1>1, <1>2, <1>3, <1>5, <1>6, <1>8, <1>9 DEF p, n, P

\* Every chunk leaves a sender sound.
LEMMA SendsSound ==
  ASSUME WithinLimits, NEW L, Sound(L), NEW x, NEW M, Sends(L, x, M)
  PROVE  Sound(M) /\ x \in Seq(Items) /\ x # <<>>
<1>0. /\ L.hdr \in [Csid -> Header \cup {None}] /\ L.part \in [Csid -> Parts \cup {None}]
      /\ L.size \in Nat \ {0} /\ L.queue \in [Csid -> Seq(Contents)]
  BY DEF Sound, States
<1>1. ASSUME NEW m \in Messages, NEW fmt \in 0 .. 3,
             CanStart(L, m, fmt), x = Start(L, m, fmt), M = Started(L, m, fmt)
      PROVE  Sound(M) /\ x \in Seq(Items) /\ x # <<>>
  <2> DEFINE c == m.csid
             s == SentHeader(fmt, L.hdr[c], m)
             v == TimeField(fmt, L.hdr[c], m)
  <2>1. c \in Csid /\ m.len \in 0 .. MaxLen
        /\ (m.type = Control.type => m.value \in Nat \ {0} /\ m.len = AnnounceLen)
    <3>1. ASSUME NEW w \in 1 .. SizeWrap - 1, m = Announcement(w)
          PROVE  m.value \in Nat \ {0} /\ m.len = AnnounceLen
      BY <3>1, AnnouncementFacts, SizeAssumption
    <3> QED
      BY <3>1, MessageFacts
  <2>2. /\ s \in Header /\ s # None /\ v \in 0 .. Wrap - 1 /\ Stamp(s) = v
        /\ s.time = m.time /\ s.len = m.len /\ s.type = m.type /\ s.stream = m.stream
    <3>1. L.hdr[c] \in Header \cup {None} /\ fmt <= ChooseFmt(L.hdr[c], m)
      BY <1>0, <1>1, <2>1 DEF CanStart
    <3> QED
      BY <3>1, SentIs
  <2> HIDE DEF s, v, c
  <2> DEFINE p == IF m.len <= L.size THEN None ELSE [m |-> m, v |-> v, at |-> L.size]
  <2>3. /\ M.hdr = [L.hdr EXCEPT ![c] = s] /\ M.part = [L.part EXCEPT ![c] = p]
        /\ M.size = IF m.type = Control.type THEN m.value ELSE L.size
        /\ M.queue = [L.queue EXCEPT ![c] = Append(L.queue[c], Content(m))]
        /\ M = [hdr |-> M.hdr, part |-> M.part, size |-> M.size, queue |-> M.queue]
    BY <1>1 DEF Started, s, v, c
  <2>4. p \in Parts \cup {None} /\ PartSound(s, p, c)
    <3>1. CASE m.len <= L.size
      BY <3>1 DEF PartSound
    <3>2. CASE ~(m.len <= L.size)
      <4>1. p = [m |-> m, v |-> v, at |-> L.size]
        BY <3>2
      <4>2. p \in Parts
        BY <1>0, <2>2, <4>1 DEF Parts
      <4>3. m.type # Control.type
        BY <1>0, <1>1, <2>1, <3>2, LengthAssumption DEF CanStart
      <4>4. p.at \in 1 .. p.m.len - 1
        BY <1>0, <2>1, <3>2, <4>1
      <4> QED
        BY <2>2, <4>1, <4>2, <4>3, <4>4 DEF PartSound, c
    <3> QED
      BY <3>1, <3>2
  <2>5. M \in States
    <3>1. Append(L.queue[c], Content(m)) \in Seq(Contents)
      <4>1. Content(m) \in Contents
        BY DEF Contents
      <4> QED
        BY <1>0, <2>1, <4>1
    <3>2. M.hdr \in [Csid -> Header \cup {None}] /\ M.part \in [Csid -> Parts \cup {None}]
      BY <1>0, <2>1, <2>2, <2>3, <2>4
    <3>3. M.queue \in [Csid -> Seq(Contents)] /\ M.size \in Nat \ {0}
      BY <1>0, <2>1, <2>3, <3>1
    <3> QED
      BY <2>3, <3>2, <3>3 DEF States
  <2>6. ASSUME NEW d \in Csid PROVE PartSound(M.hdr[d], M.part[d], d)
    <3>1. CASE d = c
      BY <1>0, <2>3, <2>4, <3>1
    <3>2. CASE d # c
      <4>1. M.hdr[d] = L.hdr[d] /\ M.part[d] = L.part[d]
        BY <1>0, <2>3, <3>2
      <4> QED
        BY <4>1 DEF Sound
    <3> QED
      BY <3>1, <3>2
  <2>7. x \in Seq(Items) /\ x # <<>>
    BY <1>1, StartIs DEF ChunkOf
  <2> QED
    BY <2>5, <2>6, <2>7 DEF Sound
<1>2. ASSUME NEW c \in Csid, L.part[c] # None, x = More(L, c), M = Went(L, c)
      PROVE  Sound(M) /\ x \in Seq(Items) /\ x # <<>>
  <2> DEFINE o == L.part[c]
             p == IF o.m.len <= o.at + L.size THEN None
                  ELSE [m |-> o.m, v |-> o.v, at |-> o.at + L.size]
  <2>1. M.hdr = L.hdr /\ M.part = [L.part EXCEPT ![c] = p] /\ M.size = L.size /\ M.queue = L.queue
        /\ M \in [hdr : {L.hdr}, part : {M.part}, size : {L.size}, queue : {L.queue}]
    <3>1. L = [hdr |-> L.hdr, part |-> L.part, size |-> L.size, queue |-> L.queue]
      BY DEF Sound, States
    <3> HIDE DEF p
    <3>2. M = [L EXCEPT !.part = [L.part EXCEPT ![c] = p]]
      BY <1>2, <3>1 DEF Went, p
    <3> QED
      BY <3>1, <3>2
  <2>2. /\ o \in Parts /\ o.m \in Messages /\ o.m.csid = c /\ o.at \in 1 .. o.m.len - 1
        /\ o.m.len \in 0 .. MaxLen
    BY <1>2, MoreIs
  <2>3. PartSound(L.hdr[c], o, c)
    BY DEF Sound
  <2>4. p \in Parts \cup {None} /\ PartSound(L.hdr[c], p, c)
    <3>1. CASE o.m.len <= o.at + L.size
      BY <3>1 DEF PartSound
    <3>2. CASE ~(o.m.len <= o.at + L.size)
      <4>1. p = [m |-> o.m, v |-> o.v, at |-> o.at + L.size]
        BY <3>2
      <4>2. p \in Parts
        BY <1>0, <2>2, <4>1 DEF Parts
      <4>3. p.at \in 1 .. p.m.len - 1
        BY <1>0, <2>2, <3>2, <4>1
      <4> QED
        BY <1>2, <2>3, <4>1, <4>2, <4>3 DEF PartSound
    <3> QED
      BY <3>1, <3>2
  <2> HIDE DEF o, p
  <2>5. M \in States
    <3>1. M.part \in [Csid -> Parts \cup {None}]
      BY <1>0, <2>1, <2>4
    <3> QED
      BY <1>0, <2>1, <3>1 DEF States
  <2>6. ASSUME NEW d \in Csid PROVE PartSound(M.hdr[d], M.part[d], d)
    <3>1. CASE d = c
      BY <1>0, <2>1, <2>4, <3>1
    <3>2. CASE d # c
      <4>1. M.hdr[d] = L.hdr[d] /\ M.part[d] = L.part[d]
        BY <1>0, <2>1, <3>2
      <4> QED
        BY <4>1 DEF Sound
    <3> QED
      BY <3>1, <3>2
  <2>7. x \in Seq(Items) /\ x # <<>>
    BY <1>2, MoreIs DEF ChunkOf
  <2> QED
    BY <2>5, <2>6, <2>7 DEF Sound
<1> QED
  BY <1>1, <1>2 DEF Sends

\* What the receiver keeps of a sender's header.
KnownAs(h, d) ==
  IF h = None THEN d = None
  ELSE /\ d # None /\ d.time = h.time /\ d.len = h.len /\ d.type = h.type /\ d.stream = h.stream
       /\ d.delta = h.delta /\ (d.ext <=> Stamp(h) >= Escape)

\* What the receiver holds of an unfinished message, and what it owes.
Held(p) == IF p = None THEN <<>> ELSE SubSeq(Payload(p.m), 1, p.at)
Owed(p) == IF p = None THEN <<>> ELSE <<Content(p.m)>>

\* A decoder that has taken all that a sender in state L had sent.
Caught(L, str, dec) ==
  /\ dec = L.size /\ DOMAIN str = Csid
  /\ \A c \in Csid : /\ str[c] = [header |-> str[c].header, received |-> Held(L.part[c])]
                     /\ KnownAs(L.hdr[c], str[c].header)
                     /\ L.queue[c] = Owed(L.part[c])

-----------------------------------------------------------------------------
(* The decoder takes a chunk as it was sent.                                 *)

\* What is at the front of the buffer, if the buffer has anything.
LEMMA FrontIs ==
  ASSUME NEW x \in Seq(Items), NEW y \in Seq(Items), buf \in Seq(Items), wire \in Seq(Items),
         buf \o wire = x \o y
  PROVE  /\ \A i \in 1 .. Len(x) : i <= Len(buf) => buf[i] = x[i]
         /\ Len(x) <= Len(buf) =>
              /\ SubSeq(buf, 1, Len(x)) = x
              /\ SubSeq(buf, Len(x) + 1, Len(buf)) \o wire = y
              /\ \A a \in 0 .. Len(x) : SubSeq(buf, a + 1, Len(x)) = SubSeq(x, a + 1, Len(x))
<1> DEFINE u == buf \o wire
<1>1. /\ u \in Seq(Items) /\ Len(u) = Len(buf) + Len(wire) /\ Len(u) = Len(x) + Len(y)
      /\ Len(buf) \in Nat /\ Len(wire) \in Nat /\ Len(x) \in Nat /\ Len(y) \in Nat
  <2>1. u \in Seq(Items) /\ Len(u) = Len(buf) + Len(wire)
    OBVIOUS
  <2>2. Len(x \o y) = Len(x) + Len(y)
    OBVIOUS
  <2> QED
    BY <2>1, <2>2
<1>2. \A i \in 1 .. Len(buf) : u[i] = buf[i]
  OBVIOUS
<1>3. \A i \in 1 .. Len(x) : u[i] = x[i]
  <2>1. \A i \in 1 .. Len(x) : (x \o y)[i] = x[i]
    OBVIOUS
  <2> QED
    BY <2>1
<1>4. \A i \in 1 .. Len(x) : i <= Len(buf) => buf[i] = x[i]
  BY <1>1, <1>2, <1>3
<1>5. ASSUME Len(x) <= Len(buf)
      PROVE  /\ SubSeq(buf, 1, Len(x)) = x
             /\ SubSeq(buf, Len(x) + 1, Len(buf)) \o wire = y
             /\ \A a \in 0 .. Len(x) : SubSeq(buf, a + 1, Len(x)) = SubSeq(x, a + 1, Len(x))
  <2>1. \A i \in 1 .. Len(x) : buf[i] = x[i]
    BY <1>1, <1>4, <1>5
  <2>2. \A a \in 0 .. Len(x) : SubSeq(buf, a + 1, Len(x)) = SubSeq(x, a + 1, Len(x))
    <3> TAKE a \in 0 .. Len(x)
    <3> DEFINE l == SubSeq(buf, a + 1, Len(x))
               r == SubSeq(x, a + 1, Len(x))
    <3>1. l \in Seq(Items) /\ r \in Seq(Items) /\ Len(l) = Len(x) - a /\ Len(r) = Len(x) - a
      BY <1>1, <1>5
    <3>2. \A i \in 1 .. Len(x) - a : l[i] = buf[a + i] /\ r[i] = x[a + i] /\ a + i \in 1 .. Len(x)
      BY <1>1, <1>5
    <3> HIDE DEF l, r
    <3>3. Len(l) = Len(r) /\ \A i \in 1 .. Len(l) : l[i] = r[i]
      BY <2>1, <3>1, <3>2
    <3>4. l = r
      BY <3>1, <3>3, SeqEqual
    <3> QED
      BY <3>4 DEF l, r
  <2>3. SubSeq(buf, 1, Len(x)) = x
    <3>1. SubSeq(buf, 0 + 1, Len(x)) = SubSeq(x, 0 + 1, Len(x))
      BY <1>1, <2>2
    <3>2. SubSeq(x, 1, Len(x)) = x
      OBVIOUS
    <3> QED
      BY <3>1, <3>2
  <2>4. SubSeq(buf, Len(x) + 1, Len(buf)) \o wire = y
    <3> DEFINE b == SubSeq(buf, Len(x) + 1, Len(buf))
    <3>1. b \in Seq(Items) /\ Len(b) = Len(buf) - Len(x)
      BY <1>1, <1>5
    <3>2. \A i \in 1 .. Len(b) : b[i] = buf[Len(x) + i]
      BY <1>1, <1>5, <3>1
    <3> HIDE DEF b
    <3>3. b \o wire \in Seq(Items) /\ Len(b \o wire) = Len(y)
      BY <1>1, <3>1
    <3>4. \A i \in 1 .. Len(y) : y[i] = u[Len(x) + i]
      OBVIOUS
    <3>5. ASSUME NEW i \in 1 .. Len(y) PROVE (b \o wire)[i] = y[i]
      <4>1. CASE i <= Len(b)
        <5>1. (b \o wire)[i] = b[i] /\ b[i] = buf[Len(x) + i] /\ Len(x) + i \in 1 .. Len(buf)
          BY <1>1, <3>1, <3>2, <4>1
        <5> QED
          BY <1>2, <3>4, <5>1
      <4>2. CASE i > Len(b)
        <5>1. (b \o wire)[i] = wire[i - Len(b)]
          BY <1>1, <3>1, <3>3, <4>2
        <5>2. u[Len(x) + i] = wire[Len(x) + i - Len(buf)]
          BY <1>1, <3>1, <4>2
        <5>3. Len(x) + i - Len(buf) = i - Len(b)
          BY <1>1, <3>1
        <5> QED
          BY <3>4, <5>1, <5>2, <5>3
      <4> QED
        BY <1>1, <3>1, <4>1, <4>2
    <3>6. b \o wire = y
      <4> DEFINE z == b \o wire
      <4>1. z \in Seq(Items) /\ Len(z) = Len(y) /\ \A i \in 1 .. Len(y) : z[i] = y[i]
        BY <3>3, <3>5
      <4> HIDE DEF z
      <4>2. Len(z) = Len(y) /\ \A i \in 1 .. Len(z) : z[i] = y[i]
        BY <4>1
      <4>3. z = y
        BY <4>1, <4>2, SeqEqual
      <4> QED
        BY <4>3 DEF z
    <3> QED
      BY <3>6 DEF b
  <2> QED
    BY <2>2, <2>3, <2>4
<1> QED
  BY <1>4, <1>5

\* finish_if_complete returns a message when it has all of it.
LEMMA FinishIs ==
  ASSUME WithinLimits, NEW c, NEW m \in Messages, NEW h, NEW n \in 0 .. m.len,
         h.len = m.len, h.type = m.type, h.time = m.time,
         Finish(c, h, SubSeq(Payload(m), 1, n))
  PROVE  /\ status' = status
         /\ n < m.len => /\ streams' = [streams EXCEPT ![c] =
                               [header |-> h, received |-> SubSeq(Payload(m), 1, n)]]
                         /\ returned' = None /\ decSize' = decSize /\ queue' = queue
         /\ n = m.len => /\ streams' = [streams EXCEPT ![c] = [header |-> h, received |-> <<>>]]
                         /\ returned' = Content(m)
                         /\ decSize' = IF m.type = Control.type THEN m.value ELSE decSize
                         /\ queue' = [queue EXCEPT ![c] = SubSeq(@, 2, Len(@))]
<1> DEFINE got == SubSeq(Payload(m), 1, n)
<1>1. m.len \in Nat /\ n \in Nat
  BY MessageFacts, LengthAssumption
<1>2. Payload(m) \in Seq(Items) /\ Len(Payload(m)) = m.len
      /\ \A i \in 1 .. m.len : Payload(m)[i].value = m.value
  BY PayloadIs
<1>3. Len(got) = n /\ (n >= 1 => got[1] = Payload(m)[1]) /\ (n = m.len => got = Payload(m))
  <2> DEFINE s == Payload(m)
  <2> HIDE DEF s
  <2>1. s \in Seq(Items) /\ Len(s) = m.len
    BY <1>2 DEF s
  <2>2. Len(SubSeq(s, 1, n)) = n /\ (n >= 1 => SubSeq(s, 1, n)[1] = s[1])
    BY <1>1, <2>1
  <2>3. SubSeq(s, 1, Len(s)) = s
    BY <2>1
  <2> QED
    BY <2>1, <2>2, <2>3 DEF s
<1> HIDE DEF got
<1>4. Complete(h, got) <=> n = m.len
  BY <1>1, <1>3 DEF Complete
<1>5. ASSUME n = m.len, m.type = Control.type
      PROVE  Len(got) = AnnounceLen /\ got[1].value % SizeWrap = m.value /\ m.value # 0
  <2>1. PICK w \in 1 .. SizeWrap - 1 : m = Announcement(w)
    BY <1>5, MessageFacts
  <2>2. m.len = AnnounceLen /\ m.value = w /\ AnnounceLen >= 1
    BY <2>1, AnnouncementFacts, LengthAssumption
  <2>3. got[1].value = m.value
    BY <1>1, <1>2, <1>3, <1>5, <2>2
  <2>4. SizeWrap \in Nat \ {0} /\ w \in 0 .. SizeWrap - 1
    BY SizeAssumption
  <2>5. w % SizeWrap = w
    BY <2>4, WrapOnce
  <2> QED
    BY <1>3, <1>5, <2>2, <2>3, <2>5
<1>6. Finish(c, h, got)
  BY DEF got
<1>7. CASE n < m.len
  <2>1. ~Complete(h, got)
    BY <1>1, <1>4, <1>7
  <2>2. streams' = [streams EXCEPT ![c] = [header |-> h, received |-> got]] /\ returned' = None
        /\ UNCHANGED <<decSize, status, queue>>
    BY <1>6, <2>1 DEF Finish
  <2> QED
    BY <1>1, <1>7, <2>2 DEF got
<1>8. CASE n = m.len
  <2>1. Complete(h, got)
    BY <1>4, <1>8
  <2>2. returned' = Content(m) <=> returned' = [type |-> h.type, time |-> h.time, payload |-> got]
    BY <1>3, <1>8 DEF Content
  <2>3. CASE m.type = Control.type
    <3>1. h.type = Control.type /\ Len(got) = AnnounceLen /\ got[1].value % SizeWrap # 0
      BY <1>5, <1>8, <2>3
    <3>2. /\ streams' = [streams EXCEPT ![c] = [header |-> h, received |-> <<>>]]
          /\ decSize' = got[1].value % SizeWrap
          /\ returned' = [type |-> h.type, time |-> h.time, payload |-> got]
          /\ queue' = [queue EXCEPT ![c] = SubSeq(@, 2, Len(@))]
          /\ status' = status
      BY <1>6, <2>1, <3>1 DEF Finish
    <3> QED
      BY <1>1, <1>5, <1>8, <2>2, <2>3, <3>2
  <2>4. CASE m.type # Control.type
    <3>1. h.type # Control.type
      BY <2>4
    <3>2. /\ streams' = [streams EXCEPT ![c] = [header |-> h, received |-> <<>>]]
          /\ decSize' = decSize
          /\ returned' = [type |-> h.type, time |-> h.time, payload |-> got]
          /\ queue' = [queue EXCEPT ![c] = SubSeq(@, 2, Len(@))]
          /\ status' = status
      BY <1>6, <2>1, <3>1 DEF Finish
    <3> QED
      BY <1>1, <1>8, <2>2, <2>4, <3>2
  <2> QED
    BY <2>3, <2>4
<1> QED
  BY <1>1, <1>7, <1>8

\* The items of a chunk depend on whether a time follows, and on nothing else of it.
LEMMA ShapeOf ==
  ASSUME NEW fmt, NEW n, NEW a, NEW b, a <=> b
  PROVE  Shape(fmt, a, n) = Shape(fmt, b, n)
BY DEF Shape

\* A decoder is caught up with the others when it is with c.
LEMMA CaughtUp ==
  ASSUME NEW L, NEW M, NEW c \in Csid, NEW str, NEW dec, Caught(L, str, dec), NEW str2,
         DOMAIN str2 = Csid, \A d \in Csid \ {c} : str2[d] = str[d],
         str2[c] = [header |-> str2[c].header, received |-> Held(M.part[c])],
         KnownAs(M.hdr[c], str2[c].header), M.queue[c] = Owed(M.part[c]),
         \A d \in Csid \ {c} : M.hdr[d] = L.hdr[d] /\ M.part[d] = L.part[d]
         /\ M.queue[d] = L.queue[d]
  PROVE  Caught(M, str2, M.size)
<1>1. DOMAIN str2 = Csid /\ DOMAIN str = Csid
  BY DEF Caught
<1>2. ASSUME NEW d \in Csid
      PROVE  /\ str2[d] = [header |-> str2[d].header, received |-> Held(M.part[d])]
             /\ KnownAs(M.hdr[d], str2[d].header) /\ M.queue[d] = Owed(M.part[d])
  <2>1. CASE d = c
    BY <2>1
  <2>2. CASE d # c
    <3>1. str2[d] = str[d]
      BY <1>1, <2>2
    <3> QED
      BY <2>2, <3>1 DEF Caught
  <2> QED
    BY <2>1, <2>2
<1> QED
  BY <1>1, <1>2 DEF Caught

\* What is known of a header is not None when the header is not.
LEMMA KnownIs ==
  ASSUME NEW h, NEW d, KnownAs(h, d), h # None
  PROVE  /\ d # None /\ d.time = h.time /\ d.len = h.len /\ d.type = h.type /\ d.stream = h.stream
         /\ d.delta = h.delta /\ (d.ext <=> Stamp(h) >= Escape)
BY DEF KnownAs

\* step reads off the header of a chunk that begins m what it was made from.
StartRead(x, fmt, m, v, d, size_) ==
  /\ AtChunk /\ buf[1] = Basic(fmt, m.csid) /\ ~Unknown /\ ~Continuation(buf[1])
  /\ Len(x) <= Len(buf)
  /\ Read(d, fmt).len = m.len /\ Read(d, fmt).type = m.type /\ Read(d, fmt).stream = m.stream
  /\ (fmt <= 2 => buf[2].value = Min2(v, Escape))
  /\ (IsExtended(d, fmt) <=> v >= Escape)
  /\ ChunkBytes = Min2(m.len, size_)
  /\ ChunkShape = Shape(fmt, v >= Escape, Min2(m.len, size_))

\* The decoder with such a chunk in front, having caught up with its sender.
LEMMA StartIsRead ==
  ASSUME WithinLimits, NEW L, NEW m, NEW fmt, NEW y \in Seq(Items), Sound(L), CanStart(L, m, fmt),
         Caught(L, streams, decSize), buf \in Seq(Items), wire \in Seq(Items),
         buf \o wire = Start(L, m, fmt) \o y, Ready
  PROVE  StartRead(Start(L, m, fmt), fmt, m, TimeField(fmt, L.hdr[m.csid], m),
                   streams[m.csid].header, L.size)
<1> DEFINE c == m.csid
           h == L.hdr[c]
           d == streams[c].header
           v == TimeField(fmt, h, m)
           x == Start(L, m, fmt)
           H == HeaderItems(fmt, v, m)
           n == Min2(L.size, m.len)
           P == SubSeq(Payload(m), 1, n)
<1>1. m \in Messages /\ fmt \in 0 .. 3 /\ L.part[c] = None /\ fmt <= ChooseFmt(h, m)
  BY DEF CanStart
<1>2. c \in Csid /\ m.len \in 0 .. MaxLen /\ m.len \in Nat
  BY <1>1, MessageFacts, LengthAssumption
<1>3. h \in Header \cup {None} /\ L.size \in Nat \ {0}
  BY <1>2 DEF Sound, States
<1>4. v \in 0 .. Wrap - 1 /\ v \in Nat /\ (fmt # 0 => h \in Header)
  <2>1. v \in 0 .. Wrap - 1 /\ (fmt # 0 => h \in Header)
    BY <1>1, <1>3, SentIs
  <2> QED
    BY <2>1, TimeAssumption
<1>5. ChunkOf(x, fmt, c, H, v, P)
  BY StartIs
<1>6. Len(P) = n
  <2>1. Payload(m) \in Seq(Items) /\ Len(Payload(m)) = m.len
    BY <1>1, PayloadIs
  <2>2. n \in 0 .. m.len
    BY <1>2, <1>3 DEF Min2
  <2> DEFINE s == Payload(m)
  <2> HIDE DEF s, n
  <2>3. Len(SubSeq(s, 1, n)) = n
    BY <1>2, <2>1, <2>2 DEF s
  <2> QED
    BY <2>3 DEF s
<1>7. KnownAs(h, d) /\ streams[c].received = <<>> /\ decSize = L.size
  <2>1. streams[c] = [header |-> d, received |-> Held(L.part[c])] /\ KnownAs(h, d)
        /\ decSize = L.size
    BY <1>2 DEF Caught
  <2> QED
    BY <1>1, <2>1 DEF Held
<1>8. H \in Seq(Items) /\ Len(H) = HeaderLen(fmt)
      /\ (fmt <= 2 => H[1] = Field("time", Min2(v, Escape)))
      /\ (fmt <= 1 => H[2] = Field("len", m.len) /\ H[3] = TypeField(m.type))
      /\ (fmt = 0 => H[4] = Field("stream", m.stream))
  BY <1>1, <1>4, HeaderIs
<1> HIDE DEF c, h, d, v, x, H, n, P
<1>9. x \in Seq(Items) /\ Len(x) \in Nat /\ Len(buf) \in Nat
      /\ Len(x) >= 1 + HeaderLen(fmt) /\ HeaderLen(fmt) \in 0 .. 4
      /\ x[1] = Basic(fmt, c) /\ \A i \in 1 .. HeaderLen(fmt) : x[1 + i] = H[i]
  <2>1. Len(P) \in Nat /\ HeaderLen(fmt) \in 0 .. 4
    BY <1>1, <1>2, <1>3, <1>6, HeaderLenIs DEF n, Min2
  <2>2. x \in Seq(Items) /\ Len(x) = 1 + HeaderLen(fmt) + (IF v >= Escape THEN 1 ELSE 0) + Len(P)
    BY <1>5 DEF ChunkOf
  <2>3. x[1] = Basic(fmt, c) /\ \A i \in 1 .. HeaderLen(fmt) : x[1 + i] = H[i]
    BY <1>5 DEF ChunkOf
  <2>4. Len(x) >= 1 + HeaderLen(fmt) /\ Len(x) \in Nat /\ Len(buf) \in Nat
    BY <2>1, <2>2
  <2> QED
    BY <2>1, <2>2, <2>3, <2>4
<1>10. \A i \in 1 .. Len(x) : i <= Len(buf) => buf[i] = x[i]
  BY <1>9, FrontIs DEF x
<1>11. ~NeedMoreBytes /\ buf # <<>> /\ AtChunk /\ buf[1] = Basic(fmt, c)
  <2>1. ~NeedMoreBytes
    BY DEF Ready
  <2>2. buf # <<>>
    BY <2>1 DEF NeedMoreBytes, AtChunk
  <2>3. 1 \in 1 .. Len(x) /\ 1 <= Len(buf)
    BY <1>9, <2>2
  <2>4. buf[1] = Basic(fmt, c)
    BY <1>9, <1>10, <2>3
  <2> QED
    BY <2>1, <2>2, <2>4 DEF AtChunk, Basic
<1>12. buf[1].fmt = fmt /\ buf[1].csid = c /\ buf[1].is = "basic"
  BY <1>11 DEF Basic
<1>13. Len(buf) > HeaderLen(fmt)
  BY <1>9, <1>11, <1>12 DEF NeedMoreBytes
<1>14. \A i \in 1 .. HeaderLen(fmt) : buf[1 + i] = H[i]
  <2> TAKE i \in 1 .. HeaderLen(fmt)
  <2>1. 1 + i \in 1 .. Len(x) /\ 1 + i <= Len(buf)
    BY <1>9, <1>13
  <2> QED
    BY <1>9, <1>10, <2>1
<1>15. ~Unknown /\ ~Continuation(buf[1])
  <2>1. fmt # 0 => d # None
    BY <1>4, <1>7, NoneIsNone DEF KnownAs
  <2> QED
    BY <1>7, <1>12, <2>1 DEF Unknown, Continuation, d
<1>16. /\ fmt <= 2 => buf[2] = H[1]
       /\ fmt <= 1 => buf[3] = H[2] /\ buf[4] = H[3]
       /\ fmt = 0 => buf[5] = H[4]
  <2>1. /\ fmt <= 2 => 1 \in 1 .. HeaderLen(fmt)
        /\ fmt <= 1 => 2 \in 1 .. HeaderLen(fmt) /\ 3 \in 1 .. HeaderLen(fmt)
        /\ fmt = 0 => 4 \in 1 .. HeaderLen(fmt)
    BY <1>1, HeaderLenIs
  <2> QED
    BY <1>14, <2>1
<1>17. /\ fmt <= 2 => buf[2].value = Min2(v, Escape)
       /\ fmt <= 1 => buf[3].value = m.len /\ buf[4].type = m.type
       /\ fmt = 0 => buf[5].value = m.stream
  BY <1>1, <1>8, <1>16 DEF Field, TypeField
<1>18. /\ fmt >= 1 => d.stream = m.stream
       /\ fmt >= 2 => d.type = m.type /\ d.len = m.len
       /\ fmt = 3 => (d.ext <=> v >= Escape)
  <2>1. fmt >= 1 => d.stream = h.stream /\ d.type = h.type /\ d.len = h.len
        /\ (d.ext <=> Stamp(h) >= Escape)
    BY <1>4, <1>7, NoneIsNone, KnownIs
  <2>2. /\ fmt >= 1 => h.stream = m.stream
        /\ fmt >= 2 => h.type = m.type /\ h.len = Min2(m.len, MaxLen)
        /\ fmt = 3 => h.delta = Delta(h, m)
    BY <1>1, FormIs
  <2>3. Min2(m.len, MaxLen) = m.len
    BY <1>2, LengthAssumption DEF Min2
  <2>4. fmt = 3 => Stamp(h) = v
    <3>1. fmt = 3 => v = Delta(h, m)
      BY DEF v, TimeField
    <3>2. v # NoDelta
      BY <1>4 DEF NoDelta
    <3> QED
      BY <2>2, <3>1, <3>2 DEF Stamp
  <2> QED
    BY <1>1, <2>1, <2>2, <2>3, <2>4
<1>19. Read(d, fmt).len = m.len /\ Read(d, fmt).type = m.type /\ Read(d, fmt).stream = m.stream
  <2>1. CASE fmt = 0
    BY <1>17, <2>1 DEF Read
  <2>2. CASE fmt = 1
    BY <1>17, <1>18, <2>2 DEF Read
  <2>3. CASE fmt >= 2
    BY <1>1, <1>18, <2>3 DEF Read
  <2> QED
    BY <1>1, <2>1, <2>2, <2>3
<1>20. IsExtended(d, fmt) <=> v >= Escape
  <2>1. CASE fmt = 3
    BY <1>18, <2>1 DEF IsExtended
  <2>2. CASE fmt <= 2
    <3>1. buf[2].value = Min2(v, Escape)
      BY <1>17, <2>2
    <3>2. Min2(v, Escape) = Escape <=> v >= Escape
      BY <1>4, TimeAssumption DEF Min2
    <3> QED
      BY <1>1, <2>2, <3>1, <3>2 DEF IsExtended
  <2> QED
    BY <1>1, <2>1, <2>2
<1>21. ChunkBytes = Min2(m.len, L.size)
  <2>1. ChunkBytes = Min2(Read(d, fmt).len, decSize)
    BY <1>12, <1>15 DEF ChunkBytes, d
  <2> QED
    BY <1>7, <1>19, <2>1
<1>22. ChunkShape = Shape(fmt, v >= Escape, Min2(m.len, L.size))
  <2>1. ChunkShape = Shape(fmt, IsExtended(d, fmt), ChunkBytes)
    BY <1>12, <1>15 DEF ChunkShape, d
  <2>2. Shape(fmt, IsExtended(d, fmt), ChunkBytes) = Shape(fmt, v >= Escape, ChunkBytes)
    BY <1>20, ShapeOf
  <2> QED
    BY <1>21, <2>1, <2>2
<1>23. Min2(m.len, L.size) = n
  BY <1>2, <1>3 DEF Min2, n
<1>24. Len(x) <= Len(buf)
  <2>1. Len(ChunkShape) = Len(x)
    BY <1>5, <1>6, <1>22, <1>23 DEF ChunkOf
  <2> QED
    BY <1>9, <1>11, <1>12, <1>15, <2>1 DEF NeedMoreBytes
<1> QED
  BY <1>11, <1>15, <1>17, <1>19, <1>20, <1>21, <1>22, <1>24 DEF StartRead, x, v, d, h, c

\* ... and keeps a header that agrees with the sender's.
LEMMA StartIsResolved ==
  ASSUME WithinLimits, NEW L, NEW m, NEW fmt, NEW y \in Seq(Items), Sound(L), CanStart(L, m, fmt),
         Caught(L, streams, decSize), buf \in Seq(Items), wire \in Seq(Items),
         buf \o wire = Start(L, m, fmt) \o y, Ready
  PROVE  KnownAs(SentHeader(fmt, L.hdr[m.csid], m), Resolved(streams[m.csid].header, fmt))
<1> DEFINE c == m.csid
           h == L.hdr[c]
           d == streams[c].header
           v == TimeField(fmt, h, m)
           x == Start(L, m, fmt)
           H == HeaderItems(fmt, v, m)
           P == SubSeq(Payload(m), 1, Min2(L.size, m.len))
           s == SentHeader(fmt, h, m)
           f == IF IsExtended(d, fmt) THEN buf[2 + HeaderLen(fmt)].value ELSE Read(d, fmt).time
           delta == IF fmt = 3 THEN (IF d.delta = NoDelta THEN 0 ELSE d.delta) ELSE f
           r == Resolved(d, fmt)
<1>1. m \in Messages /\ fmt \in 0 .. 3 /\ fmt <= ChooseFmt(h, m) /\ c \in Csid
  BY MessageFacts DEF CanStart
<1>2. h \in Header \cup {None}
  BY <1>1 DEF Sound, States
<1>3. /\ s # None /\ v \in 0 .. Wrap - 1 /\ Stamp(s) = v
      /\ s.time = m.time /\ s.len = m.len /\ s.type = m.type /\ s.stream = m.stream
      /\ s.delta = IF fmt = 0 THEN NoDelta ELSE v
      /\ fmt # 0 => h \in Header /\ (h.time + v) % Wrap = m.time
  BY <1>1, <1>2, SentIs
<1>4. KnownAs(h, d)
  BY <1>1 DEF Caught
<1>5. fmt # 0 => h # None /\ d.time = h.time /\ d.delta = h.delta
  BY <1>3, <1>4, NoneIsNone, KnownIs
<1>6. StartRead(x, fmt, m, v, d, L.size)
  BY StartIsRead
<1>7. ChunkOf(x, fmt, c, H, v, P)
  BY StartIs
<1>8. r = [time |-> IF fmt = 0 THEN f ELSE (d.time + delta) % Wrap,
           len |-> Read(d, fmt).len, type |-> Read(d, fmt).type, stream |-> Read(d, fmt).stream,
           delta |-> IF fmt = 0 THEN NoDelta ELSE delta, ext |-> IsExtended(d, fmt)]
  BY DEF Resolved
<1> HIDE DEF c, h, d, v, x, H, P, s, f, delta, r
<1>9. v \in Nat /\ Escape \in Nat
  BY <1>3, TimeAssumption
<1>10. fmt <= 2 => f = v
  <2>1. CASE v >= Escape
    <3>1. x[2 + HeaderLen(fmt)] = Field("ext", v) /\ Len(x) >= 2 + HeaderLen(fmt)
          /\ x \in Seq(Items) /\ HeaderLen(fmt) \in Nat /\ Len(buf) \in Nat
      <4>1. Len(P) \in Nat /\ HeaderLen(fmt) \in Nat
        <5>1. P \in Seq(Items)
          <6>1. Payload(m) \in Seq(Items) /\ Len(Payload(m)) = m.len /\ m.len \in Nat
            BY <1>1, PayloadIs, MessageFacts, LengthAssumption
          <6>2. Min2(L.size, m.len) \in 0 .. m.len
            BY <6>1 DEF Min2, Sound, States
          <6> QED
            BY <6>1, <6>2 DEF P
        <5> QED
          BY <1>1, <5>1, HeaderLenIs
      <4>2. Len(x) = 1 + HeaderLen(fmt) + (IF v >= Escape THEN 1 ELSE 0) + Len(P)
            /\ x \in Seq(Items)
        BY <1>7 DEF ChunkOf
      <4>3. Len(x) >= 2 + HeaderLen(fmt)
        BY <2>1, <4>1, <4>2
      <4>4. x[2 + HeaderLen(fmt)] = Field("ext", v)
        BY <1>7, <2>1 DEF ChunkOf
      <4> QED
        BY <4>1, <4>2, <4>3, <4>4
    <3>2. Len(x) <= Len(buf)
      BY <1>6 DEF StartRead
    <3>3. \A i \in 1 .. Len(x) : i <= Len(buf) => buf[i] = x[i]
      BY <3>1, FrontIs DEF x
    <3>4. buf[2 + HeaderLen(fmt)] = Field("ext", v)
      <4>1. 2 + HeaderLen(fmt) \in 1 .. Len(x) /\ 2 + HeaderLen(fmt) <= Len(buf)
        BY <3>1, <3>2
      <4> QED
        BY <3>1, <3>3, <4>1
    <3>5. IsExtended(d, fmt)
      BY <1>6, <2>1 DEF StartRead
    <3> QED
      BY <3>4, <3>5 DEF f, Field
  <2>2. CASE ~(v >= Escape)
    <3>1. fmt <= 2 => buf[2].value = Min2(v, Escape)
      BY <1>6 DEF StartRead
    <3>2. ~IsExtended(d, fmt)
      BY <1>6, <2>2 DEF StartRead
    <3>3. Min2(v, Escape) = v
      BY <1>9, <2>2 DEF Min2
    <3>4. f = Read(d, fmt).time
      BY <3>2 DEF f
    <3>5. fmt <= 2 => Read(d, fmt).time = buf[2].value
      BY <1>1 DEF Read
    <3> QED
      BY <3>1, <3>3, <3>4, <3>5
  <2> QED
    BY <2>1, <2>2
<1>11. fmt # 0 => delta = v
  <2>1. CASE fmt = 3
    <3>1. h.delta = Delta(h, m)
      BY <1>1, <2>1, FormIs
    <3>2. v = Delta(h, m) /\ v # NoDelta
      BY <1>3, <2>1 DEF v, TimeField, NoDelta
    <3>3. d.delta = v
      BY <1>5, <2>1, <3>1, <3>2
    <3> QED
      BY <2>1, <3>2, <3>3 DEF delta
  <2>2. CASE fmt # 3
    <3>1. delta = f
      BY <2>2 DEF delta
    <3> QED
      BY <1>1, <1>10, <2>2, <3>1
  <2> QED
    BY <2>1, <2>2
<1>12. r.time = m.time
  <2>1. CASE fmt = 0
    <3>1. v = m.time
      BY <2>1 DEF v, TimeField
    <3> QED
      BY <1>8, <1>10, <2>1, <3>1
  <2>2. CASE fmt # 0
    <3>1. r.time = (d.time + delta) % Wrap
      BY <1>8, <2>2
    <3> QED
      BY <1>3, <1>5, <1>11, <2>2, <3>1
  <2> QED
    BY <2>1, <2>2
<1>13. r.len = m.len /\ r.type = m.type /\ r.stream = m.stream /\ (r.ext <=> v >= Escape)
  <2>1. r.len = Read(d, fmt).len /\ r.type = Read(d, fmt).type /\ r.stream = Read(d, fmt).stream
    BY <1>8
  <2>2. r.ext = IsExtended(d, fmt)
    BY <1>8
  <2>3. IsExtended(d, fmt) <=> v >= Escape
    BY <1>6 DEF StartRead
  <2>4. Read(d, fmt).len = m.len /\ Read(d, fmt).type = m.type /\ Read(d, fmt).stream = m.stream
    BY <1>6 DEF StartRead
  <2> QED
    BY <2>1, <2>2, <2>3, <2>4
<1>14. r.delta = s.delta
  <2>1. r.delta = IF fmt = 0 THEN NoDelta ELSE delta
    BY <1>8
  <2> QED
    BY <1>3, <1>11, <2>1
<1>15. r # None
  <2>1. "none" \in DOMAIN None /\ "none" \notin DOMAIN r
    BY <1>8 DEF None
  <2> QED
    BY <2>1
<1>16. KnownAs(s, r)
  BY <1>3, <1>12, <1>13, <1>14, <1>15 DEF KnownAs
<1> QED
  BY <1>16 DEF s, r, h, d, c

\* What a turn of the decoder's loop does with a chunk on c that leaves its
\* sender in state M.
Takes(M, c, y) ==
  /\ status' = status /\ wire' = wire /\ UNCHANGED senderVars
  /\ buf' \in Seq(Items) /\ buf' \o wire = y
  /\ M.part[c] # None => Caught(M, streams', decSize') /\ returned' = None /\ queue' = queue
  /\ M.part[c] = None =>
       /\ M.queue[c] # <<>> /\ Caught(Popped(M, c), streams', decSize')
       /\ returned' = Head(M.queue[c]) /\ queue' = [queue EXCEPT ![c] = SubSeq(@, 2, Len(@))]

\* Taking a chunk that is what the decoder takes it for.
LEMMA TakeIs ==
  ASSUME NEW x \in Seq(Items), NEW y \in Seq(Items), buf \in Seq(Items), wire \in Seq(Items),
         buf \o wire = x \o y, Len(x) <= Len(buf), NEW fmt \in 0 .. 3, NEW c, NEW H, NEW v, NEW P,
         ChunkOf(x, fmt, c, H, v, P), P \in Seq(Items),
         ChunkShape = Shape(fmt, v >= Escape, Len(P)), ChunkBytes = Len(P),
         NEW h, NEW before, TakeChunk(h, before)
  PROVE  /\ Finish(c, h, before \o P) /\ wire' = wire /\ UNCHANGED senderVars
         /\ buf' \in Seq(Items) /\ buf' \o wire = y
<1> DEFINE n == Len(ChunkShape)
           k == Len(x)
           b == Len(P)
<1>1. n = k /\ \A i \in 1 .. k : x[i].is = ChunkShape[i]
  BY DEF ChunkOf
<1>2. /\ \A i \in 1 .. k : i <= Len(buf) => buf[i] = x[i]
      /\ SubSeq(buf, k + 1, Len(buf)) \o wire = y
      /\ \A a \in 0 .. k : SubSeq(buf, a + 1, k) = SubSeq(x, a + 1, k)
  BY FrontIs
<1>3. k \in Nat /\ Len(buf) \in Nat /\ b \in Nat /\ k >= 1
  BY DEF ChunkOf
<1>4. b <= k
  <2>1. HeaderLen(fmt) \in 0 .. 4
    BY HeaderLenIs
  <2>2. k = 1 + HeaderLen(fmt) + (IF v >= Escape THEN 1 ELSE 0) + b
    BY DEF ChunkOf
  <2> QED
    BY <1>3, <2>1, <2>2
<1>5. /\ buf' = SubSeq(buf, n + 1, Len(buf))
      /\ (\A i \in 1 .. n : buf[i].is = ChunkShape[i])
            => Finish(buf[1].csid, h, before \o SubSeq(buf, n - ChunkBytes + 1, n))
      /\ wire' = wire /\ UNCHANGED senderVars
  BY DEF TakeChunk
<1>6. SubSeq(x, k - b + 1, k) = P /\ x[1] = Basic(fmt, c)
  BY DEF ChunkOf
<1>7. ChunkBytes = b
  OBVIOUS
<1> HIDE DEF n, k, b
<1>8. \A i \in 1 .. n : buf[i].is = ChunkShape[i]
  <2> TAKE i \in 1 .. n
  <2>1. i \in 1 .. k /\ i <= Len(buf)
    BY <1>1, <1>3 DEF k
  <2> QED
    BY <1>1, <1>2, <2>1
<1>9. SubSeq(buf, n - ChunkBytes + 1, n) = P
  <2>1. k - b \in 0 .. k /\ (k - b) + 1 = k - b + 1
    BY <1>3, <1>4
  <2> QED
    BY <1>1, <1>2, <1>6, <1>7, <2>1
<1>10. buf[1].csid = c
  <2>1. 1 \in 1 .. k /\ 1 <= Len(buf)
    BY <1>3 DEF k
  <2>2. buf[1] = Basic(fmt, c)
    BY <1>2, <1>6, <2>1
  <2> QED
    BY <2>2 DEF Basic
<1>11. buf' \in Seq(Items)
  BY <1>1, <1>3, <1>5
<1> QED
  BY <1>1, <1>2, <1>5, <1>8, <1>9, <1>10, <1>11

\* The decoder takes the chunk that begins a message as its sender meant it.
LEMMA DecodeStart ==
  ASSUME WithinLimits, NEW L, NEW m, NEW fmt, NEW y \in Seq(Items), Sound(L), CanStart(L, m, fmt),
         Caught(L, streams, decSize), buf \in Seq(Items), wire \in Seq(Items),
         buf \o wire = Start(L, m, fmt) \o y, Ready, Decode
  PROVE  Takes(Started(L, m, fmt), m.csid, y)
<1> DEFINE c == m.csid
           h == L.hdr[c]
           d == streams[c].header
           v == TimeField(fmt, h, m)
           x == Start(L, m, fmt)
           H == HeaderItems(fmt, v, m)
           n == Min2(L.size, m.len)
           P == SubSeq(Payload(m), 1, n)
           s == SentHeader(fmt, h, m)
           r == Resolved(d, fmt)
           M == Started(L, m, fmt)
           N == Popped(M, c)
<1>1. m \in Messages /\ fmt \in 0 .. 3 /\ fmt <= ChooseFmt(h, m) /\ L.part[c] = None
      /\ (m.type = Control.type => AnnounceLen <= L.size)
  BY DEF CanStart
<1>2. c \in Csid /\ m.len \in 0 .. MaxLen /\ m.len \in Nat
  BY <1>1, MessageFacts, LengthAssumption
<1>3. h \in Header \cup {None} /\ L.size \in Nat \ {0} /\ L \in States
  BY <1>2 DEF Sound, States
<1>4. s # None /\ s.time = m.time /\ s.len = m.len /\ s.type = m.type
  <2>1. /\ s \in Header /\ s # None /\ v \in 0 .. Wrap - 1 /\ Stamp(s) = v
        /\ s.time = m.time /\ s.len = m.len /\ s.type = m.type /\ s.stream = m.stream
    BY <1>1, <1>3, SentIs
  <2> QED
    BY <2>1
<1>5. StartRead(x, fmt, m, v, d, L.size)
  BY StartIsRead
<1>6. ChunkOf(x, fmt, c, H, v, P)
  BY StartIs
<1>7. KnownAs(s, r)
  BY StartIsResolved
<1>8. r.time = m.time /\ r.len = m.len /\ r.type = m.type
  <2> HIDE DEF s, r
  <2> QED
    BY <1>4, <1>7, KnownIs
<1>9. n \in 0 .. m.len /\ n = Min2(m.len, L.size) /\ (m.len <= L.size <=> n = m.len)
      /\ (~(m.len <= L.size) => n = L.size)
  BY <1>2, <1>3 DEF Min2
<1>10. P \in Seq(Items) /\ Len(P) = n
  <2> DEFINE w == Payload(m)
  <2>1. w \in Seq(Items) /\ Len(w) = m.len
    BY <1>1, PayloadIs
  <2> HIDE DEF w, n
  <2>2. SubSeq(w, 1, n) \in Seq(Items) /\ Len(SubSeq(w, 1, n)) = n
    BY <1>2, <1>9, <2>1
  <2> QED
    BY <2>2 DEF w
<1>11. streams[c] = [header |-> d, received |-> <<>>] /\ decSize = L.size /\ L.queue[c] = <<>>
  <2>1. streams[c] = [header |-> d, received |-> Held(L.part[c])] /\ decSize = L.size
        /\ L.queue[c] = Owed(L.part[c])
    BY <1>2 DEF Caught
  <2> QED
    BY <1>1, <2>1 DEF Held, Owed
<1>12. x \in Seq(Items)
  BY <1>6 DEF ChunkOf
<1>13. /\ M.hdr = [L.hdr EXCEPT ![c] = s]
       /\ M.part = [L.part EXCEPT ![c] = IF m.len <= L.size THEN None
                                         ELSE [m |-> m, v |-> v, at |-> L.size]]
       /\ M.size = (IF m.type = Control.type THEN m.value ELSE L.size)
       /\ M.queue = [L.queue EXCEPT ![c] = Append(L.queue[c], Content(m))]
       /\ M = [hdr |-> M.hdr, part |-> M.part, size |-> M.size, queue |-> M.queue]
  BY DEF Started
<1>14. /\ N.hdr = M.hdr /\ N.part = M.part /\ N.size = M.size
       /\ N.queue = [M.queue EXCEPT ![c] = Tail(M.queue[c])]
  <2> HIDE DEF M
  <2> QED
    BY <1>13 DEF Popped
<1> HIDE DEF c, h, d, v, x, H, n, P, s, r, M, N
<1>15. TakeChunk(r, <<>>)
  <2>1. ~Continuation(buf[1]) /\ AtChunk /\ ~Unknown /\ buf[1].csid = c /\ buf[1].fmt = fmt
    BY <1>5 DEF StartRead, Basic, c
  <2>2. TakeChunk(Resolved(streams[buf[1].csid].header, buf[1].fmt), <<>>)
    BY <2>1 DEF Decode, DecodeContinuation, DecodeNewMessage
  <2> QED
    BY <2>1, <2>2 DEF r, d
<1>16. /\ Finish(c, r, <<>> \o P) /\ wire' = wire /\ UNCHANGED senderVars
       /\ buf' \in Seq(Items) /\ buf' \o wire = y
  <2>1. Len(x) <= Len(buf) /\ ChunkBytes = Len(P) /\ ChunkShape = Shape(fmt, v >= Escape, Len(P))
    BY <1>5, <1>9, <1>10 DEF StartRead
  <2>2. buf \o wire = x \o y
    BY DEF x
  <2> QED
    BY <1>1, <1>6, <1>10, <1>12, <1>15, <2>1, <2>2, TakeIs
<1>17. Finish(c, r, SubSeq(Payload(m), 1, n))
  <2>1. <<>> \o P = P
    BY <1>10
  <2> QED
    BY <1>16, <2>1 DEF P
<1>18. /\ status' = status
       /\ n < m.len => /\ streams' = [streams EXCEPT ![c] = [header |-> r, received |-> P]]
                       /\ returned' = None /\ decSize' = decSize /\ queue' = queue
       /\ n = m.len => /\ streams' = [streams EXCEPT ![c] = [header |-> r, received |-> <<>>]]
                       /\ returned' = Content(m)
                       /\ decSize' = (IF m.type = Control.type THEN m.value ELSE decSize)
                       /\ queue' = [queue EXCEPT ![c] = SubSeq(@, 2, Len(@))]
  <2>1. WithinLimits /\ m \in Messages /\ n \in 0 .. m.len
        /\ r.len = m.len /\ r.type = m.type /\ r.time = m.time
        /\ Finish(c, r, SubSeq(Payload(m), 1, n))
    BY <1>1, <1>8, <1>9, <1>17
  <2>2. /\ status' = status
        /\ n < m.len => /\ streams' = [streams EXCEPT ![c] =
                              [header |-> r, received |-> SubSeq(Payload(m), 1, n)]]
                        /\ returned' = None /\ decSize' = decSize /\ queue' = queue
        /\ n = m.len => /\ streams' = [streams EXCEPT ![c] = [header |-> r, received |-> <<>>]]
                        /\ returned' = Content(m)
                        /\ decSize' = (IF m.type = Control.type THEN m.value ELSE decSize)
                        /\ queue' = [queue EXCEPT ![c] = SubSeq(@, 2, Len(@))]
    BY ONLY <2>1, FinishIs
  <2> QED
    BY <2>2 DEF P
<1>19. /\ M.hdr[c] = s /\ M.queue[c] = <<Content(m)>>
       /\ M.part[c] = (IF m.len <= L.size THEN None ELSE [m |-> m, v |-> v, at |-> L.size])
       /\ \A e \in Csid \ {c} : M.hdr[e] = L.hdr[e] /\ M.part[e] = L.part[e]
          /\ M.queue[e] = L.queue[e]
  <2>1. DOMAIN L.hdr = Csid /\ DOMAIN L.part = Csid /\ DOMAIN L.queue = Csid
    BY <1>3 DEF States
  <2>2. Append(<<>>, Content(m)) = <<Content(m)>>
    OBVIOUS
  <2> QED
    BY <1>2, <1>11, <1>13, <2>1, <2>2
<1>20. CASE n < m.len
  <2>1. ~(m.len <= L.size) /\ n = L.size
    BY <1>2, <1>9, <1>20
  <2>2. M.part[c] = [m |-> m, v |-> v, at |-> L.size]
    BY <1>19, <2>1
  <2>3. M.part[c] # None
    <3>1. "none" \in DOMAIN None /\ "none" \notin DOMAIN M.part[c]
      BY <2>2 DEF None
    <3> QED
      BY <3>1
  <2>4. P = Held(M.part[c]) /\ M.queue[c] = Owed(M.part[c])
    <3>1. M.part[c].m = m /\ M.part[c].at = n
      BY <2>1, <2>2
    <3>2. Held(M.part[c]) = SubSeq(Payload(M.part[c].m), 1, M.part[c].at)
      BY <2>3 DEF Held
    <3>3. Owed(M.part[c]) = <<Content(M.part[c].m)>>
      BY <2>3 DEF Owed
    <3> QED
      BY <1>19, <3>1, <3>2, <3>3 DEF P
  <2>5. decSize' = M.size
    <3>1. m.type # Control.type
      <4>1. m.type = Control.type => m.len = AnnounceLen
        BY <1>1, MessageFacts, AnnouncementFacts
      <4> QED
        BY <1>1, <1>2, <1>3, <2>1, <4>1, LengthAssumption
    <3> QED
      BY <1>11, <1>13, <1>18, <1>20, <3>1
  <2>6. Caught(M, streams', decSize')
    <3>1. streams' = [streams EXCEPT ![c] = [header |-> r, received |-> Held(M.part[c])]]
      BY <1>18, <1>20, <2>4
    <3>2. KnownAs(M.hdr[c], r)
      BY <1>7, <1>19
    <3>3. /\ c \in Csid /\ Caught(L, streams, decSize)
          /\ M.queue[c] = Owed(M.part[c])
          /\ \A e \in Csid \ {c} : M.hdr[e] = L.hdr[e] /\ M.part[e] = L.part[e]
             /\ M.queue[e] = L.queue[e]
      BY <1>2, <1>19, <2>4, <2>5
    <3>4. DOMAIN streams = Csid
      BY DEF Caught
    <3>5. /\ DOMAIN streams' = Csid /\ \A e \in Csid \ {c} : streams'[e] = streams[e]
          /\ streams'[c].header = r
          /\ streams'[c] = [header |-> streams'[c].header, received |-> Held(M.part[c])]
      BY <1>2, <3>1, <3>4
    <3>6. KnownAs(M.hdr[c], streams'[c].header)
      BY <3>2, <3>5
    <3>7. Caught(M, streams', M.size)
      BY ONLY <3>3, <3>5, <3>6, CaughtUp
    <3> QED
      BY <2>5, <3>7
  <2> QED
    BY <1>16, <1>18, <1>20, <2>3, <2>6 DEF Takes, M, c
<1>21. CASE n = m.len
  <2>1. M.part[c] = None
    BY <1>9, <1>19, <1>21
  <2>2. N.hdr[c] = s /\ N.part[c] = None /\ N.queue[c] = <<>>
        /\ \A e \in Csid \ {c} : N.hdr[e] = L.hdr[e] /\ N.part[e] = L.part[e]
           /\ N.queue[e] = L.queue[e]
    <3>1. DOMAIN M.queue = Csid
      BY <1>3, <1>13 DEF States
    <3>2. Tail(<<Content(m)>>) = <<>>
      OBVIOUS
    <3> QED
      BY <1>2, <1>14, <1>19, <2>1, <3>1, <3>2
  <2>3. decSize' = N.size
    BY <1>11, <1>13, <1>14, <1>18, <1>21
  <2>4. Caught(N, streams', decSize')
    <3>1. streams' = [streams EXCEPT ![c] = [header |-> r, received |-> <<>>]]
      BY <1>18, <1>21
    <3>2. KnownAs(N.hdr[c], r)
      BY <1>7, <2>2
    <3>3. <<>> = Held(N.part[c]) /\ N.queue[c] = Owed(N.part[c])
      BY <2>2 DEF Held, Owed
    <3>4. streams' = [streams EXCEPT ![c] = [header |-> r, received |-> Held(N.part[c])]]
      BY <3>1, <3>3
    <3>5. /\ c \in Csid /\ Caught(L, streams, decSize)
          /\ \A e \in Csid \ {c} : N.hdr[e] = L.hdr[e] /\ N.part[e] = L.part[e]
             /\ N.queue[e] = L.queue[e]
      BY <1>2, <2>2, <2>3
    <3>6. DOMAIN streams = Csid
      BY DEF Caught
    <3>7. /\ DOMAIN streams' = Csid /\ \A e \in Csid \ {c} : streams'[e] = streams[e]
          /\ streams'[c].header = r
          /\ streams'[c] = [header |-> streams'[c].header, received |-> Held(N.part[c])]
      BY <1>2, <3>4, <3>6
    <3>8. KnownAs(N.hdr[c], streams'[c].header)
      BY <3>2, <3>7
    <3>9. Caught(N, streams', N.size)
      BY ONLY <3>3, <3>5, <3>7, <3>8, CaughtUp
    <3> QED
      BY <2>3, <3>9
  <2>5. M.queue[c] # <<>> /\ Head(M.queue[c]) = Content(m)
    BY <1>19
  <2> QED
    BY <1>16, <1>18, <1>21, <2>1, <2>4, <2>5 DEF Takes, M, N, c
<1> QED
  BY <1>2, <1>9, <1>20, <1>21

\* The first bytes of a message, and those after them.
LEMMA Carried ==
  ASSUME WithinLimits, NEW m \in Messages, NEW a \in 0 .. m.len, NEW b \in a .. m.len
  PROVE  SubSeq(Payload(m), 1, a) \o SubSeq(Payload(m), a + 1, b) = SubSeq(Payload(m), 1, b)
<1> DEFINE s == Payload(m)
<1>1. m.len \in Nat /\ s \in Seq(Items) /\ Len(s) = m.len
  BY PayloadIs, MessageFacts, LengthAssumption
<1> HIDE DEF s
<1> DEFINE l == SubSeq(s, 1, a)
           r == SubSeq(s, a + 1, b)
           t == SubSeq(s, 1, b)
<1>2. l \in Seq(Items) /\ r \in Seq(Items) /\ t \in Seq(Items) /\ Len(l) = a /\ Len(r) = b - a
      /\ Len(t) = b
  BY <1>1
<1>3. (\A i \in 1 .. a : l[i] = s[i]) /\ (\A i \in 1 .. b - a : r[i] = s[a + i])
      /\ \A i \in 1 .. b : t[i] = s[i]
  BY <1>1
<1> HIDE DEF l, r, t
<1>4. l \o r \in Seq(Items) /\ Len(l \o r) = Len(t)
  BY <1>1, <1>2
<1>5. ASSUME NEW i \in 1 .. Len(l \o r) PROVE (l \o r)[i] = t[i]
  <2>0. Len(l \o r) = b /\ i \in 1 .. b /\ t[i] = s[i]
    BY <1>1, <1>2, <1>3, <1>4
  <2>1. CASE i <= a
    BY <1>1, <1>2, <1>3, <2>0, <2>1
  <2>2. CASE i > a
    <3>1. (l \o r)[i] = r[i - a] /\ i - a \in 1 .. b - a
      BY <1>1, <1>2, <2>0, <2>2
    <3>2. r[i - a] = s[a + (i - a)]
      BY <1>3, <3>1
    <3>3. a + (i - a) = i
      BY <1>1, <2>0
    <3> QED
      BY <2>0, <3>1, <3>2, <3>3
  <2> QED
    BY <1>1, <2>0, <2>1, <2>2
<1>6. l \o r = t
  BY <1>2, <1>4, <1>5, SeqEqual
<1> QED
  BY <1>6 DEF l, r, t, s

\* The decoder takes a chunk that carries a message on as its sender meant it.
LEMMA DecodeMore ==
  ASSUME WithinLimits, NEW L, NEW c \in Csid, NEW y \in Seq(Items), Sound(L), L.part[c] # None,
         Caught(L, streams, decSize), buf \in Seq(Items), wire \in Seq(Items),
         buf \o wire = More(L, c) \o y, Ready, Decode
  PROVE  Takes(Went(L, c), c, y)
<1> DEFINE h == L.hdr[c]
           d == streams[c].header
           p == L.part[c]
           m == p.m
           v == p.v
           x == More(L, c)
           n == Min2(p.at + L.size, m.len)
           P == SubSeq(Payload(m), p.at + 1, n)
           M == Went(L, c)
           N == Popped(M, c)
<1>1. /\ p \in Parts /\ m \in Messages /\ m.csid = c /\ p.at \in 1 .. m.len - 1
      /\ m.len \in 0 .. MaxLen /\ L.size \in Nat \ {0} /\ v \in Nat
      /\ ChunkOf(x, 3, c, <<>>, v, P) /\ Len(P) = n - p.at
  BY MoreIs
<1>2. h # None /\ m.type # Control.type /\ v = Stamp(h)
      /\ h.time = m.time /\ h.len = m.len /\ h.type = m.type
  BY DEF Sound, PartSound
<1>3. L \in States /\ m.len \in Nat /\ p.at \in Nat /\ p.at >= 1 /\ p.at < m.len
  <2>1. L \in States
    BY DEF Sound
  <2> HIDE DEF p, m
  <2> QED
    BY <1>1, <2>1, LengthAssumption
<1>4. n \in p.at .. m.len /\ p.at \in 0 .. m.len
      /\ (m.len <= p.at + L.size <=> n = m.len)
         /\ (~(m.len <= p.at + L.size) => n = p.at + L.size)
  <2>1. L.size \in Nat \ {0}
    BY <1>1
  <2> HIDE DEF p, m
  <2> DEFINE at == p.at
             len == m.len
             size_ == L.size
  <2>2. at \in Nat /\ len \in Nat /\ at < len /\ size_ \in Nat \ {0}
    BY <1>3, <2>1
  <2> HIDE DEF at, len, size_
  <2>3. LET k == Min2(at + size_, len) IN
        /\ k \in at .. len /\ at \in 0 .. len
        /\ (len <= at + size_ <=> k = len) /\ (~(len <= at + size_) => k = at + size_)
    BY <2>2 DEF Min2
  <2> QED
    BY <2>3 DEF at, len, size_
<1>5. P \in Seq(Items)
  BY <1>1, <1>4, PieceIs
<1>6. streams[c] = [header |-> d, received |-> SubSeq(Payload(m), 1, p.at)]
      /\ decSize = L.size /\ L.queue[c] = <<Content(m)>> /\ KnownAs(h, d)
  <2>1. streams[c] = [header |-> d, received |-> Held(L.part[c])] /\ decSize = L.size
        /\ L.queue[c] = Owed(L.part[c]) /\ KnownAs(h, d)
    BY DEF Caught
  <2> QED
    BY <2>1 DEF Held, Owed
<1>6a. streams[c].header = d /\ streams[c].received = SubSeq(Payload(m), 1, p.at)
  <2>1. \A w, g : [header |-> w, received |-> g].received = g
    OBVIOUS
  <2> HIDE DEF m, p
  <2> QED
    BY <1>6, <2>1
<1>7. d # None /\ d.time = m.time /\ d.len = m.len /\ d.type = m.type /\ (d.ext <=> v >= Escape)
  <2> HIDE DEF h, d, v
  <2> QED
    BY <1>2, <1>6, KnownIs
<1>8. /\ M.hdr = L.hdr /\ M.size = L.size /\ M.queue = L.queue
      /\ M.part = [L.part EXCEPT ![c] = IF m.len <= p.at + L.size THEN None
                                        ELSE [m |-> m, v |-> v, at |-> p.at + L.size]]
      /\ M = [hdr |-> M.hdr, part |-> M.part, size |-> M.size, queue |-> M.queue]
  <2>1. L = [hdr |-> L.hdr, part |-> L.part, size |-> L.size, queue |-> L.queue]
    BY <1>3 DEF States
  <2> DEFINE w == IF m.len <= p.at + L.size THEN None
                  ELSE [m |-> m, v |-> v, at |-> p.at + L.size]
  <2>2. M = [L EXCEPT !.part[c] = w]
    BY DEF Went
  <2> HIDE DEF w, M
  <2>3. M = [hdr |-> L.hdr, part |-> [L.part EXCEPT ![c] = w], size |-> L.size, queue |-> L.queue]
    BY <2>1, <2>2
  <2> QED
    BY <2>3 DEF w
<1>9. /\ N.hdr = M.hdr /\ N.part = M.part /\ N.size = M.size
      /\ N.queue = [M.queue EXCEPT ![c] = Tail(M.queue[c])]
  <2> HIDE DEF M
  <2> QED
    BY <1>8 DEF Popped
<1>10. x \in Seq(Items) /\ x # <<>> /\ x[1] = Basic(3, c) /\ Len(x) \in Nat /\ Len(x) >= 1
  <2> HIDE DEF x, P, v
  <2>1. x \in Seq(Items) /\ x # <<>> /\ x[1] = Basic(3, c)
    BY <1>1 DEF ChunkOf
  <2> QED
    BY <2>1
<1>11. Len(SubSeq(Payload(m), 1, p.at)) = p.at
  <2> DEFINE s == Payload(m)
  <2>1. s \in Seq(Items) /\ Len(s) = m.len
    BY <1>1, PayloadIs
  <2> HIDE DEF s, p
  <2>2. Len(SubSeq(s, 1, p.at)) = p.at
    BY <1>3, <2>1
  <2> QED
    BY <2>2 DEF s, p
<1> HIDE DEF h, d, p, m, v, x, n, P, M, N
<1>12. \A i \in 1 .. Len(x) : i <= Len(buf) => buf[i] = x[i]
  BY <1>10, FrontIs DEF x
<1>13. ~NeedMoreBytes /\ AtChunk /\ buf[1] = Basic(3, c) /\ Len(buf) \in Nat
  <2>1. ~NeedMoreBytes
    BY DEF Ready
  <2>2. buf # <<>>
    BY <2>1 DEF NeedMoreBytes, AtChunk
  <2>3. 1 \in 1 .. Len(x) /\ 1 <= Len(buf)
    BY <1>10, <2>2
  <2>4. buf[1] = Basic(3, c)
    BY <1>10, <1>12, <2>3
  <2> QED
    BY <2>1, <2>2, <2>4 DEF AtChunk, Basic
<1>14. buf[1].fmt = 3 /\ buf[1].csid = c /\ buf[1].is = "basic"
  BY <1>13 DEF Basic
<1>15. Continuation(buf[1])
  <2>1. streams[c].received # <<>>
    <3>1. Len(streams[c].received) >= 1
      BY <1>3, <1>6a, <1>11
    <3> QED
      BY <3>1
  <2> QED
    BY <1>14, <2>1 DEF Continuation
<1>16. ChunkBytes = Len(P)
  <2>1. ChunkBytes = Min2(d.len - Len(streams[c].received), decSize)
    BY <1>14, <1>15 DEF ChunkBytes, d
  <2>2. ChunkBytes = Min2(m.len - p.at, L.size)
    BY <1>6, <1>6a, <1>7, <1>11, <2>1
  <2>3. Min2(m.len - p.at, L.size) = n - p.at
    BY <1>1, <1>3 DEF Min2, n
  <2> QED
    BY <1>1, <2>2, <2>3
<1>17. ChunkShape = Shape(3, v >= Escape, Len(P))
  <2>1. ChunkShape = Shape(3, d.ext, Len(P))
    BY <1>14, <1>15, <1>16 DEF ChunkShape, d
  <2> QED
    BY <1>7, <2>1, ShapeOf
<1>18. Len(x) <= Len(buf)
  <2>1. Len(ChunkShape) = Len(x)
    BY <1>1, <1>17 DEF ChunkOf
  <2>2. ~Unknown
    BY <1>7, <1>14 DEF Unknown, d
  <2> QED
    BY <1>10, <1>13, <2>1, <2>2 DEF NeedMoreBytes
<1>19. TakeChunk(d, SubSeq(Payload(m), 1, p.at))
  <2>1. TakeChunk(streams[buf[1].csid].header, streams[buf[1].csid].received)
    BY <1>15 DEF Decode, DecodeContinuation, DecodeNewMessage
  <2> QED
    BY <1>6a, <1>14, <2>1
<1>20. /\ Finish(c, d, SubSeq(Payload(m), 1, p.at) \o P) /\ wire' = wire /\ UNCHANGED senderVars
       /\ buf' \in Seq(Items) /\ buf' \o wire = y
  <2>1. buf \o wire = x \o y
    BY DEF x
  <2> DEFINE f == 3
             E == <<>>
             g == SubSeq(Payload(m), 1, p.at)
  <2>2. f \in 0 .. 3 /\ ChunkOf(x, f, c, E, v, P) /\ ChunkShape = Shape(f, v >= Escape, Len(P))
    BY <1>1, <1>17
  <2>3. /\ x \in Seq(Items) /\ y \in Seq(Items) /\ buf \in Seq(Items) /\ wire \in Seq(Items)
        /\ buf \o wire = x \o y /\ Len(x) <= Len(buf) /\ P \in Seq(Items)
        /\ ChunkBytes = Len(P) /\ TakeChunk(d, g)
    BY <1>5, <1>10, <1>16, <1>18, <1>19, <2>1
  <2> HIDE DEF f, E, g
  <2>4. /\ Finish(c, d, g \o P) /\ wire' = wire /\ UNCHANGED senderVars
        /\ buf' \in Seq(Items) /\ buf' \o wire = y
    BY ONLY <2>2, <2>3, TakeIs
  <2> QED
    BY <2>4 DEF g
<1>21. Finish(c, d, SubSeq(Payload(m), 1, n))
  <2>1. SubSeq(Payload(m), 1, p.at) \o P = SubSeq(Payload(m), 1, n)
    BY <1>1, <1>4, Carried DEF P
  <2> QED
    BY <1>20, <2>1
<1>22. /\ status' = status
       /\ n < m.len => /\ streams' = [streams EXCEPT ![c] = [header |-> d, received |->
                                                                 SubSeq(Payload(m), 1, n)]]
                       /\ returned' = None /\ decSize' = decSize /\ queue' = queue
       /\ n = m.len => /\ streams' = [streams EXCEPT ![c] = [header |-> d, received |-> <<>>]]
                       /\ returned' = Content(m)
                       /\ decSize' = decSize
                       /\ queue' = [queue EXCEPT ![c] = SubSeq(@, 2, Len(@))]
  <2>1. WithinLimits /\ m \in Messages /\ n \in 0 .. m.len
        /\ d.len = m.len /\ d.type = m.type /\ d.time = m.time
        /\ Finish(c, d, SubSeq(Payload(m), 1, n))
    BY <1>1, <1>3, <1>4, <1>7, <1>21
  <2>2. /\ status' = status
        /\ n < m.len => /\ streams' = [streams EXCEPT ![c] =
                              [header |-> d, received |-> SubSeq(Payload(m), 1, n)]]
                        /\ returned' = None /\ decSize' = decSize /\ queue' = queue
        /\ n = m.len => /\ streams' = [streams EXCEPT ![c] = [header |-> d, received |-> <<>>]]
                        /\ returned' = Content(m)
                        /\ decSize' = (IF m.type = Control.type THEN m.value ELSE decSize)
                        /\ queue' = [queue EXCEPT ![c] = SubSeq(@, 2, Len(@))]
    BY ONLY <2>1, FinishIs
  <2> QED
    BY <1>2, <2>2
<1>23. /\ M.hdr[c] = h /\ M.queue[c] = <<Content(m)>>
       /\ M.part[c] = (IF m.len <= p.at + L.size THEN None
                       ELSE [m |-> m, v |-> v, at |-> p.at + L.size])
       /\ \A e \in Csid \ {c} : M.hdr[e] = L.hdr[e] /\ M.part[e] = L.part[e]
          /\ M.queue[e] = L.queue[e]
  <2>1. DOMAIN L.part = Csid
    BY <1>3 DEF States
  <2> QED
    BY <1>6, <1>8, <2>1 DEF h
<1>24. DOMAIN streams = Csid
  BY DEF Caught
<1>25. CASE n < m.len
  <2>1. ~(m.len <= p.at + L.size) /\ n = p.at + L.size
    BY <1>3, <1>4, <1>25
  <2>2. M.part[c] = [m |-> m, v |-> v, at |-> n]
    BY <1>23, <2>1
  <2>3. M.part[c] # None
    <3>1. "none" \in DOMAIN None /\ "none" \notin DOMAIN M.part[c]
      BY <2>2 DEF None
    <3> QED
      BY <3>1
  <2>4. SubSeq(Payload(m), 1, n) = Held(M.part[c]) /\ M.queue[c] = Owed(M.part[c])
    <3>1. M.part[c].m = m /\ M.part[c].at = n
      BY <2>2
    <3>2. Held(M.part[c]) = SubSeq(Payload(M.part[c].m), 1, M.part[c].at)
      BY <2>3 DEF Held
    <3>3. Owed(M.part[c]) = <<Content(M.part[c].m)>>
      BY <2>3 DEF Owed
    <3> QED
      BY <1>23, <3>1, <3>2, <3>3
  <2>5. Caught(M, streams', decSize')
    <3>0. streams' = [streams EXCEPT ![c] = [header |-> d, received |-> Held(M.part[c])]]
      BY <1>22, <1>25, <2>4
    <3>1. /\ DOMAIN streams' = Csid /\ \A e \in Csid \ {c} : streams'[e] = streams[e]
          /\ streams'[c].header = d
          /\ streams'[c] = [header |-> streams'[c].header, received |-> Held(M.part[c])]
      BY <1>24, <3>0
    <3>2. KnownAs(M.hdr[c], streams'[c].header)
      BY <1>6, <1>23, <3>1
    <3>3. /\ c \in Csid /\ Caught(L, streams, decSize)
          /\ M.queue[c] = Owed(M.part[c])
          /\ \A e \in Csid \ {c} : M.hdr[e] = L.hdr[e] /\ M.part[e] = L.part[e]
             /\ M.queue[e] = L.queue[e]
      BY <1>23, <2>4
    <3>4. Caught(M, streams', M.size)
      BY ONLY <3>1, <3>2, <3>3, CaughtUp
    <3> QED
      BY <1>6, <1>8, <1>22, <1>25, <3>4
  <2> QED
    BY <1>20, <1>22, <1>25, <2>3, <2>5 DEF Takes, M
<1>26. CASE n = m.len
  <2>1. M.part[c] = None
    BY <1>4, <1>23, <1>26
  <2>2. N.hdr[c] = h /\ N.part[c] = None /\ N.queue[c] = <<>>
        /\ \A e \in Csid \ {c} : N.hdr[e] = L.hdr[e] /\ N.part[e] = L.part[e]
           /\ N.queue[e] = L.queue[e]
    <3>1. DOMAIN M.queue = Csid
      BY <1>3, <1>8 DEF States
    <3>2. Tail(<<Content(m)>>) = <<>>
      OBVIOUS
    <3> QED
      BY <1>9, <1>23, <2>1, <3>1, <3>2
  <2>3. Caught(N, streams', decSize')
    <3>1. <<>> = Held(N.part[c]) /\ N.queue[c] = Owed(N.part[c])
      BY <2>2 DEF Held, Owed
    <3>2. /\ DOMAIN streams' = Csid /\ \A e \in Csid \ {c} : streams'[e] = streams[e]
          /\ streams'[c].header = d
          /\ streams'[c] = [header |-> streams'[c].header, received |-> Held(N.part[c])]
      BY <1>22, <1>24, <1>26, <3>1
    <3>3. KnownAs(N.hdr[c], streams'[c].header)
      BY <1>6, <2>2, <3>2
    <3>4. /\ c \in Csid /\ Caught(L, streams, decSize) /\ N.queue[c] = Owed(N.part[c])
          /\ \A e \in Csid \ {c} : N.hdr[e] = L.hdr[e] /\ N.part[e] = L.part[e]
             /\ N.queue[e] = L.queue[e]
      BY <2>2, <3>1
    <3>5. Caught(N, streams', N.size)
      BY ONLY <3>2, <3>3, <3>4, CaughtUp
    <3> QED
      BY <1>6, <1>8, <1>9, <1>22, <1>26, <3>5
  <2>4. M.queue[c] # <<>> /\ Head(M.queue[c]) = Content(m)
    BY <1>23
  <2> QED
    BY <1>20, <1>22, <1>26, <2>1, <2>3, <2>4 DEF Takes, M, N
<1> QED
  BY <1>3, <1>4, <1>25, <1>26

\* A run of chunks ends in a sound sender.
LEMMA LeadsSound ==
  ASSUME NEW L, NEW S, NEW Z, Leads(L, S, Z)
  PROVE  Sound(L) /\ Sound(Z)
<1>1. PICK q, tr : Run(q, tr) /\ S = FlattenSeq(q) /\ tr[0] = L /\ tr[Len(q)] = Z
  BY DEF Leads
<1>2. 0 \in 0 .. Len(q) /\ Len(q) \in 0 .. Len(q)
  BY <1>1 DEF Run
<1> QED
  BY <1>1, <1>2 DEF Run

\* A turn of the decoder's loop takes the first chunk of what is unread, and returns
\* the message it completes, the oldest on its stream.
LEMMA DecodeIs ==
  ASSUME WithinLimits, NEW L, NEW Z, Leads(L, buf \o wire, Z), Caught(L, streams, decSize),
         buf \in Seq(Items), wire \in Seq(Items), Ready, Decode
  PROVE  /\ status' = status /\ UNCHANGED senderVars /\ wire' = wire /\ buf' \in Seq(Items)
         /\ \E M : /\ Caught(M, streams', decSize')
                   /\ \/ /\ Leads(M, buf' \o wire', Z)
                         /\ returned' = None /\ queue' = queue
                      \/ \E c \in Csid :
                           /\ Leads(M, buf' \o wire', Popped(Z, c)) /\ Z.queue[c] # <<>>
                           /\ returned' = Head(Z.queue[c])
                           /\ queue' = [queue EXCEPT ![c] = SubSeq(@, 2, Len(@))]
<1>1. buf \o wire # <<>>
  <2>1. buf # <<>>
    BY DEF Ready, NeedMoreBytes, AtChunk
  <2>2. Len(buf) > 0 /\ Len(buf \o wire) = Len(buf) + Len(wire) /\ Len(wire) \in Nat
    BY <2>1
  <2>3. Len(buf \o wire) > 0
    BY <2>2
  <2> QED
    BY <2>3
<1>2. PICK x, y, N :
        x \in Seq(Items) /\ y \in Seq(Items) /\
        buf \o wire = x \o y /\ Sound(L) /\ Sends(L, x, N) /\ Sound(N) /\ Leads(N, y, Z)
  BY <1>1, LeadsBy
<1>3. \E c \in Csid : Takes(N, c, y)
  <2>1. ASSUME NEW m \in Messages, NEW fmt \in 0 .. 3,
               CanStart(L, m, fmt), x = Start(L, m, fmt), N = Started(L, m, fmt)
        PROVE  m.csid \in Csid /\ Takes(N, m.csid, y)
    BY <1>2, <2>1, DecodeStart, MessageFacts
  <2>2. ASSUME NEW c \in Csid, L.part[c] # None, x = More(L, c), N = Went(L, c)
        PROVE  Takes(N, c, y)
    BY <1>2, <2>2, DecodeMore
  <2> QED
    BY <1>2, <2>1, <2>2 DEF Sends
<1>4. PICK c \in Csid : Takes(N, c, y)
  BY <1>3
<1>5. status' = status /\ UNCHANGED senderVars /\ wire' = wire /\ buf' \in Seq(Items)
      /\ buf' \o wire' = y
  <2>1. status' = status /\ UNCHANGED senderVars /\ wire' = wire /\ buf' \in Seq(Items)
        /\ buf' \o wire = y
    BY <1>4 DEF Takes
  <2>2. buf' \o wire' = buf' \o wire
    BY <2>1
  <2> QED
    BY <2>1, <2>2
<1>6. CASE N.part[c] # None
  <2>1. Caught(N, streams', decSize') /\ returned' = None /\ queue' = queue
    BY <1>4, <1>6 DEF Takes
  <2> QED
    BY <1>2, <1>5, <2>1
<1>7. CASE N.part[c] = None
  <2>1. /\ N.queue[c] # <<>> /\ Caught(Popped(N, c), streams', decSize')
        /\ returned' = Head(N.queue[c]) /\ queue' = [queue EXCEPT ![c] = SubSeq(@, 2, Len(@))]
    BY <1>4, <1>7 DEF Takes
  <2>2. Leads(Popped(N, c), y, Popped(Z, c)) /\ Z.queue[c] # <<>>
        /\ Head(Z.queue[c]) = Head(N.queue[c])
    BY <1>2, <2>1, LeadsPopped
  <2> QED
    BY <1>5, <2>1, <2>2
<1> QED
  BY <1>6, <1>7

-----------------------------------------------------------------------------
(* A Muxer sends whole messages.                                             *)

\* The sender in the middle of a whole message, k chunks after the first.
Amid(Z, m, k) ==
  LET c == m.csid
      fmt == ChooseFmt(Z.hdr[c], m)
  IN [hdr |-> [Z.hdr EXCEPT ![c] = SentHeader(fmt, Z.hdr[c], m)],
      part |-> [Z.part EXCEPT ![c] =
                  IF m.len <= (k + 1) * Z.size THEN None
                  ELSE [m |-> m, v |-> TimeField(fmt, Z.hdr[c], m), at |-> (k + 1) * Z.size]],
      size |-> Z.size,
      queue |-> [Z.queue EXCEPT ![c] = Append(Z.queue[c], Content(m))]]

\* The numbers of chunks after the first, and what they start at.
LEMMA MoreChunks ==
  ASSUME NEW len \in Nat, NEW n \in Nat \ {0}, NEW more,
         more = IF len = 0 THEN 0 ELSE (len - 1) \div n
  PROVE  /\ more \in Nat /\ len <= (more + 1) * n
         /\ \A k \in 1 .. more : k * n < len /\ k * n \in Nat
<1>1. CASE len = 0
  <2>1. more = 0 /\ (0 + 1) * n = n
    BY <1>1
  <2> QED
    BY <1>1, <2>1
<1>2. CASE len # 0
  <2>1. more = (len - 1) \div n /\ len - 1 \in Nat
    BY <1>2
  <2> DEFINE r == (len - 1) % n
  <2>2. more \in Int /\ r \in 0 .. n - 1 /\ len - 1 = n * more + r
    BY <2>1
  <2> HIDE DEF r
  <2>3. more \in Nat
    <3>1. ~(more < 0)
      <4>1. more < 0 => n * more <= 0 - n
        BY <2>2
      <4> QED
        BY <2>1, <2>2, <4>1
    <3> QED
      BY <2>2, <3>1
  <2>4. (more + 1) * n = n * more + n
    BY <2>3
  <2>5. ASSUME NEW k \in 1 .. more PROVE k * n < len /\ k * n \in Nat
    <3>1. k \in Nat /\ more - k \in Nat /\ k * n \in Nat /\ (more - k) * n \in Nat
          /\ n * more \in Nat
      BY <2>3
    <3>2. n * more = k * n + (more - k) * n
      BY <2>3, <3>1
    <3> QED
      BY <2>2, <3>1, <3>2
  <2> QED
    BY <2>2, <2>3, <2>4, <2>5
<1> QED
  BY <1>1, <1>2

\* A chunk that continues a message is made of items.
LEMMA NextChunkType ==
  ASSUME WithinLimits, NEW m \in Messages, NEW v \in Nat, NEW at \in 0 .. m.len, NEW chunk \in Nat
  PROVE  NextChunk(v, m, at, chunk) \in Seq(Items)
<1> DEFINE P == SubSeq(Payload(m), at + 1, Min2(at + chunk, m.len))
<1>1. m.len \in Nat /\ m.csid \in Csid
  BY MessageFacts, LengthAssumption
<1>2. Min2(at + chunk, m.len) \in at .. m.len
  BY <1>1 DEF Min2
<1>3. P \in Seq(Items)
  BY <1>2, PieceIs
<1>4. <<Basic(3, m.csid)>> \in Seq(Items)
  BY <1>1 DEF Items
<1>5. Extended(v) \in Seq(Items)
  <2>1. Field("ext", v) \in Items
    BY DEF Items
  <2> QED
    BY <2>1 DEF Extended
<1> HIDE DEF P
<1>6. <<Basic(3, m.csid)>> \o Extended(v) \o P \in Seq(Items)
  BY <1>3, <1>4, <1>5
<1> QED
  BY <1>6 DEF NextChunk, P

\* encode_message's chunks are those of a server that sends nothing else meanwhile.
LEMMA EncodedLeads ==
  ASSUME WithinLimits, NEW L, NEW S \in Seq(Items), NEW Z, Leads(L, S, Z), NEW m \in Messages,
         m.type # Control.type, Z.part[m.csid] = None
  PROVE  LET c == m.csid
             Y == [hdr |-> [Z.hdr EXCEPT ![c] = Cached(Z.hdr[c], m)], part |-> Z.part,
                   size |-> Z.size,
                   queue |-> [Z.queue EXCEPT ![c] = Append(Z.queue[c], Content(m))]]
             e == Encoded(Z.hdr[c], m, Z.size)
         IN e \in Seq(Items) /\ Leads(L, S \o e, Y)
<1> DEFINE c == m.csid
           h == Z.hdr[c]
           size_ == Z.size
           fmt == ChooseFmt(h, m)
           v == TimeField(fmt, h, m)
           more == IF m.len = 0 THEN 0 ELSE (m.len - 1) \div size_
           nexts == [k \in 1 .. more |-> NextChunk(v, m, k * size_, size_)]
           x == Start(Z, m, fmt)
           sent(k) == S \o x \o FlattenSeq(SubSeq(nexts, 1, k))
           D == {k \in Nat : k <= more => Leads(L, sent(k), Amid(Z, m, k))}
<1>1. Sound(L) /\ Sound(Z)
  BY LeadsSound
<1>2. c \in Csid /\ m.len \in 0 .. MaxLen /\ m.len \in Nat
  BY MessageFacts, LengthAssumption
<1>3. h \in Header \cup {None} /\ size_ \in Nat \ {0} /\ fmt \in 0 .. 3 /\ DOMAIN Z.part = Csid
  <2>1. fmt \in 0 .. 3
    BY DEF ChooseFmt
  <2> QED
    BY <1>1, <1>2, <2>1 DEF Sound, States
<1>4. v \in Nat
  <2>1. v \in 0 .. Wrap - 1
    <3>1. fmt <= ChooseFmt(h, m)
      BY <1>3
    <3> HIDE DEF fmt, h
    <3> DEFINE s == SentHeader(fmt, h, m)
    <3>2. /\ s \in Header /\ s # None /\ v \in 0 .. Wrap - 1 /\ Stamp(s) = v
          /\ s.time = m.time /\ s.len = m.len /\ s.type = m.type /\ s.stream = m.stream
      <4>1. WithinLimits /\ h \in Header \cup {None} /\ m \in Messages /\ fmt \in 0 .. 3
        BY <1>3
      <4> QED
        BY ONLY <3>1, <4>1, SentIs
    <3> QED
      BY <3>2
  <2> QED
    BY <2>1, TimeAssumption
<1>5. CanStart(Z, m, fmt)
  BY <1>3 DEF CanStart
<1>6. Sends(Z, x, Started(Z, m, fmt))
  BY <1>3, <1>5 DEF Sends
<1>7. Sound(Started(Z, m, fmt)) /\ x \in Seq(Items)
  BY <1>1, <1>6, SendsSound
<1>8. Started(Z, m, fmt) = Amid(Z, m, 0)
  <2>1. (0 + 1) * size_ = size_
    BY <1>3
  <2> QED
    BY <2>1 DEF Started, Amid
<1>9. /\ more \in Nat /\ m.len <= (more + 1) * size_
      /\ \A k \in 1 .. more : k * size_ < m.len /\ k * size_ \in Nat
  <2> HIDE DEF size_
  <2> DEFINE len == m.len
  <2>1. len \in Nat /\ more = IF len = 0 THEN 0 ELSE (len - 1) \div size_
    BY <1>2
  <2> HIDE DEF len, more
  <2>2. /\ more \in Nat /\ len <= (more + 1) * size_
        /\ \A k \in 1 .. more : k * size_ < len /\ k * size_ \in Nat
    BY <1>3, <2>1, MoreChunks
  <2> QED
    BY <2>2 DEF len
<1> HIDE DEF more
<1>10. nexts \in Seq(Seq(Items)) /\ Len(nexts) = more
       /\ \A k \in 1 .. more : nexts[k] = NextChunk(v, m, k * size_, size_)
  <2>1. ASSUME NEW k \in 1 .. more PROVE NextChunk(v, m, k * size_, size_) \in Seq(Items)
    <3> HIDE DEF v, size_
    <3>1. k * size_ \in 0 .. m.len
      BY <1>2, <1>9
    <3> QED
      BY <1>3, <1>4, <3>1, NextChunkType
  <2> HIDE DEF v, size_
  <2>2. \A k \in 1 .. more : NextChunk(v, m, k * size_, size_) \in Seq(Items)
    BY <2>1
  <2>3. more \in Nat
    BY <1>9
  <2> QED
    BY <2>2, <2>3
<1>11. Encoded(h, m, size_) = x \o FlattenSeq(nexts)
  BY DEF Encoded, Start, more
<1>12. /\ Amid(Z, m, more).part = Z.part /\ Amid(Z, m, more).size = Z.size
       /\ Amid(Z, m, more).hdr = [Z.hdr EXCEPT ![c] = Cached(h, m)]
       /\ Amid(Z, m, more).queue = [Z.queue EXCEPT ![c] = Append(Z.queue[c], Content(m))]
       /\ Amid(Z, m, more) = [hdr |-> Amid(Z, m, more).hdr, part |-> Amid(Z, m, more).part,
                              size |-> Amid(Z, m, more).size, queue |-> Amid(Z, m, more).queue]
  <2>1. [Z.part EXCEPT ![c] = None] = Z.part
    <3>1. Z.part \in [Csid -> Parts \cup {None}]
      BY <1>1 DEF Sound, States
    <3> QED
      BY <1>2, <3>1
  <2>2. m.len <= (more + 1) * Z.size
    BY <1>9
  <2> QED
    BY <2>1, <2>2 DEF Amid, Cached
<1> HIDE DEF nexts
<1>13. 0 \in D
  <2>1. SubSeq(nexts, 1, 0) = <<>>
    BY <1>10
  <2>2. sent(0) = S \o x
    <3>1. S \o x \in Seq(Items)
      BY <1>7
    <3>2. (S \o x) \o <<>> = S \o x
      BY <3>1
    <3> QED
      BY <2>1, <3>2, FlattenEmpty
  <2>3. Leads(L, S \o x, Amid(Z, m, 0))
    <3> HIDE DEF x
    <3> QED
      BY <1>6, <1>7, <1>8, LeadsOn
  <2> QED
    BY <2>2, <2>3
<1>14. ASSUME NEW k \in Nat, k \in D PROVE k + 1 \in D
  <2>1. SUFFICES ASSUME k + 1 <= more PROVE Leads(L, sent(k + 1), Amid(Z, m, k + 1))
    OBVIOUS
  <2>2. k + 1 \in 1 .. more /\ k \in 0 .. more
    BY <1>9, <2>1
  <2> DEFINE A == Amid(Z, m, k)
             B == Amid(Z, m, k + 1)
             y == nexts[k + 1]
             at == (k + 1) * size_
  <2>3. Leads(L, sent(k), A)
    BY <1>14, <2>2
  <2>4. Sound(A)
    BY <2>3, LeadsSound
  <2>5. at < m.len /\ at \in Nat
    BY <1>9, <2>2
  <2>6. A.part = [Z.part EXCEPT ![c] = [m |-> m, v |-> v, at |-> at]] /\ A.size = size_
    <3>1. ~(m.len <= at)
      <4> HIDE DEF at
      <4> QED
        BY <1>2, <2>5
    <3> QED
      BY <3>1 DEF Amid
  <2>7. A.part[c] = [m |-> m, v |-> v, at |-> at]
    BY <1>2, <1>3, <2>6
  <2>8. A.part[c] # None
    <3>1. "none" \in DOMAIN None /\ "none" \notin DOMAIN A.part[c]
      BY <2>7 DEF None
    <3> QED
      BY <3>1
  <2>9. y = More(A, c)
    <3>1. y = NextChunk(v, m, at, size_)
      BY <1>10, <2>2
    <3>2. A.part[c].v = v /\ A.part[c].m = m /\ A.part[c].at = at
      BY <2>7
    <3> QED
      BY <2>6, <3>1, <3>2 DEF More
  <2>10. B = Went(A, c)
    <3>1. at + size_ = (k + 1 + 1) * size_
      <4>1. ASSUME NEW a \in Nat, NEW b \in Nat PROVE (a + 1) * b + b = (a + 1 + 1) * b
        OBVIOUS
      <4> HIDE DEF size_
      <4> QED
        BY <1>3, <4>1
    <3> DEFINE w == IF m.len <= at + size_ THEN None ELSE [m |-> m, v |-> v, at |-> at + size_]
    <3>2. A.part[c].v = v /\ A.part[c].m = m /\ A.part[c].at = at /\ A.size = size_
      BY <2>6, <2>7
    <3>3. Went(A, c) = [A EXCEPT !.part = [A.part EXCEPT ![c] = w]]
      <4> HIDE DEF A, v, at, size_
      <4> QED
        BY <3>2 DEF Went
    <3>4. A = [hdr |-> A.hdr, part |-> A.part, size |-> A.size, queue |-> A.queue]
      BY DEF Amid
    <3>5. Went(A, c) = [hdr |-> A.hdr, part |-> [A.part EXCEPT ![c] = w], size |-> A.size,
                        queue |-> A.queue]
      <4> HIDE DEF A, w
      <4> QED
        BY <3>3, <3>4
    <3>6. [A.part EXCEPT ![c] = w] = [Z.part EXCEPT ![c] = w]
      <4> HIDE DEF A, w, v, at
      <4> QED
        BY <1>2, <1>3, <2>6
    <3>7. B = [hdr |-> A.hdr, part |-> [Z.part EXCEPT ![c] = w], size |-> A.size,
               queue |-> A.queue]
      BY <3>1 DEF Amid
    <3> QED
      BY <3>5, <3>6, <3>7
  <2> HIDE DEF A, B, y, at
  <2>11. Sends(A, y, B)
    BY <1>2, <2>8, <2>9, <2>10 DEF Sends
  <2>12. Sound(B) /\ y \in Seq(Items)
    BY <2>4, <2>11, SendsSound
  <2>13. sent(k + 1) = sent(k) \o y
    <3>1. SubSeq(nexts, 1, k + 1) = Append(SubSeq(nexts, 1, k), nexts[k + 1])
          /\ SubSeq(nexts, 1, k) \in Seq(Seq(Items))
      BY <1>9, <1>10, <2>2
    <3>2. FlattenSeq(SubSeq(nexts, 1, k + 1)) = FlattenSeq(SubSeq(nexts, 1, k)) \o y
      BY <2>12, <3>1, FlattenAppend DEF y
    <3> DEFINE f == FlattenSeq(SubSeq(nexts, 1, k))
               b == S \o x
    <3>3. f \in Seq(Items)
      BY <3>1, FlattenType
    <3>4. b \in Seq(Items)
      <4> HIDE DEF x
      <4> QED
        BY <1>7
    <3> HIDE DEF f, b
    <3>5. b \o (f \o y) = (b \o f) \o y
      <4>1. y \in Seq(Items)
        BY <2>12
      <4> QED
        BY ONLY <3>3, <3>4, <4>1, ConcatAssociative
    <3> QED
      BY <3>2, <3>5 DEF f, b
  <2>14. Leads(L, sent(k) \o y, B)
    <3> DEFINE g == sent(k)
    <3>1. Leads(L, g, A)
      BY <2>3 DEF A
    <3> HIDE DEF g
    <3>2. Sends(A, y, B) /\ Sound(B) /\ y \in Seq(Items)
      BY <2>11, <2>12
    <3>3. Leads(L, g \o y, B)
      BY ONLY <3>1, <3>2, LeadsOn
    <3> QED
      BY <3>3 DEF g
  <2> QED
    BY <2>13, <2>14 DEF B
<1> HIDE DEF D
<1>15. Nat \subseteq D
  BY <1>13, <1>14, NatSetInduction
<1>16. Leads(L, sent(more), Amid(Z, m, more))
  BY <1>9, <1>15 DEF D
<1>17. sent(more) = S \o (x \o FlattenSeq(nexts)) /\ x \o FlattenSeq(nexts) \in Seq(Items)
  <2>1. SubSeq(nexts, 1, more) = nexts
    BY <1>9, <1>10
  <2> DEFINE f == FlattenSeq(nexts)
  <2>2. f \in Seq(Items)
    BY <1>10, FlattenType
  <2> HIDE DEF f, x
  <2>3. (S \o x) \o f = S \o (x \o f) /\ x \o f \in Seq(Items)
    BY <1>7, <2>2, ConcatAssociative
  <2> QED
    BY <2>1, <2>3 DEF f
<1> QED
  BY <1>11, <1>12, <1>16, <1>17

-----------------------------------------------------------------------------
(* The inductive invariant.                                                  *)

\* The sender, with the chunk size its receiver expects next.
SenderNow ==
  [hdr |-> headers, part |-> rest,
   size |-> IF sender = "mux" /\ ~announced THEN Default ELSE size,
   queue |-> queue]

\* What is unread takes a sender the decoder has caught up with to the sender as it is.
InTransit == \E L : Caught(L, streams, decSize) /\ Leads(L, buf \o wire, SenderNow)

\* A Muxer sends whole messages, and the announcement before any other.
MuxInv ==
  sender = "mux" =>
    /\ muxSize \in MuxSizes /\ size = muxSize
    /\ \A c \in Csid : rest[c] = None
    /\ ~announced => headers[Control.csid] = None /\ queue[Control.csid] = <<>>

\* Types, and the decoder in step.
LinkType ==
  /\ sender \in {"mux", "peer"} /\ announced \in BOOLEAN /\ muxSize \in Nat /\ size \in Nat \ {0}
  /\ buf \in Seq(Items) /\ wire \in Seq(Items) /\ status = "ok"

IInv == LinkType /\ MuxInv /\ InTransit

\* The types the invariant gives the sender.
LEMMA SenderType ==
  ASSUME InTransit
  PROVE  /\ Sound(SenderNow) /\ SenderNow \in States
         /\ headers \in [Csid -> Header \cup {None}] /\ rest \in [Csid -> Parts \cup {None}]
         /\ queue \in [Csid -> Seq(Contents)]
         /\ SenderNow.hdr = headers /\ SenderNow.part = rest /\ SenderNow.queue = queue
         /\ SenderNow.size = (IF sender = "mux" /\ ~announced THEN Default ELSE size)
<1>1. Sound(SenderNow)
  BY LeadsSound DEF InTransit
<1>2. SenderNow \in States
  BY <1>1 DEF Sound
<1>3. /\ SenderNow.hdr = headers /\ SenderNow.part = rest /\ SenderNow.queue = queue
      /\ SenderNow.size = (IF sender = "mux" /\ ~announced THEN Default ELSE size)
  BY DEF SenderNow
<1> QED
  BY <1>1, <1>2, <1>3 DEF States

\* The decoder's chunk size and what it holds of each message.
LEMMA DecoderType ==
  ASSUME WithinLimits, InTransit
  PROVE  /\ decSize \in Nat \ {0} /\ DOMAIN streams = Csid
         /\ \A c \in Csid : Len(streams[c].received) \in 0 .. MaxLen
<1>1. PICK L : Caught(L, streams, decSize) /\ Leads(L, buf \o wire, SenderNow)
  BY DEF InTransit
<1>2. Sound(L) /\ L \in States
  BY <1>1, LeadsSound DEF Sound
<1>3. decSize \in Nat \ {0} /\ DOMAIN streams = Csid
  BY <1>1, <1>2 DEF Caught, States
<1>4. ASSUME NEW c \in Csid PROVE Len(streams[c].received) \in 0 .. MaxLen
  <2> DEFINE p == L.part[c]
  <2>1. streams[c].received = Held(p)
    <3>1. streams[c] = [header |-> streams[c].header, received |-> Held(p)]
      BY <1>1 DEF Caught
    <3> HIDE DEF p
    <3> QED
      BY <3>1
  <2>2. CASE p = None
    <3>1. Held(p) = <<>>
      BY <2>2 DEF Held
    <3> QED
      BY <2>1, <3>1, LengthAssumption
  <2>3. CASE p # None
    <3>1. p.m \in Messages /\ p.at \in 1 .. p.m.len - 1 /\ p.m.len \in 0 .. MaxLen
      BY <1>2, <2>3, MoreIs
    <3> DEFINE s == Payload(p.m)
    <3>2. s \in Seq(Items) /\ Len(s) = p.m.len
      BY <3>1, PayloadIs
    <3>3. Held(p) = SubSeq(s, 1, p.at)
      BY <2>3 DEF Held
    <3> HIDE DEF s, p
    <3>4. Len(SubSeq(s, 1, p.at)) = p.at /\ p.at \in 0 .. MaxLen
      BY <3>1, <3>2, LengthAssumption
    <3> QED
      BY <2>1, <3>3, <3>4
  <2> QED
    BY <2>2, <2>3
<1> QED
  BY <1>3, <1>4

\* Before anything is sent, the decoder has caught up.
LEMMA InitLink == ASSUME WithinLimits, Init PROVE IInv
<1>1. LinkType /\ MuxInv
  <2>1. <<>> \in Seq(Items) /\ Control.csid \in Csid
    BY DEF Csid
  <2>2. CASE sender = "mux" /\ muxSize \in MuxSizes /\ size = IF muxSize = 0 THEN 1 ELSE muxSize
    <3>1. muxSize \in Nat \ {0} /\ size = muxSize
      <4>1. muxSize \in AnnounceLen .. SizeWrap - 1 /\ AnnounceLen \in 1 .. MaxLen
        BY <2>2, LengthAssumption DEF WithinLimits
      <4> QED
        BY <2>2, <4>1, LengthAssumption, SizeAssumption
    <3> QED
      BY <2>1, <2>2, <3>1 DEF Init, LinkType, MuxInv
  <2>3. CASE sender = "peer" /\ muxSize = Default /\ size = Default
    BY <2>1, <2>3, SizeAssumption DEF Init, LinkType, MuxInv
  <2> QED
    BY <2>2, <2>3 DEF Init
<1>2. SenderNow.size = Default /\ SenderNow.hdr = headers /\ SenderNow.part = rest
      /\ SenderNow.queue = queue
      /\ SenderNow = [hdr |-> headers, part |-> rest, size |-> Default, queue |-> queue]
  BY DEF SenderNow, Init
<1>3. Sound(SenderNow)
  <2>1. headers \in [Csid -> Header \cup {None}] /\ rest \in [Csid -> Parts \cup {None}]
        /\ queue \in [Csid -> Seq(Contents)] /\ Default \in Nat \ {0}
    BY SizeAssumption DEF Init
  <2>2. SenderNow \in States
    BY <1>2, <2>1 DEF States
  <2>3. \A c \in Csid : rest[c] = None
    BY DEF Init
  <2> QED
    BY <1>2, <2>2, <2>3 DEF Sound, PartSound
<1>4. Caught(SenderNow, streams, decSize)
  <2>1. decSize = SenderNow.size /\ DOMAIN streams = Csid
    BY <1>2 DEF Init
  <2>2. ASSUME NEW c \in Csid
        PROVE  /\ streams[c] = [header |-> streams[c].header,
                                received |-> Held(SenderNow.part[c])]
               /\ KnownAs(SenderNow.hdr[c], streams[c].header)
               /\ SenderNow.queue[c] = Owed(SenderNow.part[c])
    <3>1. streams[c] = [header |-> None, received |-> <<>>] /\ SenderNow.part[c] = None
          /\ SenderNow.hdr[c] = None /\ SenderNow.queue[c] = <<>>
      BY <1>2 DEF Init
    <3> QED
      BY <3>1 DEF Held, Owed, KnownAs
  <2> QED
    BY <2>1, <2>2 DEF Caught
<1>5. InTransit
  <2>1. buf \o wire = <<>>
    BY DEF Init
  <2>2. Leads(SenderNow, <<>>, SenderNow)
    BY <1>3, LeadsNowhere
  <2> QED
    BY <1>4, <2>1, <2>2 DEF InTransit
<1> QED
  BY <1>1, <1>5 DEF IInv

-----------------------------------------------------------------------------
(* The steps.                                                                *)

\* A chunk more on its way.
LEMMA ChunkSent ==
  ASSUME WithinLimits, IInv, NEW x \in Seq(Items), wire' = wire \o x, UNCHANGED decoderVars,
         Sends(SenderNow, x, SenderNow')
  PROVE  InTransit' /\ wire' \in Seq(Items)
<1>1. PICK L : Caught(L, streams, decSize) /\ Leads(L, buf \o wire, SenderNow)
  BY DEF IInv, InTransit
<1>2. buf \in Seq(Items) /\ wire \in Seq(Items)
  BY DEF IInv, LinkType
<1>3. Sound(SenderNow')
  <2>1. Sound(SenderNow)
    BY SenderType DEF IInv
  <2> QED
    BY <2>1, SendsSound
<1>4. Leads(L, (buf \o wire) \o x, SenderNow')
  BY <1>1, <1>3, LeadsOn
<1>5. buf' \o wire' = (buf \o wire) \o x
  <2>1. buf' \o wire' = buf \o (wire \o x)
    BY DEF decoderVars
  <2> QED
    BY <1>2, <2>1, ConcatAssociative
<1>6. Caught(L, streams', decSize')
  BY <1>1 DEF decoderVars
<1>7. Leads(L, buf' \o wire', SenderNow')
  BY <1>4, <1>5
<1> QED
  BY <1>2, <1>6, <1>7 DEF InTransit

\* A server's chunk that begins a message keeps the invariant.
LEMMA PeerStartsIs ==
  ASSUME WithinLimits, IInv, NEW m \in Messages, NEW fmt \in 0 .. 3, PeerStarts(m, fmt),
         m.type = Control.type => AnnounceLen <= size,
         size' = IF m.type = Control.type THEN m.value ELSE size
  PROVE  IInv'
<1>1. sender = "peer" /\ sender' = "peer" /\ SenderNow.size = size /\ rest[m.csid] = None
      /\ announced' = announced /\ muxSize' = muxSize /\ UNCHANGED decoderVars
  BY DEF PeerStarts, SenderNow
<1>2. /\ Sound(SenderNow) /\ SenderNow.hdr = headers /\ SenderNow.part = rest
         /\ SenderNow.queue = queue
  BY SenderType DEF IInv
<1> DEFINE N == SenderNow
<1>3. CanStart(N, m, fmt)
  <2>1. fmt <= ChooseFmt(headers[m.csid], m)
    BY DEF PeerStarts
  <2> QED
    BY <1>1, <1>2, <2>1 DEF CanStart
<1>4. wire' = wire \o Start(N, m, fmt)
  <2>1. wire' = wire \o FirstChunk(fmt, TimeField(fmt, headers[m.csid], m), m, size)
    BY DEF PeerStarts
  <2> QED
    BY <1>1, <1>2, <2>1 DEF Start
<1>5. N' = Started(N, m, fmt)
  <2>1. N' = [hdr |-> headers', part |-> rest', size |-> size', queue |-> queue']
    BY <1>1 DEF SenderNow
  <2>2. /\ headers' = [headers EXCEPT ![m.csid] = SentHeader(fmt, headers[m.csid], m)]
        /\ rest' = [rest EXCEPT ![m.csid] = IF m.len <= size THEN None
                      ELSE [m |-> m, v |-> TimeField(fmt, headers[m.csid], m), at |-> size]]
        /\ queue' = [queue EXCEPT ![m.csid] = Append(queue[m.csid], Content(m))]
    BY DEF PeerStarts
  <2>3. Started(N, m, fmt) =
          [hdr |-> [headers EXCEPT ![m.csid] = SentHeader(fmt, headers[m.csid], m)],
           part |-> [rest EXCEPT ![m.csid] = IF m.len <= size THEN None
                       ELSE [m |-> m, v |-> TimeField(fmt, headers[m.csid], m), at |-> size]],
           size |-> IF m.type = Control.type THEN m.value ELSE size,
           queue |-> [queue EXCEPT ![m.csid] = Append(queue[m.csid], Content(m))]]
    BY <1>1, <1>2 DEF Started
  <2> QED
    BY <2>1, <2>2, <2>3
<1>6. Sends(N, Start(N, m, fmt), N')
  BY <1>3, <1>5 DEF Sends
<1>7. Start(N, m, fmt) \in Seq(Items) /\ Sound(N')
  BY <1>2, <1>6, SendsSound
<1>8. InTransit' /\ wire' \in Seq(Items)
  BY <1>1, <1>4, <1>6, <1>7, ChunkSent
<1>9. size' \in Nat \ {0}
  <2>1. N'.size = size'
    BY <1>1 DEF SenderNow
  <2>2. N'.size \in Nat \ {0}
    BY <1>7 DEF Sound, States
  <2> QED
    BY <2>1, <2>2
<1>10. LinkType' /\ MuxInv'
  BY <1>1, <1>8, <1>9 DEF IInv, LinkType, MuxInv, decoderVars
<1> QED
  BY <1>8, <1>10 DEF IInv

\* And so does one that continues a message.
LEMMA PeerContinuesIs ==
  ASSUME WithinLimits, IInv, NEW c \in Csid, PeerContinues(c)
  PROVE  IInv'
<1>1. rest[c] # None /\ sender' = sender /\ announced' = announced /\ muxSize' = muxSize
      /\ size' = size
      /\ UNCHANGED decoderVars
  BY DEF PeerContinues
<1>2. sender = "peer"
  BY <1>1 DEF IInv, LinkType, MuxInv
<1>3. /\ Sound(SenderNow) /\ SenderNow.hdr = headers /\ SenderNow.part = rest
         /\ SenderNow.queue = queue
      /\ rest \in [Csid -> Parts \cup {None}]
  BY SenderType DEF IInv
<1> DEFINE N == SenderNow
           r == rest[c]
           w == IF r.m.len <= r.at + size THEN None
                ELSE [m |-> r.m, v |-> r.v, at |-> r.at + size]
<1>4. N.size = size
  BY <1>2 DEF SenderNow
<1>5. wire' = wire \o More(N, c)
  <2>1. wire' = wire \o NextChunk(r.v, r.m, r.at, size)
    BY DEF PeerContinues
  <2> QED
    BY <1>3, <1>4, <2>1 DEF More
<1>6. N' = Went(N, c)
  <2>1. N' = [hdr |-> headers, part |-> rest', size |-> size, queue |-> queue]
    BY <1>1, <1>2 DEF SenderNow, PeerContinues
  <2>2. rest' = [rest EXCEPT ![c] = IF r.m.len <= r.at + size THEN None
                                    ELSE [r EXCEPT !.at = r.at + size]]
    BY DEF PeerContinues
  <2>3. [r EXCEPT !.at = r.at + size] = [m |-> r.m, v |-> r.v, at |-> r.at + size]
    <3>1. r \in Parts
      BY <1>1, <1>3
    <3>2. r = [m |-> r.m, v |-> r.v, at |-> r.at]
      <4> HIDE DEF r
      <4> QED
        BY <3>1 DEF Parts
    <3> HIDE DEF r
    <3> QED
      BY <3>2
  <2>4. rest' = [rest EXCEPT ![c] = w]
    BY <2>2, <2>3
  <2>5. N = [hdr |-> headers, part |-> rest, size |-> size, queue |-> queue]
    BY <1>2 DEF SenderNow
  <2>6. Went(N, c) = [N EXCEPT !.part = [N.part EXCEPT ![c] = w]]
    BY <1>3, <1>4 DEF Went
  <2>7. Went(N, c) = [hdr |-> headers, part |-> [rest EXCEPT ![c] = w], size |-> size,
                      queue |-> queue]
    <3> HIDE DEF N, w
    <3> QED
      BY <1>3, <2>5, <2>6
  <2> QED
    BY <2>1, <2>4, <2>7
<1>7. Sends(N, More(N, c), N')
  BY <1>1, <1>3, <1>6 DEF Sends
<1>8. More(N, c) \in Seq(Items)
  BY <1>3, <1>7, SendsSound
<1>9. InTransit' /\ wire' \in Seq(Items)
  BY <1>1, <1>5, <1>7, <1>8, ChunkSent
<1>10. LinkType' /\ MuxInv'
  BY <1>1, <1>2, <1>9 DEF IInv, LinkType, MuxInv, decoderVars
<1> QED
  BY <1>9, <1>10 DEF IInv

\* A number below the divisor.
LEMMA SmallQuotient == ASSUME NEW a \in Nat, NEW b \in Nat \ {0}, a < b PROVE a \div b = 0
<1> DEFINE q == a \div b
           r == a % b
<1>1. q \in Int /\ r \in 0 .. b - 1 /\ a = b * q + r
  OBVIOUS
<1> HIDE DEF r
<1>2. b * q < b /\ b * q > 0 - b
  BY <1>1
<1> HIDE DEF q
<1>3. q = 0
  BY <1>1, <1>2
<1> QED
  BY <1>3 DEF q

\* A Muxer's first call announces its chunk size, in a chunk that the size in force
\* before and the one it announces cut alike.
LEMMA AnnouncedIs ==
  ASSUME WithinLimits, IInv, sender = "mux", ~announced
  PROVE  LET A == Announcement(muxSize) IN
         /\ Emitted \in Seq(Items) /\ Sends(SenderNow, Emitted, Started(SenderNow, A, 0))
         /\ Started(SenderNow, A, 0) =
              [hdr |-> [headers EXCEPT ![Control.csid] = Cached(headers[Control.csid], A)],
               part |-> rest,
               size |-> size, queue |-> [queue EXCEPT ![Control.csid] = <<Content(A)>>]]
<1> DEFINE A == Announcement(muxSize)
           N == SenderNow
           c == Control.csid
<1>1. muxSize \in 1 .. SizeWrap - 1 /\ AnnounceLen <= muxSize /\ size = muxSize /\ rest[c] = None
      /\ headers[c] = None /\ queue[c] = <<>> /\ c \in Csid
  <2>1. muxSize \in AnnounceLen .. SizeWrap - 1 /\ AnnounceLen \in 1 .. MaxLen /\ c \in Csid
    BY LengthAssumption DEF WithinLimits, IInv, MuxInv, Csid
  <2>2. muxSize \in 1 .. SizeWrap - 1 /\ AnnounceLen <= muxSize
    BY <2>1, LengthAssumption, SizeAssumption
  <2> QED
    BY <2>1, <2>2 DEF IInv, MuxInv
<1>2. A \in Messages /\ A.csid = c /\ A.len = AnnounceLen /\ A.type = Control.type
      /\ A.value = muxSize /\ A.time = 0
  BY <1>1, AnnouncementFacts DEF Messages
<1>3. /\ Sound(N) /\ N.hdr = headers /\ N.part = rest /\ N.queue = queue /\ N.size = Default
      /\ rest \in [Csid -> Parts \cup {None}]
  BY SenderType DEF IInv
<1> HIDE DEF A, N, c
<1>4. ChooseFmt(headers[c], A) = 0
  BY <1>1 DEF ChooseFmt
<1>5. CanStart(N, A, 0)
  <2>1. AnnounceLen <= Default
    BY SizeAssumption
  <2> QED
    BY <1>1, <1>2, <1>3, <1>4, <2>1 DEF CanStart
<1>6. Min2(size, AnnounceLen) = AnnounceLen /\ Min2(Default, AnnounceLen) = AnnounceLen
  BY <1>1, LengthAssumption, SizeAssumption DEF Min2
<1> DEFINE x == Start(N, A, 0)
<1>7. x = FirstChunk(0, TimeField(0, headers[c], A), A, size)
  BY <1>2, <1>3, <1>6 DEF Start, FirstChunk
<1>8. Sends(N, x, Started(N, A, 0))
  BY <1>2, <1>5 DEF Sends
<1>9. x \in Seq(Items)
  BY <1>3, <1>8, SendsSound
<1>10. Emitted = x
  <2>1. Emitted = Encoded(headers[c], A, size)
    BY <1>1 DEF Emitted, A
  <2>2. (IF A.len = 0 THEN 0 ELSE (A.len - 1) \div size) = 0
    <3>1. AnnounceLen - 1 \in Nat /\ size \in Nat \ {0} /\ AnnounceLen - 1 < size
      BY <1>1, LengthAssumption, SizeAssumption
    <3>2. (AnnounceLen - 1) \div size = 0
      BY <3>1, SmallQuotient
    <3> QED
      BY <1>2, <3>2
  <2>3. Encoded(headers[c], A, size) =
          FirstChunk(0, TimeField(0, headers[c], A), A, size)
            \o FlattenSeq([k \in 1 .. 0 |-> NextChunk(TimeField(0, headers[c], A), A, k * size,
                                                      size)])
    BY <1>4, <2>2 DEF Encoded
  <2>4. FlattenSeq([k \in 1 .. 0 |-> NextChunk(TimeField(0, headers[c], A), A, k * size,
                                               size)])
          = <<>>
    <3>1. [k \in 1 .. 0 |-> NextChunk(TimeField(0, headers[c], A), A, k * size, size)] = <<>>
      OBVIOUS
    <3> QED
      BY <3>1, FlattenEmpty
  <2>5. Emitted = x \o <<>>
    BY <1>7, <2>1, <2>3, <2>4
  <2> HIDE DEF x
  <2> QED
    BY <1>9, <2>5
<1>11. Started(N, A, 0) =
         [hdr |-> [headers EXCEPT ![c] = Cached(headers[c], A)], part |-> rest,
          size |-> size, queue |-> [queue EXCEPT ![c] = <<Content(A)>>]]
  <2>1. [rest EXCEPT ![c] = None] = rest
    BY <1>1, <1>3
  <2>2. A.len <= Default
    BY <1>2, SizeAssumption
  <2>3. Append(<<>>, Content(A)) = <<Content(A)>>
    OBVIOUS
  <2> QED
    BY <1>1, <1>2, <1>3, <1>4, <2>1, <2>2, <2>3 DEF Started, Cached
<1> QED
  BY <1>8, <1>9, <1>10, <1>11 DEF A, N, c

\* A Muxer's call keeps the invariant: it sends the announcement, if it has not
\* yet, and the whole message (encode_message).
LEMMA MuxMessageIs ==
  ASSUME WithinLimits, IInv, NEW m \in Calls, MuxMessage(m)
  PROVE  IInv'
<1> DEFINE A == Announcement(muxSize)
           N == SenderNow
           c == m.csid
           first == [headers EXCEPT ![Control.csid] = IF announced THEN headers[Control.csid]
                                                      ELSE Cached(headers[Control.csid], A)]
           asked == [queue EXCEPT ![Control.csid] = IF announced THEN queue[Control.csid]
                                                    ELSE <<Content(A)>>]
           Z == [hdr |-> first, part |-> rest, size |-> size, queue |-> asked]
           s == buf \o wire
           e == Encoded(Z.hdr[c], m, Z.size)
<1>1. /\ sender = "mux" /\ sender' = sender /\ muxSize' = muxSize /\ size' = size /\ rest' = rest
      /\ announced' = TRUE /\ UNCHANGED decoderVars
      /\ wire' = (wire \o Emitted) \o Encoded(headers[c], m, size)
      /\ headers' = [first EXCEPT ![c] = Cached(first[c], m)]
      /\ queue' = [asked EXCEPT ![c] = Append(asked[c], Content(m))]
  BY DEF MuxMessage
<1>2. c # Control.csid /\ m.type # Control.type /\ m \in Messages /\ c \in Csid
      /\ Control.csid \in Csid
  BY ControlAssumption DEF Messages, Csid
<1>3. /\ Sound(N) /\ N.hdr = headers /\ N.part = rest /\ N.queue = queue
      /\ N.size = (IF sender = "mux" /\ ~announced THEN Default ELSE size)
      /\ headers \in [Csid -> Header \cup {None}] /\ queue \in [Csid -> Seq(Contents)]
  BY SenderType DEF IInv
<1>4. s \in Seq(Items) /\ buf \in Seq(Items) /\ wire \in Seq(Items)
  BY DEF IInv, LinkType
<1>5. PICK L : Caught(L, streams, decSize) /\ Leads(L, s, N)
  BY DEF IInv, InTransit
<1>6. first[c] = headers[c] /\ Z.hdr[c] = headers[c] /\ Z.part = rest /\ Z.size = size
      /\ Z.hdr = first /\ Z.queue = asked
  BY <1>2, <1>3
<1>7. Emitted \in Seq(Items) /\ Leads(L, s \o Emitted, Z)
  <2>1. CASE announced
    <3>1. Emitted = <<>>
      BY <2>1 DEF Emitted
    <3>2. first = headers /\ asked = queue
      BY <1>2, <1>3, <2>1
    <3>3. Z = N
      BY <2>1, <3>2 DEF SenderNow
    <3>4. s \o <<>> = s
      <4> HIDE DEF s
      <4> QED
        BY <1>4
    <3>5. <<>> \in Seq(Items)
      OBVIOUS
    <3> HIDE DEF s, Z
    <3> QED
      BY <1>5, <3>1, <3>3, <3>4, <3>5
  <2>2. CASE ~announced
    <3>1. /\ Emitted \in Seq(Items) /\ Sends(N, Emitted, Started(N, A, 0))
          /\ Started(N, A, 0) =
               [hdr |-> [headers EXCEPT ![Control.csid] = Cached(headers[Control.csid], A)],
                part |-> rest,
                size |-> size, queue |-> [queue EXCEPT ![Control.csid] = <<Content(A)>>]]
      BY <1>1, <2>2, AnnouncedIs
    <3>2. Started(N, A, 0) = Z
      BY <2>2, <3>1
    <3> HIDE DEF N, s, Z
    <3>3. Sends(N, Emitted, Z) /\ Sound(Z)
      BY <1>3, <3>1, <3>2, SendsSound
    <3>4. Leads(L, s \o Emitted, Z)
      BY <1>5, <3>1, <3>3, LeadsOn
    <3> QED
      BY <3>1, <3>4
  <2> QED
    BY <2>1, <2>2
<1>8. Z.part[c] = None
  BY <1>1, <1>2 DEF IInv, MuxInv
<1> DEFINE Y == [hdr |-> [Z.hdr EXCEPT ![c] = Cached(Z.hdr[c], m)], part |-> Z.part,
                 size |-> Z.size,
                 queue |-> [Z.queue EXCEPT ![c] = Append(Z.queue[c], Content(m))]]
           S == s \o Emitted
<1>9. e \in Seq(Items) /\ Leads(L, S \o e, Y)
  <2>1. S \in Seq(Items)
    <3> HIDE DEF s
    <3> QED
      BY <1>4, <1>7
  <2>2. Leads(L, S, Z)
    BY <1>7
  <2>3. WithinLimits /\ m \in Messages /\ m.type # Control.type /\ Z.part[m.csid] = None
    BY <1>2, <1>8
  <2> HIDE DEF S, Z
  <2> QED
    BY ONLY <2>1, <2>2, <2>3, EncodedLeads
<1>10. SenderNow' = Y
  <2>1. SenderNow' = [hdr |-> headers', part |-> rest', size |-> size', queue |-> queue']
    BY <1>1 DEF SenderNow
  <2> HIDE DEF first, asked
  <2> QED
    BY <1>1, <2>1
<1>11. wire' = (wire \o Emitted) \o e /\ wire' \in Seq(Items)
  <2>1. wire' = (wire \o Emitted) \o e
    BY <1>1, <1>6
  <2> HIDE DEF e
  <2> QED
    BY <1>4, <1>7, <1>9, <2>1
<1>12. buf' \o wire' = S \o e
  <2> HIDE DEF e
  <2>1. buf' \o wire' = buf \o ((wire \o Emitted) \o e)
    BY <1>1, <1>11 DEF decoderVars
  <2>2. wire \o Emitted \in Seq(Items)
    BY <1>4, <1>7
  <2>3. buf \o ((wire \o Emitted) \o e) = (buf \o (wire \o Emitted)) \o e
    <3>1. buf \in Seq(Items) /\ wire \o Emitted \in Seq(Items) /\ e \in Seq(Items)
      BY <1>4, <1>9, <2>2
    <3> QED
      BY ONLY <3>1, ConcatAssociative
  <2>4. buf \o (wire \o Emitted) = (buf \o wire) \o Emitted
    BY <1>4, <1>7, ConcatAssociative
  <2> QED
    BY <2>1, <2>3, <2>4
<1>13. InTransit'
  <2>1. Caught(L, streams', decSize')
    BY <1>1, <1>5 DEF decoderVars
  <2>2. Leads(L, buf' \o wire', SenderNow')
    <3> HIDE DEF S, e, Y
    <3> QED
      BY <1>9, <1>10, <1>12
  <2> QED
    BY <2>1, <2>2 DEF InTransit
<1>14. LinkType' /\ MuxInv'
  BY <1>1, <1>11 DEF IInv, LinkType, MuxInv, decoderVars
<1> QED
  BY <1>13, <1>14 DEF IInv

\* What arrives is unread as it was before (push_bytes).
LEMMA PushBytesIs ==
  ASSUME WithinLimits, IInv, NEW n \in 1 .. Len(wire), PushBytes(n)
  PROVE  IInv'
<1>1. /\ buf' = buf \o SubSeq(wire, 1, n) /\ wire' = SubSeq(wire, n + 1, Len(wire))
      /\ UNCHANGED <<senderVars, decSize, streams, status, queue>>
  BY DEF PushBytes
<1>2. buf \in Seq(Items) /\ wire \in Seq(Items)
  BY DEF IInv, LinkType
<1> DEFINE l == SubSeq(wire, 1, n)
           r == SubSeq(wire, n + 1, Len(wire))
<1>3. l \in Seq(Items) /\ r \in Seq(Items)
  BY <1>2
<1>4. l \o r = wire
  <2>1. 1 \in 1 .. Len(wire) + 1 /\ n \in 1 - 1 .. Len(wire) /\ Len(wire) \in n .. Len(wire)
    BY <1>2
  <2>2. SubSeq(wire, 1, n) \o SubSeq(wire, n + 1, Len(wire)) = SubSeq(wire, 1, Len(wire))
    BY <1>2, <2>1, ConcatAdjacentSubSeq
  <2> QED
    BY <1>2, <2>2, SubSeqFull
<1> HIDE DEF l, r
<1>5. buf' \o wire' = buf \o wire /\ buf' \in Seq(Items) /\ wire' \in Seq(Items)
  <2>1. buf' = buf \o l /\ wire' = r
    BY <1>1 DEF l, r
  <2>2. (buf \o l) \o r = buf \o (l \o r)
    BY <1>2, <1>3, ConcatAssociative
  <2> QED
    BY <1>2, <1>3, <1>4, <2>1, <2>2
<1>6. SenderNow' = SenderNow
  BY <1>1 DEF SenderNow, senderVars
<1>7. InTransit'
  BY <1>1, <1>5, <1>6 DEF IInv, InTransit
<1>8. LinkType' /\ MuxInv'
  BY <1>1, <1>5 DEF IInv, LinkType, MuxInv, senderVars
<1> QED
  BY <1>7, <1>8 DEF IInv

\* A turn of the decoder's loop catches up with one more chunk, and returns its
\* message if that was the last of it (step_continuation, step_new_message).
LEMMA DecodeKeeps ==
  ASSUME WithinLimits, IInv, Decode
  PROVE  IInv' /\ [Channels!Next]_<<queue, returned>>
<1>1. PICK L : Caught(L, streams, decSize) /\ Leads(L, buf \o wire, SenderNow)
  BY DEF IInv, InTransit
<1>2. Ready /\ buf \in Seq(Items) /\ wire \in Seq(Items)
  BY DEF Decode, DecodeContinuation, DecodeNewMessage, IInv, LinkType
<1> DEFINE N == SenderNow
<1>3. /\ N \in States /\ N.queue = queue /\ queue \in [Csid -> Seq(Contents)]
  BY SenderType DEF IInv
<1>4. /\ status' = status /\ UNCHANGED senderVars /\ wire' = wire /\ buf' \in Seq(Items)
      /\ \E M : /\ Caught(M, streams', decSize')
                /\ \/ /\ Leads(M, buf' \o wire', N)
                      /\ returned' = None /\ queue' = queue
                   \/ \E c \in Csid :
                        /\ Leads(M, buf' \o wire', Popped(N, c)) /\ N.queue[c] # <<>>
                        /\ returned' = Head(N.queue[c])
                        /\ queue' = [queue EXCEPT ![c] = SubSeq(@, 2, Len(@))]
  BY <1>1, <1>2, DecodeIs
<1>5. PICK M : /\ Caught(M, streams', decSize')
               /\ \/ /\ Leads(M, buf' \o wire', N)
                     /\ returned' = None /\ queue' = queue
                  \/ \E c \in Csid :
                       /\ Leads(M, buf' \o wire', Popped(N, c)) /\ N.queue[c] # <<>>
                       /\ returned' = Head(N.queue[c])
                       /\ queue' = [queue EXCEPT ![c] = SubSeq(@, 2, Len(@))]
  BY <1>4
<1>6. LinkType' /\ wire' \in Seq(Items)
  BY <1>2, <1>4 DEF IInv, LinkType, senderVars
<1>7. N' = [hdr |-> N.hdr, part |-> N.part, size |-> N.size, queue |-> queue']
  BY <1>4 DEF SenderNow, senderVars
<1>8. CASE Leads(M, buf' \o wire', N) /\ returned' = None /\ queue' = queue
  <2>1. N' = N
    BY <1>4, <1>8 DEF SenderNow, senderVars
  <2>2. InTransit'
    BY <1>5, <1>8, <2>1 DEF InTransit
  <2>3. MuxInv'
    BY <1>4, <1>8 DEF IInv, MuxInv, senderVars
  <2>4. Channels!Send
    <3>1. DOMAIN queue' = Csid /\ \A c \in Csid : queue[c] \in Seq(Contents)
          /\ queue'[c] = queue[c]
      BY <1>3, <1>8
    <3>2. \A c \in Csid : IsPrefix(queue[c], queue'[c])
      BY <3>1 DEF IsPrefix
    <3> QED
      BY <1>8, <3>1, <3>2 DEF Channels!Send, Channels!IsPrefix, IsPrefix
  <2> QED
    BY <1>6, <2>2, <2>3, <2>4 DEF IInv, Channels!Next
<1>9. CASE \E c \in Csid : /\ Leads(M, buf' \o wire', Popped(N, c)) /\ N.queue[c] # <<>>
                           /\ returned' = Head(N.queue[c])
                           /\ queue' = [queue EXCEPT ![c] = SubSeq(@, 2, Len(@))]
  <2>1. PICK c \in Csid : /\ Leads(M, buf' \o wire', Popped(N, c)) /\ N.queue[c] # <<>>
                          /\ returned' = Head(N.queue[c])
                          /\ queue' = [queue EXCEPT ![c] = SubSeq(@, 2, Len(@))]
    BY <1>9
  <2>2. queue[c] \in Seq(Contents) /\ queue[c] # <<>> /\ returned' = Head(queue[c])
    BY <1>3, <2>1
  <2>3. SubSeq(queue[c], 2, Len(queue[c])) = Tail(queue[c])
    BY <2>2
  <2>4. queue' = [queue EXCEPT ![c] = Tail(queue[c])]
    BY <2>1, <2>3
  <2>5. N' = Popped(N, c)
    <3>1. N = [hdr |-> N.hdr, part |-> N.part, size |-> N.size, queue |-> N.queue]
      BY DEF SenderNow
    <3> HIDE DEF N
    <3> DEFINE q == [N.queue EXCEPT ![c] = Tail(N.queue[c])]
    <3>2. Popped(N, c) = [N EXCEPT !.queue = q]
      BY DEF Popped
    <3> HIDE DEF q
    <3>3. Popped(N, c) = [hdr |-> N.hdr, part |-> N.part, size |-> N.size, queue |-> q]
      BY <3>1, <3>2
    <3>4. Popped(N, c) = [hdr |-> N.hdr, part |-> N.part, size |-> N.size,
                          queue |-> [N.queue EXCEPT ![c] = Tail(N.queue[c])]]
      BY <3>3 DEF q
    <3> QED
      BY <1>3, <1>7, <2>4, <3>4
  <2>6. InTransit'
    <3>1. Leads(M, buf' \o wire', N')
      BY <2>1, <2>5
    <3> QED
      BY <1>5, <3>1 DEF InTransit
  <2>7. MuxInv'
    <3>1. ASSUME sender = "mux", ~announced, queue[Control.csid] = <<>>
          PROVE  queue'[Control.csid] = <<>>
      <4>1. c # Control.csid
        BY <2>2, <3>1
      <4> QED
        BY <1>3, <2>4, <3>1, <4>1 DEF Csid
    <3> QED
      BY <1>4, <3>1 DEF IInv, MuxInv, senderVars
  <2>8. Channels!Deliver(c)
    BY <2>2, <2>4 DEF Channels!Deliver
  <2> QED
    BY <1>6, <2>6, <2>7, <2>8 DEF IInv, Channels!Next
<1> QED
  BY <1>5, <1>8, <1>9

\* A message added at the end of its queue leaves all queues longer or as they were.
LEMMA QueueGrows ==
  ASSUME NEW q \in [Csid -> Seq(Contents)], NEW c \in Csid, NEW x \in Contents, NEW d \in Csid
  PROVE  IsPrefix(q[d], [q EXCEPT ![c] = Append(q[c], x)][d])
<1> DEFINE t == [q EXCEPT ![c] = Append(q[c], x)][d]
<1>1. CASE d = c
  <2>1. t = Append(q[d], x) /\ q[d] \in Seq(Contents)
    BY <1>1
  <2> HIDE DEF t
  <2>2. Len(q[d]) <= Len(t) /\ SubSeq(t, 1, Len(q[d])) = q[d] /\ SubSeq(q[d], 1, Len(q[d])) = q[d]
    BY <2>1
  <2>3. IsPrefix(q[d], t)
    BY <2>2 DEF IsPrefix
  <2> QED
    BY <2>3 DEF t
<1>2. CASE d # c
  <2>1. t = q[d]
    BY <1>2
  <2> QED
    BY <2>1 DEF IsPrefix
<1> QED
  BY <1>1, <1>2

\* A Muxer's call appends to the queues of the control stream and of its message's.
LEMMA SendsAnnounced ==
  ASSUME WithinLimits, IInv, NEW m \in Calls, MuxMessage(m)
  PROVE  Channels!Send
<1> DEFINE x == Content(Announcement(muxSize))
           asked == [queue EXCEPT ![Control.csid] = IF announced THEN queue[Control.csid]
                                                    ELSE <<x>>]
<1>1. queue \in [Csid -> Seq(Contents)] /\ m.csid \in Csid /\ Control.csid \in Csid
      /\ m.csid # Control.csid
  BY SenderType, ControlAssumption DEF IInv, Csid
<1>2. Content(m) \in Contents
  BY DEF Contents, Messages
<1>3. sender = "mux" /\ queue' = [asked EXCEPT ![m.csid] = Append(asked[m.csid], Content(m))]
      /\ returned' = None
  BY DEF MuxMessage
<1>4. ~announced => queue[Control.csid] = <<>>
  BY <1>3 DEF IInv, MuxInv
<1>5. ASSUME NEW d \in Csid PROVE IsPrefix(queue[d], queue'[d])
  <2>1. CASE d = m.csid
    <3>1. queue'[d] = Append(queue[d], Content(m))
      BY <1>1, <1>3, <2>1
    <3>2. queue[d] \in Seq(Contents) /\ Len(queue[d]) <= Len(Append(queue[d], Content(m)))
          /\ SubSeq(Append(queue[d], Content(m)), 1, Len(queue[d])) = queue[d]
          /\ SubSeq(queue[d], 1, Len(queue[d])) = queue[d]
      BY <1>1, <1>2
    <3> QED
      BY <3>1, <3>2 DEF IsPrefix
  <2>2. CASE d = Control.csid /\ ~announced
    <3>1. queue[d] = <<>> /\ queue'[d] = <<x>>
      BY <1>1, <1>3, <1>4, <2>2
    <3>2. Len(<<>>) <= Len(<<x>>) /\ SubSeq(<<x>>, 1, 0) = <<>> /\ SubSeq(<<>>, 1, 0) = <<>>
          /\ Len(<<>>) = 0
      OBVIOUS
    <3> QED
      BY <3>1, <3>2 DEF IsPrefix
  <2>3. CASE d # m.csid /\ ~(d = Control.csid /\ ~announced)
    <3>1. queue'[d] = queue[d]
      BY <1>1, <1>3, <2>3
    <3>2. queue[d] \in Seq(Contents)
      BY <1>1
    <3> QED
      BY <3>1, <3>2 DEF IsPrefix
  <2> QED
    BY <2>1, <2>2, <2>3
<1>6. DOMAIN queue' = Csid
  BY <1>1, <1>3
<1> QED
  BY <1>3, <1>5, <1>6 DEF Channels!Send, Channels!IsPrefix, IsPrefix

\* Every step keeps the invariant, and is a step of ordered message channels.
LEMMA LinkStep ==
  ASSUME WithinLimits, IInv, [Next]_vars
  PROVE  IInv' /\ [Channels!Next]_<<queue, returned>>
<1>0. queue \in [Csid -> Seq(Contents)]
  BY SenderType DEF IInv
<1>1. ASSUME NEW m \in Calls, MuxMessage(m) PROVE IInv' /\ [Channels!Next]_<<queue, returned>>
  BY <1>1, MuxMessageIs, SendsAnnounced DEF Channels!Next
<1>2. ASSUME NEW m \in Messages, NEW fmt \in 0 .. 3, PeerStarts(m, fmt) PROVE Channels!Send
  <2>1. queue' = [queue EXCEPT ![m.csid] = Append(queue[m.csid], Content(m))] /\ returned' = None
    BY <1>2 DEF PeerStarts
  <2>2. m.csid \in Csid /\ Content(m) \in Contents
    BY MessageFacts DEF Contents
  <2>3. \A d \in Csid : IsPrefix(queue[d], queue'[d])
    BY <1>0, <2>1, <2>2, QueueGrows
  <2>4. DOMAIN queue' = Csid
    BY <1>0, <2>1
  <2> QED
    BY <2>1, <2>3, <2>4 DEF Channels!Send, Channels!IsPrefix, IsPrefix
<1>3. ASSUME NEW m \in Calls, NEW fmt \in 0 .. 3, PeerMessage(m, fmt)
      PROVE  IInv' /\ [Channels!Next]_<<queue, returned>>
  <2>1. m \in Messages /\ m.type # Control.type /\ PeerStarts(m, fmt) /\ size' = size
    BY <1>3, ControlAssumption DEF Messages, PeerMessage
  <2>2. IInv'
    BY <2>1, PeerStartsIs
  <2> QED
    BY <1>2, <2>1, <2>2 DEF Channels!Next
<1>4. ASSUME NEW v \in PeerSizes, NEW fmt \in 0 .. 3, PeerSetsChunkSize(v, fmt)
      PROVE  IInv' /\ [Channels!Next]_<<queue, returned>>
  <2> DEFINE A == Announcement(v)
  <2>1. A \in Messages /\ A.type = Control.type /\ A.value = v
    BY SizeAssumption, AnnouncementFacts DEF Messages
  <2>2. AnnounceLen <= size /\ PeerStarts(A, fmt) /\ size' = v
    BY <1>4 DEF PeerSetsChunkSize
  <2> HIDE DEF A
  <2>3. IInv'
    BY <2>1, <2>2, PeerStartsIs
  <2> QED
    BY <1>2, <2>1, <2>2, <2>3 DEF Channels!Next
<1>5. ASSUME UNCHANGED queue, returned' = None PROVE Channels!Send
  <2>1. \A c \in Csid : queue[c] \in Seq(Contents) /\ queue'[c] = queue[c]
    BY <1>0, <1>5
  <2>2. DOMAIN queue' = Csid /\ \A c \in Csid : IsPrefix(queue[c], queue'[c])
    BY <1>0, <1>5, <2>1 DEF IsPrefix
  <2> QED
    BY <1>5, <2>2 DEF Channels!Send, Channels!IsPrefix, IsPrefix
<1>6. ASSUME NEW c \in Csid, PeerContinues(c) PROVE IInv' /\ [Channels!Next]_<<queue, returned>>
  <2>1. UNCHANGED queue /\ returned' = None
    BY <1>6 DEF PeerContinues
  <2> QED
    BY <1>5, <1>6, <2>1, PeerContinuesIs DEF Channels!Next
<1>7. ASSUME NEW n \in 1 .. Len(wire), PushBytes(n)
      PROVE  IInv' /\ [Channels!Next]_<<queue, returned>>
  <2>1. UNCHANGED queue /\ returned' = None
    BY <1>7 DEF PushBytes
  <2> QED
    BY <1>5, <1>7, <2>1, PushBytesIs DEF Channels!Next
<1>8. CASE UNCHANGED vars
  <2>1. SenderNow' = SenderNow
    BY <1>8 DEF vars, senderVars, SenderNow
  <2>2. IInv'
    BY <1>8, <2>1 DEF IInv, LinkType, MuxInv, InTransit, vars, senderVars, decoderVars
  <2> QED
    BY <1>8, <2>2 DEF vars
<1> QED
  BY <1>1, <1>3, <1>4, <1>6, <1>7, <1>8, DecodeKeeps DEF Next

-----------------------------------------------------------------------------
(* Theorems.                                                                 *)

\* The unread items are always chunks that take a sender the decoder has caught up
\* with, step by step, to the sender as it is now: the two header caches and the two
\* chunk sizes differ by what is unread, and by nothing else.
THEOREM Invariance == ASSUME WithinLimits PROVE Spec => []IInv
<1>1. Init => IInv
  BY InitLink
<1>2. IInv /\ [Next]_vars => IInv'
  BY LinkStep
<1> QED
  BY <1>1, <1>2, PTL DEF Spec

\* Every field has its type: above all, no more of a message is ever held than it
\* has (step_continuation).
THEOREM TypeCorrect == ASSUME WithinLimits PROVE Spec => []TypeOK
<1>1. ASSUME IInv PROVE TypeOK
  <2>1. /\ Sound(SenderNow) /\ SenderNow.part = rest /\ headers \in [Csid -> Header \cup {None}]
    BY <1>1, SenderType DEF IInv
  <2>2. \A c \in Csid : rest[c] # None => rest[c].at \in 1 .. rest[c].m.len - 1
    BY <2>1 DEF Sound, PartSound
  <2>3. decSize \in Nat \ {0} /\ \A c \in Csid : Len(streams[c].received) \in 0 .. MaxLen
    BY <1>1, DecoderType DEF IInv
  <2> QED
    BY <1>1, <2>1, <2>2, <2>3 DEF IInv, LinkType, TypeOK
<1>2. IInv => TypeOK
  BY <1>1
<1> QED
  BY <1>2, Invariance, PTL

\* poll_message never fails, and never takes one part of a chunk for another,
\* however the bytes are cut up on arrival and however messages interleave.
THEOREM StaysInStep == ASSUME WithinLimits PROVE Spec => []InStep
<1>1. IInv => InStep
  BY DEF IInv, LinkType, InStep
<1> QED
  BY <1>1, Invariance, PTL

\* encode_message, push_bytes and poll_message make ordered message channels: what
\* poll_message returns on a chunk stream is what was sent on it, each message
\* whole, once, unchanged and in its order.
THEOREM Refinement == ASSUME WithinLimits PROVE Spec => RefinesChannels
<1>1. Init => Channels!Init
  BY DEF Init, Channels!Init
<1>2. IInv /\ [Next]_vars => [Channels!Next]_<<queue, returned>>
  BY LinkStep
<1> QED
  BY <1>1, <1>2, Invariance, PTL DEF Spec, RefinesChannels, Channels!Spec
=============================================================================
