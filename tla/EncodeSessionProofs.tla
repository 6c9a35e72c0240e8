------------------------- MODULE EncodeSessionProofs -------------------------
(* Theorems about EncodeSession: any fragment length, any point at which the *)
(* muxer drops its output, any number of frames, gaps and encoder errors.    *)
EXTENDS EncodeSession, SequenceLemmas

-----------------------------------------------------------------------------
(* What the muxer is made of.                                                *)

Row == [duration : Nat, size : Nat, key : BOOLEAN]
Box == [type : {"moov"}, len : Nat]
         \cup [type : {"moof"}, len : Nat, track : Track, base : Nat, rows : Seq(Row)]
         \cup [type : {"mdat"}, len : Nat]
         \cup [type : {"payload"}, track : Track, n : Nat]
Byte == [box : Box, at : Nat]

Muxer ==
  [tracks : {TrackList}, configured : SUBSET Tracks, header : (SUBSET Track) \cup {None},
   pending : [Tracks -> Seq(Packet)], output : Seq(Byte), consumed : Nat, drained : Nat,
   placements : SUBSET [packet : Packet, offset : Nat]]

\* What has left muxer m, and what it has yet to return.
Whole(m, polled) == polled \o Unread(m)

PlacedIn(stream, p) ==
  /\ p.offset + p.packet.size <= Len(stream)
  /\ SubSeq(stream, p.offset + 1, p.offset + p.packet.size) = Payload(p.packet)

\* Muxer m, from which the bytes "polled" were read so far, knows where its
\* output begins in the stream, and its placements lie within the stream.
Sound(m, polled) ==
  /\ m \in Muxer /\ polled \in Seq(Byte)
  /\ m.consumed <= Len(m.output) /\ m.drained + m.consumed = Len(polled)
  /\ \A p \in m.placements : PlacedIn(Whole(m, polled), p)

-----------------------------------------------------------------------------
(* Bytes and where they are.                                                 *)

\* The session's tracks are among the two, video first, and the list has each
\* of them.
LEMMA TracksKnown ==
  ASSUME reports \in Reporting
  PROVE  /\ Tracks \subseteq Track /\ Video \in Tracks
         /\ TrackList \in Seq(Tracks) /\ ToSet(TrackList) = Tracks
         /\ Len(TrackList) \in Nat
<1>1. reports \in [Track -> {"open", "late", "inband", None}] /\ reports[Video] # None
  BY SessionAssumption
<1>2. Tracks \subseteq Track /\ Video \in Tracks
  BY <1>1 DEF Tracks, Track
<1>3. CASE Audio \in Tracks
  <2>1. Tracks = {Video, Audio}
    BY <1>2, <1>3 DEF Track
  <2> QED
    BY <1>2, <1>3, <2>1 DEF TrackList, ToSet
<1>4. CASE Audio \notin Tracks
  <2>1. Tracks = {Video}
    BY <1>2, <1>4 DEF Track
  <2> QED
    BY <1>2, <1>4, <2>1 DEF TrackList, ToSet
<1> QED
  BY <1>3, <1>4

\* A box of len elements, numbered from its beginning, is a sequence of len
\* bytes.
LEMMA BytesTyped ==
  ASSUME NEW box \in Box, NEW len \in Nat
  PROVE  Bytes(box, len) \in Seq(Byte) /\ Len(Bytes(box, len)) = len
BY DEF Bytes, Byte

\* A packet's payload is as long as its size.
LEMMA PayloadTyped ==
  ASSUME NEW p \in Packet
  PROVE  Payload(p) \in Seq(Byte) /\ Len(Payload(p)) = p.size /\ p.size \in Nat
<1>1. [type |-> "payload", track |-> p.track, n |-> p.n] \in Box /\ p.size \in Nat
  BY DEF Packet, Box
<1> QED
  BY <1>1, BytesTyped DEF Payload

\* Joining bytes is associative (stated over quantified variables, for Zenon).
LEMMA BytesAssociate ==
  \A x, y, z \in Seq(Byte) : (x \o y) \o z = x \o (y \o z)
BY ConcatAssociative

\* What is appended to a sequence leaves the parts it had.
LEMMA PartKept ==
  ASSUME NEW S, NEW s \in Seq(S), NEW u \in Seq(S), NEW a \in Nat, NEW b \in Nat, b <= Len(s)
  PROVE  SubSeq(s \o u, a + 1, b) = SubSeq(s, a + 1, b)
<1>1. Len(s) \in Nat /\ Len(u) \in Nat /\ s \o u \in Seq(S) /\ Len(s \o u) = Len(s) + Len(u)
  OBVIOUS
<1>2. \A k \in 1 .. Len(s) : (s \o u)[k] = s[k]
  OBVIOUS
<1>3. CASE a + 1 <= b
  BY <1>1, <1>2, <1>3
<1>4. CASE ~(a + 1 <= b)
  BY <1>1, <1>4
<1> QED
  BY <1>3, <1>4

\* The first part of a sequence, alone, is its first element.
LEMMA FirstPart ==
  ASSUME NEW S, NEW s \in Seq(S), s # <<>>
  PROVE  SubSeq(s, 1, 1) = <<s[1]>>
<1>1. Len(s) \in Nat /\ 1 <= Len(s)
  OBVIOUS
<1>2. SubSeq(s, 1, 1) \in Seq(S) /\ Len(SubSeq(s, 1, 1)) = 1 /\ SubSeq(s, 1, 1)[1] = s[1]
  BY <1>1
<1>3. <<s[1]>> \in Seq(S) /\ Len(<<s[1]>>) = 1 /\ <<s[1]>>[1] = s[1]
  BY <1>1
<1> DEFINE part == SubSeq(s, 1, 1)
           one == <<s[1]>>
<1>4. \A i \in 1 .. Len(part) : part[i] = one[i]
  BY <1>2, <1>3
<1> HIDE DEF part, one
<1>5. part = one
  BY <1>2, <1>3, <1>4, SeqEqual DEF part, one
<1> QED
  BY <1>5 DEF part, one

\* Where the elements of a concatenation come from.
LEMMA JoinParts ==
  ASSUME NEW S, NEW x \in Seq(S), NEW y \in Seq(S)
  PROVE  /\ x \o y \in Seq(S) /\ Len(x \o y) = Len(x) + Len(y)
         /\ \A k \in 1 .. Len(x) : (x \o y)[k] = x[k]
         /\ \A k \in 1 .. Len(y) : (x \o y)[Len(x) + k] = y[k]
OBVIOUS

\* What is written after an unread rest is read after it.
LEMMA RestGrows ==
  ASSUME NEW S, NEW s \in Seq(S), NEW u \in Seq(S), NEW c \in 0 .. Len(s)
  PROVE  /\ SubSeq(s, c + 1, Len(s)) \in Seq(S)
         /\ SubSeq(s \o u, c + 1, Len(s \o u)) = SubSeq(s, c + 1, Len(s)) \o u
<1> DEFINE w == s \o u
           first == SubSeq(s, c + 1, Len(s))
           left == SubSeq(w, c + 1, Len(w))
           right == first \o u
           n == Len(s) + Len(u) - c
<1>1. /\ w \in Seq(S) /\ Len(w) = Len(s) + Len(u) /\ Len(s) \in Nat /\ Len(u) \in Nat
      /\ \A k \in 1 .. Len(s) : w[k] = s[k]
      /\ \A k \in 1 .. Len(u) : w[Len(s) + k] = u[k]
  OBVIOUS
<1>2. /\ first \in Seq(S) /\ Len(first) = Len(s) - c
      /\ \A k \in 1 .. Len(s) - c : first[k] = s[c + k]
  OBVIOUS
<1> HIDE DEF w, first
<1>3. left \in Seq(S) /\ Len(left) = n /\ \A k \in 1 .. n : left[k] = w[c + k]
  BY <1>1
<1>4. /\ right \in Seq(S) /\ Len(right) = n
      /\ \A k \in 1 .. Len(s) - c : right[k] = first[k]
      /\ \A k \in 1 .. Len(u) : right[(Len(s) - c) + k] = u[k]
  <2>1. /\ right \in Seq(S) /\ Len(right) = Len(first) + Len(u)
        /\ \A k \in 1 .. Len(first) : right[k] = first[k]
        /\ \A k \in 1 .. Len(u) : right[Len(first) + k] = u[k]
    <3>1. first \in Seq(S)
      BY <1>2
    <3> QED
      BY <3>1, JoinParts
  <2> HIDE DEF right
  <2> QED
    BY <2>1, <1>1, <1>2
<1> HIDE DEF left, right
<1>5. \A k \in 1 .. n : left[k] = right[k]
  <2> TAKE k \in 1 .. n
  <2>1. CASE k <= Len(s) - c
    BY <2>1, <1>1, <1>2, <1>3, <1>4
  <2>2. CASE ~(k <= Len(s) - c)
    <3>1. k - (Len(s) - c) \in 1 .. Len(u)
      BY <2>2, <1>1
    <3>2. (Len(s) - c) + (k - (Len(s) - c)) = k /\ Len(s) + (k - (Len(s) - c)) = c + k
      BY <1>1
    <3>3. right[k] = u[k - (Len(s) - c)]
      BY <3>1, <3>2, <1>4
    <3>4. w[c + k] = u[k - (Len(s) - c)]
      BY <3>1, <3>2, <1>1
    <3> QED
      BY <3>3, <3>4, <1>3
  <2> QED
    BY <2>1, <2>2
<1>6. left = right
  BY <1>3, <1>4, <1>5, SeqEqual
<1> QED
  BY <1>2, <1>6 DEF left, right, first, w

\* The first element stays first when one is appended.
LEMMA AppendParts ==
  ASSUME NEW S, NEW s \in Seq(S), NEW x \in S
  PROVE  /\ Len(Append(s, x)) = Len(s) + 1 /\ Append(s, x) # <<>> /\ Len(s) \in Nat
         /\ Append(s, x)[1] = IF s = <<>> THEN x ELSE s[1]
<1>1. Len(Append(s, x)) = Len(s) + 1 /\ Len(s) \in Nat /\ Append(s, x) \in Seq(S)
  OBVIOUS
<1>2. Append(s, x) # <<>>
  BY <1>1, EmptySeq
<1>3. CASE s = <<>>
  BY <1>1, <1>2, <1>3
<1>4. CASE s # <<>>
  BY <1>1, <1>2, <1>4
<1> QED
  BY <1>3, <1>4

\* The middle one of three sequences.
LEMMA MiddlePart ==
  ASSUME NEW S, NEW x \in Seq(S), NEW y \in Seq(S), NEW z \in Seq(S)
  PROVE  SubSeq(x \o (y \o z), Len(x) + 1, Len(x) + Len(y)) = y
<1>1. Len(x) \in Nat /\ Len(y) \in Nat /\ Len(z) \in Nat
  OBVIOUS
<1>2. y \o z \in Seq(S) /\ Len(y \o z) = Len(y) + Len(z)
  OBVIOUS
<1>3. x \o (y \o z) \in Seq(S) /\ Len(x \o (y \o z)) = Len(x) + Len(y) + Len(z)
  BY <1>1, <1>2
<1>4. \A k \in 1 .. Len(y) : (x \o (y \o z))[Len(x) + k] = y[k]
  BY <1>1, <1>2
<1> DEFINE part == SubSeq(x \o (y \o z), Len(x) + 1, Len(x) + Len(y))
<1>5. part \in Seq(S) /\ Len(part) = Len(y)
  BY <1>1, <1>3
<1>6. \A k \in 1 .. Len(y) : part[k] = y[k]
  BY <1>1, <1>3, <1>4
<1> QED
  BY <1>5, <1>6

-----------------------------------------------------------------------------
(* A fragment.                                                               *)

Payloads(s) == [i \in DOMAIN s |-> Payload(s[i])]

\* The payloads of a batch, one for each packet.
LEMMA PayloadsTyped ==
  ASSUME NEW s \in Seq(Packet)
  PROVE  /\ Payloads(s) \in Seq(Seq(Byte)) /\ Len(Payloads(s)) = Len(s)
         /\ \A i \in 1 .. Len(s) : Payloads(s)[i] = Payload(s[i])
<1>1. \A i \in 1 .. Len(s) : Payload(s[i]) \in Seq(Byte)
  BY PayloadTyped
<1> QED
  BY <1>1 DEF Payloads

\* The size of a batch is the length of its payloads joined.
LEMMA SizesTyped ==
  ASSUME NEW s \in Seq(Packet)
  PROVE  SizeOf(s) \in Nat /\ SizeOf(s) = Len(FlattenSeq(Payloads(s)))
<1>1. \A i \in 1 .. Len(s) : Len(Payload(s[i])) = s[i].size /\ s[i].size \in Nat
  BY PayloadTyped
<1>2. [i \in DOMAIN s |-> s[i].size] \in Seq(Nat)
  BY <1>1
<1>3. DOMAIN Payloads(s) = DOMAIN s /\ \A i \in DOMAIN s : Payloads(s)[i] = Payload(s[i])
  BY DEF Payloads
<1>4. [i \in DOMAIN Payloads(s) |-> Len(Payloads(s)[i])] = [i \in DOMAIN s |-> s[i].size]
  BY <1>1, <1>3
<1>5. Len(FlattenSeq(Payloads(s))) = Total([i \in DOMAIN Payloads(s) |-> Len(Payloads(s)[i])])
  BY PayloadsTyped, FlattenLength
<1> QED
  BY <1>2, <1>4, <1>5, TotalType DEF SizeOf

\* However much precedes a fragment's payloads, the i-th of them begins as far
\* from their end as it and those after it are long.
LEMMA SamplePlaced ==
  ASSUME NEW before \in Seq(Byte), NEW s \in Seq(Packet), NEW i \in 1 .. Len(s)
  PROVE  LET all == before \o FlattenSeq(Payloads(s))
             rest == SizeOf(SubSeq(s, i, Len(s)))
         IN /\ rest \in Nat /\ s[i].size <= rest /\ rest <= Len(all)
            /\ SubSeq(all, Len(all) - rest + 1, Len(all) - rest + s[i].size) = Payload(s[i])
<1> DEFINE P == Payloads(s)
           n == Len(s)
           Q == SubSeq(P, i, n)
           A == FlattenSeq(SubSeq(P, 1, i - 1))
           C == FlattenSeq(SubSeq(Q, 2, Len(Q)))
           own == Payload(s[i])
           late == SubSeq(s, i, n)
           all == before \o FlattenSeq(P)
           rest == SizeOf(late)
<1>1. n \in Nat /\ i \in Nat /\ 1 <= i /\ i <= n /\ s[i] \in Packet
  OBVIOUS
<1>2. P \in Seq(Seq(Byte)) /\ Len(P) = n /\ \A k \in 1 .. n : P[k] = Payload(s[k])
  BY PayloadsTyped DEF Payloads
<1>3. own \in Seq(Byte) /\ Len(own) = s[i].size /\ s[i].size \in Nat
  BY <1>1, PayloadTyped
<1> HIDE DEF P
<1>4. /\ SubSeq(P, 1, i - 1) \in Seq(Seq(Byte)) /\ Q \in Seq(Seq(Byte))
      /\ FlattenSeq(P) = A \o FlattenSeq(Q)
  <2>1. i - 1 \in 0 .. Len(P) /\ (i - 1) + 1 = i
    BY <1>1, <1>2
  <2> QED
    BY <2>1, <1>2, FlattenSplit
<1>5. Len(Q) = n - i + 1 /\ Q[1] = own /\ \A k \in 1 .. n - i + 1 : Q[k] = P[i + k - 1]
  BY <1>1, <1>2
<1>6. SubSeq(Q, 2, Len(Q)) \in Seq(Seq(Byte)) /\ FlattenSeq(Q) = own \o C
  <2>1. 1 \in 0 .. Len(Q) /\ 1 + 1 = 2
    BY <1>1, <1>5
  <2>2. /\ SubSeq(Q, 2, Len(Q)) \in Seq(Seq(Byte))
        /\ FlattenSeq(Q) = FlattenSeq(SubSeq(Q, 1, 1)) \o C
    BY <2>1, <1>4, FlattenSplit
  <2>3. SubSeq(Q, 1, 1) = <<own>>
    <3> HIDE DEF Q
    <3>1. Q # <<>>
      BY <1>1, <1>4, <1>5
    <3>2. SubSeq(Q, 1, 1) = <<Q[1]>>
      BY <3>1, <1>4, FirstPart
    <3> QED
      BY <3>2, <1>5
  <2>4. FlattenSeq(<<own>>) = own
    BY <1>3, FlattenSingle
  <2> QED
    BY <2>2, <2>3, <2>4
<1>7. A \in Seq(Byte) /\ C \in Seq(Byte)
  BY <1>4, <1>6, FlattenType
<1>8. rest \in Nat /\ rest = Len(FlattenSeq(Q))
  <2>1. late \in Seq(Packet) /\ Len(late) = n - i + 1
        /\ \A k \in 1 .. n - i + 1 : late[k] = s[i + k - 1]
    BY <1>1
  <2>2. Payloads(late) \in Seq(Seq(Byte)) /\ Len(Payloads(late)) = n - i + 1
        /\ \A k \in 1 .. n - i + 1 : Payloads(late)[k] = Payload(late[k])
    BY <2>1, PayloadsTyped
  <2>3. \A k \in 1 .. n - i + 1 : Q[k] = Payloads(late)[k]
    <3> TAKE k \in 1 .. n - i + 1
    <3>1. i + k - 1 \in 1 .. n
      BY <1>1
    <3> QED
      BY <3>1, <2>1, <2>2, <1>2, <1>5
  <2>4. Q = Payloads(late)
    BY <2>2, <2>3, <1>4, <1>5, SeqEqual
  <2> QED
    BY <2>1, <2>4, SizesTyped
<1> HIDE DEF Q, A, C, own, rest
<1>9. all = (before \o A) \o (own \o C)
  <2> DEFINE u == own \o C
  <2>1. u \in Seq(Byte)
    BY <1>3, <1>7
  <2>2. all = before \o (A \o u)
    BY <1>4, <1>6
  <2> HIDE DEF u
  <2>3. (before \o A) \o u = before \o (A \o u)
    BY <2>1, <1>7, BytesAssociate, Zenon
  <2> QED
    BY <2>2, <2>3 DEF u
<1>10. before \o A \in Seq(Byte) /\ own \o C \in Seq(Byte) /\ Len(own \o C) = rest
       /\ Len(own) <= rest
  BY <1>3, <1>6, <1>7, <1>8
<1>11. Len(all) = Len(before \o A) + rest
  BY <1>9, <1>10
<1> HIDE DEF all
<1>12. SubSeq(all, Len(before \o A) + 1, Len(before \o A) + Len(own)) = own
  <2> DEFINE x == before \o A
  <2>1. x \in Seq(Byte)
    BY <1>10
  <2> HIDE DEF x
  <2>2. SubSeq(x \o (own \o C), Len(x) + 1, Len(x) + Len(own)) = own
    BY <2>1, <1>3, <1>7, MiddlePart
  <2> QED
    BY <2>2, <1>9 DEF x
<1>13. Len(all) - rest = Len(before \o A) /\ rest <= Len(all)
  BY <1>8, <1>10, <1>11
<1> QED
  BY <1>3, <1>8, <1>10, <1>12, <1>13 DEF all, own, rest, P

\* A fragment is well formed, and ends with the payloads of its samples.
LEMMA FragmentTyped ==
  ASSUME NEW t \in Track, NEW s \in Seq(Packet), s # <<>>
  PROVE  /\ Fragment(t, s) \in Seq(Byte)
         /\ \E head \in Seq(Byte) : Fragment(t, s) = head \o FlattenSeq(Payloads(s))
<1> DEFINE base == IF s[1].dts > 0 THEN s[1].dts ELSE 0
           row(i) == [duration |-> Duration(s, i), size |-> s[i].size, key |-> s[i].key]
           rows == [i \in DOMAIN s |-> row(i)]
           moof == [type |-> "moof", len |-> Moof, track |-> t, base |-> base, rows |-> rows]
           mdat == [type |-> "mdat", len |-> SizeOf(s) + 1]
<1>1. DOMAIN s = 1 .. Len(s) /\ Len(s) \in Nat /\ 1 \in 1 .. Len(s)
      /\ \A i \in 1 .. Len(s) : s[i] \in Packet
  OBVIOUS
<1>2. \A i \in 1 .. Len(s) : s[i].dts \in Nat /\ s[i].size \in Nat /\ s[i].key \in BOOLEAN
  BY <1>1 DEF Packet
<1>3. base \in Nat
  BY <1>1, <1>2
<1>4. \A i \in 1 .. Len(s) : Duration(s, i) \in Nat
  <2> TAKE i \in 1 .. Len(s)
  <2> DEFINE j == IF i < Len(s) THEN i ELSE i - 1
  <2>1. j = 0 \/ (j \in 1 .. Len(s) /\ j + 1 \in 1 .. Len(s))
    BY <1>1
  <2> HIDE DEF j
  <2>2. j # 0 => s[j + 1].dts - s[j].dts \in Int
    BY <1>2, <2>1
  <2>3. (IF j = 0 \/ s[j + 1].dts - s[j].dts < 1 THEN 1 ELSE s[j + 1].dts - s[j].dts) \in Nat
    BY <2>2
  <2> QED
    BY <2>3 DEF Duration, j
<1>5. \A i \in 1 .. Len(s) : row(i) \in Row
  BY <1>2, <1>4 DEF Row
<1>6. rows \in Seq(Row)
  BY <1>1, <1>5
<1>7. moof \in Box
  <2> HIDE DEF base, rows
  <2> QED
    BY <1>3, <1>6 DEF Box, Moof
<1>8. mdat \in Box
  <2>1. SizeOf(s) + 1 \in Nat
    BY SizesTyped
  <2> QED
    BY <2>1 DEF Box
<1> DEFINE head == Bytes(moof, Moof) \o Bytes(mdat, 1)
<1>9. Fragment(t, s) = head \o FlattenSeq(Payloads(s))
  BY DEF Fragment, Payloads
<1> HIDE DEF moof, mdat
<1>10. head \in Seq(Byte)
  <2>1. Bytes(moof, Moof) \in Seq(Byte)
    BY <1>7, BytesTyped DEF Moof
  <2>2. Bytes(mdat, 1) \in Seq(Byte)
    BY <1>8, BytesTyped
  <2> QED
    BY <2>1, <2>2
<1>11. FlattenSeq(Payloads(s)) \in Seq(Byte)
  BY PayloadsTyped, FlattenType
<1> HIDE DEF head
<1>12. Fragment(t, s) \in Seq(Byte)
  BY <1>9, <1>10, <1>11
<1> QED
  BY <1>9, <1>10, <1>12, Zenon

-----------------------------------------------------------------------------
(* The muxer keeps its placements true.                                      *)

\* The fields of a muxer, one by one.
LEMMA MuxerFields ==
  ASSUME NEW m \in Muxer
  PROVE  /\ m.tracks = TrackList /\ m.configured \in SUBSET Tracks
         /\ m.header \in (SUBSET Track) \cup {None} /\ m.pending \in [Tracks -> Seq(Packet)]
         /\ m.output \in Seq(Byte) /\ Len(m.output) \in Nat
         /\ m.consumed \in Nat /\ m.drained \in Nat
         /\ m.placements \in SUBSET [packet : Packet, offset : Nat]
BY DEF Muxer

\* The bytes the muxer still holds and has not handed out.
LEMMA UnreadTyped ==
  ASSUME NEW m \in Muxer, m.consumed <= Len(m.output)
  PROVE  Unread(m) \in Seq(Byte) /\ Len(Unread(m)) = Len(m.output) - m.consumed
<1>1. m.output \in Seq(Byte) /\ Len(m.output) \in Nat /\ m.consumed \in Nat
  BY MuxerFields
<1> DEFINE o == m.output
           c == m.consumed
<1>2. o \in Seq(Byte) /\ c \in 0 .. Len(o) /\ Len(o) \in Nat
  BY <1>1
<1> HIDE DEF o, c
<1>3. SubSeq(o, c + 1, Len(o)) \in Seq(Byte) /\ Len(SubSeq(o, c + 1, Len(o))) = Len(o) - c
  BY <1>2
<1> QED
  BY <1>3 DEF Unread, o, c

\* The stream of a sound muxer is as long as what it wrote since it began.
LEMMA WholeTyped ==
  ASSUME NEW m, NEW polled, Sound(m, polled)
  PROVE  Whole(m, polled) \in Seq(Byte) /\ Len(Whole(m, polled)) = m.drained + Len(m.output)
<1>1. m \in Muxer /\ polled \in Seq(Byte) /\ m.consumed <= Len(m.output)
      /\ m.drained + m.consumed = Len(polled)
  BY DEF Sound
<1>2. Unread(m) \in Seq(Byte) /\ Len(Unread(m)) = Len(m.output) - m.consumed
  BY <1>1, UnreadTyped
<1>3. m.consumed \in Nat /\ m.drained \in Nat /\ Len(m.output) \in Nat
  BY <1>1, MuxerFields
<1> DEFINE u == Unread(m)
<1> HIDE DEF u
<1>4. polled \o u \in Seq(Byte) /\ Len(polled \o u) = Len(polled) + Len(u)
  BY <1>1, <1>2 DEF u
<1> QED
  BY <1>1, <1>2, <1>3, <1>4 DEF Whole, u

\* A payload stays where it was placed when the stream grows behind it.
LEMMA PlacedStays ==
  ASSUME NEW s \in Seq(Byte), NEW u \in Seq(Byte),
         NEW p \in [packet : Packet, offset : Nat], PlacedIn(s, p)
  PROVE  PlacedIn(s \o u, p)
<1> DEFINE last == p.offset + p.packet.size
           begin == p.offset
<1>1. begin \in Nat /\ p.packet.size \in Nat /\ last \in Nat
  BY DEF Packet
<1>2. last <= Len(s) /\ SubSeq(s, begin + 1, last) = Payload(p.packet)
  BY DEF PlacedIn
<1> HIDE DEF last, begin
<1>3. SubSeq(s \o u, begin + 1, last) = SubSeq(s, begin + 1, last)
  BY <1>1, <1>2, PartKept
<1>4. last <= Len(s \o u)
  BY <1>1, <1>2
<1> QED
  BY <1>2, <1>3, <1>4 DEF PlacedIn, last, begin

\* Appending to the output appends to the stream.
LEMMA OutputGrows ==
  ASSUME NEW m, NEW polled, Sound(m, polled), NEW bytes \in Seq(Byte), NEW n \in Muxer,
         n.output = m.output \o bytes, n.consumed = m.consumed, n.drained = m.drained,
         n.placements = m.placements
  PROVE  Sound(n, polled) /\ Whole(n, polled) = Whole(m, polled) \o bytes
<1>1. m \in Muxer /\ polled \in Seq(Byte) /\ m.consumed <= Len(m.output)
      /\ m.drained + m.consumed = Len(polled)
      /\ \A p \in m.placements : PlacedIn(Whole(m, polled), p)
  BY DEF Sound
<1>2. /\ m.consumed \in Nat /\ m.drained \in Nat /\ m.output \in Seq(Byte)
      /\ m.placements \in SUBSET [packet : Packet, offset : Nat]
  BY <1>1, MuxerFields
<1>3. Unread(n) = Unread(m) \o bytes /\ Unread(m) \in Seq(Byte) /\ Len(n.output) \in Nat
      /\ Len(n.output) = Len(m.output) + Len(bytes)
  <2> DEFINE o == m.output
             c == m.consumed
  <2>1. o \in Seq(Byte) /\ c \in 0 .. Len(o) /\ Len(o) \in Nat
    BY <1>1, <1>2
  <2> HIDE DEF o, c
  <2>2. o \o bytes \in Seq(Byte) /\ Len(o \o bytes) = Len(o) + Len(bytes) /\ Len(bytes) \in Nat
    BY <2>1
  <2>3. SubSeq(o, c + 1, Len(o)) \in Seq(Byte)
        /\ SubSeq(o \o bytes, c + 1, Len(o \o bytes)) = SubSeq(o, c + 1, Len(o)) \o bytes
    BY <2>1, RestGrows
  <2>4. Unread(n) = SubSeq(o \o bytes, c + 1, Len(o \o bytes)) /\ Unread(m) = SubSeq(o, c + 1, Len(o))
    BY DEF Unread, o, c
  <2>5. Len(n.output) = Len(m.output) + Len(bytes) /\ Len(n.output) \in Nat
    BY <2>1, <2>2 DEF o
  <2> QED
    BY <2>3, <2>4, <2>5
<1>4. Whole(n, polled) = Whole(m, polled) \o bytes
  <2> DEFINE u == Unread(m)
  <2>1. u \in Seq(Byte) /\ Unread(n) = u \o bytes
    BY <1>3
  <2> HIDE DEF u
  <2>2. (polled \o u) \o bytes = polled \o (u \o bytes)
    BY <1>1, <2>1, BytesAssociate, Zenon
  <2> QED
    BY <2>1, <2>2, Zenon DEF Whole, u
<1>5. Whole(m, polled) \in Seq(Byte)
  BY WholeTyped
<1>6. \A p \in n.placements : PlacedIn(Whole(n, polled), p)
  BY <1>1, <1>2, <1>4, <1>5, PlacedStays
<1>7. n.consumed <= Len(n.output)
  <2>1. Len(m.output) \in Nat /\ Len(bytes) \in Nat
    BY <1>2
  <2> QED
    BY <1>1, <1>2, <1>3, <2>1
<1> QED
  BY <1>1, <1>4, <1>6, <1>7 DEF Sound

\* Writing a fragment: its samples are placed where they are.
LEMMA FlushTrackSound ==
  ASSUME reports \in Reporting, NEW m, NEW polled, Sound(m, polled), NEW t \in Tracks
  PROVE  LET n == FlushTrack(m, t) IN
         /\ Sound(n, polled)
         /\ n.configured = m.configured /\ n.header = m.header
         /\ n.pending = [m.pending EXCEPT ![t] = <<>>]
<1>0. m \in Muxer
  BY DEF Sound
<1>1. /\ m.tracks = TrackList /\ m.configured \in SUBSET Tracks
      /\ m.header \in (SUBSET Track) \cup {None} /\ m.pending \in [Tracks -> Seq(Packet)]
      /\ m.output \in Seq(Byte) /\ Len(m.output) \in Nat
      /\ m.consumed \in Nat /\ m.drained \in Nat
      /\ m.placements \in SUBSET [packet : Packet, offset : Nat]
  BY <1>0, MuxerFields
<1>2. CASE m.pending[t] = <<>>
  <2>1. FlushTrack(m, t) = m
    BY <1>2 DEF FlushTrack
  <2>2. [m.pending EXCEPT ![t] = <<>>] = m.pending
    BY <1>1, <1>2
  <2> QED
    BY <2>1, <2>2
<1>3. CASE m.pending[t] # <<>>
  <2> DEFINE s == m.pending[t]
             written == [m EXCEPT !.output = @ \o Fragment(t, s)]
             n == FlushTrack(m, t)
  <2>1. s \in Seq(Packet) /\ s # <<>> /\ t \in Track
    BY <1>1, <1>3, TracksKnown
  <2>2. Fragment(t, s) \in Seq(Byte)
    BY <2>1, FragmentTyped
  <2>3. PICK head \in Seq(Byte) : Fragment(t, s) = head \o FlattenSeq(Payloads(s))
    BY <2>1, FragmentTyped
  <2>4. /\ written \in Muxer /\ written.output = m.output \o Fragment(t, s)
        /\ written.consumed = m.consumed /\ written.drained = m.drained
        /\ written.placements = m.placements /\ written.pending = m.pending
        /\ written.configured = m.configured /\ written.header = m.header
        /\ written.tracks = m.tracks
    <3> DEFINE grown == m.output \o Fragment(t, s)
    <3>1. grown \in Seq(Byte)
      BY <1>1, <2>2
    <3> HIDE DEF grown
    <3>2. written = [m EXCEPT !.output = grown]
      BY DEF grown
    <3> QED
      BY <1>0, <3>1, <3>2 DEF Muxer, grown
  <2>5. Sound(written, polled) /\ Whole(written, polled) = Whole(m, polled) \o Fragment(t, s)
    <3> HIDE DEF written
    <3> QED
      BY <2>2, <2>4, OutputGrows
  <2>6. /\ n = [written EXCEPT !.pending[t] = <<>>, !.placements = @ \cup Placed(written, s)]
    BY <1>3 DEF FlushTrack
  <2> HIDE DEF written, s, n
  <2>7. /\ Whole(m, polled) \in Seq(Byte) /\ Whole(written, polled) \in Seq(Byte)
        /\ Len(Whole(written, polled)) = written.drained + Len(written.output)
    BY <2>5, WholeTyped
  <2>8. \A i \in 1 .. Len(s) :
          LET off == written.drained + Len(written.output) - SizeOf(SubSeq(s, i, Len(s))) IN
          /\ off \in Nat
          /\ off + s[i].size <= Len(Whole(written, polled))
          /\ SubSeq(Whole(written, polled), off + 1, off + s[i].size) = Payload(s[i])
    <3> TAKE i \in 1 .. Len(s)
    <3> DEFINE before == Whole(m, polled) \o head
               all == before \o FlattenSeq(Payloads(s))
               rest == SizeOf(SubSeq(s, i, Len(s)))
    <3>1. before \in Seq(Byte) /\ FlattenSeq(Payloads(s)) \in Seq(Byte)
      BY <2>1, <2>3, <2>7, PayloadsTyped, FlattenType
    <3>2. Whole(written, polled) = all
      <4> DEFINE body == FlattenSeq(Payloads(s))
                 past == Whole(m, polled)
      <4>1. past \in Seq(Byte) /\ body \in Seq(Byte)
        BY <2>7, <3>1
      <4>2. Whole(written, polled) = past \o (head \o body)
        BY <2>3, <2>5
      <4> HIDE DEF body, past
      <4>3. (past \o head) \o body = past \o (head \o body)
        BY <2>3, <4>1, BytesAssociate, Zenon
      <4> QED
        BY <4>2, <4>3, Zenon DEF body, past
    <3>3. all \in Seq(Byte) /\ Len(all) = written.drained + Len(written.output)
      BY <2>7, <3>2
    <3> HIDE DEF before
    <3>4. /\ rest \in Nat /\ s[i].size <= rest /\ rest <= Len(all)
          /\ SubSeq(all, Len(all) - rest + 1, Len(all) - rest + s[i].size) = Payload(s[i])
      BY <2>1, <3>1, SamplePlaced
    <3>5. s[i].size \in Nat
      <4>1. s[i] \in Packet
        BY <2>1
      <4> QED
        BY <4>1 DEF Packet
    <3> HIDE DEF all, rest
    <3>6. Len(all) \in Nat
      BY <3>3
    <3> DEFINE off == Len(all) - rest
    <3>7. off \in Nat /\ off + s[i].size <= Len(all)
      BY <3>4, <3>5, <3>6
    <3>8. off = written.drained + Len(written.output) - SizeOf(SubSeq(s, i, Len(s)))
      <4>1. written.drained \in Nat /\ Len(written.output) \in Nat
        BY <2>4, MuxerFields
      <4>2. off = written.drained + Len(written.output) - rest
        BY <3>3, <3>4, <4>1
      <4> QED
        BY <4>2 DEF rest
    <3>9. SubSeq(Whole(written, polled), off + 1, off + s[i].size) = Payload(s[i])
      BY <3>2, <3>4
    <3> HIDE DEF off
    <3> QED
      BY <3>2, <3>7, <3>8, <3>9
  <2>9. \A x \in Placed(written, s) :
          x \in [packet : Packet, offset : Nat] /\ PlacedIn(Whole(written, polled), x)
    <3> TAKE x \in Placed(written, s)
    <3>1. PICK i \in 1 .. Len(s) :
            x = [packet |-> s[i],
                 offset |-> written.drained + Len(written.output) - SizeOf(SubSeq(s, i, Len(s)))]
      BY <2>1 DEF Placed
    <3>2. s[i] \in Packet
      BY <2>1
    <3> QED
      BY <2>8, <3>1, <3>2 DEF PlacedIn
  <2>10. /\ n.tracks = m.tracks /\ n.configured = m.configured /\ n.header = m.header
         /\ n.pending = [m.pending EXCEPT ![t] = <<>>]
         /\ n.output = written.output /\ n.consumed = m.consumed /\ n.drained = m.drained
         /\ n.placements = m.placements \cup Placed(written, s)
    BY <2>4, <2>6 DEF Muxer
  <2>11. n \in Muxer
    <3>1. [written.pending EXCEPT ![t] = <<>>] \in [Tracks -> Seq(Packet)]
      BY <1>1, <2>4
    <3>2. written.placements \cup Placed(written, s) \in SUBSET [packet : Packet, offset : Nat]
      BY <1>1, <2>4, <2>9
    <3> DEFINE pending2 == [written.pending EXCEPT ![t] = <<>>]
               placements2 == written.placements \cup Placed(written, s)
    <3>3. n = [written EXCEPT !.pending = pending2, !.placements = placements2]
      BY <2>4, <2>6 DEF Muxer
    <3> HIDE DEF pending2, placements2
    <3> QED
      BY <2>4, <3>1, <3>2, <3>3 DEF Muxer, pending2, placements2
  <2>12. Unread(n) = Unread(written)
    BY <2>4, <2>10 DEF Unread
  <2>13. Sound(n, polled)
    BY <2>4, <2>5, <2>9, <2>10, <2>11, <2>12 DEF Sound, Whole
  <2> QED
    BY <2>10, <2>13 DEF n
<1> QED
  BY <1>2, <1>3

\* What flushing some tracks may change: their samples are gone, and written.
FlushedFrom(n, m, polled) ==
  /\ Sound(n, polled)
  /\ n.configured = m.configured /\ n.header = m.header
  /\ \A t \in Tracks : n.pending[t] \in {m.pending[t], <<>>}

\* flush_track_reporting of one more track, after whatever was flushed before,
\* keeps the muxer sound.
LEMMA FlushTrackFrom ==
  ASSUME reports \in Reporting, NEW m, NEW n, NEW polled, FlushedFrom(n, m, polled), NEW t \in Tracks
  PROVE  FlushedFrom(FlushTrack(n, t), m, polled)
<1>1. Sound(n, polled) /\ n.pending \in [Tracks -> Seq(Packet)]
  BY MuxerFields DEF FlushedFrom, Sound
<1>2. /\ Sound(FlushTrack(n, t), polled)
      /\ FlushTrack(n, t).configured = n.configured /\ FlushTrack(n, t).header = n.header
      /\ FlushTrack(n, t).pending = [n.pending EXCEPT ![t] = <<>>]
  BY <1>1, FlushTrackSound
<1> QED
  BY <1>1, <1>2 DEF FlushedFrom

\* What flushing one track keeps, flushing every track keeps.
LEMMA FlushAllReaches ==
  ASSUME reports \in Reporting, NEW m, m.tracks = TrackList, NEW A, m \in A,
         \A n \in A, t \in Tracks : FlushTrack(n, t) \in A
  PROVE  FlushAll(m) \in A
<1> DEFINE k == Len(TrackList)
           step == [a \in A \X (1 .. k) |-> FlushTrack(a[1], TrackList[a[2]])]
           turn(f, i) == IF i = 0 THEN m ELSE FlushTrack(f[i - 1], TrackList[i])
           Steps(f) == f = [i \in 0 .. k |-> turn(f, i)]
<1>2. k \in Nat /\ \A i \in 1 .. k : TrackList[i] \in Tracks
  BY TracksKnown
<1>4. ASSUME NEW a \in A, NEW i \in 1 .. k PROVE FlushTrack(a, TrackList[i]) \in A
  BY <1>2, <1>4
<1> HIDE DEF k
<1>5. step \in [A \X (1 .. k) -> A]
  BY <1>4
<1>6. PICK f : Iterated(f, k, m, step, A)
  <2> HIDE DEF step
  <2> QED
    BY <1>2, <1>5, Iteration
<1>7. \E g : Steps(g)
  <2>1. f \in [0 .. k -> A] /\ f[0] = m /\ \A i \in 1 .. k : f[i] = step[<<f[i - 1], i>>]
    BY <1>6 DEF Iterated
  <2>2. \A i \in 1 .. k : f[i - 1] \in A
    BY <1>2, <2>1
  <2>3. \A i \in 1 .. k : f[i] = FlushTrack(f[i - 1], TrackList[i])
    BY <2>1, <2>2
  <2>4. \A i \in 0 .. k : f[i] = turn(f, i)
    BY <1>2, <2>1, <2>3
  <2>5. f = [i \in 0 .. k |-> f[i]]
    BY <2>1
  <2> HIDE DEF turn
  <2>6. f = [i \in 0 .. k |-> turn(f, i)]
    BY <2>4, <2>5
  <2> QED
    BY <2>6
<1> DEFINE C == CHOOSE g : Steps(g)
<1>8. FlushAll(m) = C[k]
  BY DEF FlushAll, k
<1>9. Steps(C)
  <2> HIDE DEF Steps
  <2> QED
    BY <1>7, Zenon
<1> HIDE DEF C
<1>10. C[0] = m /\ \A i \in 1 .. k : C[i] = FlushTrack(C[i - 1], TrackList[i])
  BY <1>2, <1>9
<1> DEFINE D == {i \in Nat : i <= k => C[i] \in A}
<1>11. 0 \in D
  BY <1>10
<1>12. ASSUME NEW i \in Nat, i \in D PROVE i + 1 \in D
  <2>1. CASE i + 1 <= k
    <3>1. i + 1 \in 1 .. k /\ (i + 1) - 1 = i /\ i <= k
      BY <1>2, <2>1
    <3>2. C[i] \in A
      BY <1>12, <3>1
    <3>3. C[i + 1] = FlushTrack(C[i], TrackList[i + 1])
      BY <1>10, <3>1
    <3> QED
      BY <1>4, <3>1, <3>2, <3>3
  <2>2. CASE ~(i + 1 <= k)
    BY <2>2
  <2> QED
    BY <2>1, <2>2
<1>13. Nat \subseteq D
  <2> HIDE DEF D
  <2> QED
    BY <1>11, <1>12, NatSetInduction
<1>14. C[k] \in A
  BY <1>2, <1>13
<1> QED
  BY <1>8, <1>14

\* Flushing every track.
LEMMA FlushAllSound ==
  ASSUME reports \in Reporting, NEW m, NEW polled, Sound(m, polled)
  PROVE  FlushedFrom(FlushAll(m), m, polled)
<1> DEFINE A == {n \in Muxer : FlushedFrom(n, m, polled)}
<1>1. m \in A /\ m.tracks = TrackList
  BY MuxerFields DEF FlushedFrom, Sound
<1>2. \A n \in A, t \in Tracks : FlushTrack(n, t) \in A
  BY FlushTrackFrom DEF FlushedFrom, Sound
<1> HIDE DEF A
<1>3. FlushAll(m) \in A
  BY <1>1, <1>2, FlushAllReaches
<1> QED
  BY <1>3 DEF A

\* Polling moves what was unread to the reader; the stream is what it was.
LEMMA PolledSound ==
  ASSUME NEW m, NEW polled, Sound(m, polled)
  PROVE  LET n == Polled(m) IN
         /\ Sound(n, polled \o Unread(m)) /\ Unread(n) = <<>>
         /\ n.configured = m.configured /\ n.header = m.header /\ n.pending = m.pending
<1> DEFINE n == Polled(m)
           read == polled \o Unread(m)
<1>1. m \in Muxer /\ polled \in Seq(Byte) /\ m.consumed <= Len(m.output)
      /\ m.drained + m.consumed = Len(polled)
      /\ \A p \in m.placements : PlacedIn(Whole(m, polled), p)
  BY DEF Sound
<1>2. m.output \in Seq(Byte) /\ Len(m.output) \in Nat /\ m.consumed \in Nat /\ m.drained \in Nat
  BY <1>1, MuxerFields
<1>3. Unread(m) \in Seq(Byte) /\ Len(Unread(m)) = Len(m.output) - m.consumed
  BY <1>1, UnreadTyped
<1>4. read \in Seq(Byte) /\ Len(read) = m.drained + Len(m.output) /\ read = Whole(m, polled)
  BY WholeTyped DEF Whole
<1>5. CASE Unread(m) = <<>>
  <2>1. n = m /\ read = polled
    BY <1>1, <1>5, ConcatEmptySeq DEF Polled
  <2> QED
    BY <1>5, <2>1
<1>6. CASE Unread(m) # <<>>
  <2>1. /\ n.tracks = m.tracks /\ n.configured = m.configured /\ n.header = m.header
        /\ n.pending = m.pending /\ n.placements = m.placements
        /\ \/ n.output = <<>> /\ n.consumed = 0 /\ n.drained = m.drained + Len(m.output)
           \/ n.output = m.output /\ n.consumed = Len(m.output) /\ n.drained = m.drained
        /\ n \in Muxer
    <3>1. CASE Len(m.output) >= DrainAt
      <4> DEFINE total == m.drained + Len(m.output)
      <4>1. total \in Nat
        BY <1>2
      <4>2. n = [m EXCEPT !.output = <<>>, !.consumed = 0, !.drained = total]
        BY <1>1, <1>6, <3>1 DEF Polled, Muxer
      <4>3. <<>> \in Seq(Byte) /\ 0 \in Nat
        OBVIOUS
      <4> HIDE DEF total
      <4>4. n \in Muxer
        BY <1>1, <4>1, <4>2, <4>3 DEF Muxer
      <4> HIDE DEF n
      <4> QED
        BY <1>1, <4>2, <4>4 DEF Muxer, total
    <3>2. CASE ~(Len(m.output) >= DrainAt)
      <4> DEFINE total == Len(m.output)
      <4>1. total \in Nat
        BY <1>2
      <4>2. n = [m EXCEPT !.consumed = total]
        BY <1>1, <1>6, <3>2 DEF Polled, Muxer
      <4> HIDE DEF total
      <4> QED
        BY <1>1, <4>1, <4>2 DEF Muxer, total
    <3> QED
      BY <3>1, <3>2
  <2> HIDE DEF n
  <2>2. n.consumed <= Len(n.output) /\ n.drained + n.consumed = Len(read)
    BY <1>2, <1>4, <2>1
  <2>3. Unread(n) = <<>>
    <3>1. n.output \in Seq(Byte) /\ Len(n.output) \in Nat /\ n.consumed = Len(n.output)
      <4>1. <<>> \in Seq(Byte) /\ Len(<<>>) = 0
        BY EmptySeq
      <4> QED
        BY <1>2, <2>1, <4>1
    <3> QED
      BY <3>1 DEF Unread
  <2>4. Whole(n, read) = Whole(m, polled)
    <3> HIDE DEF read
    <3>1. read \o <<>> = read
      BY <1>4, ConcatEmptySeq
    <3> QED
      BY <1>4, <2>3, <3>1 DEF Whole
  <2> QED
    BY <1>1, <1>4, <2>1, <2>2, <2>3, <2>4 DEF Sound, n
<1> QED
  BY <1>5, <1>6

\* A muxer that was just opened is sound with respect to an empty file.
LEMMA NewMuxerSound ==
  ASSUME reports \in Reporting, NEW known \in SUBSET Tracks
  PROVE  LET n == NewMuxer(TrackList, known) IN
         /\ Sound(n, <<>>) /\ n.configured = known /\ n.header = None
         /\ n.pending = [t \in Tracks |-> <<>>]
<1> DEFINE n == NewMuxer(TrackList, known)
<1>1. /\ n.tracks = TrackList /\ n.configured = known /\ n.header = None
      /\ n.pending = [t \in Tracks |-> <<>>] /\ n.output = <<>>
      /\ n.consumed = 0 /\ n.drained = 0 /\ n.placements = {}
  BY TracksKnown DEF NewMuxer
<1>2. <<>> \in Seq(Byte) /\ <<>> \in Seq(Packet) /\ Len(<<>>) = 0
  BY EmptySeq
<1>3. n \in Muxer
  <2> DEFINE none == [t \in Tracks |-> <<>>]
  <2>1. none \in [Tracks -> Seq(Packet)]
    BY <1>2
  <2>2. n = [tracks |-> TrackList, configured |-> known, header |-> None, pending |-> none,
             output |-> <<>>, consumed |-> 0, drained |-> 0, placements |-> {}]
    BY TracksKnown DEF NewMuxer
  <2> DEFINE Places == SUBSET [packet : Packet, offset : Nat]
             Headers == (SUBSET Track) \cup {None}
             Queues == [Tracks -> Seq(Packet)]
             Known == SUBSET Tracks
             Bytestrings == Seq(Byte)
             Lists == {TrackList}
  <2>3. {} \in Places /\ None \in Headers /\ known \in Known /\ TrackList \in Lists
    <3>1. {} \in Places
      <4> DEFINE P == [packet : Packet, offset : Nat]
      <4> HIDE DEF P
      <4>1. {} \in SUBSET P
        OBVIOUS
      <4> QED
        BY <4>1 DEF P
    <3>2. None \in Headers
      OBVIOUS
    <3>3. known \in Known
      OBVIOUS
    <3>4. TrackList \in Lists
      OBVIOUS
    <3> QED
      BY <3>1, <3>2, <3>3, <3>4
  <2>4. <<>> \in Bytestrings /\ none \in Queues
    BY <1>2, <2>1
  <2> HIDE DEF none, n, Places, Headers, Queues, Known, Bytestrings, Lists
  <2>5. n \in [tracks : Lists, configured : Known, header : Headers, pending : Queues,
                output : Bytestrings, consumed : Nat, drained : Nat, placements : Places]
    BY <2>2, <2>3, <2>4
  <2> QED
    BY <2>5 DEF Muxer, Places, Headers, Queues, Known, Bytestrings, Lists
<1> HIDE DEF n
<1> QED
  BY <1>1, <1>2, <1>3 DEF Sound, n

\* What concerns neither the output nor the placements leaves them sound.
LEMMA BytesUntouched ==
  ASSUME NEW m, NEW polled, Sound(m, polled), NEW n \in Muxer,
         n.output = m.output, n.consumed = m.consumed, n.drained = m.drained,
         n.placements = m.placements
  PROVE  Sound(n, polled)
<1>1. Unread(n) = Unread(m)
  BY DEF Unread
<1> QED
  BY <1>1 DEF Sound, Whole

\* Recording a track's configuration changes nothing a reader can see.
LEMMA DescribeSound ==
  ASSUME reports \in Reporting, NEW m, NEW polled, Sound(m, polled), NEW t \in Tracks
  PROVE  LET n == [m EXCEPT !.configured = @ \cup {t}] IN
         /\ Sound(n, polled) /\ n.configured = m.configured \cup {t}
         /\ n.header = m.header /\ n.pending = m.pending
<1> DEFINE more == m.configured \cup {t}
           n == [m EXCEPT !.configured = @ \cup {t}]
<1>1. m \in Muxer
  BY DEF Sound
<1>2. more \in SUBSET Tracks
  BY <1>1, MuxerFields
<1>3. n = [m EXCEPT !.configured = more]
  BY <1>1 DEF Muxer
<1> HIDE DEF more
<1>4. n \in Muxer
  BY <1>1, <1>2, <1>3 DEF Muxer
<1>5. /\ n.output = m.output /\ n.consumed = m.consumed /\ n.drained = m.drained
      /\ n.placements = m.placements /\ n.header = m.header /\ n.pending = m.pending
      /\ n.configured = more
  BY <1>1, <1>3 DEF Muxer
<1> HIDE DEF n
<1>6. Sound(n, polled)
  BY <1>4, <1>5, BytesUntouched
<1> QED
  BY <1>5, <1>6 DEF more, n

\* Writing the header, if it is not written yet, keeps the muxer sound.
LEMMA WriteHeaderSound ==
  ASSUME reports \in Reporting, NEW m, NEW polled, Sound(m, polled), NEW p
  PROVE  LET n == WriteHeader(m, p) IN
         /\ Sound(n, polled) /\ n.configured = m.configured /\ n.pending = m.pending
         /\ n.header = IF m.header = None THEN m.configured ELSE m.header
<1> DEFINE n == WriteHeader(m, p)
           bytes == Bytes([type |-> "moov", len |-> Header], Header)
           out == m.output \o bytes
<1>1. m \in Muxer
  BY DEF Sound
<1>2. m.output \in Seq(Byte) /\ m.configured \in SUBSET Track
  BY <1>1, MuxerFields, TracksKnown
<1>3. bytes \in Seq(Byte)
  <2>1. [type |-> "moov", len |-> Header] \in Box
    BY DEF Box, Header
  <2> QED
    BY <2>1, BytesTyped DEF Header
<1>4. CASE m.header = None
  <2>1. n = [m EXCEPT !.header = m.configured, !.output = out]
    BY <1>1, <1>4 DEF WriteHeader, Muxer
  <2> HIDE DEF bytes
  <2>2. out \in Seq(Byte)
    BY <1>2, <1>3
  <2>3. n \in Muxer
    <3> HIDE DEF out
    <3> QED
      BY <1>1, <1>2, <2>1, <2>2 DEF Muxer
  <2>4. /\ n.output = out /\ n.consumed = m.consumed /\ n.drained = m.drained
        /\ n.placements = m.placements /\ n.header = m.configured /\ n.pending = m.pending
        /\ n.configured = m.configured
    BY <1>1, <2>1 DEF Muxer
  <2> HIDE DEF n
  <2>5. Sound(n, polled)
    BY <1>3, <2>3, <2>4, OutputGrows
  <2> QED
    BY <1>4, <2>4, <2>5 DEF n
<1>5. CASE m.header # None
  BY <1>5 DEF WriteHeader
<1> QED
  BY <1>4, <1>5

\* Queueing a packet keeps the muxer sound: nothing is written.
LEMMA QueueSound ==
  ASSUME reports \in Reporting, NEW m, NEW polled, Sound(m, polled), NEW p \in Packet,
         p.track \in Tracks
  PROVE  LET n == [m EXCEPT !.pending[p.track] = Append(@, p)] IN
         /\ Sound(n, polled) /\ n.configured = m.configured /\ n.header = m.header
         /\ n.pending = [m.pending EXCEPT ![p.track] = Append(@, p)]
<1> DEFINE t == p.track
           queue == [m.pending EXCEPT ![t] = Append(@, p)]
           n == [m EXCEPT !.pending[t] = Append(@, p)]
<1>1. m \in Muxer
  BY DEF Sound
<1>2. m.pending \in [Tracks -> Seq(Packet)] /\ t \in Tracks
  BY <1>1, MuxerFields
<1>3. queue \in [Tracks -> Seq(Packet)]
  <2>1. Append(m.pending[t], p) \in Seq(Packet)
    BY <1>2
  <2> QED
    BY <1>2, <2>1
<1>4. n = [m EXCEPT !.pending = queue]
  BY <1>1 DEF Muxer
<1> HIDE DEF queue, t
<1>5. n \in Muxer
  BY <1>1, <1>3, <1>4 DEF Muxer
<1>6. /\ n.output = m.output /\ n.consumed = m.consumed /\ n.drained = m.drained
      /\ n.placements = m.placements /\ n.header = m.header /\ n.pending = queue
      /\ n.configured = m.configured
  BY <1>1, <1>4 DEF Muxer
<1> HIDE DEF n
<1>7. Sound(n, polled)
  BY <1>5, <1>6, BytesUntouched
<1> QED
  BY <1>6, <1>7 DEF queue, n, t

\* No track has a full fragment waiting.
Waiting(m) == \A t \in Tracks : Len(m.pending[t]) < Batch

\* Once the only full queue is flushed every queue is short of a batch.
LEMMA FlushTrackWaiting ==
  ASSUME reports \in Reporting, NEW m, NEW polled, Sound(m, polled), NEW t \in Tracks,
         \A u \in Tracks \ {t} : Len(m.pending[u]) < Batch
  PROVE  Waiting(FlushTrack(m, t))
<1>1. FlushTrack(m, t).pending = [m.pending EXCEPT ![t] = <<>>]
  BY FlushTrackSound
<1>2. m.pending \in [Tracks -> Seq(Packet)]
  BY MuxerFields DEF Sound
<1>3. Len(<<>>) = 0 /\ 0 < Batch
  BY Mp4Assumption, EmptySeq
<1> QED
  BY <1>1, <1>2, <1>3 DEF Waiting

\* A packet pushed: written with the fragment before it, queued, or both.
LEMMA PushPacketSound ==
  ASSUME reports \in Reporting, NEW m, NEW polled, Sound(m, polled), Waiting(m),
         NEW p \in Packet, p.track \in Tracks
  PROVE  LET n == PushPacket(m, p)
             known == IF p.config THEN m.configured \cup {p.track} ELSE m.configured
         IN /\ Sound(n, polled) /\ Waiting(n) /\ n.configured = known
            /\ n.header = IF m.header = None THEN known ELSE m.header
<1> DEFINE t == p.track
           known == IF p.config THEN m.configured \cup {t} ELSE m.configured
           described == IF p.config THEN [m EXCEPT !.configured = @ \cup {t}] ELSE m
           headed == WriteHeader(described, p)
           cut == IF EndsFragment(headed, p) THEN FlushTrack(headed, t) ELSE headed
           queued == [cut EXCEPT !.pending[t] = Append(@, p)]
           n == IF Len(queued.pending[t]) >= Batch THEN FlushTrack(queued, t) ELSE queued
           head == IF m.header = None THEN known ELSE m.header
<1>1. Sound(described, polled) /\ described.configured = known
      /\ described.header = m.header /\ described.pending = m.pending
  BY DescribeSound
<1> HIDE DEF described, known
<1>2. Sound(headed, polled) /\ headed.configured = known /\ headed.pending = m.pending
      /\ headed.header = head
  BY <1>1, WriteHeaderSound
<1> HIDE DEF headed, head
<1>3. Sound(cut, polled) /\ cut.configured = known /\ cut.header = head
      /\ Waiting(cut)
  <2>1. CASE EndsFragment(headed, p)
    <3>1. cut = FlushTrack(headed, t)
      BY <2>1
    <3>2. Waiting(FlushTrack(headed, t))
      BY <1>2, FlushTrackWaiting DEF Waiting
    <3> QED
      BY <1>2, <3>1, <3>2, FlushTrackSound
  <2>2. CASE ~EndsFragment(headed, p)
    BY <1>2, <2>2 DEF Waiting
  <2> QED
    BY <2>1, <2>2
<1> HIDE DEF cut
<1>4. Sound(queued, polled) /\ queued.configured = known /\ queued.header = head
      /\ queued.pending = [cut.pending EXCEPT ![t] = Append(@, p)]
  BY <1>3, QueueSound
<1>5. cut.pending \in [Tracks -> Seq(Packet)]
  BY <1>3, MuxerFields DEF Sound
<1>6. \A u \in Tracks \ {t} : Len(queued.pending[u]) < Batch
  BY <1>3, <1>4, <1>5 DEF Waiting
<1> HIDE DEF queued
<1>7. Sound(n, polled) /\ n.configured = known /\ n.header = head /\ Waiting(n)
  <2>1. CASE Len(queued.pending[t]) >= Batch
    <3>1. n = FlushTrack(queued, t)
      BY <2>1
    <3>2. Waiting(FlushTrack(queued, t))
      BY <1>4, <1>6, FlushTrackWaiting
    <3> QED
      BY <1>4, <3>1, <3>2, FlushTrackSound
  <2>2. CASE ~(Len(queued.pending[t]) >= Batch)
    <3>1. queued.pending \in [Tracks -> Seq(Packet)]
      BY <1>4, MuxerFields DEF Sound
    <3>2. Len(queued.pending[t]) < Batch
      BY <2>2, <3>1, Mp4Assumption
    <3> QED
      BY <1>4, <1>6, <2>2, <3>2 DEF Waiting
  <2> QED
    BY <2>1, <2>2
<1>8. PushPacket(m, p) = n
  BY DEF PushPacket, n, queued, cut, headed, described
<1> QED
  BY <1>7, <1>8 DEF known, head

-----------------------------------------------------------------------------
(* The inductive invariant.                                                  *)

\* Frames in an encoder become packets of its track.
InsideInv ==
  /\ inside \in [Track -> Seq(Packet)]
  /\ given \in [Track -> [frames : Nat, dts : Nat]]
  /\ \A t \in Track \ Tracks : inside[t] = <<>>
  /\ \A t \in Track : \A i \in DOMAIN inside[t] : inside[t][i].track = t

\* No fragment is longer than Batch, the header says what was known of it.
BatchInv ==
  /\ Waiting(mux)
  /\ mux.header = None \/ mux.header \subseteq mux.configured

\* Until a packet arrives the encoder has everything it was given; what it
\* returns first tells its configuration, if nothing else did before.
LoneInv ==
  /\ reports[Video] = "open" => Video \in mux.configured
  /\ Tracks = {Video} =>
       IF mux.header # None THEN Video \in mux.header
       ELSE /\ given[Video].frames = Len(inside[Video])
            /\ reports[Video] = "inband" /\ inside[Video] # <<>> => inside[Video][1].config

SessionInv ==
  /\ reports \in Reporting
  /\ call \in {"idle", "video", "audio", "finish video", "finish audio", "finished", "lost"}
  /\ failures \in 0 .. MaxFailures
  /\ fed \in 0 .. Len(file)

IInv == SessionInv /\ InsideInv /\ Sound(mux, file) /\ BatchInv /\ LoneInv

-----------------------------------------------------------------------------
(* Every step keeps it.                                                      *)

\* What a session knows of its encoders when it opens.
LEMMA Configured ==
  ASSUME reports \in Reporting
  PROVE  /\ reports[Video] \in {"open", "late", "inband"} /\ reports[Video] # None
         /\ {t \in Track : reports[t] = "open"} \subseteq Tracks
         /\ Video \in Track /\ Audio \in Track /\ Video # Audio
<1>1. reports \in [Track -> {"open", "late", "inband", None}] /\ reports[Video] # None
  BY SessionAssumption
<1>2. "open" # None
  BY SessionAssumption
<1> QED
  BY <1>1, <1>2, SessionAssumption DEF Track, Tracks

\* The invariant holds when the session is opened.
LEMMA Begins ==
  ASSUME Init
  PROVE  IInv
<1>1. reports \in Reporting
  BY DEF Init
<1>2. {t \in Track : reports[t] = "open"} \subseteq Tracks /\ Video \in Track
  BY <1>1, Configured
<1> DEFINE known == {t \in Track : reports[t] = "open"}
<1>3. /\ Sound(mux, file) /\ mux.configured = known /\ mux.header = None
      /\ mux.pending = [t \in Tracks |-> <<>>]
  BY <1>1, <1>2, NewMuxerSound DEF Init
<1>4. Len(<<>>) = 0 /\ <<>> \in Seq(Packet)
  BY EmptySeq
<1>5. BatchInv
  BY <1>3, <1>4, Mp4Assumption DEF BatchInv, Waiting
<1>6. InsideInv
  BY <1>4 DEF Init, InsideInv
<1>7. LoneInv
  BY <1>2, <1>3, <1>4 DEF Init, LoneInv
<1>8. SessionInv
  BY <1>4, SessionAssumption DEF Init, SessionInv
<1> QED
  BY <1>3, <1>5, <1>6, <1>7, <1>8 DEF IInv

\* The type of a muxer depends on the session's tracks, which never change.
LEMMA TracksStay ==
  ASSUME reports' = reports
  PROVE  /\ Tracks' = Tracks /\ TrackList' = TrackList /\ Muxer' = Muxer
         /\ Sound(mux', file') => Sound(mux, file)'
         /\ Waiting(mux') => Waiting(mux)'
<1>1. Tracks' = Tracks
  BY DEF Tracks
<1>2. TrackList' = TrackList
  BY <1>1 DEF TrackList
<1>3. Muxer' = Muxer
  BY <1>1, <1>2 DEF Muxer
<1> QED
  BY <1>1, <1>2, <1>3 DEF Sound, Waiting, Whole, PlacedIn

\* What IInv says of the parts a step leaves alone.
LEMMA MuxerUntouched ==
  ASSUME IInv, UNCHANGED <<reports, mux, file>>
  PROVE  Sound(mux, file)' /\ BatchInv'
BY TracksStay DEF IInv, BatchInv

\* What is inside the encoders stays theirs when they are not called.
LEMMA InsideUntouched ==
  ASSUME IInv, UNCHANGED <<reports, inside, given>>
  PROVE  InsideInv'
BY TracksStay DEF IInv, InsideInv

\* LoneInv when neither encoder nor header changes.
LEMMA LoneUntouched ==
  ASSUME IInv, UNCHANGED <<reports, inside, given>>,
         mux'.configured = mux.configured, mux'.header = mux.header
  PROVE  LoneInv'
BY TracksStay DEF IInv, LoneInv

\* The reader is not ahead of a file that grows.
LEMMA FileGrows ==
  ASSUME IInv, NEW bytes \in Seq(Byte), file' = file \o bytes, fed' = fed
  PROVE  fed' \in 0 .. Len(file')
<1>1. file \in Seq(Byte) /\ fed \in 0 .. Len(file)
  BY DEF IInv, SessionInv, Sound
<1>2. Len(file') = Len(file) + Len(bytes) /\ Len(bytes) \in Nat /\ Len(file) \in Nat
  BY <1>1
<1> QED
  BY <1>1, <1>2

\* write_video and write_audio keep the invariant, whether the encoder returns
\* a packet or keeps it.
LEMMA WriteKeeps ==
  ASSUME IInv, NEW t \in Track, NEW key \in BOOLEAN, NEW gap \in Gaps, Write(t, key, gap)
  PROVE  IInv'
<1> DEFINE p == Encoded(t, key, gap)
<1>1. /\ reports \in Reporting /\ given[t].frames \in Nat /\ given[t].dts \in Nat
      /\ gap \in Nat /\ t \in Tracks
      /\ inside \in [Track -> Seq(Packet)] /\ given \in [Track -> [frames : Nat, dts : Nat]]
  BY SessionAssumption DEF IInv, SessionInv, InsideInv, Write
<1>2. /\ p \in Packet /\ p.track = t /\ p.dts \in Nat
      /\ p.config = (reports[t] = "inband" /\ key)
  BY <1>1 DEF Encoded, Packet
<1> HIDE DEF p
<1>3. UNCHANGED <<reports, mux, file>> /\ fed' = fed
  BY DEF Write, readerVars
<1>4. Sound(mux, file)' /\ BatchInv'
  BY <1>3, MuxerUntouched
<1>5. CASE UNCHANGED <<inside, given>>
  <2>1. InsideInv' /\ LoneInv'
    BY <1>3, <1>5, InsideUntouched, LoneUntouched
  <2>2. SessionInv'
    <3>1. call' \in {call, "video", "audio"}
      BY DEF Write
    <3>2. failures' = failures \/ (failures < MaxFailures /\ failures' = failures + 1)
      BY DEF Write, Failing
    <3>3. failures \in 0 .. MaxFailures /\ MaxFailures \in Nat
      BY SessionAssumption DEF IInv, SessionInv
    <3>4. failures' \in 0 .. MaxFailures
      BY <3>2, <3>3
    <3> QED
      BY <1>3, <3>1, <3>4 DEF IInv, SessionInv
  <2> QED
    BY <1>4, <2>1, <2>2 DEF IInv
<1>6. CASE /\ inside' = [inside EXCEPT ![t] = Append(@, p)]
           /\ given' = [given EXCEPT ![t] = [frames |-> @.frames + 1, dts |-> p.dts]]
           /\ call' = IF t = Video THEN "video" ELSE "audio"
           /\ UNCHANGED failures
  <2>1. InsideInv'
    <3>1. Append(inside[t], p) \in Seq(Packet)
      BY <1>1, <1>2
    <3>2. inside' \in [Track -> Seq(Packet)] /\ inside'[t] = Append(inside[t], p)
          /\ \A u \in Track \ {t} : inside'[u] = inside[u]
      BY <1>1, <1>6, <3>1
    <3>3. given' \in [Track -> [frames : Nat, dts : Nat]]
      BY <1>1, <1>2, <1>6
    <3>4. \A u \in Track \ Tracks : inside'[u] = <<>>
      BY <1>1, <3>2 DEF IInv, InsideInv
    <3>5. \A i \in DOMAIN Append(inside[t], p) : Append(inside[t], p)[i].track = t
      <4>1. inside[t] \in Seq(Packet) /\ \A i \in DOMAIN inside[t] : inside[t][i].track = t
        BY <1>1 DEF IInv, InsideInv
      <4> DEFINE q == inside[t]
      <4> HIDE DEF q
      <4>2. \A i \in DOMAIN Append(q, p) :
              (i \in DOMAIN q /\ Append(q, p)[i] = q[i]) \/ Append(q, p)[i] = p
        BY <1>2, <4>1 DEF q
      <4> QED
        BY <1>2, <4>1, <4>2 DEF q
    <3>6. \A u \in Track : \A i \in DOMAIN inside'[u] : inside'[u][i].track = u
      BY <3>2, <3>5 DEF IInv, InsideInv
    <3> QED
      BY <1>3, <3>2, <3>3, <3>4, <3>6, TracksStay DEF InsideInv
  <2>2. LoneInv'
    <3>1. CASE Tracks = {Video}
      <4>1. t = Video /\ (given[t].frames = 0 => key)
        BY <1>1, <3>1 DEF Write
      <4>2. given'[Video].frames = given[Video].frames + 1
            /\ inside'[Video] = Append(inside[Video], p)
        BY <1>1, <1>6, <3>1, <4>1
      <4> DEFINE q == inside[Video]
      <4>3. q \in Seq(Packet)
        BY <1>1, <4>1
      <4> HIDE DEF q
      <4>4. Len(Append(q, p)) = Len(q) + 1 /\ Append(q, p) # <<>> /\ Len(q) \in Nat
            /\ Append(q, p)[1] = IF q = <<>> THEN p ELSE q[1]
        BY <1>2, <4>3, AppendParts
      <4>5. Len(q) = 0 => q = <<>>
        BY <4>3
      <4>6. mux.header = None => given[Video].frames = Len(q)
            /\ (reports[Video] = "inband" /\ q # <<>> => q[1].config)
        BY <3>1 DEF IInv, LoneInv, q
      <4>7. mux.header = None => given'[Video].frames = Len(inside'[Video])
        BY <4>2, <4>4, <4>6 DEF q
      <4>8. q = <<>> => Len(q) = 0
        BY EmptySeq
      <4>9. mux.header = None /\ reports[Video] = "inband" => inside'[Video][1].config
        BY <1>2, <4>1, <4>2, <4>4, <4>6, <4>8 DEF q
      <4> QED
        BY <1>3, <4>7, <4>9, TracksStay DEF IInv, LoneInv
    <3>2. CASE Tracks # {Video}
      BY <1>3, <3>2, TracksStay DEF IInv, LoneInv
    <3> QED
      BY <3>1, <3>2
  <2>3. SessionInv'
    BY <1>3, <1>6 DEF IInv, SessionInv
  <2> QED
    BY <1>4, <2>1, <2>2, <2>3 DEF IInv
<1> QED
  BY <1>5, <1>6 DEF Write, p

\* So does one turn of the draining loop.
LEMMA DrainPacketKeeps ==
  ASSUME IInv, NEW t \in Track, DrainPacket(t)
  PROVE  IInv'
<1> DEFINE q == inside[t]
           p == Head(inside[t])
           asked == Described(t)
<1>1. /\ reports \in Reporting /\ Sound(mux, file) /\ Waiting(mux)
      /\ inside \in [Track -> Seq(Packet)] /\ q \in Seq(Packet) /\ q # <<>>
      /\ \A i \in DOMAIN q : q[i].track = t
  BY DEF IInv, SessionInv, InsideInv, BatchInv, DrainPacket
<1>2. t \in Tracks
  BY <1>1 DEF IInv, InsideInv
<1> HIDE DEF q
<1>3. /\ Head(q) = q[1] /\ 1 \in DOMAIN q /\ q[1] \in Packet /\ Tail(q) \in Seq(Packet)
      /\ \A i \in DOMAIN Tail(q) : i + 1 \in DOMAIN q /\ Tail(q)[i] = q[i + 1]
      /\ Len(Tail(q)) = Len(q) - 1
  BY <1>1
<1>4. p = q[1] /\ p \in Packet /\ p.track = t
  BY <1>1, <1>3 DEF q
<1> HIDE DEF p
<1>5. /\ UNCHANGED <<reports, given, call, failures, file, fed>>
      /\ mux' = PushPacket(asked, p) /\ inside' = [inside EXCEPT ![t] = Tail(q)]
  BY DEF DrainPacket, readerVars, p, q
<1>6. /\ Sound(asked, file) /\ Waiting(asked) /\ asked.header = mux.header
      /\ asked.configured = IF t = Video /\ reports[t] = "late" /\ mux.header = None
                            THEN mux.configured \cup {t} ELSE mux.configured
  BY <1>1, <1>2, DescribeSound DEF Described, Describe, Waiting
<1> HIDE DEF asked
<1> DEFINE known == IF p.config THEN asked.configured \cup {t} ELSE asked.configured
<1>7. /\ Sound(mux', file) /\ Waiting(mux') /\ mux'.configured = known
      /\ mux'.header = IF mux.header = None THEN known ELSE mux.header
  BY <1>1, <1>2, <1>4, <1>5, <1>6, PushPacketSound
<1>8. mux.configured \subseteq asked.configured /\ asked.configured \subseteq known
  BY <1>6
<1>9. Sound(mux, file)'
  BY <1>5, <1>7, TracksStay
<1>10. BatchInv'
  <2>1. Waiting(mux)'
    BY <1>5, <1>7, TracksStay
  <2>2. mux.header # None => mux.header \subseteq mux.configured
    BY DEF IInv, BatchInv
  <2>3. mux'.header = None \/ mux'.header \subseteq mux'.configured
    BY <1>7, <1>8, <2>2
  <2> QED
    BY <2>1, <2>3 DEF BatchInv
<1>11. InsideInv'
  <2>1. inside' \in [Track -> Seq(Packet)] /\ inside'[t] = Tail(q)
        /\ \A u \in Track \ {t} : inside'[u] = inside[u]
    BY <1>1, <1>3, <1>5
  <2>2. \A u \in Track \ Tracks : inside'[u] = <<>>
    BY <1>2, <2>1 DEF IInv, InsideInv
  <2>3. \A i \in DOMAIN Tail(q) : Tail(q)[i].track = t
    BY <1>1, <1>3
  <2>4. \A u \in Track : \A i \in DOMAIN inside'[u] : inside'[u][i].track = u
    BY <2>1, <2>3 DEF IInv, InsideInv
  <2> QED
    BY <1>5, <2>1, <2>2, <2>4, TracksStay DEF IInv, InsideInv
<1>12. LoneInv'
  <2>1. reports[Video] = "open" => Video \in mux'.configured
    BY <1>7, <1>8 DEF IInv, LoneInv
  <2>2. CASE Tracks = {Video}
    <3>1. t = Video
      BY <1>2, <2>2
    <3>2. ASSUME mux.header # None
          PROVE  mux'.header # None /\ Video \in mux'.header
      BY <1>7, <2>2, <3>2 DEF IInv, LoneInv
    <3>3. ASSUME mux.header = None
          PROVE  mux'.header # None /\ Video \in mux'.header
      <4>1. reports[Video] \in {"open", "late", "inband"}
        BY <1>1, Configured
      <4>2. Video \in known
        <5>1. CASE reports[Video] = "open"
          BY <1>7, <2>1, <5>1
        <5>2. CASE reports[Video] = "late"
          BY <1>6, <1>8, <3>1, <3>3, <5>2
        <5>3. CASE reports[Video] = "inband"
          <6>1. p.config
            BY <1>1, <1>4, <2>2, <3>1, <3>3, <5>3 DEF IInv, LoneInv, q
          <6> QED
            BY <3>1, <6>1
        <5> QED
          BY <4>1, <5>1, <5>2, <5>3
      <4>3. mux'.header = known
        BY <1>7, <3>3
      <4>4. known # None
        <5>1. mux' \in Muxer
          BY <1>7 DEF Sound
        <5>2. known \in SUBSET Track
          BY <1>1, <1>7, <5>1, MuxerFields, TracksKnown
        <5> HIDE DEF known
        <5> QED
          BY <5>2, SessionAssumption
      <4> QED
        BY <4>2, <4>3, <4>4
    <3>4. mux'.header # None /\ Video \in mux'.header
      BY <3>2, <3>3
    <3> QED
      BY <1>5, <2>1, <3>4, TracksStay DEF LoneInv
  <2>3. CASE Tracks # {Video}
    BY <1>5, <2>1, <2>3, TracksStay DEF LoneInv
  <2> QED
    BY <2>2, <2>3
<1>13. SessionInv'
  BY <1>5 DEF IInv, SessionInv
<1> QED
  BY <1>9, <1>10, <1>11, <1>12, <1>13 DEF IInv

\* A step that moves bytes from the muxer to the file.
LEMMA BytesReach ==
  ASSUME IInv, NEW m, FlushedFrom(m, mux, file), UNCHANGED <<reports, inside, given, failures, fed>>,
         mux' = Polled(m), file' = file \o Unread(m),
         call' \in {"idle", "finished"}
  PROVE  IInv'
<1>1. /\ Sound(m, file) /\ m.configured = mux.configured /\ m.header = mux.header
      /\ Waiting(m) /\ Unread(m) \in Seq(Byte)
  <2>1. Sound(m, file) /\ Unread(m) \in Seq(Byte)
    BY UnreadTyped DEF FlushedFrom, Sound
  <2>2. \A t \in Tracks : Len(m.pending[t]) < Batch
    <3>1. Len(<<>>) = 0 /\ 0 < Batch
      BY Mp4Assumption, EmptySeq
    <3> QED
      BY <3>1 DEF IInv, BatchInv, Waiting, FlushedFrom
  <2> QED
    BY <2>1, <2>2 DEF FlushedFrom, Waiting
<1>2. /\ Sound(mux', file') /\ mux'.configured = mux.configured /\ mux'.header = mux.header
      /\ mux'.pending = m.pending
  BY <1>1, PolledSound
<1>3. Sound(mux, file)'
  BY <1>2, TracksStay
<1>4. BatchInv'
  <2>1. Waiting(mux')
    BY <1>1, <1>2 DEF Waiting
  <2> QED
    BY <1>2, <2>1, TracksStay DEF IInv, BatchInv
<1>5. InsideInv' /\ LoneInv'
  BY <1>2, InsideUntouched, LoneUntouched
<1>6. SessionInv'
  <2>1. fed' \in 0 .. Len(file')
    BY <1>1, FileGrows
  <2> QED
    BY <2>1 DEF IInv, SessionInv
<1> QED
  BY <1>3, <1>4, <1>5, <1>6 DEF IInv

\* A step of the reader, or one that only says what the session does next.
LEMMA CallMoves ==
  ASSUME IInv, UNCHANGED <<reports, inside, given, mux, file>>,
         call' \in {"idle", "video", "audio", "finish video", "finish audio", "finished", "lost"},
         failures' \in 0 .. MaxFailures, fed' \in 0 .. Len(file)
  PROVE  IInv'
<1>1. Sound(mux, file)' /\ BatchInv' /\ InsideInv' /\ LoneInv'
  BY MuxerUntouched, InsideUntouched, LoneUntouched
<1>2. SessionInv'
  BY DEF IInv, SessionInv
<1> QED
  BY <1>1, <1>2 DEF IInv

\* Every step keeps the invariant.
LEMMA NextKeeps ==
  ASSUME IInv, [Next]_vars
  PROVE  IInv'
<1>0. /\ fed \in 0 .. Len(file) /\ failures \in 0 .. MaxFailures
      /\ call \in {"idle", "video", "audio", "finish video", "finish audio", "finished", "lost"}
      /\ file \in Seq(Byte) /\ Len(file) \in Nat /\ MaxFailures \in Nat
      /\ reports \in Reporting /\ Sound(mux, file)
  <2>1. file \in Seq(Byte)
    BY DEF IInv, Sound
  <2>2. Len(file) \in Nat
    BY <2>1
  <2> QED
    BY <2>1, <2>2, SessionAssumption DEF IInv, SessionInv
<1>1. ASSUME NEW t \in Track, NEW key \in BOOLEAN, NEW gap \in Gaps, Write(t, key, gap)
      PROVE  IInv'
  BY <1>1, WriteKeeps
<1>2. ASSUME NEW t \in Track, DrainPacket(t) PROVE IInv'
  BY <1>2, DrainPacketKeeps
<1>3. ASSUME NEW t \in Track, DrainEnds(t) PROVE IInv'
  BY <1>0, <1>3, CallMoves DEF DrainEnds, readerVars
<1>4. CASE Fails
  <2>1. failures' \in 0 .. MaxFailures
    <3>1. failures < MaxFailures /\ failures' = failures + 1
      BY <1>4 DEF Fails, Failing
    <3>2. failures \in 0 .. MaxFailures /\ MaxFailures \in Nat
      BY <1>0
    <3> QED
      BY <3>1, <3>2
  <2>2. call' \in {"lost", "idle"} /\ UNCHANGED <<reports, inside, given, mux, file, fed>>
    BY <1>4 DEF Fails, readerVars
  <2> QED
    BY <1>0, <2>1, <2>2, CallMoves
<1>5. CASE PollBytes
  <2>1. FlushedFrom(mux, mux, file)
    BY <1>0 DEF FlushedFrom
  <2>2. /\ mux' = Polled(mux) /\ file' = file \o Unread(mux) /\ call' = "idle"
        /\ UNCHANGED <<reports, inside, given, failures, fed>>
    BY <1>5 DEF PollBytes, readerVars
  <2> QED
    BY <2>1, <2>2, BytesReach
<1>6. CASE FinishBegins
  BY <1>0, <1>6, CallMoves DEF FinishBegins, readerVars
<1>7. CASE FinishVideo \/ FinishAudio
  <2>1. UNCHANGED <<reports, inside, given, failures, fed>> /\ call' \in {"finish audio", "finished"}
    BY <1>7 DEF FinishVideo, FinishAudio, AfterVideo, readerVars
  <2>2. \/ call' = "finish audio" /\ UNCHANGED <<mux, file>>
        \/ /\ call' = "finished" /\ mux' = Polled(FlushAll(mux))
           /\ file' = file \o Unread(FlushAll(mux))
    BY <1>7 DEF FinishVideo, FinishAudio, AfterVideo
  <2>3. FlushedFrom(FlushAll(mux), mux, file)
    BY <1>0, FlushAllSound
  <2>4. CASE call' = "finish audio" /\ UNCHANGED <<mux, file>>
    BY <1>0, <2>1, <2>4, CallMoves
  <2>5. CASE /\ call' = "finished" /\ mux' = Polled(FlushAll(mux))
             /\ file' = file \o Unread(FlushAll(mux))
    <3> DEFINE m == FlushAll(mux)
    <3> HIDE DEF m
    <3>1. FlushedFrom(m, mux, file) /\ mux' = Polled(m) /\ file' = file \o Unread(m)
      BY <2>3, <2>5 DEF m
    <3> QED
      BY <2>1, <2>5, <3>1, BytesReach
  <2> QED
    BY <2>2, <2>4, <2>5
<1>8. ASSUME NEW k \in Reads, PushBytes(k) PROVE IInv'
  <2>1. fed' \in 0 .. Len(file)
    <3>1. k \in Nat
      BY SessionAssumption
    <3>2. fed' = (IF fed + k < Len(file) THEN fed + k ELSE Len(file))
      BY <1>8 DEF PushBytes
    <3>3. fed \in 0 .. Len(file) /\ Len(file) \in Nat
      BY <1>0
    <3> QED
      BY <3>1, <3>2, <3>3
  <2>2. UNCHANGED <<reports, inside, given, mux, file, call, failures>>
    BY <1>8 DEF PushBytes, sessionVars
  <2> QED
    BY <1>0, <2>1, <2>2, CallMoves
<1>9. CASE Pump \/ PollPacket
  <2>1. UNCHANGED <<reports, inside, given, mux, file, call, failures, fed>>
    BY <1>9 DEF Pump, PollPacket, sessionVars
  <2> QED
    BY <1>0, <2>1, CallMoves
<1>10. CASE UNCHANGED vars
  <2>1. UNCHANGED <<reports, inside, given, mux, file, call, failures, fed>>
    BY <1>10 DEF vars, sessionVars, readerVars
  <2> QED
    BY <1>0, <2>1, CallMoves
<1> QED
  BY <1>1, <1>2, <1>3, <1>4, <1>5, <1>6, <1>7, <1>8, <1>9, <1>10 DEF Next

-----------------------------------------------------------------------------
(* Sequences of sequences made from the elements of a sequence.              *)

\* What f makes of the elements of q, joined.
Spread(f, q) == FlattenSeq([i \in DOMAIN q |-> f[q[i]]])

\* f makes a sequence over S of each element of B.
Makes(f, B, S) == f \in [B -> Seq(S)]

\* It is a sequence of what f's values are made of.
LEMMA SpreadTyped ==
  ASSUME NEW B, NEW S, NEW f, Makes(f, B, S), NEW q \in Seq(B)
  PROVE  /\ [i \in DOMAIN q |-> f[q[i]]] \in Seq(Seq(S)) /\ Spread(f, q) \in Seq(S)
         /\ Len([i \in DOMAIN q |-> f[q[i]]]) = Len(q)
<1> DEFINE p == [i \in DOMAIN q |-> f[q[i]]]
<1>1. DOMAIN q = 1 .. Len(q) /\ Len(q) \in Nat /\ \A i \in 1 .. Len(q) : q[i] \in B
  OBVIOUS
<1>2. \A i \in 1 .. Len(q) : f[q[i]] \in Seq(S)
  BY <1>1 DEF Makes
<1>3. p \in Seq(Seq(S)) /\ Len(p) = Len(q)
  BY <1>1, <1>2
<1> QED
  BY <1>3, FlattenType DEF Spread

\* Nothing is made of nothing.
LEMMA SpreadNone ==
  ASSUME NEW f
  PROVE  Spread(f, <<>>) = <<>>
<1>1. [i \in DOMAIN <<>> |-> f[<<>>[i]]] = <<>>
  OBVIOUS
<1> QED
  BY <1>1, FlattenEmpty DEF Spread

\* What is made of one element.
LEMMA SpreadOne ==
  ASSUME NEW B, NEW S, NEW f, Makes(f, B, S), NEW b \in B
  PROVE  Spread(f, <<b>>) = f[b]
<1> DEFINE p == [i \in DOMAIN <<b>> |-> f[<<b>>[i]]]
<1>1. p = <<f[b]>> /\ f[b] \in Seq(S)
  BY DEF Makes
<1> HIDE DEF p
<1>2. FlattenSeq(p) = f[b]
  BY <1>1, FlattenSingle
<1> QED
  BY <1>2 DEF Spread, p

\* What is made of two parts is what is made of each.
LEMMA SpreadConcat ==
  ASSUME NEW B, NEW S, NEW f, Makes(f, B, S), NEW q \in Seq(B), NEW r \in Seq(B)
  PROVE  /\ q \o r \in Seq(B) /\ Spread(f, q) \in Seq(S) /\ Spread(f, r) \in Seq(S)
         /\ Spread(f, q \o r) = Spread(f, q) \o Spread(f, r)
<1> DEFINE u == q \o r
           p(s) == [i \in DOMAIN s |-> f[s[i]]]
           left == p(u)
           right == p(q) \o p(r)
<1>1. /\ u \in Seq(B) /\ Len(u) = Len(q) + Len(r) /\ Len(q) \in Nat /\ Len(r) \in Nat
      /\ \A k \in 1 .. Len(q) : u[k] = q[k]
      /\ \A k \in 1 .. Len(r) : u[Len(q) + k] = r[k]
      /\ DOMAIN u = 1 .. Len(u) /\ DOMAIN q = 1 .. Len(q) /\ DOMAIN r = 1 .. Len(r)
  BY JoinParts
<1> HIDE DEF u
<1>2. /\ p(u) \in Seq(Seq(S)) /\ p(q) \in Seq(Seq(S)) /\ p(r) \in Seq(Seq(S))
      /\ Len(p(u)) = Len(u) /\ Len(p(q)) = Len(q) /\ Len(p(r)) = Len(r)
  <2>1. ASSUME NEW s \in Seq(B) PROVE p(s) \in Seq(Seq(S)) /\ Len(p(s)) = Len(s)
    BY SpreadTyped
  <2> HIDE DEF p
  <2> QED
    BY <1>1, <2>1
<1>3. /\ \A k \in 1 .. Len(u) : p(u)[k] = f[u[k]]
      /\ \A k \in 1 .. Len(q) : p(q)[k] = f[q[k]]
      /\ \A k \in 1 .. Len(r) : p(r)[k] = f[r[k]]
  BY <1>1
<1> DEFINE x == p(q)
           y == p(r)
<1>4. x \in Seq(Seq(S)) /\ y \in Seq(Seq(S)) /\ Len(x) = Len(q) /\ Len(y) = Len(r)
  BY <1>2
<1>5. /\ \A k \in 1 .. Len(q) : x[k] = f[q[k]]
      /\ \A k \in 1 .. Len(r) : y[k] = f[r[k]]
      /\ \A k \in 1 .. Len(u) : left[k] = f[u[k]]
  BY <1>3
<1>6. left \in Seq(Seq(S)) /\ Len(left) = Len(u)
  BY <1>2
<1>7. right = x \o y
  OBVIOUS
<1> HIDE DEF x, y, p, left, right
<1>8. /\ right \in Seq(Seq(S)) /\ Len(right) = Len(q) + Len(r)
      /\ \A k \in 1 .. Len(q) : right[k] = x[k]
      /\ \A k \in 1 .. Len(r) : right[Len(q) + k] = y[k]
  <2>1. /\ x \o y \in Seq(Seq(S)) /\ Len(x \o y) = Len(x) + Len(y)
        /\ \A k \in 1 .. Len(x) : (x \o y)[k] = x[k]
        /\ \A k \in 1 .. Len(y) : (x \o y)[Len(x) + k] = y[k]
    <3> DEFINE T == Seq(S)
    <3>1. x \in Seq(T) /\ y \in Seq(T)
      BY <1>4
    <3> HIDE DEF T
    <3>2. /\ x \o y \in Seq(T) /\ Len(x \o y) = Len(x) + Len(y)
          /\ \A k \in 1 .. Len(x) : (x \o y)[k] = x[k]
          /\ \A k \in 1 .. Len(y) : (x \o y)[Len(x) + k] = y[k]
      BY <3>1
    <3> QED
      BY <3>2 DEF T
  <2> QED
    BY <1>4, <1>7, <2>1
<1>9. \A k \in 1 .. Len(u) : left[k] = right[k]
  <2> TAKE k \in 1 .. Len(u)
  <2>1. CASE k <= Len(q)
    <3>1. k \in 1 .. Len(q)
      BY <1>1, <2>1
    <3>2. right[k] = x[k] /\ u[k] = q[k] /\ x[k] = f[q[k]]
      BY <1>1, <1>5, <1>8, <3>1
    <3> QED
      BY <1>5, <3>2
  <2>2. CASE ~(k <= Len(q))
    <3>1. k - Len(q) \in 1 .. Len(r) /\ Len(q) + (k - Len(q)) = k
      BY <1>1, <2>2
    <3>2. right[k] = y[k - Len(q)] /\ u[k] = r[k - Len(q)]
      BY <1>1, <1>8, <3>1
    <3> QED
      BY <1>5, <3>1, <3>2
  <2> QED
    BY <2>1, <2>2
<1>10. left = right
  BY <1>1, <1>6, <1>8, <1>9, SeqEqual
<1>11. FlattenSeq(left) = FlattenSeq(x) \o FlattenSeq(y)
  BY <1>4, <1>7, <1>10, FlattenConcat
<1> QED
  <2>1. Spread(f, q) \in Seq(S) /\ Spread(f, r) \in Seq(S)
    BY SpreadTyped
  <2> QED
    BY <1>1, <1>11, <2>1 DEF Spread, u, left, x, y, p

\* A sequence that is not empty is its first element and the others.
LEMMA HeadAndTail ==
  ASSUME NEW S, NEW s \in Seq(S), s # <<>>
  PROVE  /\ s = <<Head(s)>> \o Tail(s) /\ Head(s) = s[1] /\ s[1] \in S /\ Tail(s) \in Seq(S)
         /\ Len(s) \in Nat /\ 1 <= Len(s) /\ Len(Tail(s)) = Len(s) - 1
         /\ \A k \in 1 .. Len(s) - 1 : Tail(s)[k] = s[k + 1]
<1> DEFINE h == <<Head(s)>>
           t == Tail(s)
           w == h \o t
<1>1. /\ Head(s) = s[1] /\ s[1] \in S /\ t \in Seq(S) /\ Len(s) \in Nat /\ 1 <= Len(s)
      /\ Len(t) = Len(s) - 1 /\ \A k \in 1 .. Len(s) - 1 : t[k] = s[k + 1]
  OBVIOUS
<1>2. h \in Seq(S) /\ Len(h) = 1 /\ h[1] = s[1]
  BY <1>1
<1> HIDE DEF h, t
<1>3. /\ w \in Seq(S) /\ Len(w) = Len(h) + Len(t)
      /\ \A k \in 1 .. Len(h) : w[k] = h[k]
      /\ \A k \in 1 .. Len(t) : w[Len(h) + k] = t[k]
  <2>1. t \in Seq(S) /\ h \in Seq(S)
    BY <1>1, <1>2
  <2> QED
    BY <2>1
<1> HIDE DEF w
<1>4. \A k \in 1 .. Len(s) : s[k] = w[k]
  <2> TAKE k \in 1 .. Len(s)
  <2>1. CASE k = 1
    BY <1>1, <1>2, <1>3, <2>1
  <2>2. CASE k # 1
    <3>1. k - 1 \in 1 .. Len(t) /\ 1 + (k - 1) = k /\ (k - 1) + 1 = k
      BY <1>1, <2>2
    <3> QED
      BY <1>1, <1>2, <1>3, <3>1
  <2> QED
    BY <2>1, <2>2
<1>5. s = w
  BY <1>1, <1>2, <1>3, <1>4, SeqEqual
<1> QED
  BY <1>1, <1>5 DEF w, h, t

\* What is made of the first element comes first.
LEMMA SpreadFirst ==
  ASSUME NEW B, NEW S, NEW f, Makes(f, B, S), NEW q \in Seq(B), q # <<>>
  PROVE  /\ q[1] \in B /\ f[q[1]] \in Seq(S) /\ Tail(q) \in Seq(B) /\ Spread(f, Tail(q)) \in Seq(S)
         /\ Spread(f, q) = f[q[1]] \o Spread(f, Tail(q))
<1> DEFINE h == <<Head(q)>>
           t == Tail(q)
<1>1. q = h \o t /\ Head(q) = q[1] /\ q[1] \in B /\ t \in Seq(B) /\ f[q[1]] \in Seq(S)
  BY HeadAndTail DEF Makes
<1>2. h \in Seq(B) /\ Spread(f, h) = f[q[1]]
  BY <1>1, SpreadOne
<1>3. Spread(f, t) \in Seq(S)
  BY <1>1, SpreadTyped
<1> HIDE DEF h, t
<1>4. Spread(f, h \o t) = Spread(f, h) \o Spread(f, t)
  <2>1. t \in Seq(B) /\ h \in Seq(B)
    BY <1>1, <1>2
  <2> QED
    <3>1. /\ h \o t \in Seq(B) /\ Spread(f, h) \in Seq(S) /\ Spread(f, t) \in Seq(S)
          /\ Spread(f, h \o t) = Spread(f, h) \o Spread(f, t)
      BY <2>1, SpreadConcat
    <3> QED
      BY <3>1
<1> QED
  BY <1>1, <1>2, <1>3, <1>4 DEF t

\* f makes of each element of q the one of c.
MakesEach(f, q, c) == Len(c) = Len(q) /\ \A i \in 1 .. Len(q) : f[q[i]] = <<c[i]>>

\* Then it makes c of q.
LEMMA SpreadUnits ==
  ASSUME NEW B, NEW S, NEW f, Makes(f, B, S), NEW q \in Seq(B), NEW c \in Seq(S),
         MakesEach(f, q, c)
  PROVE  Spread(f, q) = c
<1>1. DOMAIN q = 1 .. Len(q) /\ DOMAIN c = 1 .. Len(q) /\ \A i \in 1 .. Len(q) : c[i] \in S
  BY DEF MakesEach
<1>2. [i \in DOMAIN q |-> f[q[i]]] = [i \in DOMAIN c |-> IF c[i] \in S THEN <<c[i]>> ELSE <<>>]
  BY <1>1 DEF MakesEach
<1>3. Only(c, S) = c
  BY <1>1, OnlyAll
<1> QED
  BY <1>2, <1>3 DEF Spread, Only

\* Nothing is made of any.
LEMMA SpreadNothing ==
  ASSUME NEW B, NEW S, NEW f, Makes(f, B, S), NEW q \in Seq(B),
         \A i \in 1 .. Len(q) : f[q[i]] = <<>>
  PROVE  Spread(f, q) = <<>>
<1>1. DOMAIN q = 1 .. Len(q)
  OBVIOUS
<1>2. [i \in DOMAIN q |-> f[q[i]]] = [i \in DOMAIN q |-> IF q[i] \in {} THEN <<q[i]>> ELSE <<>>]
  BY <1>1
<1>3. Only(q, {}) = <<>>
  BY OnlyNone
<1> QED
  BY <1>2, <1>3 DEF Spread, Only

\* The first n elements of x are u, and the others and y are v.
CutAfter(S, x, n, y, u, v) ==
  /\ SubSeq(x, 1, n) = u /\ SubSeq(x, n + 1, Len(x)) \in Seq(S)
  /\ SubSeq(x, n + 1, Len(x)) \o y = v

\* Two ways to cut a sequence in two: the shorter first part is the beginning of
\* the longer one, and the rest of that begins the other rest.
LEMMA TakeFront ==
  ASSUME NEW S, NEW x \in Seq(S), NEW y \in Seq(S), NEW u \in Seq(S), NEW v \in Seq(S),
         x \o y = u \o v, Len(u) <= Len(x)
  PROVE  CutAfter(S, x, Len(u), y, u, v)
<1> DEFINE w == x \o y
           first == SubSeq(x, 1, Len(u))
           left == SubSeq(x, Len(u) + 1, Len(x))
           rest == left \o y
<1>1. /\ Len(x) \in Nat /\ Len(y) \in Nat /\ Len(u) \in Nat /\ Len(v) \in Nat
      /\ Len(x) + Len(y) = Len(u) + Len(v)
  <2>1. Len(w) = Len(x) + Len(y) /\ Len(u \o v) = Len(u) + Len(v)
    OBVIOUS
  <2> QED
    BY <2>1
<1>2. /\ \A k \in 1 .. Len(x) : w[k] = x[k]
      /\ \A k \in 1 .. Len(y) : w[Len(x) + k] = y[k]
  OBVIOUS
<1>3. /\ \A k \in 1 .. Len(u) : w[k] = u[k]
      /\ \A k \in 1 .. Len(v) : w[Len(u) + k] = v[k]
  BY JoinParts
<1>4. first \in Seq(S) /\ Len(first) = Len(u) /\ \A k \in 1 .. Len(u) : first[k] = x[k]
  BY <1>1
<1>5. /\ left \in Seq(S) /\ Len(left) = Len(x) - Len(u)
      /\ \A k \in 1 .. Len(x) - Len(u) : left[k] = x[Len(u) + k]
  BY <1>1
<1> HIDE DEF w, first, left
<1>6. first = u
  <2>1. \A k \in 1 .. Len(u) : first[k] = u[k]
    BY <1>1, <1>2, <1>3, <1>4
  <2> QED
    BY <1>4, <2>1, SeqEqual
<1>7. /\ rest \in Seq(S) /\ Len(rest) = Len(v)
      /\ \A k \in 1 .. Len(x) - Len(u) : rest[k] = left[k]
      /\ \A k \in 1 .. Len(y) : rest[(Len(x) - Len(u)) + k] = y[k]
  <2>1. /\ rest \in Seq(S) /\ Len(rest) = Len(left) + Len(y)
        /\ \A k \in 1 .. Len(left) : rest[k] = left[k]
        /\ \A k \in 1 .. Len(y) : rest[Len(left) + k] = y[k]
    <3>1. left \in Seq(S)
      BY <1>5
    <3> QED
      BY <3>1
  <2> HIDE DEF rest
  <2> QED
    BY <1>1, <1>5, <2>1
<1> HIDE DEF rest
<1>8. \A k \in 1 .. Len(v) : rest[k] = v[k]
  <2> TAKE k \in 1 .. Len(v)
  <2>1. CASE k <= Len(x) - Len(u)
    <3>1. rest[k] = x[Len(u) + k] /\ Len(u) + k \in 1 .. Len(x)
      BY <1>1, <1>5, <1>7, <2>1
    <3> QED
      BY <1>2, <1>3, <3>1
  <2>2. CASE ~(k <= Len(x) - Len(u))
    <3>1. k - (Len(x) - Len(u)) \in 1 .. Len(y)
      BY <1>1, <2>2
    <3>2. /\ (Len(x) - Len(u)) + (k - (Len(x) - Len(u))) = k
          /\ Len(x) + (k - (Len(x) - Len(u))) = Len(u) + k
      BY <1>1
    <3>3. rest[k] = y[k - (Len(x) - Len(u))]
      BY <1>7, <3>1, <3>2
    <3>4. w[Len(u) + k] = y[k - (Len(x) - Len(u))]
      BY <1>2, <3>1, <3>2
    <3> QED
      BY <1>3, <3>3, <3>4
  <2> QED
    BY <2>1, <2>2
<1>9. rest = v
  BY <1>7, <1>8, SeqEqual
<1> QED
  BY <1>5, <1>6, <1>9 DEF first, left, rest, CutAfter

-----------------------------------------------------------------------------
(* What is in a fragment, and what the demuxer makes of it.                  *)

Rows(s) ==
  [i \in DOMAIN s |-> [duration |-> Duration(s, i), size |-> s[i].size, key |-> s[i].key]]
MoofOf(t, s) ==
  [type |-> "moof", len |-> Moof, track |-> t, base |-> s[1].dts, rows |-> Rows(s)]
MdatOf(s) == [type |-> "mdat", len |-> SizeOf(s) + 1]
Mdat(s) == Bytes(MdatOf(s), 1) \o FlattenSeq(Payloads(s))

\* The times of a track's packets only ever go up.
Rising(s) == \A i, j \in 1 .. Len(s) : i < j => s[i].dts < s[j].dts

\* A packet is made of the fields it has.
LEMMA PacketsOf ==
  ASSUME NEW s \in Seq(Packet)
  PROVE  /\ DOMAIN s = 1 .. Len(s) /\ Len(s) \in Nat
         /\ \A i \in 1 .. Len(s) :
              /\ s[i] \in Packet /\ s[i].dts \in Nat /\ s[i].size \in Nat
              /\ s[i].key \in BOOLEAN /\ s[i].track \in Track /\ s[i].n \in Nat
<1>1. DOMAIN s = 1 .. Len(s) /\ Len(s) \in Nat /\ \A i \in 1 .. Len(s) : s[i] \in Packet
  OBVIOUS
<1> QED
  BY <1>1 DEF Packet

\* The rows of a fragment say what its samples are.
LEMMA RowsTyped ==
  ASSUME NEW s \in Seq(Packet)
  PROVE  /\ Rows(s) \in Seq(Row) /\ Len(Rows(s)) = Len(s) /\ DOMAIN Rows(s) = 1 .. Len(s)
         /\ \A i \in 1 .. Len(s) :
              /\ Rows(s)[i].duration = Duration(s, i) /\ Rows(s)[i].duration \in Nat
              /\ Rows(s)[i].size = s[i].size /\ Rows(s)[i].key = s[i].key
<1> DEFINE row(i) == [duration |-> Duration(s, i), size |-> s[i].size, key |-> s[i].key]
<1>1. \A i \in 1 .. Len(s) : Duration(s, i) \in Nat
  <2> TAKE i \in 1 .. Len(s)
  <2> DEFINE j == IF i < Len(s) THEN i ELSE i - 1
  <2>1. j = 0 \/ (j \in 1 .. Len(s) /\ j + 1 \in 1 .. Len(s))
    BY PacketsOf
  <2> HIDE DEF j
  <2>2. j # 0 => s[j + 1].dts - s[j].dts \in Int
    BY <2>1, PacketsOf
  <2>3. (IF j = 0 \/ s[j + 1].dts - s[j].dts < 1 THEN 1 ELSE s[j + 1].dts - s[j].dts) \in Nat
    BY <2>2
  <2> QED
    BY <2>3 DEF Duration, j
<1>2. \A i \in 1 .. Len(s) : row(i) \in Row
  BY <1>1, PacketsOf DEF Row
<1>3. Rows(s) = [i \in 1 .. Len(s) |-> row(i)] /\ Len(s) \in Nat
  BY PacketsOf DEF Rows
<1>4. \A i \in 1 .. Len(s) :
        row(i).duration = Duration(s, i) /\ row(i).size = s[i].size /\ row(i).key = s[i].key
  OBVIOUS
<1> HIDE DEF row
<1>5. Rows(s) \in Seq(Row) /\ Len(Rows(s)) = Len(s) /\ DOMAIN Rows(s) = 1 .. Len(s)
  BY <1>2, <1>3
<1> QED
  BY <1>1, <1>3, <1>4, <1>5

\* A fragment is a moof, and an mdat with the payloads of its samples.
LEMMA FragmentParts ==
  ASSUME NEW t \in Track, NEW s \in Seq(Packet), s # <<>>
  PROVE  /\ Fragment(t, s) = Bytes(MoofOf(t, s), Moof) \o Mdat(s)
         /\ MoofOf(t, s) \in Box /\ MdatOf(s) \in Box
         /\ Bytes(MoofOf(t, s), Moof) \in Seq(Byte) /\ Bytes(MdatOf(s), 1) \in Seq(Byte)
         /\ FlattenSeq(Payloads(s)) \in Seq(Byte) /\ Mdat(s) \in Seq(Byte)
<1>1. 1 \in 1 .. Len(s)
  OBVIOUS
<1>2. s[1].dts \in Nat /\ (IF s[1].dts > 0 THEN s[1].dts ELSE 0) = s[1].dts
  <2>1. s[1].dts \in Nat
    BY <1>1, PacketsOf
  <2> QED
    BY <2>1
<1>3. MoofOf(t, s) \in Box
  <2>1. Rows(s) \in Seq(Row)
    BY RowsTyped
  <2> QED
    BY <1>2, <2>1 DEF MoofOf, Box, Moof
<1>4. MdatOf(s) \in Box
  <2>1. SizeOf(s) + 1 \in Nat
    BY SizesTyped
  <2> QED
    BY <2>1 DEF MdatOf, Box
<1> DEFINE x == Bytes(MoofOf(t, s), Moof)
           y == Bytes(MdatOf(s), 1)
           z == FlattenSeq(Payloads(s))
<1>5. x \in Seq(Byte) /\ y \in Seq(Byte)
  <2>1. Moof \in Nat /\ 1 \in Nat
    BY DEF Moof
  <2> QED
    BY <1>3, <1>4, <2>1, BytesTyped
<1>6. z \in Seq(Byte)
  BY PayloadsTyped, FlattenType
<1>7. Fragment(t, s) = (x \o y) \o z
  BY <1>2 DEF Fragment, MoofOf, MdatOf, Rows, Payloads
<1> HIDE DEF x, y, z
<1>8. (x \o y) \o z = x \o (y \o z) /\ y \o z \in Seq(Byte)
  <2>1. y \o z \in Seq(Byte)
    BY <1>5, <1>6
  <2> QED
    BY <1>5, <1>6, <2>1, BytesAssociate, Zenon
<1> QED
  BY <1>3, <1>4, <1>5, <1>6, <1>7, <1>8 DEF Mdat, x, y, z

\* A sample's time is the fragment's and the durations of those before it, when
\* the times go up (a sample lasts at least 1).
LEMMA ElapsedIs ==
  ASSUME NEW s \in Seq(Packet), Rising(s), NEW n \in Nat, n < Len(s)
  PROVE  Elapsed(Rows(s), n) \in Nat /\ s[1].dts + Elapsed(Rows(s), n) = s[n + 1].dts
<1> DEFINE r == Rows(s)
           first(k) == [i \in 1 .. k |-> r[i].duration]
           D == {k \in Nat : k < Len(s) => /\ Elapsed(r, k) \in Nat
                                           /\ s[1].dts + Elapsed(r, k) = s[k + 1].dts}
<1>1. /\ Len(s) \in Nat /\ \A i \in 1 .. Len(s) : s[i].dts \in Nat
      /\ \A i \in 1 .. Len(s) : r[i].duration = Duration(s, i) /\ r[i].duration \in Nat
  BY PacketsOf, RowsTyped
<1> HIDE DEF r
<1>2. \A k \in Nat : k <= Len(s) => first(k) \in Seq(Nat)
  BY <1>1
<1>3. 0 \in D
  <2>1. first(0) = <<>>
    OBVIOUS
  <2>2. Elapsed(r, 0) = 0
    BY <2>1, TotalEmpty DEF Elapsed
  <2>3. 0 < Len(s) => s[1].dts \in Nat
    BY <1>1
  <2> QED
    BY <2>2, <2>3
<1>4. ASSUME NEW k \in Nat, k \in D PROVE k + 1 \in D
  <2>1. CASE k + 1 < Len(s)
    <3>1. /\ k + 1 \in 1 .. Len(s) /\ k + 2 \in 1 .. Len(s) /\ (k + 1) + 1 = k + 2
          /\ k < Len(s) /\ k <= Len(s) /\ k + 1 <= Len(s)
      BY <1>1, <2>1
    <3>2. Duration(s, k + 1) = s[k + 2].dts - s[k + 1].dts
      <4>1. s[k + 1].dts < s[k + 2].dts
        <5>1. k + 1 < k + 2
          OBVIOUS
        <5> QED
          BY <3>1, <5>1 DEF Rising
      <4>2. s[k + 1].dts \in Nat /\ s[k + 2].dts \in Nat
        BY <1>1, <3>1
      <4>3. k + 1 # 0 /\ ~(s[k + 2].dts - s[k + 1].dts < 1)
        BY <4>1, <4>2
      <4> QED
        BY <2>1, <3>1, <4>3 DEF Duration
    <3>3. Elapsed(r, k + 1) = Elapsed(r, k) + r[k + 1].duration
      <4> DEFINE x == first(k)
                 y == first(k + 1)
      <4>1. x \in Seq(Nat) /\ y \in Seq(Nat) /\ r[k + 1].duration \in Nat
        <5>1. k + 1 \in Nat
          OBVIOUS
        <5> QED
          BY <1>1, <1>2, <3>1, <5>1
      <4>2. Len(x) = k /\ Len(y) = k + 1 /\ (\A i \in 1 .. k : x[i] = y[i])
            /\ y[k + 1] = r[k + 1].duration
        OBVIOUS
      <4> HIDE DEF x, y
      <4>3. y = Append(x, r[k + 1].duration)
        <5> DEFINE z == Append(x, r[k + 1].duration)
        <5>1. z \in Seq(Nat) /\ Len(z) = k + 1 /\ z[k + 1] = r[k + 1].duration
              /\ \A i \in 1 .. k : z[i] = x[i]
          BY <4>1, <4>2
        <5> HIDE DEF z
        <5>2. \A i \in 1 .. k + 1 : y[i] = z[i]
          BY <4>2, <5>1
        <5>3. y = z
          BY <4>1, <4>2, <5>1, <5>2, SeqEqual
        <5> QED
          BY <5>3 DEF z
      <4>4. Total(y) = Total(x) + r[k + 1].duration
        BY <4>1, <4>3, TotalAppend
      <4> QED
        BY <4>4 DEF Elapsed, x, y
    <3>4. Elapsed(r, k) \in Nat /\ s[1].dts + Elapsed(r, k) = s[k + 1].dts
      BY <1>4, <3>1
    <3>5. s[1].dts \in Nat /\ s[k + 1].dts \in Nat /\ s[k + 2].dts \in Nat
          /\ r[k + 1].duration = s[k + 2].dts - s[k + 1].dts /\ r[k + 1].duration \in Nat
      BY <1>1, <3>1, <3>2
    <3>6. Elapsed(r, k + 1) \in Nat /\ s[1].dts + Elapsed(r, k + 1) = s[(k + 1) + 1].dts
      <4> DEFINE e == Elapsed(r, k)
                 f == Elapsed(r, k + 1)
                 g == r[k + 1].duration
                 a == s[1].dts
                 b == s[k + 1].dts
                 c == s[k + 2].dts
      <4>1. e \in Nat /\ a + e = b /\ f = e + g /\ g = c - b /\ g \in Nat
            /\ a \in Nat /\ b \in Nat /\ c \in Nat
        BY <3>3, <3>4, <3>5
      <4> HIDE DEF e, f, g, a, b, c
      <4>2. f \in Nat /\ a + f = c
        BY <4>1
      <4> QED
        BY <3>1, <4>2 DEF f, a, c
    <3>7. k + 1 \in Nat
      OBVIOUS
    <3> QED
      BY <3>6, <3>7, Zenon
  <2>2. CASE ~(k + 1 < Len(s))
    <3>1. k + 1 \in Nat
      OBVIOUS
    <3> QED
      BY <2>2, <3>1, Zenon
  <2> QED
    BY <2>1, <2>2
<1>5. Nat \subseteq D
  <2> HIDE DEF D
  <2> QED
    BY <1>3, <1>4, NatSetInduction
<1> QED
  BY <1>5 DEF r

\* The bytes of the first samples are as many as their payloads have.
LEMMA ExtentIs ==
  ASSUME NEW s \in Seq(Packet), NEW n \in 0 .. Len(s)
  PROVE  /\ SubSeq(Payloads(s), 1, n) \in Seq(Seq(Byte))
         /\ FlattenSeq(SubSeq(Payloads(s), 1, n)) \in Seq(Byte)
         /\ Extent(Rows(s), n) = Len(FlattenSeq(SubSeq(Payloads(s), 1, n)))
<1> DEFINE r == Rows(s)
           P == Payloads(s)
           R == SubSeq(r, 1, n)
           Q == SubSeq(P, 1, n)
<1>1. /\ r \in Seq(Row) /\ Len(r) = Len(s) /\ Len(s) \in Nat /\ n \in Nat /\ n <= Len(s)
      /\ \A i \in 1 .. Len(s) : r[i].size = s[i].size
  BY RowsTyped
<1>2. P \in Seq(Seq(Byte)) /\ Len(P) = Len(s) /\ \A i \in 1 .. Len(s) : P[i] = Payload(s[i])
  BY PayloadsTyped
<1> HIDE DEF r, P
<1>3. R \in Seq(Row) /\ Len(R) = n /\ (\A i \in 1 .. n : R[i] = r[i]) /\ DOMAIN R = 1 .. n
  BY <1>1
<1>4. Q \in Seq(Seq(Byte)) /\ Len(Q) = n /\ (\A i \in 1 .. n : Q[i] = P[i]) /\ DOMAIN Q = 1 .. n
  BY <1>1, <1>2
<1> HIDE DEF R, Q
<1>5. [i \in DOMAIN Q |-> Len(Q[i])] = [i \in DOMAIN R |-> R[i].size]
  <2>1. \A i \in 1 .. n : Len(Q[i]) = R[i].size
    <3> TAKE i \in 1 .. n
    <3>1. i \in 1 .. Len(s)
      BY <1>1
    <3>2. Len(Payload(s[i])) = s[i].size
      BY <3>1, PacketsOf, PayloadTyped
    <3> QED
      BY <1>1, <1>2, <1>3, <1>4, <3>1, <3>2
  <2> QED
    BY <1>3, <1>4, <2>1
<1>6. Len(FlattenSeq(Q)) = Total([i \in DOMAIN Q |-> Len(Q[i])]) /\ FlattenSeq(Q) \in Seq(Byte)
  BY <1>4, FlattenLength, FlattenType
<1> QED
  BY <1>4, <1>5, <1>6 DEF Extent, SizeOf, r, P, R, Q

\* The i-th payload lies in the body of the mdat between what the first i - 1
\* and the first i extend to.
LEMMA SampleBytes ==
  ASSUME NEW s \in Seq(Packet), NEW i \in 1 .. Len(s)
  PROVE  LET body == FlattenSeq(Payloads(s)) IN
         /\ Extent(Rows(s), i) <= Len(body)
         /\ SubSeq(body, Extent(Rows(s), i - 1) + 1, Extent(Rows(s), i)) = Payload(s[i])
<1> DEFINE P == Payloads(s)
           n == Len(s)
           body == FlattenSeq(P)
           Q == SubSeq(P, 1, i)
           A == FlattenSeq(SubSeq(P, 1, i - 1))
           B == FlattenSeq(Q)
           C == FlattenSeq(SubSeq(P, i + 1, n))
           own == Payload(s[i])
           one == <<own>>
<1>1. n \in Nat /\ i \in 1 .. n /\ i \in 0 .. n /\ i - 1 \in 0 .. n /\ (i - 1) + 1 = i
  OBVIOUS
<1>2. P \in Seq(Seq(Byte)) /\ Len(P) = n /\ \A k \in 1 .. n : P[k] = Payload(s[k])
  BY PayloadsTyped
<1>3. own \in Seq(Byte) /\ Len(own) \in Nat
  BY PacketsOf, PayloadTyped
<1>4. /\ SubSeq(P, 1, i - 1) \in Seq(Seq(Byte)) /\ A \in Seq(Byte)
      /\ Extent(Rows(s), i - 1) = Len(A)
  BY <1>1, ExtentIs
<1>5. Q \in Seq(Seq(Byte)) /\ B \in Seq(Byte) /\ Extent(Rows(s), i) = Len(B)
  BY <1>1, ExtentIs
<1> HIDE DEF P
<1>6. body = B \o C /\ C \in Seq(Byte)
  <2>1. SubSeq(P, i + 1, Len(P)) \in Seq(Seq(Byte))
        /\ FlattenSeq(P) = FlattenSeq(Q) \o FlattenSeq(SubSeq(P, i + 1, Len(P)))
    BY <1>1, <1>2, FlattenSplit
  <2> QED
    BY <1>2, <2>1, FlattenType
<1>7. B = A \o own
  <2> DEFINE x == SubSeq(P, 1, i - 1)
             y == Append(x, own)
             T == Seq(Byte)
  <2>1. P \in Seq(T) /\ Len(P) = n /\ P[i] = own /\ own \in T
    BY <1>1, <1>2, <1>3
  <2> HIDE DEF T
  <2>2. Q \in Seq(T) /\ Len(Q) = i /\ \A k \in 1 .. i : Q[k] = P[k]
    BY <1>1, <2>1
  <2>3. x \in Seq(T) /\ Len(x) = i - 1 /\ \A k \in 1 .. i - 1 : x[k] = P[k]
    BY <1>1, <2>1
  <2> HIDE DEF Q, x, own
  <2>4. y \in Seq(T) /\ Len(y) = i /\ y[i] = own /\ \A k \in 1 .. i - 1 : y[k] = x[k]
    BY <1>1, <2>1, <2>3
  <2> HIDE DEF y
  <2>5. \A k \in 1 .. i : Q[k] = y[k]
    BY <1>1, <2>1, <2>2, <2>3, <2>4
  <2>6. Q = y
    BY <1>1, <2>2, <2>4, <2>5, SeqEqual
  <2>7. FlattenSeq(Append(x, own)) = FlattenSeq(x) \o own
    BY <1>3, <1>4, FlattenAppend DEF x
  <2> QED
    BY <2>6, <2>7 DEF y, x
<1> HIDE DEF body, A, B, C, own
<1>8. Len(B) = Len(A) + Len(own) /\ Len(A) \in Nat /\ Len(C) \in Nat
      /\ Len(body) = Len(B) + Len(C)
  <2>1. Len(A \o own) = Len(A) + Len(own) /\ Len(A) \in Nat /\ Len(C) \in Nat
    BY <1>3, <1>4, <1>6
  <2>2. Len(B \o C) = Len(B) + Len(C)
    BY <1>5, <1>6
  <2> QED
    BY <1>6, <1>7, <2>1, <2>2
<1>9. SubSeq(body, Len(A) + 1, Len(A) + Len(own)) = own
  <2>1. (A \o own) \o C = A \o (own \o C)
    BY <1>3, <1>4, <1>6, BytesAssociate, Zenon
  <2>2. SubSeq(A \o (own \o C), Len(A) + 1, Len(A) + Len(own)) = own
    BY <1>3, <1>4, <1>6, MiddlePart
  <2> QED
    BY <1>6, <1>7, <2>1, <2>2
<1>10. Extent(Rows(s), i) <= Len(body)
  BY <1>3, <1>5, <1>8
<1>11. SubSeq(body, Extent(Rows(s), i - 1) + 1, Extent(Rows(s), i)) = own
  BY <1>4, <1>5, <1>8, <1>9
<1> QED
  BY <1>10, <1>11 DEF body, own, P

\* The packets a fragment becomes.
Got(t, s) == [i \in 1 .. Len(s) |-> [track |-> t, content |-> Content(s[i])]]

\* The demuxer makes of a whole fragment the samples that were put in it.
LEMMA SamplesAre ==
  ASSUME NEW t, NEW s \in Seq(Packet), Rising(s), NEW d,
         d.track = t, d.base = s[1].dts, d.rows = Rows(s)
  PROVE  Samples(d, FlattenSeq(Payloads(s))) = Got(t, s)
<1> DEFINE body == FlattenSeq(Payloads(s))
           Fitting == {i \in DOMAIN d.rows : Extent(d.rows, i) <= Len(body)}
           out(i) == [track |-> d.track,
                      content |-> [dts |-> d.base + Elapsed(d.rows, i - 1), key |-> d.rows[i].key,
                                   payload |-> SubSeq(body, Extent(d.rows, i - 1) + 1, Extent(d.rows, i))]]
<1>1. DOMAIN d.rows = 1 .. Len(s)
  BY RowsTyped
<1>2. Fitting = 1 .. Len(s)
  BY <1>1, SampleBytes
<1>3. \A i \in 1 .. Len(s) : out(i) = [track |-> t, content |-> Content(s[i])]
  <2> TAKE i \in 1 .. Len(s)
  <2>1. d.rows[i].key = s[i].key
    BY RowsTyped
  <2>2. d.base + Elapsed(d.rows, i - 1) = s[i].dts
    <3>1. i - 1 \in Nat /\ i - 1 < Len(s) /\ (i - 1) + 1 = i
      BY PacketsOf
    <3>2. s[1].dts + Elapsed(Rows(s), i - 1) = s[(i - 1) + 1].dts
      BY <3>1, ElapsedIs
    <3> QED
      BY <3>1, <3>2
  <2>3. SubSeq(body, Extent(d.rows, i - 1) + 1, Extent(d.rows, i)) = Payload(s[i])
    BY SampleBytes
  <2> HIDE DEF body
  <2> QED
    BY <2>1, <2>2, <2>3 DEF Content
<1>4. Samples(d, body) = [i \in Fitting |-> out(i)]
  BY DEF Samples
<1> HIDE DEF Fitting, out
<1> QED
  BY <1>2, <1>3, <1>4 DEF Got

-----------------------------------------------------------------------------
(* What the muxer writes, as a sequence of fragments.                        *)

PayloadByte == [box : [type : {"payload"}, track : Track, n : Nat], at : Nat]
Said == [dts : Nat, key : BOOLEAN, payload : Seq(PayloadByte)]
Out == [track : Track, content : Said]

\* The samples of a fragment, and their track.
Block == {b \in [track : Track, samples : Seq(Packet)] : b.samples # <<>> /\ Rising(b.samples)}

FragmentOf == [b \in Block |-> Fragment(b.track, b.samples)]
SamplesOf(t) == [b \in Block |-> IF b.track = t THEN b.samples ELSE <<>>]
ContentOf(t) == [o \in Out |-> IF o.track = t THEN <<o.content>> ELSE <<>>]

\* The bytes of some fragments, their samples of one track, and what the reader
\* gets of one track.
Written(q) == Spread(FragmentOf, q)
OfTrack(q, t) == Spread(SamplesOf(t), q)
Read(p, t) == Spread(ContentOf(t), p)
Contents(s) == [i \in DOMAIN s |-> Content(s[i])]

Moov == Bytes([type |-> "moov", len |-> Header], Header)

\* The fields of a fragment.
LEMMA BlockFields ==
  ASSUME NEW b \in Block
  PROVE  b.track \in Track /\ b.samples \in Seq(Packet) /\ b.samples # <<>> /\ Rising(b.samples)
BY DEF Block

\* A fragment is bytes, and holds samples.
LEMMA BlocksMake ==
  /\ Makes(FragmentOf, Block, Byte)
  /\ \A t \in Track : Makes(SamplesOf(t), Block, Packet)
  /\ \A t \in Track : Makes(ContentOf(t), Out, Said)
<1>1. ASSUME NEW b \in Block PROVE Fragment(b.track, b.samples) \in Seq(Byte)
  BY BlockFields, FragmentTyped
<1>2. ASSUME NEW t \in Track, NEW b \in Block
      PROVE  (IF b.track = t THEN b.samples ELSE <<>>) \in Seq(Packet)
  <2>1. <<>> \in Seq(Packet)
    OBVIOUS
  <2> QED
    BY <2>1, BlockFields
<1>3. ASSUME NEW t \in Track, NEW o \in Out
      PROVE  (IF o.track = t THEN <<o.content>> ELSE <<>>) \in Seq(Said)
  <2>1. o.content \in Said
    BY DEF Out
  <2> HIDE DEF Said
  <2>2. <<o.content>> \in Seq(Said) /\ <<>> \in Seq(Said)
    BY <2>1
  <2> QED
    BY <2>2
<1>4. FragmentOf \in [Block -> Seq(Byte)]
  BY <1>1 DEF FragmentOf
<1>5. \A t \in Track : SamplesOf(t) \in [Block -> Seq(Packet)]
  BY <1>2 DEF SamplesOf
<1>6. \A t \in Track : ContentOf(t) \in [Out -> Seq(Said)]
  BY <1>3 DEF ContentOf
<1> QED
  BY <1>4, <1>5, <1>6 DEF Makes

\* Fragments written one after the other.
LEMMA WrittenParts ==
  /\ Written(<<>>) = <<>>
  /\ \A q \in Seq(Block) : Written(q) \in Seq(Byte)
  /\ \A q, r \in Seq(Block) : Written(q \o r) = Written(q) \o Written(r)
  /\ \A b \in Block : Written(<<b>>) = Fragment(b.track, b.samples)
<1>1. Makes(FragmentOf, Block, Byte)
  BY BlocksMake
<1>2. Written(<<>>) = <<>>
  BY SpreadNone DEF Written
<1>3. ASSUME NEW q \in Seq(Block) PROVE Written(q) \in Seq(Byte)
  BY <1>1, SpreadTyped DEF Written
<1>4. ASSUME NEW q \in Seq(Block), NEW r \in Seq(Block)
      PROVE  Written(q \o r) = Written(q) \o Written(r)
  BY <1>1, SpreadConcat DEF Written
<1>5. ASSUME NEW b \in Block PROVE Written(<<b>>) = Fragment(b.track, b.samples)
  <2>1. Written(<<b>>) = FragmentOf[b]
    BY <1>1, SpreadOne DEF Written
  <2> QED
    BY <2>1 DEF FragmentOf
<1> QED
  BY <1>2, <1>3, <1>4, <1>5

\* The samples of a track, fragment after fragment.
LEMMA OfTrackParts ==
  ASSUME NEW t \in Track
  PROVE  /\ OfTrack(<<>>, t) = <<>>
         /\ \A q \in Seq(Block) : OfTrack(q, t) \in Seq(Packet)
         /\ \A q, r \in Seq(Block) : OfTrack(q \o r, t) = OfTrack(q, t) \o OfTrack(r, t)
         /\ \A b \in Block : OfTrack(<<b>>, t) = IF b.track = t THEN b.samples ELSE <<>>
<1>1. Makes(SamplesOf(t), Block, Packet)
  BY BlocksMake
<1>2. OfTrack(<<>>, t) = <<>>
  BY SpreadNone DEF OfTrack
<1>3. ASSUME NEW q \in Seq(Block) PROVE OfTrack(q, t) \in Seq(Packet)
  BY <1>1, SpreadTyped DEF OfTrack
<1>4. ASSUME NEW q \in Seq(Block), NEW r \in Seq(Block)
      PROVE  OfTrack(q \o r, t) = OfTrack(q, t) \o OfTrack(r, t)
  BY <1>1, SpreadConcat DEF OfTrack
<1>5. ASSUME NEW b \in Block PROVE OfTrack(<<b>>, t) = IF b.track = t THEN b.samples ELSE <<>>
  <2>1. OfTrack(<<b>>, t) = SamplesOf(t)[b]
    BY <1>1, SpreadOne DEF OfTrack
  <2> QED
    BY <2>1 DEF SamplesOf
<1> QED
  BY <1>2, <1>3, <1>4, <1>5

\* No samples of any track, no fragment.
LEMMA NothingWritten ==
  ASSUME NEW q \in Seq(Block), \A t \in Track : OfTrack(q, t) = <<>>
  PROVE  q = <<>>
<1>1. SUFFICES ASSUME q # <<>> PROVE FALSE
  OBVIOUS
<1> DEFINE b == q[1]
           t == b.track
           rest == OfTrack(Tail(q), t)
<1>2. b \in Block /\ t \in Track /\ b.samples \in Seq(Packet) /\ b.samples # <<>>
  BY <1>1, HeadAndTail, BlockFields
<1>3. Makes(SamplesOf(t), Block, Packet) /\ SamplesOf(t)[b] = b.samples
  BY <1>2, BlocksMake DEF SamplesOf
<1>4. rest \in Seq(Packet) /\ OfTrack(q, t) = SamplesOf(t)[b] \o rest
  <2> DEFINE f == SamplesOf(t)
  <2>1. Makes(f, Block, Packet)
    BY <1>3
  <2> HIDE DEF f
  <2>2. /\ q[1] \in Block /\ f[q[1]] \in Seq(Packet) /\ Tail(q) \in Seq(Block)
        /\ Spread(f, Tail(q)) \in Seq(Packet) /\ Spread(f, q) = f[q[1]] \o Spread(f, Tail(q))
    BY <1>1, <2>1, SpreadFirst
  <2> QED
    BY <2>2 DEF OfTrack, f
<1> HIDE DEF rest
<1>5. Len(b.samples \o rest) = Len(b.samples) + Len(rest) /\ Len(b.samples) >= 1 /\ Len(rest) \in Nat
  BY <1>2, <1>4
<1>6. Len(<<>>) = 0
  OBVIOUS
<1> QED
  BY <1>2, <1>3, <1>4, <1>5, <1>6

\* Both parts of a track whose times go up have times that go up.
LEMMA RisingParts ==
  ASSUME NEW x \in Seq(Packet), NEW y \in Seq(Packet), Rising(x \o y)
  PROVE  Rising(x) /\ Rising(y)
<1> DEFINE w == x \o y
<1>1. /\ Len(x) \in Nat /\ Len(y) \in Nat /\ Len(w) = Len(x) + Len(y)
      /\ \A k \in 1 .. Len(x) : w[k] = x[k]
      /\ \A k \in 1 .. Len(y) : w[Len(x) + k] = y[k]
  OBVIOUS
<1> HIDE DEF w
<1>2. \A i, j \in 1 .. Len(w) : i < j => w[i].dts < w[j].dts
  BY DEF Rising, w
<1>3. ASSUME NEW i \in 1 .. Len(x), NEW j \in 1 .. Len(x), i < j PROVE x[i].dts < x[j].dts
  <2>1. i \in 1 .. Len(w) /\ j \in 1 .. Len(w)
    BY <1>1
  <2> QED
    BY <1>1, <1>2, <1>3, <2>1
<1>4. ASSUME NEW i \in 1 .. Len(y), NEW j \in 1 .. Len(y), i < j PROVE y[i].dts < y[j].dts
  <2>1. Len(x) + i \in 1 .. Len(w) /\ Len(x) + j \in 1 .. Len(w) /\ Len(x) + i < Len(x) + j
    BY <1>1, <1>4
  <2>2. w[Len(x) + i] = y[i] /\ w[Len(x) + j] = y[j]
    BY <1>1
  <2>3. w[Len(x) + i].dts < w[Len(x) + j].dts
    BY <1>2, <2>1
  <2> QED
    BY <2>2, <2>3
<1> QED
  BY <1>3, <1>4 DEF Rising

-----------------------------------------------------------------------------
(* What the muxer's methods write.                                           *)

\* What waits for a fragment of track t.
Queued(m, t) == IF t \in Tracks THEN m.pending[t] ELSE <<>>

Orderly(m) == \A t \in Track : Rising(Queued(m, t))

\* Between m and n the fragments r were written, of samples that waited.
Emits(m, n, r) ==
  /\ r \in Seq(Block) /\ Unread(n) = Unread(m) \o Written(r)
  /\ \A t \in Track : Queued(m, t) = OfTrack(r, t) \o Queued(n, t)

\* What waits is packets.
LEMMA QueuedTyped ==
  ASSUME NEW m \in Muxer, NEW t \in Track
  PROVE  Queued(m, t) \in Seq(Packet)
<1>1. m.pending \in [Tracks -> Seq(Packet)] /\ <<>> \in Seq(Packet)
  BY MuxerFields
<1> QED
  BY <1>1 DEF Queued

\* A sound muxer's unread bytes are bytes, and it is a muxer.
LEMMA SoundTyped ==
  ASSUME NEW m, NEW polled, Sound(m, polled)
  PROVE  m \in Muxer /\ Unread(m) \in Seq(Byte)
BY UnreadTyped DEF Sound

\* Joining packets is associative, and joining nothing does nothing.
LEMMA PacketsJoin ==
  /\ <<>> \in Seq(Packet)
  /\ \A x, y \in Seq(Packet) : x \o y \in Seq(Packet)
  /\ \A x \in Seq(Packet) : x \o <<>> = x /\ <<>> \o x = x
  /\ \A x, y, z \in Seq(Packet) : (x \o y) \o z = x \o (y \o z)
<1>1. <<>> \in Seq(Packet) /\ \A x, y \in Seq(Packet) : x \o y \in Seq(Packet)
  OBVIOUS
<1>2. \A x \in Seq(Packet) : x \o <<>> = x /\ <<>> \o x = x
  BY ConcatEmptySeq
<1>3. \A x, y, z \in Seq(Packet) : (x \o y) \o z = x \o (y \o z)
  BY ConcatAssociative
<1> QED
  BY <1>1, <1>2, <1>3

\* The same for bytes.
LEMMA BytesJoin ==
  /\ <<>> \in Seq(Byte)
  /\ \A x, y \in Seq(Byte) : x \o y \in Seq(Byte)
  /\ \A x \in Seq(Byte) : x \o <<>> = x /\ <<>> \o x = x
  /\ \A x, y, z \in Seq(Byte) : (x \o y) \o z = x \o (y \o z)
<1>1. <<>> \in Seq(Byte) /\ \A x, y \in Seq(Byte) : x \o y \in Seq(Byte)
  OBVIOUS
<1>2. \A x \in Seq(Byte) : x \o <<>> = x /\ <<>> \o x = x
  BY ConcatEmptySeq
<1> QED
  BY <1>1, <1>2, BytesAssociate

\* Nothing happens, nothing is written.
LEMMA EmitsNothing ==
  ASSUME NEW m \in Muxer, NEW n \in Muxer, Unread(m) \in Seq(Byte),
         Unread(n) = Unread(m), \A t \in Track : Queued(n, t) = Queued(m, t)
  PROVE  Emits(m, n, <<>>)
<1>1. <<>> \in Seq(Block)
  OBVIOUS
<1>2. Unread(m) \o <<>> = Unread(m)
  BY BytesJoin
<1>3. \A t \in Track : OfTrack(<<>>, t) \o Queued(n, t) = Queued(n, t)
  <2> TAKE t \in Track
  <2>1. OfTrack(<<>>, t) = <<>> /\ Queued(n, t) \in Seq(Packet)
    BY OfTrackParts, QueuedTyped
  <2> QED
    BY <2>1, PacketsJoin
<1> QED
  BY <1>1, <1>2, <1>3, WrittenParts DEF Emits

\* What is written in two turns.
LEMMA EmitsMore ==
  ASSUME NEW m \in Muxer, NEW n \in Muxer, NEW o \in Muxer, NEW r, NEW s,
         Unread(m) \in Seq(Byte), Emits(m, n, r), Emits(n, o, s)
  PROVE  Emits(m, o, r \o s)
<1>1. r \in Seq(Block) /\ s \in Seq(Block)
  BY DEF Emits
<1>2. r \o s \in Seq(Block) /\ Written(r \o s) = Written(r) \o Written(s)
      /\ Written(r) \in Seq(Byte) /\ Written(s) \in Seq(Byte)
  <2>1. r \o s \in Seq(Block)
    BY <1>1
  <2> QED
    BY <1>1, <2>1, WrittenParts
<1>3. Unread(o) = Unread(m) \o Written(r \o s)
  <2>1. Unread(o) = (Unread(m) \o Written(r)) \o Written(s)
    BY DEF Emits
  <2>2. (Unread(m) \o Written(r)) \o Written(s) = Unread(m) \o (Written(r) \o Written(s))
    BY <1>2, BytesJoin
  <2> QED
    BY <1>2, <2>1, <2>2
<1>4. ASSUME NEW t \in Track PROVE Queued(m, t) = OfTrack(r \o s, t) \o Queued(o, t)
  <2>1. Queued(m, t) = OfTrack(r, t) \o (OfTrack(s, t) \o Queued(o, t))
    BY DEF Emits
  <2>2. /\ OfTrack(r, t) \in Seq(Packet) /\ OfTrack(s, t) \in Seq(Packet)
        /\ OfTrack(r \o s, t) = OfTrack(r, t) \o OfTrack(s, t) /\ Queued(o, t) \in Seq(Packet)
    BY <1>1, OfTrackParts, QueuedTyped
  <2>3. (OfTrack(r, t) \o OfTrack(s, t)) \o Queued(o, t)
          = OfTrack(r, t) \o (OfTrack(s, t) \o Queued(o, t))
    BY <2>2, PacketsJoin
  <2> QED
    BY <2>1, <2>2, <2>3
<1> QED
  BY <1>2, <1>3, <1>4 DEF Emits

\* What is left of what waits is in order.
LEMMA EmitsOrderly ==
  ASSUME NEW m \in Muxer, NEW n \in Muxer, NEW r, Emits(m, n, r), Orderly(m)
  PROVE  Orderly(n)
<1>1. ASSUME NEW t \in Track PROVE Rising(Queued(n, t))
  <2>1. OfTrack(r, t) \in Seq(Packet) /\ Queued(n, t) \in Seq(Packet)
    BY OfTrackParts, QueuedTyped DEF Emits
  <2>2. Queued(m, t) = OfTrack(r, t) \o Queued(n, t) /\ Rising(Queued(m, t))
    BY DEF Emits, Orderly
  <2>3. Rising(OfTrack(r, t) \o Queued(n, t))
    BY <2>2
  <2> QED
    BY <2>1, <2>3, RisingParts
<1> QED
  BY <1>1 DEF Orderly

\* What is appended to the output is appended to what is unread.
LEMMA UnreadGrows ==
  ASSUME NEW m, NEW polled, Sound(m, polled), NEW n, NEW bytes \in Seq(Byte),
         n.output = m.output \o bytes, n.consumed = m.consumed
  PROVE  Unread(n) = Unread(m) \o bytes
<1> DEFINE o == m.output
           c == m.consumed
<1>1. o \in Seq(Byte) /\ c \in 0 .. Len(o)
  <2>1. m \in Muxer /\ m.consumed <= Len(m.output)
    BY DEF Sound
  <2>2. m.output \in Seq(Byte) /\ m.consumed \in Nat /\ Len(m.output) \in Nat
    BY <2>1, MuxerFields
  <2> QED
    BY <2>1, <2>2
<1>2. Unread(m) = SubSeq(o, c + 1, Len(o)) /\ Unread(n) = SubSeq(o \o bytes, c + 1, Len(o \o bytes))
  BY DEF Unread
<1> HIDE DEF o, c
<1>3. SubSeq(o \o bytes, c + 1, Len(o \o bytes)) = SubSeq(o, c + 1, Len(o)) \o bytes
  BY <1>1, RestGrows
<1> QED
  BY <1>2, <1>3

\* Flushing a track writes at most one fragment.
LEMMA FlushTrackEmits ==
  ASSUME reports \in Reporting, NEW m, NEW polled, Sound(m, polled), NEW t \in Tracks, Orderly(m)
  PROVE  \E r : Emits(m, FlushTrack(m, t), r)
<1> DEFINE n == FlushTrack(m, t)
           s == m.pending[t]
           b == [track |-> t, samples |-> s]
<1>1. m \in Muxer /\ Unread(m) \in Seq(Byte) /\ t \in Track
  BY SoundTyped, TracksKnown
<1>2. m.pending \in [Tracks -> Seq(Packet)] /\ s \in Seq(Packet) /\ s = Queued(m, t)
  BY <1>1, MuxerFields DEF Queued
<1>3. n \in Muxer /\ n.pending = [m.pending EXCEPT ![t] = <<>>]
  BY FlushTrackSound DEF Sound
<1>4. CASE s = <<>>
  <2>1. n = m
    BY <1>4 DEF FlushTrack
  <2>2. Emits(m, n, <<>>)
    BY <1>1, <2>1, EmitsNothing
  <2> QED
    BY <2>2
<1>5. CASE s # <<>>
  <2>1. b \in Block /\ <<b>> \in Seq(Block) /\ b.track = t /\ b.samples = s
    <3>1. b \in Block
      BY <1>1, <1>2, <1>5 DEF Block, Orderly
    <3> QED
      BY <3>1
  <2>2. Fragment(t, s) \in Seq(Byte)
    BY <1>1, <1>2, <1>5, FragmentTyped
  <2>3. Unread(n) = Unread(m) \o Fragment(t, s)
    <3> DEFINE written == [m EXCEPT !.output = @ \o Fragment(t, s)]
    <3>1. n = [written EXCEPT !.pending[t] = <<>>, !.placements = @ \cup Placed(written, s)]
      BY <1>5 DEF FlushTrack
    <3>2. /\ written.output = m.output \o Fragment(t, s) /\ written.consumed = m.consumed
          /\ "output" \in DOMAIN written /\ "consumed" \in DOMAIN written
      BY <1>1 DEF Muxer
    <3> HIDE DEF written
    <3>3. n.output = m.output \o Fragment(t, s) /\ n.consumed = m.consumed
      BY <3>1, <3>2
    <3> HIDE DEF n, s
    <3> QED
      BY <2>2, <3>3, UnreadGrows
  <2>4. ASSUME NEW u \in Track PROVE Queued(m, u) = OfTrack(<<b>>, u) \o Queued(n, u)
    <3>1. OfTrack(<<b>>, u) = IF u = t THEN s ELSE <<>>
      BY <2>1, OfTrackParts
    <3>2. Queued(n, u) = IF u = t THEN <<>> ELSE Queued(m, u)
      BY <1>2, <1>3 DEF Queued
    <3>3. Queued(m, u) \in Seq(Packet)
      BY <1>1, QueuedTyped
    <3> QED
      BY <1>2, <3>1, <3>2, <3>3, PacketsJoin
  <2>5. Emits(m, n, <<b>>)
    <3>1. Written(<<b>>) = Fragment(t, s)
      BY <2>1, WrittenParts
    <3> QED
      BY <2>1, <2>3, <2>4, <3>1 DEF Emits
  <2> QED
    BY <2>5
<1> QED
  BY <1>4, <1>5

\* So does flushing all of them, one after the other, write only fragments.
LEMMA FlushAllEmits ==
  ASSUME reports \in Reporting, NEW m, NEW polled, Sound(m, polled), Orderly(m)
  PROVE  \E r : Emits(m, FlushAll(m), r)
<1> DEFINE A == {n \in Muxer : FlushedFrom(n, m, polled) /\ \E r : Emits(m, n, r)}
<1>1. m \in A /\ m.tracks = TrackList /\ m \in Muxer /\ Unread(m) \in Seq(Byte)
  <2>1. m \in Muxer /\ Unread(m) \in Seq(Byte)
    BY SoundTyped
  <2>2. Emits(m, m, <<>>)
    BY <2>1, EmitsNothing
  <2> QED
    BY <2>1, <2>2, MuxerFields DEF FlushedFrom
<1>2. ASSUME NEW n \in A, NEW t \in Tracks PROVE FlushTrack(n, t) \in A
  <2>1. n \in Muxer /\ FlushedFrom(n, m, polled)
    OBVIOUS
  <2>2. PICK r : Emits(m, n, r)
    OBVIOUS
  <2> HIDE DEF A
  <2>3. Sound(n, polled)
    BY <2>1 DEF FlushedFrom
  <2>4. Orderly(n)
    BY <1>1, <2>1, <2>2, EmitsOrderly
  <2>5. PICK s : Emits(n, FlushTrack(n, t), s)
    BY <2>3, <2>4, FlushTrackEmits
  <2>6. FlushTrack(n, t) \in Muxer /\ FlushedFrom(FlushTrack(n, t), m, polled)
    BY <2>1, <2>3, FlushTrackFrom, FlushTrackSound DEF Sound
  <2>7. Emits(m, FlushTrack(n, t), r \o s)
    BY <1>1, <2>1, <2>2, <2>5, <2>6, EmitsMore
  <2> QED
    BY <2>6, <2>7 DEF A
<1> HIDE DEF A
<1>3. FlushAll(m) \in A
  BY <1>1, <1>2, FlushAllReaches
<1> QED
  BY <1>3 DEF A

\* The packet itself, among those of its track.
Added(p, t) == IF t = p.track THEN <<p>> ELSE <<>>

\* Pushing a packet writes fragments, after the header if there was none: what
\* waited, and the packet, is in them, or waits.
LEMMA PushPacketEmits ==
  ASSUME reports \in Reporting, NEW m, NEW polled, Sound(m, polled),
         NEW p \in Packet, p.track \in Tracks,
         \A t \in Track : Rising(Queued(m, t) \o Added(p, t))
  PROVE  LET n == PushPacket(m, p)
             head == IF m.header = None THEN Moov ELSE <<>>
         IN \E r \in Seq(Block) :
              /\ Unread(n) = (Unread(m) \o head) \o Written(r)
              /\ \A t \in Track : Queued(m, t) \o Added(p, t) = OfTrack(r, t) \o Queued(n, t)
<1> DEFINE k == p.track
           head == IF m.header = None THEN Moov ELSE <<>>
           described == IF p.config THEN [m EXCEPT !.configured = @ \cup {k}] ELSE m
           headed == WriteHeader(described, p)
           cut == IF EndsFragment(headed, p) THEN FlushTrack(headed, k) ELSE headed
           queued == [cut EXCEPT !.pending[k] = Append(@, p)]
           n == IF Len(queued.pending[k]) >= Batch THEN FlushTrack(queued, k) ELSE queued
<1>1. m \in Muxer /\ Unread(m) \in Seq(Byte)
  BY SoundTyped
<1>2. /\ Sound(described, polled) /\ described.header = m.header /\ described.pending = m.pending
      /\ described.output = m.output /\ described.consumed = m.consumed
  <2>1. /\ Sound(described, polled) /\ described.header = m.header /\ described.pending = m.pending
    BY DescribeSound
  <2>2. described.output = m.output /\ described.consumed = m.consumed
    BY <1>1 DEF Muxer
  <2> QED
    BY <2>1, <2>2
<1> HIDE DEF described
<1>3. described \in Muxer
  BY <1>2 DEF Sound
<1>4. Moov \in Seq(Byte) /\ head \in Seq(Byte)
  <2>1. [type |-> "moov", len |-> Header] \in Box /\ Header \in Nat
    BY DEF Box, Header
  <2>2. Moov \in Seq(Byte)
    BY <2>1, BytesTyped DEF Moov
  <2> QED
    BY <2>2, BytesJoin
<1>5. /\ Sound(headed, polled) /\ headed.pending = m.pending
      /\ Unread(headed) = Unread(m) \o head
  <2>1. Sound(headed, polled) /\ headed.pending = m.pending
    BY <1>2, WriteHeaderSound
  <2>2. Unread(described) = Unread(m)
    BY <1>2 DEF Unread
  <2>3. CASE m.header = None
    <3>1. headed = [described EXCEPT !.header = described.configured, !.output = @ \o Moov]
      BY <1>2, <2>3 DEF WriteHeader, Moov
    <3>2. headed.output = described.output \o Moov /\ headed.consumed = described.consumed
      BY <1>3, <3>1 DEF Muxer
    <3> HIDE DEF headed
    <3>3. Unread(headed) = Unread(described) \o Moov
      BY <1>2, <1>4, <3>2, UnreadGrows
    <3> QED
      BY <2>1, <2>2, <2>3, <3>3
  <2>4. CASE m.header # None
    <3>1. headed = described /\ head = <<>>
      BY <1>2, <2>4 DEF WriteHeader
    <3> QED
      BY <1>1, <2>1, <2>2, <3>1, BytesJoin
  <2> QED
    BY <2>3, <2>4
<1> HIDE DEF headed, head
<1>6. headed \in Muxer /\ Unread(headed) \in Seq(Byte)
  BY <1>5, SoundTyped
<1>7. \A t \in Track : Queued(headed, t) = Queued(m, t)
  BY <1>5 DEF Queued
<1>8. \A t \in Track : Queued(m, t) \in Seq(Packet) /\ Added(p, t) \in Seq(Packet)
  <2>1. <<p>> \in Seq(Packet)
    OBVIOUS
  <2> QED
    BY <1>1, <2>1, QueuedTyped, PacketsJoin DEF Added
<1>9. Orderly(headed)
  BY <1>7, <1>8, RisingParts DEF Orderly
<1>10. Sound(cut, polled) /\ \E r : Emits(headed, cut, r)
  <2>1. CASE EndsFragment(headed, p)
    BY <1>5, <1>9, <2>1, FlushTrackSound, FlushTrackEmits
  <2>2. CASE ~EndsFragment(headed, p)
    BY <1>5, <1>6, <2>2, EmitsNothing
  <2> QED
    BY <2>1, <2>2
<1> HIDE DEF cut
<1>11. PICK r : Emits(headed, cut, r)
  BY <1>10
<1>12. cut \in Muxer /\ Unread(cut) \in Seq(Byte)
  BY <1>10, SoundTyped
<1>13. Sound(queued, polled) /\ queued.pending = [cut.pending EXCEPT ![k] = Append(@, p)]
  BY <1>10, QueueSound
<1>14. Unread(queued) = Unread(cut)
  <2>1. queued.output = cut.output /\ queued.consumed = cut.consumed
    BY <1>12 DEF Muxer
  <2> QED
    BY <2>1 DEF Unread
<1> HIDE DEF queued
<1>15. queued \in Muxer /\ Unread(queued) \in Seq(Byte)
  BY <1>13, SoundTyped
<1>16. ASSUME NEW t \in Track
       PROVE  /\ Queued(queued, t) = Queued(cut, t) \o Added(p, t)
              /\ Queued(m, t) \o Added(p, t) = OfTrack(r, t) \o Queued(queued, t)
              /\ Rising(Queued(queued, t))
  <2>1. /\ Queued(cut, t) \in Seq(Packet) /\ OfTrack(r, t) \in Seq(Packet)
        /\ Added(p, t) \in Seq(Packet) /\ Queued(queued, t) \in Seq(Packet)
    BY <1>8, <1>11, <1>12, <1>15, QueuedTyped, OfTrackParts DEF Emits
  <2>2. Queued(queued, t) = Queued(cut, t) \o Added(p, t)
    <3>1. cut.pending \in [Tracks -> Seq(Packet)]
      BY <1>12, MuxerFields
    <3>2. CASE t = k
      <4>1. Queued(queued, t) = Append(Queued(cut, t), p)
        BY <1>13, <3>1, <3>2 DEF Queued
      <4>2. \A x \in Seq(Packet) : Append(x, p) = x \o <<p>>
        BY AppendIsConcat
      <4> QED
        BY <2>1, <3>2, <4>1, <4>2 DEF Added
    <3>3. CASE t # k
      <4>1. Queued(queued, t) = Queued(cut, t)
        BY <1>13, <3>1, <3>3 DEF Queued
      <4> QED
        BY <2>1, <3>3, <4>1, PacketsJoin DEF Added
    <3> QED
      BY <3>2, <3>3
  <2>3. Queued(m, t) \o Added(p, t) = OfTrack(r, t) \o Queued(queued, t)
    <3>1. Queued(m, t) = OfTrack(r, t) \o Queued(cut, t)
      BY <1>7, <1>11 DEF Emits
    <3> QED
      BY <2>1, <2>2, <3>1, PacketsJoin
  <2>4. Rising(Queued(queued, t))
    <3>1. Rising(OfTrack(r, t) \o Queued(queued, t))
      BY <2>3
    <3> QED
      BY <2>1, <3>1, RisingParts
  <2> QED
    BY <2>2, <2>3, <2>4
<1>17. n \in Muxer /\ \E s : Emits(queued, n, s)
  <2>0. Orderly(queued)
    BY <1>16 DEF Orderly
  <2>1. CASE Len(queued.pending[k]) >= Batch
    <3>1. Sound(FlushTrack(queued, k), polled) /\ \E s : Emits(queued, FlushTrack(queued, k), s)
      BY <1>13, <2>0, FlushTrackSound, FlushTrackEmits
    <3> QED
      BY <2>1, <3>1, SoundTyped
  <2>2. CASE ~(Len(queued.pending[k]) >= Batch)
    BY <1>15, <2>2, EmitsNothing
  <2> QED
    BY <2>1, <2>2
<1> HIDE DEF n
<1>18. PICK s : Emits(queued, n, s)
  BY <1>17
<1>19. r \in Seq(Block) /\ s \in Seq(Block) /\ r \o s \in Seq(Block)
  <2>1. r \in Seq(Block) /\ s \in Seq(Block)
    BY <1>11, <1>18 DEF Emits
  <2> QED
    BY <2>1
<1>20. Unread(n) = (Unread(m) \o head) \o Written(r \o s)
  <2> DEFINE u == Unread(m) \o head
             x == Written(r)
             y == Written(s)
  <2>1. u \in Seq(Byte) /\ x \in Seq(Byte) /\ y \in Seq(Byte) /\ Written(r \o s) = x \o y
    BY <1>1, <1>4, <1>19, WrittenParts, BytesJoin
  <2>2. Unread(n) = (u \o x) \o y
    BY <1>5, <1>11, <1>14, <1>18 DEF Emits
  <2> HIDE DEF u, x, y
  <2>3. (u \o x) \o y = u \o (x \o y)
    BY <2>1, BytesJoin
  <2> QED
    BY <2>1, <2>2, <2>3 DEF u
<1>21. ASSUME NEW t \in Track
       PROVE  Queued(m, t) \o Added(p, t) = OfTrack(r \o s, t) \o Queued(n, t)
  <2>1. /\ OfTrack(r, t) \in Seq(Packet) /\ OfTrack(s, t) \in Seq(Packet)
        /\ OfTrack(r \o s, t) = OfTrack(r, t) \o OfTrack(s, t) /\ Queued(n, t) \in Seq(Packet)
    BY <1>17, <1>19, OfTrackParts, QueuedTyped
  <2>2. Queued(m, t) \o Added(p, t) = OfTrack(r, t) \o (OfTrack(s, t) \o Queued(n, t))
    BY <1>16, <1>18 DEF Emits
  <2>3. (OfTrack(r, t) \o OfTrack(s, t)) \o Queued(n, t)
          = OfTrack(r, t) \o (OfTrack(s, t) \o Queued(n, t))
    BY <2>1, PacketsJoin
  <2> QED
    BY <2>1, <2>2, <2>3
<1>22. PushPacket(m, p) = n
  BY DEF PushPacket, n, queued, cut, headed, described
<1> QED
  BY <1>19, <1>20, <1>21, <1>22 DEF head

-----------------------------------------------------------------------------
(* What the reader gets.                                                     *)

\* What is read is the contents of packets.
LEMMA ContentsTyped ==
  ASSUME NEW s \in Seq(Packet)
  PROVE  /\ Contents(s) \in Seq(Said) /\ Len(Contents(s)) = Len(s)
         /\ \A i \in 1 .. Len(s) : Contents(s)[i] = Content(s[i]) /\ Content(s[i]) \in Said
<1>1. ASSUME NEW p \in Packet PROVE Content(p) \in Said
  <2>1. p.track \in Track /\ p.n \in Nat /\ p.size \in Nat /\ p.dts \in Nat /\ p.key \in BOOLEAN
    BY DEF Packet
  <2>2. Payload(p) \in Seq(PayloadByte)
    <3> DEFINE box == [type |-> "payload", track |-> p.track, n |-> p.n]
    <3>1. box \in [type : {"payload"}, track : Track, n : Nat]
      BY <2>1
    <3> HIDE DEF box
    <3>2. \A i \in 1 .. p.size : [box |-> box, at |-> i] \in PayloadByte
      BY <2>1, <3>1 DEF PayloadByte
    <3> QED
      BY <2>1, <3>2 DEF Payload, Bytes, box
  <2> HIDE DEF PayloadByte
  <2> QED
    BY <2>1, <2>2 DEF Content, Said
<1>2. \A i \in 1 .. Len(s) : Content(s[i]) \in Said
  BY <1>1, PacketsOf
<1> HIDE DEF Said
<1>3. Contents(s) = [i \in 1 .. Len(s) |-> Content(s[i])] /\ Len(s) \in Nat
  BY PacketsOf DEF Contents
<1> QED
  BY <1>2, <1>3

\* The contents of two parts.
LEMMA ContentsConcat ==
  ASSUME NEW x \in Seq(Packet), NEW y \in Seq(Packet)
  PROVE  Contents(x \o y) = Contents(x) \o Contents(y)
<1> DEFINE w == x \o y
           cx == Contents(x)
           cy == Contents(y)
           left == Contents(w)
           right == cx \o cy
<1>1. /\ w \in Seq(Packet) /\ Len(x) \in Nat /\ Len(y) \in Nat /\ Len(w) = Len(x) + Len(y)
      /\ \A k \in 1 .. Len(x) : w[k] = x[k]
      /\ \A k \in 1 .. Len(y) : w[Len(x) + k] = y[k]
  OBVIOUS
<1> HIDE DEF w
<1>2. /\ cx \in Seq(Said) /\ Len(cx) = Len(x) /\ \A i \in 1 .. Len(x) : cx[i] = Content(x[i])
      /\ cy \in Seq(Said) /\ Len(cy) = Len(y) /\ \A i \in 1 .. Len(y) : cy[i] = Content(y[i])
      /\ left \in Seq(Said) /\ Len(left) = Len(w) /\ \A i \in 1 .. Len(w) : left[i] = Content(w[i])
  BY <1>1, ContentsTyped
<1> HIDE DEF cx, cy, left
<1>3. /\ right \in Seq(Said) /\ Len(right) = Len(x) + Len(y)
      /\ \A k \in 1 .. Len(x) : right[k] = cx[k]
      /\ \A k \in 1 .. Len(y) : right[Len(x) + k] = cy[k]
  <2>1. cx \in Seq(Said) /\ cy \in Seq(Said)
    BY <1>2
  <2>2. /\ right \in Seq(Said) /\ Len(right) = Len(cx) + Len(cy)
        /\ \A k \in 1 .. Len(cx) : right[k] = cx[k]
        /\ \A k \in 1 .. Len(cy) : right[Len(cx) + k] = cy[k]
    BY <2>1
  <2> HIDE DEF right
  <2> QED
    BY <1>2, <2>2
<1> HIDE DEF right
<1>4. \A k \in 1 .. Len(w) : left[k] = right[k]
  <2> TAKE k \in 1 .. Len(w)
  <2>1. CASE k <= Len(x)
    <3>1. k \in 1 .. Len(x)
      BY <1>1, <2>1
    <3> QED
      BY <1>1, <1>2, <1>3, <3>1
  <2>2. CASE ~(k <= Len(x))
    <3>1. k - Len(x) \in 1 .. Len(y) /\ Len(x) + (k - Len(x)) = k
      BY <1>1, <2>2
    <3>2. w[k] = y[k - Len(x)] /\ right[k] = cy[k - Len(x)]
      BY <1>1, <1>3, <3>1
    <3> QED
      BY <1>2, <3>1, <3>2
  <2> QED
    BY <2>1, <2>2
<1>5. left = right
  BY <1>1, <1>2, <1>3, <1>4, SeqEqual
<1> QED
  BY <1>5 DEF left, right, cx, cy, w

\* A fragment becomes packets of its track, with the contents of its samples.
LEMMA GotTyped ==
  ASSUME NEW t \in Track, NEW s \in Seq(Packet)
  PROVE  /\ Got(t, s) \in Seq(Out)
         /\ \A u \in Track : Read(Got(t, s), u) = IF u = t THEN Contents(s) ELSE <<>>
<1> DEFINE p == Got(t, s)
           c == Contents(s)
<1>1. c \in Seq(Said) /\ Len(c) = Len(s) /\ Len(s) \in Nat
      /\ \A i \in 1 .. Len(s) : c[i] = Content(s[i]) /\ Content(s[i]) \in Said
  BY ContentsTyped, PacketsOf
<1>2. /\ p \in Seq(Out) /\ Len(p) = Len(s)
      /\ \A i \in 1 .. Len(s) : p[i] \in Out /\ p[i].track = t /\ p[i].content = c[i]
  <2> HIDE DEF c
  <2>1. \A i \in 1 .. Len(s) : [track |-> t, content |-> Content(s[i])] \in Out
    BY <1>1 DEF Out
  <2>2. \A i \in 1 .. Len(s) : p[i].track = t /\ p[i].content = c[i]
    BY <1>1 DEF Got
  <2>3. p \in Seq(Out) /\ Len(p) = Len(s)
    BY <1>1, <2>1 DEF Got
  <2> HIDE DEF p
  <2> QED
    BY <2>2, <2>3
<1> HIDE DEF p, c
<1>3. ASSUME NEW u \in Track PROVE Read(p, u) = IF u = t THEN c ELSE <<>>
  <2> DEFINE f == ContentOf(u)
  <2>1. Makes(f, Out, Said)
    BY BlocksMake
  <2>2. \A i \in 1 .. Len(p) : f[p[i]] = IF t = u THEN <<c[i]>> ELSE <<>>
    BY <1>2 DEF ContentOf
  <2> HIDE DEF f
  <2>3. CASE u = t
    <3>1. MakesEach(f, p, c)
      BY <1>1, <1>2, <2>2, <2>3 DEF MakesEach
    <3>2. p \in Seq(Out) /\ c \in Seq(Said)
      BY <1>1, <1>2
    <3>3. Spread(f, p) = c
      BY <2>1, <3>1, <3>2, SpreadUnits
    <3> QED
      BY <2>3, <3>3 DEF Read, f
  <2>4. CASE u # t
    <3>1. \A i \in 1 .. Len(p) : f[p[i]] = <<>>
      BY <2>2, <2>4
    <3>2. Spread(f, p) = <<>>
      BY <1>2, <2>1, <3>1, SpreadNothing
    <3> QED
      BY <2>4, <3>2 DEF Read, f
  <2> QED
    BY <2>3, <2>4
<1> QED
  BY <1>2, <1>3 DEF p, c

\* What is read of packets in two parts, and of the first packet and the others.
LEMMA ReadParts ==
  ASSUME NEW t \in Track
  PROVE  /\ Read(<<>>, t) = <<>>
         /\ \A p \in Seq(Out) : Read(p, t) \in Seq(Said)
         /\ \A p, r \in Seq(Out) : Read(p \o r, t) = Read(p, t) \o Read(r, t)
         /\ \A p \in Seq(Out) : p # <<>> =>
              Read(p, t) = (IF p[1].track = t THEN <<p[1].content>> ELSE <<>>) \o Read(Tail(p), t)
<1> DEFINE f == ContentOf(t)
<1>1. Makes(f, Out, Said)
  BY BlocksMake
<1>2. \A o \in Out : f[o] = IF o.track = t THEN <<o.content>> ELSE <<>>
  BY DEF ContentOf
<1> HIDE DEF f
<1>3. Spread(f, <<>>) = <<>>
  BY SpreadNone
<1>4. ASSUME NEW p \in Seq(Out) PROVE Spread(f, p) \in Seq(Said)
  BY <1>1, SpreadTyped
<1>5. ASSUME NEW p \in Seq(Out), NEW r \in Seq(Out)
      PROVE  Spread(f, p \o r) = Spread(f, p) \o Spread(f, r)
  BY <1>1, SpreadConcat
<1>6. ASSUME NEW p \in Seq(Out), p # <<>>
      PROVE  Spread(f, p) = (IF p[1].track = t THEN <<p[1].content>> ELSE <<>>) \o Spread(f, Tail(p))
  <2>1. p[1] \in Out /\ Spread(f, p) = f[p[1]] \o Spread(f, Tail(p))
    BY <1>1, <1>6, SpreadFirst
  <2> QED
    BY <1>2, <2>1
<1> QED
  BY <1>3, <1>4, <1>5, <1>6 DEF Read, f

-----------------------------------------------------------------------------
(* The demuxer takes one box after the other.                                *)

Demuxer ==
  [buffer : Seq(Byte), streams : BOOLEAN, track : Track \cup {0}, base : Nat, rows : Seq(Row),
   packets : Seq(Out)]

\* The fields of a demuxer, one by one.
LEMMA DemuxerFields ==
  ASSUME NEW d \in Demuxer
  PROVE  /\ d.buffer \in Seq(Byte) /\ d.streams \in BOOLEAN /\ d.track \in Track \cup {0}
         /\ d.base \in Nat /\ d.rows \in Seq(Row) /\ d.packets \in Seq(Out)
BY DEF Demuxer

\* The first byte carries the box.
StartsWith(bytes, box) == bytes[1].box = box

\* What begins with the bytes of a box starts with it.
LEMMA FirstByte ==
  ASSUME NEW box, NEW len \in Nat, 1 <= len, NEW rest \in Seq(Byte), Bytes(box, len) \in Seq(Byte)
  PROVE  StartsWith(Bytes(box, len) \o rest, box)
<1> DEFINE x == Bytes(box, len)
<1>1. x[1].box = box /\ Len(x) = len
  BY DEF Bytes
<1> HIDE DEF x
<1>2. (x \o rest)[1] = x[1]
  BY <1>1
<1> QED
  BY <1>1, <1>2 DEF x, StartsWith

\* The box at the front of what is buffered and what is not, when its bytes and
\* the rest are known.
LEMMA FrontBox ==
  ASSUME NEW d \in Demuxer, HasBox(d), NEW unfed \in Seq(Byte),
         NEW chunk \in Seq(Byte), NEW rest \in Seq(Byte), NEW box,
         d.buffer \o unfed = chunk \o rest, StartsWith(chunk \o rest, box), box.len = Len(chunk)
  PROVE  d.buffer[1].box = box /\ CutAfter(Byte, d.buffer, box.len, unfed, chunk, rest)
<1> DEFINE x == d.buffer
<1>1. x \in Seq(Byte) /\ x # <<>>
  BY DemuxerFields DEF HasBox
<1> HIDE DEF x
<1>2. (x \o unfed)[1] = x[1]
  BY <1>1
<1>3. x[1].box = box
  BY <1>2 DEF x, StartsWith
<1>4. Len(chunk) <= Len(x)
  <2>1. Len(x) >= x[1].box.len
    BY DEF HasBox, x
  <2>2. Len(x) \in Nat /\ Len(chunk) \in Nat
    BY <1>1
  <2> QED
    BY <1>3, <2>1, <2>2
<1>5. x \o unfed = chunk \o rest
  BY DEF x
<1>6. CutAfter(Byte, x, Len(chunk), unfed, chunk, rest)
  BY <1>1, <1>4, <1>5, TakeFront
<1> QED
  BY <1>3, <1>6 DEF x

\* Nothing but what the front box says changes.
Taken(d, e, unfed, rest) ==
  e \in Demuxer /\ e.buffer \in Seq(Byte) /\ e.buffer \o unfed = rest

\* The header.
LEMMA TakeMoov ==
  ASSUME NEW d \in Demuxer, HasBox(d), NEW unfed \in Seq(Byte), NEW rest \in Seq(Byte),
         d.buffer \o unfed = Moov \o rest
  PROVE  LET e == TakeBox(d) IN
         /\ Taken(d, e, unfed, rest)
         /\ e.track = d.track /\ e.base = d.base /\ e.rows = d.rows /\ e.packets = d.packets
<1> DEFINE box == [type |-> "moov", len |-> Header]
           left == SubSeq(d.buffer, box.len + 1, Len(d.buffer))
           e == TakeBox(d)
<1>1. box \in Box /\ Header \in Nat /\ Header = 2 /\ box.len = Header /\ box.type = "moov"
  BY DEF Box, Header
<1> HIDE DEF box
<1>2. Bytes(box, Header) \in Seq(Byte) /\ Len(Bytes(box, Header)) = Header
  BY <1>1, BytesTyped
<1>3. StartsWith(Bytes(box, Header) \o rest, box)
  BY <1>1, <1>2, FirstByte
<1>4. Moov = Bytes(box, Header)
  BY DEF Moov, box
<1>5. d.buffer[1].box = box /\ left \in Seq(Byte) /\ left \o unfed = rest
  <2> DEFINE chunk == Bytes(box, Header)
  <2>1. chunk \in Seq(Byte) /\ StartsWith(chunk \o rest, box) /\ box.len = Len(chunk)
        /\ d.buffer \o unfed = chunk \o rest
    BY <1>1, <1>2, <1>3, <1>4
  <2> HIDE DEF chunk
  <2>2. d.buffer[1].box = box /\ CutAfter(Byte, d.buffer, box.len, unfed, chunk, rest)
    BY <2>1, FrontBox
  <2> QED
    BY <2>2 DEF CutAfter
<1>6. e = [[d EXCEPT !.buffer = left] EXCEPT !.streams = TRUE]
  BY <1>1, <1>5 DEF TakeBox
<1> HIDE DEF left, e
<1>7. e = [d EXCEPT !.buffer = left, !.streams = TRUE]
  BY <1>6 DEF Demuxer
<1>8. e \in Demuxer /\ e.buffer = left /\ e.track = d.track /\ e.base = d.base
      /\ e.rows = d.rows /\ e.packets = d.packets
  BY <1>5, <1>7 DEF Demuxer
<1> QED
  BY <1>5, <1>8 DEF Taken, e

\* The bytes of a moof.
MoofBytes(t, s) == Bytes(MoofOf(t, s), Moof)

\* What it tells the demuxer.
Told(d, e, t, s) ==
  e.track = t /\ e.base = s[1].dts /\ e.rows = Rows(s) /\ e.packets = d.packets

\* What a fragment says of its samples.
LEMMA TakeMoof ==
  ASSUME NEW d \in Demuxer, HasBox(d), NEW unfed \in Seq(Byte), NEW rest \in Seq(Byte),
         NEW t \in Track, NEW s \in Seq(Packet), s # <<>>,
         d.buffer \o unfed = MoofBytes(t, s) \o rest
  PROVE  LET e == TakeBox(d) IN
         Taken(d, e, unfed, rest) /\ Told(d, e, t, s)
<1> DEFINE box == MoofOf(t, s)
           left == SubSeq(d.buffer, box.len + 1, Len(d.buffer))
           e == TakeBox(d)
           base == s[1].dts
           rows == Rows(s)
<1>1. /\ box \in Box /\ Moof \in Nat /\ Moof = 2 /\ box.len = Moof /\ box.type = "moof"
      /\ box.track = t /\ box.base = base /\ box.rows = rows
  BY FragmentParts DEF MoofOf, Moof
<1>2. base \in Nat /\ rows \in Seq(Row)
  <2>1. 1 \in 1 .. Len(s)
    OBVIOUS
  <2> QED
    BY <2>1, PacketsOf, RowsTyped
<1> HIDE DEF box, base, rows
<1>3. Bytes(box, Moof) \in Seq(Byte) /\ Len(Bytes(box, Moof)) = Moof
  BY <1>1, BytesTyped
<1>4. StartsWith(Bytes(box, Moof) \o rest, box)
  <2>1. Moof \in Nat /\ 1 <= Moof
    BY <1>1
  <2> QED
    BY <1>3, <2>1, FirstByte
<1>5. d.buffer \o unfed = Bytes(box, Moof) \o rest
  BY DEF box, MoofBytes
<1>6. d.buffer[1].box = box /\ left \in Seq(Byte) /\ left \o unfed = rest
  <2> DEFINE chunk == Bytes(box, Moof)
  <2>1. chunk \in Seq(Byte) /\ StartsWith(chunk \o rest, box) /\ box.len = Len(chunk)
        /\ d.buffer \o unfed = chunk \o rest
    BY <1>1, <1>3, <1>4, <1>5
  <2> HIDE DEF chunk
  <2>2. d.buffer[1].box = box /\ CutAfter(Byte, d.buffer, box.len, unfed, chunk, rest)
    BY <2>1, FrontBox
  <2> QED
    BY <2>2 DEF CutAfter
<1>7. e = [[d EXCEPT !.buffer = left] EXCEPT !.track = t, !.base = base, !.rows = rows]
  BY <1>1, <1>6 DEF TakeBox
<1> HIDE DEF left, e
<1>8. e = [d EXCEPT !.buffer = left, !.track = t, !.base = base, !.rows = rows]
  BY <1>7 DEF Demuxer
<1>9. e \in Demuxer /\ e.buffer = left /\ e.track = t /\ e.base = base
      /\ e.rows = rows /\ e.packets = d.packets
  BY <1>2, <1>6, <1>8 DEF Demuxer
<1> QED
  BY <1>6, <1>9 DEF Taken, Told, e, base, rows

\* What comes after the first byte.
LEMMA AfterFirst ==
  ASSUME NEW x \in Seq(Byte), NEW y \in Seq(Byte), NEW z \in Seq(Byte), NEW n \in Nat,
         Len(y) = 1, n = 1 + Len(z), n <= Len(x), SubSeq(x, 1, n) = y \o z
  PROVE  SubSeq(x, 2, n) = z
<1> DEFINE w == SubSeq(x, 1, n)
           v == SubSeq(x, 2, n)
<1>1. Len(x) \in Nat /\ Len(z) \in Nat
  OBVIOUS
<1>2. w \in Seq(Byte) /\ Len(w) = n /\ \A k \in 1 .. n : w[k] = x[k]
  BY <1>1
<1>3. v \in Seq(Byte) /\ Len(v) = n - 1 /\ \A k \in 1 .. n - 1 : v[k] = x[k + 1]
  BY <1>1
<1>4. \A k \in 1 .. Len(z) : (y \o z)[1 + k] = z[k]
  OBVIOUS
<1>5. w = y \o z
  OBVIOUS
<1> HIDE DEF w, v
<1>6. \A k \in 1 .. Len(z) : v[k] = z[k]
  <2> TAKE k \in 1 .. Len(z)
  <2>1. k \in 1 .. n - 1 /\ k + 1 \in 1 .. n /\ 1 + k = k + 1
    BY <1>1
  <2> QED
    BY <1>2, <1>3, <1>4, <1>5, <2>1
<1>7. Len(v) = Len(z)
  BY <1>1, <1>3
<1>8. v = z
  BY <1>3, <1>6, <1>7, SeqEqual
<1> QED
  BY <1>8 DEF v

\* The samples themselves.
LEMMA TakeMdat ==
  ASSUME NEW d \in Demuxer, HasBox(d), NEW unfed \in Seq(Byte), NEW rest \in Seq(Byte),
         NEW t \in Track, NEW s \in Seq(Packet), s # <<>>, Rising(s),
         d.track = t, d.base = s[1].dts, d.rows = Rows(s),
         d.buffer \o unfed = Mdat(s) \o rest
  PROVE  LET e == TakeBox(d) IN
         /\ Taken(d, e, unfed, rest) /\ e.packets = d.packets \o Got(t, s)
<1> DEFINE box == MdatOf(s)
           body == FlattenSeq(Payloads(s))
           chunk == Mdat(s)
           one == Bytes(box, 1)
           left == SubSeq(d.buffer, box.len + 1, Len(d.buffer))
           got == Got(t, s)
           all == d.packets \o got
           e == TakeBox(d)
<1>1. /\ box \in Box /\ box.len = 1 + Len(body) /\ box.len \in Nat /\ box.type = "mdat"
      /\ Len(body) \in Nat
  <2>1. SizeOf(s) \in Nat /\ SizeOf(s) = Len(body)
    BY SizesTyped
  <2>2. box.len = SizeOf(s) + 1 /\ box.type = "mdat"
    BY DEF MdatOf
  <2> QED
    BY <2>1, <2>2, FragmentParts
<1>2. /\ one \in Seq(Byte) /\ Len(one) = 1 /\ body \in Seq(Byte)
      /\ chunk = one \o body /\ chunk \in Seq(Byte)
  <2>1. 1 \in Nat
    OBVIOUS
  <2>2. one \in Seq(Byte) /\ Len(one) = 1
    BY <1>1, <2>1, BytesTyped
  <2> QED
    BY <2>2, FragmentParts DEF Mdat
<1>3. StartsWith(chunk \o rest, box) /\ Len(chunk) = box.len
  <2> HIDE DEF box, body, chunk
  <2>1. 1 \in Nat /\ 1 <= 1 /\ body \o rest \in Seq(Byte)
    BY <1>2, BytesJoin
  <2>2. StartsWith(Bytes(box, 1) \o (body \o rest), box)
    BY <1>2, <2>1, FirstByte
  <2>0. one \in Seq(Byte) /\ body \in Seq(Byte)
    BY <1>2
  <2> HIDE DEF one
  <2>3. (one \o body) \o rest = one \o (body \o rest)
    BY <2>0, BytesJoin
  <2>4. Len(one \o body) = Len(one) + Len(body)
    BY <2>0
  <2> QED
    BY <1>1, <1>2, <2>2, <2>3, <2>4 DEF one
<1>4. d.buffer \o unfed = chunk \o rest
  OBVIOUS
<1> HIDE DEF box, body, chunk, one
<1>5. /\ d.buffer[1].box = box /\ SubSeq(d.buffer, 1, box.len) = chunk
      /\ left \in Seq(Byte) /\ left \o unfed = rest
  <2>1. chunk \in Seq(Byte) /\ StartsWith(chunk \o rest, box) /\ box.len = Len(chunk)
        /\ d.buffer \o unfed = chunk \o rest
    BY <1>2, <1>3, <1>4
  <2>2. d.buffer[1].box = box /\ CutAfter(Byte, d.buffer, box.len, unfed, chunk, rest)
    BY <2>1, FrontBox
  <2> QED
    BY <2>2 DEF CutAfter
<1>6. SubSeq(d.buffer, 2, box.len) = body
  <2> DEFINE x == d.buffer
             n == box.len
  <2>1. x \in Seq(Byte) /\ n \in Nat /\ n = 1 + Len(body) /\ n <= Len(x)
    <3>1. x \in Seq(Byte) /\ Len(x) >= box.len
      BY <1>5, DemuxerFields DEF HasBox
    <3>2. Len(x) \in Nat
      BY <3>1
    <3> QED
      BY <1>1, <3>1, <3>2
  <2>2. SubSeq(x, 1, n) = one \o body
    BY <1>2, <1>5
  <2> HIDE DEF x, n
  <2>3. SubSeq(x, 2, n) = body
    BY <1>2, <2>1, <2>2, AfterFirst
  <2> QED
    BY <2>3 DEF x, n
<1>7. Samples(d, body) = got
  BY SamplesAre DEF body
<1>8. all \in Seq(Out)
  <2>1. got \in Seq(Out) /\ d.packets \in Seq(Out)
    BY GotTyped, DemuxerFields
  <2> HIDE DEF got
  <2> QED
    BY <2>1
<1> HIDE DEF got
<1>9. e = [[d EXCEPT !.buffer = left] EXCEPT !.rows = <<>>, !.packets = @ \o got]
  <2>1. e = [[d EXCEPT !.buffer = left] EXCEPT !.rows = <<>>,
                                               !.packets = @ \o Samples(d, SubSeq(d.buffer, 2, box.len))]
    BY <1>1, <1>5 DEF TakeBox
  <2> QED
    BY <1>6, <1>7, <2>1
<1> HIDE DEF left, e
<1>10. e = [d EXCEPT !.buffer = left, !.rows = <<>>, !.packets = all]
  BY <1>9 DEF Demuxer
<1> HIDE DEF all
<1>11. e \in Demuxer /\ e.buffer = left /\ e.packets = all
  <2>1. <<>> \in Seq(Row)
    OBVIOUS
  <2> QED
    BY <1>5, <1>8, <1>10, <2>1 DEF Demuxer
<1> QED
  BY <1>5, <1>11 DEF Taken, e, all, got

-----------------------------------------------------------------------------
(* What is on its way from the encoders to the reader.                       *)

\* What the demuxer has not parsed: buffered, not read yet, not polled yet.
Ahead == SubSeq(file, fed + 1, Len(file)) \o Unread(mux)
Unparsed == demux.buffer \o Ahead

\* What is in no fragment yet.
Line(t) == Queued(mux, t) \o inside[t]

InTime(t) ==
  Rising(Line(t)) /\ \A i \in 1 .. Len(Line(t)) : Line(t)[i].dts <= given[t].dts

\* It is the fragments q, after the header unless that was parsed; of the first
\* the moof may have been parsed already.
Holds(q) ==
  IF mux.header = None THEN q = <<>> /\ Unparsed = <<>>
  ELSE \/ Unparsed = Moov \o Written(q)
       \/ Unparsed = Written(q)
       \/ /\ q # <<>> /\ Unparsed = Mdat(q[1].samples) \o Written(Tail(q))
          /\ demux.track = q[1].track /\ demux.base = q[1].samples[1].dts
          /\ demux.rows = Rows(q[1].samples)

\* What the reader is still to get of track t, if q is unparsed.
Owed(q, t) == Read(demux.packets, t) \o Contents(OfTrack(q, t) \o Line(t))

TransitInv ==
  /\ demux \in Demuxer
  /\ \A t \in Track : InTime(t)
  /\ mux.header = None => \A t \in Track : Queued(mux, t) = <<>>
  /\ accepted \in [Track -> Seq(Said)]
  /\ \E q \in Seq(Block) : Holds(q) /\ \A t \in Track : accepted[t] = Owed(q, t)

\* Bytes and packets, all of them.
LEMMA TransitTyped ==
  ASSUME IInv, demux \in Demuxer
  PROVE  /\ file \in Seq(Byte) /\ fed \in 0 .. Len(file) /\ Len(file) \in Nat
         /\ SubSeq(file, fed + 1, Len(file)) \in Seq(Byte) /\ Unread(mux) \in Seq(Byte)
         /\ Ahead \in Seq(Byte) /\ demux.buffer \in Seq(Byte) /\ Unparsed \in Seq(Byte)
         /\ \A t \in Track : /\ Queued(mux, t) \in Seq(Packet) /\ inside[t] \in Seq(Packet)
                             /\ Line(t) \in Seq(Packet)
<1>1. file \in Seq(Byte) /\ fed \in 0 .. Len(file) /\ Sound(mux, file)
      /\ inside \in [Track -> Seq(Packet)]
  BY DEF IInv, SessionInv, InsideInv, Sound
<1>2. mux \in Muxer /\ Unread(mux) \in Seq(Byte)
  BY <1>1, SoundTyped
<1>3. Len(file) \in Nat
  BY <1>1
<1>4. SubSeq(file, fed + 1, Len(file)) \in Seq(Byte)
  <2> DEFINE f == file
             k == fed
  <2>1. f \in Seq(Byte) /\ k \in 0 .. Len(f)
    BY <1>1
  <2> HIDE DEF f, k
  <2>2. SubSeq(f, k + 1, Len(f)) \in Seq(Byte)
    BY <2>1
  <2> QED
    BY <2>2 DEF f, k
<1>5. Ahead \in Seq(Byte)
  BY <1>2, <1>4, BytesJoin DEF Ahead
<1>6. demux.buffer \in Seq(Byte)
  BY DemuxerFields
<1>7. Unparsed \in Seq(Byte)
  BY <1>5, <1>6, BytesJoin DEF Unparsed
<1>8. \A t \in Track : /\ Queued(mux, t) \in Seq(Packet) /\ inside[t] \in Seq(Packet)
                       /\ Line(t) \in Seq(Packet)
  BY <1>1, <1>2, QueuedTyped, PacketsJoin DEF Line
<1> QED
  BY <1>1, <1>2, <1>3, <1>4, <1>5, <1>6, <1>7, <1>8

\* More after a first one: it stays first.
LEMMA FirstStays ==
  ASSUME NEW q \in Seq(Block), q # <<>>, NEW r \in Seq(Block)
  PROVE  q \o r # <<>> /\ (q \o r)[1] = q[1] /\ Tail(q) \in Seq(Block) /\ Tail(q \o r) = Tail(q) \o r
<1> DEFINE w == q \o r
           x == Tail(w)
           t == Tail(q)
           y == t \o r
<1>1. /\ w \in Seq(Block) /\ Len(w) = Len(q) + Len(r) /\ Len(q) \in Nat /\ Len(r) \in Nat
      /\ \A k \in 1 .. Len(q) : w[k] = q[k]
      /\ \A k \in 1 .. Len(r) : w[Len(q) + k] = r[k]
  OBVIOUS
<1>2. /\ 1 <= Len(q) /\ t \in Seq(Block) /\ Len(t) = Len(q) - 1
      /\ \A k \in 1 .. Len(q) - 1 : t[k] = q[k + 1]
  BY HeadAndTail
<1> HIDE DEF w, t
<1>3. w # <<>> /\ w[1] = q[1]
  <2>1. 1 \in 1 .. Len(q) /\ Len(w) >= 1
    BY <1>1, <1>2
  <2>2. Len(<<>>) = 0
    OBVIOUS
  <2> QED
    BY <1>1, <2>1, <2>2
<1>4. x \in Seq(Block) /\ Len(x) = Len(w) - 1 /\ \A k \in 1 .. Len(w) - 1 : x[k] = w[k + 1]
  BY <1>1, <1>3, HeadAndTail
<1>5. /\ y \in Seq(Block) /\ Len(y) = Len(t) + Len(r)
      /\ \A k \in 1 .. Len(t) : y[k] = t[k]
      /\ \A k \in 1 .. Len(r) : y[Len(t) + k] = r[k]
  <2>1. t \in Seq(Block)
    BY <1>2
  <2> QED
    BY <2>1
<1> HIDE DEF x, y
<1>6. \A k \in 1 .. Len(x) : x[k] = y[k]
  <2> TAKE k \in 1 .. Len(x)
  <2>1. x[k] = w[k + 1] /\ k \in Nat /\ 1 <= k /\ k <= Len(w) - 1
    BY <1>1, <1>4
  <2>2. CASE k <= Len(t)
    <3>1. k \in 1 .. Len(t) /\ k \in 1 .. Len(q) - 1 /\ k + 1 \in 1 .. Len(q)
      BY <1>1, <1>2, <2>1, <2>2
    <3> QED
      BY <1>1, <1>2, <1>5, <2>1, <3>1
  <2>3. CASE ~(k <= Len(t))
    <3>1. k - Len(t) \in 1 .. Len(r) /\ Len(t) + (k - Len(t)) = k
          /\ Len(q) + (k - Len(t)) = k + 1
      BY <1>1, <1>2, <2>1, <2>3
    <3>2. y[k] = r[k - Len(t)] /\ w[k + 1] = r[k - Len(t)]
      BY <1>1, <1>5, <3>1
    <3> QED
      BY <2>1, <3>2
  <2> QED
    BY <2>2, <2>3
<1>7. Len(x) = Len(y)
  BY <1>1, <1>2, <1>4, <1>5
<1>8. x = y
  BY <1>4, <1>5, <1>6, <1>7, SeqEqual
<1> QED
  BY <1>2, <1>3, <1>8 DEF w, x, y, t

\* Bytes after bytes of some fragments.
LEMMA WrittenAfter ==
  ASSUME NEW x \in Seq(Byte), NEW q \in Seq(Block), NEW r \in Seq(Block)
  PROVE  (x \o Written(q)) \o Written(r) = x \o Written(q \o r)
<1>1. Written(q) \in Seq(Byte) /\ Written(r) \in Seq(Byte)
      /\ Written(q \o r) = Written(q) \o Written(r)
  BY WrittenParts
<1> QED
  BY <1>1, BytesJoin

\* The header, and the payloads of a fragment, are bytes.
LEMMA MoovTyped == Moov \in Seq(Byte) /\ Moov # <<>>
<1>1. [type |-> "moov", len |-> Header] \in Box /\ Header \in Nat /\ Header = 2
  BY DEF Box, Header
<1>2. Moov \in Seq(Byte) /\ Len(Moov) = 2
  BY <1>1, BytesTyped DEF Moov
<1> QED
  BY <1>2

\* A step after which more is unparsed: fragments r, with the header before them
\* if it was not written, of samples that were in no fragment.
LEMMA StreamGrows ==
  ASSUME IInv, IInv', TransitInv, reports' = reports, accepted' = accepted, given' = given,
         demux' \in Demuxer, demux'.track = demux.track, demux'.base = demux.base,
         demux'.rows = demux.rows, demux'.packets = demux.packets,
         NEW r \in Seq(Block), NEW head,
         head = IF mux.header = None /\ mux'.header # None THEN Moov ELSE <<>>,
         Unparsed' = (Unparsed \o head) \o Written(r),
         mux.header # None => mux'.header # None,
         mux'.header = None => r = <<>> /\ \A t \in Track : Queued(mux, t)' = <<>>,
         \A t \in Track : Line(t) = OfTrack(r, t) \o Line(t)'
  PROVE  TransitInv'
<1>1. /\ Unparsed \in Seq(Byte) /\ \A t \in Track : Line(t) \in Seq(Packet)
  BY TransitTyped DEF TransitInv
<1>2. \A t \in Track : Line(t)' \in Seq(Packet)
  <2>1. Tracks' = Tracks /\ mux' \in Muxer /\ inside' \in [Track -> Seq(Packet)]
    BY TracksStay DEF IInv, InsideInv, Sound
  <2> TAKE t \in Track
  <2>2. Queued(mux', t) \in Seq(Packet) /\ inside'[t] \in Seq(Packet)
    BY <2>1, QueuedTyped
  <2>3. Line(t)' = Queued(mux', t) \o inside'[t]
    BY <2>1 DEF Line, Queued
  <2> QED
    BY <2>2, <2>3, PacketsJoin
<1>3. PICK q \in Seq(Block) : Holds(q) /\ \A t \in Track : accepted[t] = Owed(q, t)
  BY DEF TransitInv
<1> DEFINE all == q \o r
<1>4. all \in Seq(Block)
  OBVIOUS
<1>5. ASSUME NEW t \in Track PROVE accepted'[t] = Owed(all, t)'
  <2>1. /\ OfTrack(q, t) \in Seq(Packet) /\ OfTrack(r, t) \in Seq(Packet)
        /\ OfTrack(q \o r, t) = OfTrack(q, t) \o OfTrack(r, t)
    BY OfTrackParts
  <2>2. OfTrack(q, t) \o Line(t) = OfTrack(all, t) \o Line(t)'
    <3>1. Line(t) = OfTrack(r, t) \o Line(t)' /\ Line(t)' \in Seq(Packet)
      BY <1>2
    <3> DEFINE y == Line(t)'
               z == OfTrack(r, t)
               x == OfTrack(q, t)
    <3>2. x \in Seq(Packet) /\ y \in Seq(Packet) /\ z \in Seq(Packet)
      BY <2>1, <3>1
    <3> HIDE DEF x, y, z
    <3>3. (x \o z) \o y = x \o (z \o y)
      BY <3>2, PacketsJoin
    <3> QED
      BY <2>1, <3>1, <3>3 DEF x, y, z
  <2>3. accepted[t] = Read(demux.packets, t) \o Contents(OfTrack(q, t) \o Line(t))
    BY <1>3 DEF Owed
  <2> QED
    BY <2>2, <2>3 DEF Owed
<1>6. ASSUME NEW t \in Track PROVE InTime(t)'
  <2> DEFINE x == OfTrack(r, t)
             y == Line(t)'
             w == Line(t)
  <2>1. x \in Seq(Packet) /\ y \in Seq(Packet) /\ w = x \o y
    BY <1>2, OfTrackParts
  <2>2. Rising(w) /\ \A i \in 1 .. Len(w) : w[i].dts <= given[t].dts
    BY DEF TransitInv, InTime
  <2> HIDE DEF x, y, w
  <2>3. Rising(y)
    BY <2>1, <2>2, RisingParts
  <2>4. Len(w) = Len(x) + Len(y) /\ Len(x) \in Nat /\ Len(y) \in Nat
        /\ \A k \in 1 .. Len(y) : w[Len(x) + k] = y[k]
    BY <2>1
  <2>5. \A i \in 1 .. Len(y) : y[i].dts <= given[t].dts
    <3> TAKE i \in 1 .. Len(y)
    <3>1. Len(x) + i \in 1 .. Len(w) /\ w[Len(x) + i] = y[i]
      BY <2>4
    <3> QED
      BY <2>2, <3>1
  <2> QED
    BY <2>3, <2>5 DEF InTime, y
<1>7. Holds(all)'
  <2>1. CASE mux.header = None
    <3>1. q = <<>> /\ Unparsed = <<>> /\ all = r
      <4>1. q = <<>> /\ Unparsed = <<>>
        BY <1>3, <2>1 DEF Holds
      <4>2. \A x \in Seq(Block) : <<>> \o x = x
        BY ConcatEmptySeq
      <4> QED
        BY <4>1, <4>2
    <3>2. Written(r) \in Seq(Byte)
      BY WrittenParts
    <3>3. CASE mux'.header = None
      <4>1. r = <<>> /\ head = <<>>
        BY <3>3
      <4>2. Unparsed' = <<>>
        BY <3>1, <4>1, WrittenParts, BytesJoin
      <4> QED
        BY <3>1, <3>3, <4>1, <4>2 DEF Holds
    <3>4. CASE mux'.header # None
      <4>1. head = Moov
        BY <2>1, <3>4
      <4>2. Unparsed' = Moov \o Written(all)
        BY <3>1, <4>1, MoovTyped, BytesJoin
      <4> QED
        BY <3>4, <4>2 DEF Holds
    <3> QED
      BY <3>3, <3>4
  <2>2. CASE mux.header # None
    <3>1. mux'.header # None /\ Unparsed' = Unparsed \o Written(r)
      <4>1. head = <<>>
        BY <2>2
      <4> QED
        BY <1>1, <2>2, <4>1, BytesJoin
    <3>2. CASE Unparsed = Moov \o Written(q)
      <4>1. Unparsed' = Moov \o Written(all)
        BY <3>1, <3>2, MoovTyped, WrittenAfter
      <4> QED
        BY <3>1, <4>1 DEF Holds
    <3>3. CASE Unparsed = Written(q)
      <4>1. Unparsed' = Written(all)
        BY <3>1, <3>3, WrittenParts
      <4> QED
        BY <3>1, <4>1 DEF Holds
    <3>4. CASE /\ q # <<>> /\ Unparsed = Mdat(q[1].samples) \o Written(Tail(q))
               /\ demux.track = q[1].track /\ demux.base = q[1].samples[1].dts
               /\ demux.rows = Rows(q[1].samples)
      <4>1. all # <<>> /\ all[1] = q[1] /\ Tail(q) \in Seq(Block) /\ Tail(all) = Tail(q) \o r
        BY <3>4, FirstStays
      <4>2. Mdat(q[1].samples) \in Seq(Byte)
        <5>1. q[1] \in Block
          BY <3>4, HeadAndTail
        <5> QED
          BY <5>1, BlockFields, FragmentParts
      <4> HIDE DEF all
      <4>3. Unparsed' = Mdat(all[1].samples) \o Written(Tail(all))
        BY <3>1, <3>4, <4>1, <4>2, WrittenAfter
      <4> QED
        BY <3>1, <3>4, <4>1, <4>3 DEF Holds
    <3> QED
      BY <1>3, <2>2, <3>2, <3>3, <3>4 DEF Holds
  <2> QED
    BY <2>1, <2>2
<1>8. \E p \in Seq(Block) : Holds(p)' /\ \A t \in Track : accepted'[t] = Owed(p, t)'
  <2> HIDE DEF all
  <2> QED
    BY <1>4, <1>5, <1>7
<1>9. mux'.header = None => \A t \in Track : Queued(mux, t)' = <<>>
  OBVIOUS
<1>10. accepted' \in [Track -> Seq(Said)]
  BY DEF TransitInv
<1> QED
  BY <1>6, <1>8, <1>9, <1>10 DEF TransitInv

-----------------------------------------------------------------------------
(* Every step keeps what is on its way on its way.                           *)

\* A step that moves nothing.
LEMMA TransitUntouched ==
  ASSUME TransitInv, UNCHANGED <<reports, inside, given, mux, file, readerVars, accepted>>
  PROVE  TransitInv'
<1>1. /\ Tracks' = Tracks /\ mux' = mux /\ inside' = inside /\ given' = given /\ file' = file
      /\ fed' = fed /\ demux' = demux /\ accepted' = accepted
  BY TracksStay DEF readerVars
<1>2. Ahead' = Ahead /\ Unparsed' = Unparsed
  BY <1>1 DEF Ahead, Unparsed, Unread
<1>3. \A t \in Track : Queued(mux, t)' = Queued(mux, t) /\ Line(t)' = Line(t)
  BY <1>1 DEF Queued, Line
<1>4. \A t \in Track : InTime(t) => InTime(t)'
  BY <1>1, <1>3 DEF InTime
<1>5. \A q \in Seq(Block) : Holds(q) => Holds(q)'
  BY <1>1, <1>2 DEF Holds
<1>6. \A q \in Seq(Block), t \in Track : Owed(q, t)' = Owed(q, t)
  BY <1>1, <1>3 DEF Owed
<1> QED
  BY <1>1, <1>3, <1>4, <1>5, <1>6 DEF TransitInv

\* What waits for a fragment of each track is in order.
LEMMA MuxOrderly ==
  ASSUME IInv, TransitInv
  PROVE  Orderly(mux)
<1>1. ASSUME NEW t \in Track PROVE Rising(Queued(mux, t))
  <2>1. Queued(mux, t) \in Seq(Packet) /\ inside[t] \in Seq(Packet)
    BY TransitTyped DEF TransitInv
  <2>2. Rising(Queued(mux, t) \o inside[t])
    BY DEF TransitInv, InTime, Line
  <2> QED
    BY <2>1, <2>2, RisingParts
<1> QED
  BY <1>1 DEF Orderly

\* A frame accepted is the last of its track's line, and later than all before.
LEMMA FrameJoinsLine ==
  ASSUME 0 \notin Gaps, IInv, TransitInv, NEW t \in Track, NEW key \in BOOLEAN, NEW gap \in Gaps,
         NEW p, p = Encoded(t, key, gap)
  PROVE  /\ p \in Packet /\ p.track = t
         /\ Line(t) \o <<p>> \in Seq(Packet) /\ Rising(Line(t) \o <<p>>)
         /\ \A i \in 1 .. Len(Line(t) \o <<p>>) : (Line(t) \o <<p>>)[i].dts <= p.dts
<1>1. /\ reports \in Reporting /\ given[t].frames \in Nat /\ given[t].dts \in Nat
      /\ gap \in Nat /\ gap # 0
  BY SessionAssumption DEF IInv, SessionInv, InsideInv
<1>2. /\ p \in Packet /\ p.track = t /\ p.dts = given[t].dts + gap /\ p.dts \in Nat
  BY <1>1 DEF Encoded, Packet
<1> DEFINE l == Line(t)
           w == l \o <<p>>
<1>3. l \in Seq(Packet) /\ Rising(l) /\ \A i \in 1 .. Len(l) : l[i].dts <= given[t].dts
  BY TransitTyped DEF TransitInv, InTime
<1> HIDE DEF l
<1>4. /\ w \in Seq(Packet) /\ Len(w) = Len(l) + 1 /\ Len(l) \in Nat
      /\ \A i \in 1 .. Len(l) : w[i] = l[i] /\ l[i] \in Packet
      /\ w[Len(l) + 1] = p
  <2>1. p \in Packet /\ l \in Seq(Packet)
    BY <1>2, <1>3
  <2> QED
    BY <2>1
<1> HIDE DEF w
<1>5. \A i \in 1 .. Len(l) : w[i].dts \in Nat /\ w[i].dts < p.dts
  <2> TAKE i \in 1 .. Len(l)
  <2>1. w[i].dts \in Nat /\ w[i].dts <= given[t].dts
    BY <1>3, <1>4 DEF Packet
  <2> DEFINE x == w[i].dts
             y == given[t].dts
  <2>2. x \in Nat /\ x <= y /\ y \in Nat /\ p.dts = y + gap
    BY <1>1, <1>2, <2>1
  <2> HIDE DEF x, y
  <2>3. x < p.dts
    BY <1>1, <2>2
  <2> QED
    BY <2>1, <2>3 DEF x
<1>6. \A i \in 1 .. Len(w) : i \in 1 .. Len(l) \/ i = Len(l) + 1
  BY <1>4
<1>7. Rising(w)
  <2> SUFFICES ASSUME NEW i \in 1 .. Len(w), NEW j \in 1 .. Len(w), i < j PROVE w[i].dts < w[j].dts
    BY DEF Rising
  <2>1. i \in 1 .. Len(l)
    BY <1>4
  <2>2. CASE j = Len(l) + 1
    BY <1>4, <1>5, <2>1, <2>2
  <2>3. CASE j \in 1 .. Len(l)
    BY <1>3, <1>4, <2>1, <2>3 DEF Rising
  <2> QED
    BY <1>6, <2>2, <2>3
<1>8. \A i \in 1 .. Len(w) : w[i].dts <= p.dts
  BY <1>2, <1>4, <1>5, <1>6
<1> QED
  BY <1>2, <1>4, <1>7, <1>8 DEF w, l

\* Accepting a frame keeps it.
LEMMA WriteTransit ==
  ASSUME 0 \notin Gaps, IInv, TransitInv,
         NEW t \in Track, NEW key \in BOOLEAN, NEW gap \in Gaps, Write(t, key, gap)
  PROVE  TransitInv'
<1> DEFINE p == Encoded(t, key, gap)
<1>1. UNCHANGED <<reports, mux, file, readerVars>>
  BY DEF Write
<1>2. CASE UNCHANGED <<inside, given, accepted>>
  BY <1>1, <1>2, TransitUntouched
<1>3. CASE /\ inside' = [inside EXCEPT ![t] = Append(@, p)]
           /\ given' = [given EXCEPT ![t] = [frames |-> @.frames + 1, dts |-> p.dts]]
           /\ accepted' = [accepted EXCEPT ![t] = Append(@, Content(p))]
  <2> DEFINE w == Line(t) \o <<p>>
  <2>1. /\ p \in Packet /\ w \in Seq(Packet) /\ Rising(w)
        /\ \A i \in 1 .. Len(w) : w[i].dts <= p.dts
    BY FrameJoinsLine
  <2> HIDE DEF p
  <2>2. /\ inside \in [Track -> Seq(Packet)] /\ given \in [Track -> [frames : Nat, dts : Nat]]
        /\ accepted \in [Track -> Seq(Said)]
    BY DEF IInv, InsideInv, TransitInv
  <2>3. /\ Tracks' = Tracks /\ mux' = mux /\ file' = file /\ fed' = fed /\ demux' = demux
    BY <1>1, TracksStay DEF readerVars
  <2>4. \A u \in Track : Queued(mux, u)' = Queued(mux, u)
    BY <2>3 DEF Queued
  <2>5. Ahead' = Ahead /\ Unparsed' = Unparsed
    BY <2>3 DEF Ahead, Unparsed, Unread
  <2>6. \A u \in Track \ {t} : Line(u)' = Line(u)
    BY <1>3, <2>2, <2>4 DEF Line
  <2>7. Line(t)' = w
    <3> DEFINE x == Queued(mux, t)
               y == inside[t]
    <3>1. x \in Seq(Packet) /\ y \in Seq(Packet)
      BY TransitTyped DEF TransitInv
    <3> HIDE DEF x, y
    <3>2. Append(y, p) = y \o <<p>> /\ <<p>> \in Seq(Packet)
      BY <2>1, <3>1, AppendIsConcat
    <3>3. inside'[t] = Append(y, p)
      BY <1>3, <2>2 DEF y
    <3>4. Line(t)' = x \o inside'[t]
      BY <2>4 DEF Line, x
    <3>5. x \o (y \o <<p>>) = (x \o y) \o <<p>>
      BY <3>1, <3>2, PacketsJoin
    <3>6. Line(t) = x \o y
      BY DEF Line, x, y
    <3> QED
      BY <3>2, <3>3, <3>4, <3>5, <3>6
  <2>8. \A u \in Track : InTime(u)'
    <3>1. given'[t].dts = p.dts /\ \A u \in Track \ {t} : given'[u] = given[u]
      BY <1>3, <2>2
    <3>2. InTime(t)'
      <4> HIDE DEF w
      <4> QED
        BY <2>1, <2>7, <3>1 DEF InTime
    <3>3. \A u \in Track \ {t} : InTime(u)'
      BY <2>6, <3>1 DEF TransitInv, InTime
    <3> QED
      BY <3>2, <3>3
  <2>9. Content(p) \in Said /\ Contents(<<p>>) = <<Content(p)>> /\ <<p>> \in Seq(Packet)
    <3> DEFINE s == <<p>>
               c == Contents(s)
    <3>1. s \in Seq(Packet) /\ Len(s) = 1 /\ s[1] = p
      BY <2>1
    <3> HIDE DEF s
    <3>2. c \in Seq(Said) /\ Len(c) = 1 /\ c[1] = Content(p) /\ Content(p) \in Said
      BY <3>1, ContentsTyped
    <3> HIDE DEF c
    <3>3. c = <<Content(p)>>
      BY <3>2
    <3> QED
      BY <3>1, <3>2, <3>3 DEF s, c
  <2>10. accepted' \in [Track -> Seq(Said)]
    BY <1>3, <2>2, <2>9
  <2>11. PICK q \in Seq(Block) : Holds(q) /\ \A u \in Track : accepted[u] = Owed(q, u)
    BY DEF TransitInv
  <2>12. Holds(q)'
    BY <2>3, <2>5, <2>11 DEF Holds
  <2>13. \A u \in Track \ {t} : accepted'[u] = Owed(q, u)'
    BY <1>3, <2>2, <2>3, <2>6, <2>11 DEF Owed
  <2>14. accepted'[t] = Owed(q, t)'
    <3> DEFINE x == OfTrack(q, t)
               l == Line(t)
               r == Read(demux.packets, t)
               c == Content(p)
    <3>1. x \in Seq(Packet) /\ l \in Seq(Packet) /\ r \in Seq(Said)
      BY TransitTyped, OfTrackParts, ReadParts, DemuxerFields DEF TransitInv
    <3>2. Owed(q, t)' = r \o Contents(x \o (l \o <<p>>))
      BY <2>3, <2>7 DEF Owed
    <3>3. accepted[t] = r \o Contents(x \o l)
      BY <2>11 DEF Owed
    <3> HIDE DEF x, l, r
    <3>4. x \o (l \o <<p>>) = (x \o l) \o <<p>> /\ x \o l \in Seq(Packet)
      BY <2>9, <3>1, PacketsJoin
    <3> DEFINE y == x \o l
    <3>5. Contents(y \o <<p>>) = Contents(y) \o <<c>> /\ Contents(y) \in Seq(Said)
      <4>1. y \in Seq(Packet)
        BY <3>4
      <4> HIDE DEF y
      <4> QED
        BY <2>9, <4>1, ContentsConcat, ContentsTyped
    <3> HIDE DEF y, c
    <3>6. c \in Said /\ accepted[t] \in Seq(Said) /\ accepted'[t] = Append(accepted[t], c)
      BY <1>3, <2>2, <2>9 DEF c
    <3> DEFINE z == Contents(y)
    <3>7. z \in Seq(Said) /\ accepted[t] = r \o z
      BY <3>3, <3>5 DEF y
    <3>8. Owed(q, t)' = r \o (z \o <<c>>)
      BY <3>2, <3>4, <3>5 DEF y
    <3> HIDE DEF z
    <3>9. r \o (z \o <<c>>) = (r \o z) \o <<c>>
      BY <3>1, <3>6, <3>7, ConcatAssociative
    <3>10. Append(accepted[t], c) = accepted[t] \o <<c>>
      BY <3>6, AppendIsConcat
    <3> QED
      BY <3>6, <3>7, <3>8, <3>9, <3>10
  <2>15. \A u \in Track : accepted'[u] = Owed(q, u)'
    BY <2>13, <2>14
  <2>16. demux' \in Demuxer /\ (mux'.header = None => \A u \in Track : Queued(mux, u)' = <<>>)
    BY <2>3, <2>4 DEF TransitInv
  <2>17. \E k \in Seq(Block) : Holds(k)' /\ \A u \in Track : accepted'[u] = Owed(k, u)'
    BY <2>12, <2>15
  <2> QED
    BY <2>8, <2>10, <2>16, <2>17 DEF TransitInv
<1> QED
  BY <1>2, <1>3 DEF Write

\* Asked for its configuration or not, the muxer waits and has written the same.
LEMMA DescribedSame ==
  ASSUME IInv, NEW t \in Tracks
  PROVE  LET m == Described(t) IN
         /\ Sound(m, file) /\ Waiting(m) /\ m.header = mux.header /\ Unread(m) = Unread(mux)
         /\ \A u \in Track : Queued(m, u) = Queued(mux, u)
<1>1. reports \in Reporting /\ Sound(mux, file) /\ Waiting(mux)
  BY DEF IInv, SessionInv, BatchInv
<1> DEFINE more == mux.configured \cup {t}
           n == [mux EXCEPT !.configured = @ \cup {t}]
<1>2. Described(t) = mux \/ Described(t) = n
  BY DEF Described, Describe
<1>3. Sound(n, file) /\ n.header = mux.header /\ n.pending = mux.pending
  BY <1>1, DescribeSound
<1>4. n.output = mux.output /\ n.consumed = mux.consumed
  <2>1. n = [mux EXCEPT !.configured = more] /\ mux \in Muxer
    BY <1>1 DEF Muxer, Sound
  <2> HIDE DEF n, more
  <2> QED
    BY <2>1 DEF Muxer
<1> HIDE DEF n
<1>5. Waiting(n) /\ Unread(n) = Unread(mux) /\ \A u \in Track : Queued(n, u) = Queued(mux, u)
  BY <1>1, <1>3, <1>4 DEF Waiting, Unread, Queued
<1> QED
  BY <1>1, <1>2, <1>3, <1>5

\* Writing h and w after what is buffered, in the file, and unread.
Appends(b, f, u, h, w) == b \o (f \o ((u \o h) \o w)) = ((b \o (f \o u)) \o h) \o w

\* It is the same as writing them after what is unparsed.
LEMMA MoreBytes ==
  ASSUME NEW b \in Seq(Byte), NEW f \in Seq(Byte), NEW u \in Seq(Byte), NEW h \in Seq(Byte),
         NEW w \in Seq(Byte)
  PROVE  Appends(b, f, u, h, w)
<1> DEFINE x == f \o u
           y == u \o h
<1>1. x \in Seq(Byte) /\ y \in Seq(Byte)
  BY BytesJoin
<1>2. x \o h = f \o y
  BY BytesAssociate
<1> HIDE DEF x, y
<1>3. (f \o y) \o w = f \o (y \o w)
  BY <1>1, BytesAssociate, ZenonT(60)
<1> DEFINE z == x \o h
<1>4. z \in Seq(Byte)
  BY <1>1, BytesJoin
<1>5. (b \o x) \o h = b \o z
  BY <1>1, BytesAssociate, ZenonT(60)
<1>6. f \o (y \o w) = z \o w
  BY <1>2, <1>3
<1> HIDE DEF z
<1>7. (b \o z) \o w = b \o (z \o w)
  BY <1>4, BytesAssociate, ZenonT(60)
<1>8. b \o (f \o (y \o w)) = ((b \o x) \o h) \o w
  BY <1>5, <1>6, <1>7
<1> QED
  BY <1>8 DEF Appends, x, y

\* So does one turn of the draining loop: the packet moves from the encoder to
\* a fragment, or waits for one.
LEMMA DrainTransit ==
  ASSUME IInv, IInv', TransitInv, NEW t \in Track, DrainPacket(t)
  PROVE  TransitInv'
<1> DEFINE q == inside[t]
           p == Head(q)
           asked == Described(t)
           head == IF mux.header = None THEN Moov ELSE <<>>
<1>1. /\ reports \in Reporting /\ inside \in [Track -> Seq(Packet)] /\ q \in Seq(Packet)
      /\ q # <<>> /\ \A i \in DOMAIN q : q[i].track = t
  BY DEF IInv, SessionInv, InsideInv, DrainPacket
<1>2. t \in Tracks
  BY <1>1 DEF IInv, InsideInv
<1>3. /\ UNCHANGED <<reports, given, file, fed, demux, accepted>>
      /\ mux' = PushPacket(asked, p) /\ inside' = [inside EXCEPT ![t] = Tail(q)]
  BY DEF DrainPacket, readerVars
<1>4. /\ Sound(asked, file) /\ Waiting(asked) /\ asked.header = mux.header
      /\ Unread(asked) = Unread(mux) /\ \A u \in Track : Queued(asked, u) = Queued(mux, u)
  BY <1>2, DescribedSame
<1>5. /\ q = <<p>> \o Tail(q) /\ p = q[1] /\ p \in Packet /\ Tail(q) \in Seq(Packet)
      /\ 1 \in DOMAIN q
  <2>1. q \in Seq(Packet) /\ q # <<>>
    BY <1>1
  <2> HIDE DEF q
  <2>2. 1 \in DOMAIN q
    BY <2>1
  <2> QED
    BY <2>1, <2>2, HeadAndTail
<1>6. p.track = t
  BY <1>1, <1>5
<1>7. inside'[t] = Tail(q) /\ \A u \in Track \ {t} : inside'[u] = inside[u]
  BY <1>1, <1>3
<1> HIDE DEF asked, p, q
<1>8. /\ mux'.header # None /\ mux' \in Muxer
  <2> DEFINE known == IF p.config THEN asked.configured \cup {t} ELSE asked.configured
  <2>1. Sound(mux', file) /\ mux'.header = IF asked.header = None THEN known ELSE asked.header
    BY <1>1, <1>2, <1>3, <1>4, <1>5, <1>6, PushPacketSound
  <2>2. known \in SUBSET Track
    <3>1. asked \in Muxer
      BY <1>4 DEF Sound
    <3> QED
      BY <1>1, <1>2, <3>1, MuxerFields, TracksKnown
  <2> HIDE DEF known
  <2>3. known # None
    BY <2>2, SessionAssumption
  <2> QED
    BY <2>1, <2>3 DEF Sound
<1>9. ASSUME NEW u \in Track
      PROVE  /\ Added(p, u) \in Seq(Packet) /\ Queued(mux, u) \in Seq(Packet)
             /\ inside'[u] \in Seq(Packet) /\ Queued(mux, u) \o Added(p, u) \in Seq(Packet)
             /\ Line(u) = (Queued(mux, u) \o Added(p, u)) \o inside'[u]
             /\ Rising(Queued(asked, u) \o Added(p, u))
  <2>1. Queued(mux, u) \in Seq(Packet) /\ inside[u] \in Seq(Packet)
    BY TransitTyped DEF TransitInv
  <2>2. /\ Added(p, u) \in Seq(Packet) /\ inside'[u] \in Seq(Packet)
        /\ inside[u] = Added(p, u) \o inside'[u]
    <3>1. CASE u = t
      <4>1. <<p>> \in Seq(Packet)
        BY <1>5
      <4> QED
        BY <1>5, <1>6, <1>7, <3>1, <4>1 DEF Added, q
    <3>2. CASE u # t
      BY <1>6, <1>7, <2>1, <3>2, PacketsJoin DEF Added
    <3> QED
      BY <3>1, <3>2
  <2>3. Line(u) = (Queued(mux, u) \o Added(p, u)) \o inside'[u]
        /\ Queued(mux, u) \o Added(p, u) \in Seq(Packet)
    <3> DEFINE x == Queued(mux, u)
               y == Added(p, u)
               z == inside'[u]
    <3>1. x \in Seq(Packet) /\ y \in Seq(Packet) /\ z \in Seq(Packet) /\ Line(u) = x \o (y \o z)
      BY <2>1, <2>2 DEF Line
    <3> HIDE DEF x, y, z
    <3>2. Line(u) = (x \o y) \o z /\ x \o y \in Seq(Packet)
      BY <3>1, PacketsJoin
    <3> QED
      BY <3>2 DEF x, y, z
  <2>4. Rising(Queued(mux, u) \o Added(p, u))
    <3>1. Rising(Line(u))
      BY DEF TransitInv, InTime
    <3> QED
      BY <2>2, <2>3, <3>1, RisingParts
  <2> QED
    BY <1>4, <2>1, <2>2, <2>3, <2>4
<1>10. PICK r \in Seq(Block) :
         /\ Unread(mux') = (Unread(asked) \o head) \o Written(r)
         /\ \A u \in Track : Queued(asked, u) \o Added(p, u) = OfTrack(r, u) \o Queued(mux', u)
  <2>1. p.track \in Tracks /\ p \in Packet /\ Sound(asked, file) /\ reports \in Reporting
    BY <1>1, <1>2, <1>4, <1>5, <1>6
  <2>2. \A u \in Track : Rising(Queued(asked, u) \o Added(p, u))
    BY <1>9
  <2> DEFINE n == PushPacket(asked, p)
  <2>3. \E r \in Seq(Block) :
          /\ Unread(n) = (Unread(asked) \o (IF asked.header = None THEN Moov ELSE <<>>)) \o Written(r)
          /\ \A u \in Track : Queued(asked, u) \o Added(p, u) = OfTrack(r, u) \o Queued(n, u)
    BY <2>1, <2>2, PushPacketEmits
  <2>4. n = mux'
    BY <1>3
  <2> HIDE DEF n
  <2> QED
    BY <1>4, <2>3, <2>4
<1>11. head \in Seq(Byte) /\ Written(r) \in Seq(Byte)
  BY MoovTyped, WrittenParts, BytesJoin
<1>12. /\ Tracks' = Tracks /\ demux' = demux /\ demux \in Demuxer
  BY <1>3, TracksStay DEF TransitInv
<1>13. Unparsed' = (Unparsed \o head) \o Written(r)
  <2> DEFINE b == demux.buffer
             f == SubSeq(file, fed + 1, Len(file))
             u == Unread(mux)
             w == Written(r)
  <2>1. b \in Seq(Byte) /\ f \in Seq(Byte) /\ u \in Seq(Byte) /\ w \in Seq(Byte)
    BY <1>11, <1>12, TransitTyped
  <2>2. Unparsed = b \o (f \o u)
    BY DEF Unparsed, Ahead
  <2>3. Unread(mux)' = (u \o head) \o w
    BY <1>4, <1>10 DEF Unread
  <2>4. Unparsed' = b \o (f \o ((u \o head) \o w))
    BY <1>3, <2>3 DEF Unparsed, Ahead
  <2> HIDE DEF b, f, u, w, head
  <2>5. b \o (f \o ((u \o head) \o w)) = ((b \o (f \o u)) \o head) \o w
    <3>1. Appends(b, f, u, head, w)
      BY <1>11, <2>1, MoreBytes
    <3> QED
      BY <3>1 DEF Appends
  <2> QED
    BY <2>2, <2>4, <2>5 DEF w
<1>14. ASSUME NEW u \in Track PROVE Line(u) = OfTrack(r, u) \o Line(u)'
  <2> DEFINE x == OfTrack(r, u)
             y == Queued(mux', u)
             z == inside'[u]
  <2>1. x \in Seq(Packet) /\ y \in Seq(Packet) /\ z \in Seq(Packet)
    BY <1>8, <1>9, OfTrackParts, QueuedTyped
  <2>2. Line(u) = (x \o y) \o z
    BY <1>4, <1>9, <1>10
  <2>3. Line(u)' = y \o z
    BY <1>12 DEF Line, Queued
  <2> HIDE DEF y, z
  <2> QED
    BY <2>1, <2>2, <2>3, PacketsJoin
<1>15. head = IF mux.header = None /\ mux'.header # None THEN Moov ELSE <<>>
  BY <1>8
<1>16. /\ mux.header # None => mux'.header # None
       /\ mux'.header = None => r = <<>> /\ \A u \in Track : Queued(mux, u)' = <<>>
  BY <1>8
<1> HIDE DEF head
<1>17. /\ reports' = reports /\ accepted' = accepted /\ given' = given /\ demux' \in Demuxer
       /\ demux'.track = demux.track /\ demux'.base = demux.base /\ demux'.rows = demux.rows
       /\ demux'.packets = demux.packets
  BY <1>3, <1>12
<1> QED
  BY <1>13, <1>14, <1>15, <1>16, <1>17, StreamGrows

\* Two parts of nothing are nothing.
LEMMA PartsOfNothing ==
  ASSUME NEW x \in Seq(Packet), NEW y \in Seq(Packet), x \o y = <<>>
  PROVE  x = <<>> /\ y = <<>>
<1> DEFINE w == x \o y
<1>1. Len(w) = Len(x) + Len(y) /\ Len(x) \in Nat /\ Len(y) \in Nat
  OBVIOUS
<1>2. Len(w) = 0
  OBVIOUS
<1> HIDE DEF w
<1>3. Len(x) = 0 /\ Len(y) = 0
  BY <1>1, <1>2
<1> QED
  BY <1>3

\* So does reading what the muxer has written, flushed or not.
LEMMA BytesTransit ==
  ASSUME IInv, IInv', TransitInv, UNCHANGED <<reports, inside, given, readerVars, accepted>>,
         NEW m, Sound(m, file), m.header = mux.header, NEW r, Emits(mux, m, r),
         mux' = Polled(m), file' = file \o Unread(m)
  PROVE  TransitInv'
<1>1. /\ Sound(mux', file') /\ Unread(mux') = <<>> /\ mux'.header = mux.header
      /\ mux'.pending = m.pending
  BY PolledSound
<1>2. /\ Tracks' = Tracks /\ fed' = fed /\ demux' = demux /\ demux \in Demuxer
      /\ inside' = inside /\ accepted' = accepted /\ given' = given /\ reports' = reports
  BY TracksStay DEF TransitInv, readerVars
<1>3. /\ \A u \in Track : Queued(mux, u)' = Queued(m, u)
      /\ m \in Muxer /\ Unread(m) \in Seq(Byte)
  BY <1>1, <1>2, SoundTyped DEF Queued
<1>4. /\ r \in Seq(Block) /\ Unread(m) = Unread(mux) \o Written(r)
      /\ \A u \in Track : Queued(mux, u) = OfTrack(r, u) \o Queued(m, u)
  BY DEF Emits
<1>5. Written(r) \in Seq(Byte)
  BY <1>4, WrittenParts
<1>6. Unparsed' = (Unparsed \o <<>>) \o Written(r)
  <2> DEFINE b == demux.buffer
             f == SubSeq(file, fed + 1, Len(file))
             u == Unread(mux)
             w == Written(r)
  <2>1. /\ b \in Seq(Byte) /\ f \in Seq(Byte) /\ u \in Seq(Byte) /\ w \in Seq(Byte)
        /\ file \in Seq(Byte) /\ fed \in 0 .. Len(file)
    BY <1>2, <1>5, TransitTyped
  <2>2. SubSeq(file', fed + 1, Len(file')) = f \o Unread(m)
    BY <1>3, <2>1, RestGrows
  <2>3. Unread(mux)' = <<>>
    BY <1>1 DEF Unread
  <2>4. Ahead' = (f \o Unread(m)) \o <<>>
    BY <1>2, <2>2, <2>3 DEF Ahead
  <2>5. Unparsed' = b \o ((f \o (u \o w)) \o <<>>)
    BY <1>2, <1>4, <2>4 DEF Unparsed
  <2>6. Unparsed = b \o (f \o u)
    BY DEF Unparsed, Ahead
  <2> HIDE DEF b, f, u, w
  <2> DEFINE none == <<>>
             x == f \o (u \o w)
  <2>7. none \in Seq(Byte) /\ u \o none = u /\ x \in Seq(Byte) /\ x \o none = x
    <3>1. x \in Seq(Byte)
      BY <2>1, BytesJoin
    <3> HIDE DEF x
    <3> QED
      BY <2>1, <3>1, BytesJoin
  <2> HIDE DEF none
  <2>8. b \o (f \o ((u \o none) \o w)) = ((b \o (f \o u)) \o none) \o w
    <3>1. Appends(b, f, u, none, w)
      BY <2>1, <2>7, MoreBytes
    <3> QED
      BY <3>1 DEF Appends
  <2>9. Unparsed' = b \o x
    BY <2>5, <2>7 DEF none
  <2> QED
    BY <2>6, <2>7, <2>8, <2>9 DEF w, none
<1>7. ASSUME NEW u \in Track
      PROVE  /\ Line(u) = OfTrack(r, u) \o Line(u)'
             /\ OfTrack(r, u) \in Seq(Packet) /\ Queued(m, u) \in Seq(Packet)
  <2> DEFINE x == OfTrack(r, u)
             y == Queued(m, u)
             z == inside[u]
  <2>1. x \in Seq(Packet) /\ y \in Seq(Packet) /\ z \in Seq(Packet)
    BY <1>2, <1>3, <1>4, OfTrackParts, QueuedTyped, TransitTyped
  <2>2. Line(u) = (x \o y) \o z
    BY <1>4 DEF Line
  <2>3. Line(u)' = y \o z
    BY <1>2, <1>3 DEF Line
  <2> HIDE DEF x, y, z
  <2>4. Line(u) = x \o Line(u)'
    BY <2>1, <2>2, <2>3, PacketsJoin
  <2> QED
    BY <2>1, <2>4 DEF x, y
<1>8. mux'.header = None => r = <<>> /\ \A u \in Track : Queued(mux, u)' = <<>>
  <2> SUFFICES ASSUME mux'.header = None
               PROVE  r = <<>> /\ \A u \in Track : Queued(mux, u)' = <<>>
    OBVIOUS
  <2>1. \A u \in Track : OfTrack(r, u) \o Queued(m, u) = <<>>
    BY <1>1, <1>4 DEF TransitInv
  <2>2. ASSUME NEW u \in Track PROVE OfTrack(r, u) = <<>> /\ Queued(m, u) = <<>>
    BY <1>7, <2>1, PartsOfNothing
  <2>3. r = <<>>
    BY <1>4, <2>2, NothingWritten
  <2> QED
    BY <1>3, <2>2, <2>3
<1>9. /\ <<>> = IF mux.header = None /\ mux'.header # None THEN Moov ELSE <<>>
      /\ mux.header # None => mux'.header # None
  BY <1>1
<1>10. /\ demux' \in Demuxer /\ demux'.track = demux.track /\ demux'.base = demux.base
       /\ demux'.rows = demux.rows /\ demux'.packets = demux.packets
  BY <1>2
<1> DEFINE head == <<>>
<1>11. /\ Unparsed' = (Unparsed \o head) \o Written(r)
       /\ head = IF mux.header = None /\ mux'.header # None THEN Moov ELSE <<>>
  BY <1>6, <1>9
<1> HIDE DEF head
<1> QED
  BY <1>2, <1>4, <1>7, <1>8, <1>9, <1>10, <1>11, StreamGrows

\* So does giving the demuxer more of the file.
LEMMA PushBytesTransit ==
  ASSUME IInv, IInv', TransitInv, NEW k \in Reads, PushBytes(k)
  PROVE  TransitInv'
<1> DEFINE upto == IF fed + k < Len(file) THEN fed + k ELSE Len(file)
           chunk == SubSeq(file, fed + 1, upto)
           left == SubSeq(file, upto + 1, Len(file))
           all == SubSeq(file, fed + 1, Len(file))
           buffer == demux.buffer \o chunk
           none == <<>>
<1>1. /\ demux \in Demuxer /\ file \in Seq(Byte) /\ fed \in 0 .. Len(file) /\ Len(file) \in Nat
      /\ k \in Nat /\ all \in Seq(Byte) /\ Unread(mux) \in Seq(Byte) /\ demux.buffer \in Seq(Byte)
      /\ Unparsed \in Seq(Byte)
  BY TransitTyped, SessionAssumption DEF TransitInv
<1>2. /\ UNCHANGED <<reports, inside, given, mux, file, accepted>> /\ fed' = upto
      /\ demux' = [demux EXCEPT !.buffer = buffer]
  BY DEF PushBytes, sessionVars
<1>3. upto \in fed .. Len(file) /\ upto \in Nat /\ fed \in Nat
  BY <1>1
<1> HIDE DEF upto
<1>4. chunk \in Seq(Byte) /\ left \in Seq(Byte) /\ chunk \o left = all
  <2> DEFINE f == file
             n == Len(file)
             i == fed + 1
  <2>1. f \in Seq(Byte) /\ n = Len(f) /\ i \in 1 .. n + 1 /\ upto \in i - 1 .. n /\ n \in upto .. n
        /\ n \in Nat
    BY <1>1, <1>3
  <2>2. SubSeq(f, i, upto) \o SubSeq(f, upto + 1, n) = SubSeq(f, i, n)
    <3> HIDE DEF f, n, i
    <3> QED
      BY <2>1, ConcatAdjacentSubSeq
  <2>3. SubSeq(f, i, upto) \in Seq(Byte) /\ SubSeq(f, upto + 1, n) \in Seq(Byte)
    <3> HIDE DEF f, n, i
    <3> QED
      BY <2>1
  <2> QED
    BY <2>2, <2>3
<1> HIDE DEF chunk, left, all
<1>5. buffer \in Seq(Byte)
  BY <1>1, <1>4, BytesJoin
<1> HIDE DEF buffer
<1>6. /\ demux' \in Demuxer /\ demux'.track = demux.track /\ demux'.base = demux.base
      /\ demux'.rows = demux.rows /\ demux'.packets = demux.packets /\ demux'.buffer = buffer
  BY <1>1, <1>2, <1>5 DEF Demuxer
<1>7. Unparsed' = Unparsed
  <2> DEFINE b == demux.buffer
             u == Unread(mux)
  <2>1. Unread(mux)' = u
    BY <1>2 DEF Unread
  <2>2. Ahead' = left \o u
    BY <1>2, <2>1 DEF Ahead, left
  <2>3. Unparsed' = (b \o chunk) \o (left \o u)
    BY <1>6, <2>2 DEF Unparsed, buffer
  <2>4. Unparsed = b \o (all \o u)
    BY DEF Unparsed, Ahead, all
  <2> HIDE DEF b, u
  <2> DEFINE y == left \o u
  <2>5. b \in Seq(Byte) /\ u \in Seq(Byte) /\ y \in Seq(Byte)
    BY <1>1, <1>4, BytesJoin DEF b, u
  <2>6. (chunk \o left) \o u = chunk \o y
    BY <1>4, <2>5, BytesAssociate, ZenonT(60)
  <2> HIDE DEF y
  <2>7. (b \o chunk) \o y = b \o (chunk \o y)
    BY <1>4, <2>5, BytesAssociate, ZenonT(60)
  <2> QED
    BY <1>4, <2>3, <2>4, <2>6, <2>7 DEF y
<1>8. /\ none \in Seq(Block) /\ Unparsed' = (Unparsed \o <<>>) \o Written(none)
  <2>1. none \in Seq(Block) /\ Written(none) = <<>>
    BY WrittenParts
  <2>2. (Unparsed \o <<>>) \o <<>> = Unparsed
    BY <1>1, BytesJoin
  <2> QED
    BY <1>7, <2>1, <2>2
<1>9. \A t \in Track : /\ Queued(mux, t)' = Queued(mux, t) /\ Line(t)' = Line(t)
                       /\ Line(t) = OfTrack(none, t) \o Line(t)'
  <2>1. Tracks' = Tracks
    BY <1>2, TracksStay
  <2> TAKE t \in Track
  <2>2. Queued(mux, t)' = Queued(mux, t) /\ Line(t)' = Line(t)
    BY <1>2, <2>1 DEF Queued, Line
  <2>3. Line(t) \in Seq(Packet) /\ OfTrack(none, t) = <<>>
    BY <1>1, TransitTyped, OfTrackParts
  <2> QED
    BY <2>2, <2>3, PacketsJoin
<1> DEFINE head == <<>>
<1>10. /\ head = IF mux.header = None /\ mux'.header # None THEN Moov ELSE <<>>
       /\ mux.header # None => mux'.header # None
       /\ mux'.header = None => none = <<>> /\ \A t \in Track : Queued(mux, t)' = <<>>
       /\ Unparsed' = (Unparsed \o head) \o Written(none)
       /\ reports' = reports /\ accepted' = accepted /\ given' = given
  BY <1>2, <1>8, <1>9 DEF TransitInv
<1> HIDE DEF none, head
<1> QED
  BY <1>6, <1>8, <1>9, <1>10, StreamGrows

\* The first fragment, and the others.
LEMMA WrittenFirst ==
  ASSUME NEW q \in Seq(Block), q # <<>>
  PROVE  LET b == q[1]
             rest == Written(Tail(q))
         IN /\ b \in Block /\ Tail(q) \in Seq(Block) /\ rest \in Seq(Byte)
            /\ MoofBytes(b.track, b.samples) \in Seq(Byte) /\ Mdat(b.samples) \in Seq(Byte)
            /\ Mdat(b.samples) \o rest \in Seq(Byte)
            /\ Written(q) = MoofBytes(b.track, b.samples) \o (Mdat(b.samples) \o rest)
<1> DEFINE b == q[1]
           rest == Written(Tail(q))
           x == MoofBytes(b.track, b.samples)
           y == Mdat(b.samples)
<1>1. b \in Block /\ Tail(q) \in Seq(Block) /\ rest \in Seq(Byte) /\ Written(q) = FragmentOf[b] \o rest
  BY BlocksMake, SpreadFirst DEF Written
<1>2. FragmentOf[b] = x \o y /\ x \in Seq(Byte) /\ y \in Seq(Byte)
  BY <1>1, BlockFields, FragmentParts DEF FragmentOf, MoofBytes
<1> HIDE DEF x, y, rest
<1>3. (x \o y) \o rest = x \o (y \o rest) /\ y \o rest \in Seq(Byte)
  BY <1>1, <1>2, BytesJoin
<1> QED
  BY <1>1, <1>2, <1>3 DEF x, y, rest

\* The samples of one track in the first fragment, and in the others.
LEMMA OfTrackFirst ==
  ASSUME NEW q \in Seq(Block), q # <<>>, NEW t \in Track
  PROVE  /\ Tail(q) \in Seq(Block) /\ OfTrack(Tail(q), t) \in Seq(Packet)
         /\ OfTrack(q, t) = (IF q[1].track = t THEN q[1].samples ELSE <<>>) \o OfTrack(Tail(q), t)
<1> DEFINE f == SamplesOf(t)
<1>1. Makes(f, Block, Packet)
  BY BlocksMake
<1>2. \A b \in Block : f[b] = IF b.track = t THEN b.samples ELSE <<>>
  BY DEF SamplesOf
<1> HIDE DEF f
<1>3. /\ q[1] \in Block /\ Tail(q) \in Seq(Block) /\ Spread(f, Tail(q)) \in Seq(Packet)
      /\ Spread(f, q) = f[q[1]] \o Spread(f, Tail(q))
  BY <1>1, SpreadFirst
<1> QED
  BY <1>2, <1>3 DEF OfTrack, f

\* A box at the front of the buffer has yet to be parsed.
LEMMA BoxIsSomething ==
  ASSUME demux \in Demuxer, Ahead \in Seq(Byte), HasBox(demux)
  PROVE  Unparsed # <<>>
<1> DEFINE x == demux.buffer
           y == Ahead
           w == x \o y
<1>1. x \in Seq(Byte) /\ y \in Seq(Byte) /\ x # <<>>
  BY DemuxerFields DEF HasBox
<1> HIDE DEF x, y
<1>2. Len(w) = Len(x) + Len(y) /\ Len(x) \in Nat /\ Len(y) \in Nat /\ Len(x) # 0
  BY <1>1
<1>3. Len(w) # 0
  BY <1>2
<1> HIDE DEF w
<1>4. w # <<>>
  BY <1>3
<1> QED
  BY <1>4 DEF Unparsed, w, x, y

\* What the reader gets can be put together in any order.
LEMMA SaidAssociate ==
  \A x, y, z \in Seq(Said) : (x \o y) \o z = x \o (y \o z)
BY ConcatAssociative

\* So does taking a box: the header, the description of a fragment, its samples.
LEMMA PumpTransit ==
  ASSUME IInv, TransitInv, Pump
  PROVE  TransitInv'
<1> DEFINE e == TakeBox(demux)
<1>1. /\ UNCHANGED <<reports, inside, given, mux, file, fed, accepted>> /\ demux' = e
      /\ HasBox(demux)
  BY DEF Pump, sessionVars
<1>2. demux \in Demuxer /\ Ahead \in Seq(Byte) /\ Tracks' = Tracks /\ Unparsed = demux.buffer \o Ahead
  BY <1>1, TransitTyped, TracksStay DEF TransitInv, Unparsed
<1> HIDE DEF e
<1>3. /\ \A t \in Track : Queued(mux, t)' = Queued(mux, t) /\ Line(t)' = Line(t)
      /\ Ahead' = Ahead
  BY <1>1, <1>2 DEF Queued, Line, Ahead, Unread
<1>4. PICK q \in Seq(Block) : Holds(q) /\ \A t \in Track : accepted[t] = Owed(q, t)
  BY DEF TransitInv
<1>5. ASSUME NEW rest \in Seq(Byte), NEW p \in Seq(Block), Taken(demux, e, Ahead, rest),
             Unparsed' = rest => Holds(p)', \A t \in Track : Owed(p, t)' = Owed(q, t)
      PROVE  TransitInv'
  <2>1. e \in Demuxer /\ Unparsed' = rest
    BY <1>1, <1>3, <1>5 DEF Taken, Unparsed
  <2>2. \A t \in Track : InTime(t)'
    BY <1>1, <1>3 DEF TransitInv, InTime
  <2>3. Holds(p)' /\ \A t \in Track : accepted'[t] = Owed(p, t)'
    BY <1>1, <1>4, <1>5, <2>1
  <2>4. \E r \in Seq(Block) : Holds(r)' /\ \A t \in Track : accepted'[t] = Owed(r, t)'
    BY <2>3
  <2>5. demux' \in Demuxer /\ accepted' \in [Track -> Seq(Said)]
        /\ (mux'.header = None => \A t \in Track : Queued(mux, t)' = <<>>)
    BY <1>1, <1>3, <2>1 DEF TransitInv
  <2> QED
    BY <2>2, <2>4, <2>5 DEF TransitInv
<1>6. mux.header # None
  <2> SUFFICES ASSUME mux.header = None PROVE FALSE
    OBVIOUS
  <2>1. Unparsed = <<>>
    BY <1>4 DEF Holds
  <2> QED
    BY <1>1, <1>2, <2>1, BoxIsSomething
<1>7. CASE Unparsed = Moov \o Written(q)
  <2>1. Written(q) \in Seq(Byte)
    BY WrittenParts
  <2>2. /\ Taken(demux, e, Ahead, Written(q)) /\ e.packets = demux.packets
    BY <1>1, <1>2, <1>7, <2>1, TakeMoov DEF e
  <2>3. Unparsed' = Written(q) => Holds(q)'
    BY <1>1, <1>6 DEF Holds
  <2>4. \A t \in Track : Owed(q, t)' = Owed(q, t)
    BY <1>1, <1>3, <2>2 DEF Owed
  <2> QED
    BY <1>5, <2>1, <2>2, <2>3, <2>4
<1>8. CASE Unparsed = Written(q)
  <2> DEFINE b == q[1]
             rest == Mdat(b.samples) \o Written(Tail(q))
  <2>1. q # <<>>
    <3> SUFFICES ASSUME q = <<>> PROVE FALSE
      OBVIOUS
    <3>1. Unparsed = <<>>
      BY <1>8, WrittenParts
    <3> QED
      BY <1>1, <1>2, <3>1, BoxIsSomething
  <2>2. /\ b \in Block /\ rest \in Seq(Byte)
        /\ Unparsed = MoofBytes(b.track, b.samples) \o rest
    BY <1>8, <2>1, WrittenFirst
  <2>3. b.track \in Track /\ b.samples \in Seq(Packet) /\ b.samples # <<>>
    BY <2>2, BlockFields
  <2>4. /\ Taken(demux, e, Ahead, rest) /\ e.track = b.track /\ e.base = b.samples[1].dts
        /\ e.rows = Rows(b.samples) /\ e.packets = demux.packets
    <3> DEFINE k == b.track
               s == b.samples
    <3>1. /\ k \in Track /\ s \in Seq(Packet) /\ s # <<>> /\ rest \in Seq(Byte)
          /\ demux.buffer \o Ahead = MoofBytes(k, s) \o rest
      BY <1>2, <2>2, <2>3
    <3> HIDE DEF k, s, rest, b
    <3>2. Taken(demux, e, Ahead, rest) /\ Told(demux, e, k, s)
      BY <1>1, <1>2, <3>1, TakeMoof DEF e
    <3> QED
      BY <3>2 DEF Told, k, s
  <2>5. Unparsed' = rest => Holds(q)'
    BY <1>1, <1>6, <2>1, <2>4 DEF Holds
  <2>6. \A t \in Track : Owed(q, t)' = Owed(q, t)
    BY <1>1, <1>3, <2>4 DEF Owed
  <2> HIDE DEF rest
  <2> QED
    BY <1>5, <2>2, <2>4, <2>5, <2>6
<1>9. CASE /\ q # <<>> /\ Unparsed = Mdat(q[1].samples) \o Written(Tail(q))
           /\ demux.track = q[1].track /\ demux.base = q[1].samples[1].dts
           /\ demux.rows = Rows(q[1].samples)
  <2> DEFINE b == q[1]
             k == b.track
             s == b.samples
             p == Tail(q)
             rest == Written(p)
  <2>1. b \in Block /\ p \in Seq(Block) /\ rest \in Seq(Byte)
    BY <1>9, WrittenFirst
  <2>2. k \in Track /\ s \in Seq(Packet) /\ s # <<>> /\ Rising(s)
    BY <2>1, BlockFields
  <2>3. Taken(demux, e, Ahead, rest) /\ e.packets = demux.packets \o Got(k, s)
    <3>1. /\ demux.track = k /\ demux.base = s[1].dts /\ demux.rows = Rows(s)
          /\ demux.buffer \o Ahead = Mdat(s) \o rest
      BY <1>2, <1>9
    <3> HIDE DEF k, s, rest
    <3> QED
      BY <1>1, <1>2, <2>1, <2>2, <3>1, TakeMdat DEF e
  <2>4. Unparsed' = rest => Holds(p)'
    BY <1>1, <1>6 DEF Holds
  <2>5. ASSUME NEW t \in Track PROVE Owed(p, t)' = Owed(q, t)
    <3> DEFINE r == Read(demux.packets, t)
               x == IF k = t THEN s ELSE <<>>
               y == OfTrack(p, t)
               l == Line(t)
               z == y \o l
    <3>1. /\ r \in Seq(Said) /\ x \in Seq(Packet) /\ y \in Seq(Packet) /\ l \in Seq(Packet)
          /\ OfTrack(q, t) = x \o y
      BY <1>2, <1>9, <2>2, OfTrackFirst, ReadParts, DemuxerFields, TransitTyped, PacketsJoin
    <3>2. Read(e.packets, t) = r \o Contents(x)
      <4>1. /\ Got(k, s) \in Seq(Out)
            /\ Read(Got(k, s), t) = IF t = k THEN Contents(s) ELSE <<>>
        BY <2>2, GotTyped
      <4>2. Read(demux.packets \o Got(k, s), t) = r \o Read(Got(k, s), t)
        BY <1>2, <4>1, ReadParts, DemuxerFields
      <4>3. Contents(<<>>) = <<>>
        BY DEF Contents
      <4> QED
        BY <2>3, <4>1, <4>2, <4>3
    <3>3. Owed(p, t)' = (r \o Contents(x)) \o Contents(z)
      BY <1>1, <1>3, <3>2 DEF Owed
    <3> HIDE DEF r, x, y, l
    <3>4. Owed(q, t) = r \o Contents((x \o y) \o l)
      BY <3>1 DEF Owed, r, l
    <3>5. (x \o y) \o l = x \o z /\ z \in Seq(Packet)
      BY <3>1, PacketsJoin
    <3> HIDE DEF z
    <3>6. Contents(x \o z) = Contents(x) \o Contents(z)
          /\ Contents(x) \in Seq(Said) /\ Contents(z) \in Seq(Said)
      BY <3>1, <3>5, ContentsConcat, ContentsTyped
    <3> DEFINE cx == Contents(x)
               cz == Contents(z)
    <3>7. Owed(p, t)' = (r \o cx) \o cz /\ Owed(q, t) = r \o (cx \o cz)
          /\ cx \in Seq(Said) /\ cz \in Seq(Said)
      BY <3>3, <3>4, <3>5, <3>6
    <3> HIDE DEF cx, cz
    <3>8. (r \o cx) \o cz = r \o (cx \o cz)
      BY <3>1, <3>7, SaidAssociate, ZenonT(60)
    <3> QED
      BY <3>7, <3>8
  <2> HIDE DEF rest, p
  <2> QED
    BY <1>5, <2>1, <2>3, <2>4, <2>5
<1> QED
  BY <1>4, <1>6, <1>7, <1>8, <1>9 DEF Holds

\* All but the first is what comes after it.
LEMMA TailIs ==
  ASSUME NEW S, NEW x \in S, NEW z \in Seq(S), NEW w, w = <<x>> \o z
  PROVE  w # <<>> /\ Head(w) = x /\ SubSeq(w, 2, Len(w)) = z /\ Tail(w) = z
<1>1. /\ w \in Seq(S) /\ Len(w) = 1 + Len(z) /\ Len(z) \in Nat /\ w[1] = x
      /\ \A i \in 1 .. Len(z) : w[i + 1] = z[i]
  <2> DEFINE y == <<x>>
  <2>1. y \in Seq(S) /\ Len(y) = 1 /\ y[1] = x
    OBVIOUS
  <2> HIDE DEF y
  <2>2. w = y \o z
    BY DEF y
  <2>3. /\ w \in Seq(S) /\ Len(w) = 1 + Len(z) /\ Len(z) \in Nat
        /\ \A k \in 1 .. 1 : w[k] = y[k]
        /\ \A k \in 1 .. Len(z) : w[1 + k] = z[k]
    BY <2>1, <2>2
  <2>4. \A i \in 1 .. Len(z) : i + 1 = 1 + i
    BY <2>3
  <2> QED
    BY <2>1, <2>3, <2>4
<1> DEFINE part == SubSeq(w, 2, Len(w))
           tail == Tail(w)
<1>2. /\ part \in Seq(S) /\ Len(part) = Len(z) /\ \A i \in 1 .. Len(z) : part[i] = w[i + 1]
  BY <1>1
<1>3. w # <<>>
  <2>1. Len(w) # 0
    BY <1>1
  <2> QED
    BY <2>1
<1>4. /\ Head(w) = w[1] /\ tail \in Seq(S) /\ Len(tail) = Len(z)
      /\ \A i \in 1 .. Len(z) : tail[i] = w[i + 1]
  BY <1>1, <1>3, HeadAndTail
<1> HIDE DEF part, tail
<1>5. part = z
  BY <1>1, <1>2, SeqEqual
<1>6. tail = z
  BY <1>1, <1>4, SeqEqual
<1> QED
  BY <1>1, <1>3, <1>4, <1>5, <1>6 DEF part, tail

\* Returning a packet takes it from what its track is owed, and it was first.
LEMMA PollTransit ==
  ASSUME IInv, TransitInv, PollPacket
  PROVE  TransitInv' /\ \E t \in Track : Channels!Deliver(t)
<1> DEFINE p == demux.packets
<1>1. /\ UNCHANGED <<reports, inside, given, mux, file, fed>> /\ p # <<>> /\ returned' = Head(p)
      /\ demux' = [demux EXCEPT !.packets = Tail(p)]
      /\ accepted' = [accepted EXCEPT ![Head(p).track] = SubSeq(@, 2, Len(@))]
  BY DEF PollPacket, sessionVars
<1>2. /\ demux \in Demuxer /\ p \in Seq(Out) /\ Tracks' = Tracks
      /\ accepted \in [Track -> Seq(Said)]
  BY <1>1, DemuxerFields, TracksStay DEF TransitInv
<1>3. /\ Tail(p) \in Seq(Out)
      /\ \E o \in Out : o = p[1] /\ o = Head(p)
  <2> HIDE DEF p
  <2> QED
    BY <1>1, <1>2, HeadAndTail
<1>0. PICK o \in Out : o = p[1] /\ o = Head(p)
  BY <1>3
<1> DEFINE k == o.track
<1>4. k \in Track /\ o.content \in Said /\ o # None
  BY SessionAssumption DEF Out, Said, PayloadByte
<1>5. /\ demux' \in Demuxer /\ demux'.packets = Tail(p) /\ demux'.buffer = demux.buffer
      /\ demux'.track = demux.track /\ demux'.base = demux.base /\ demux'.rows = demux.rows
  <2> DEFINE x == Tail(p)
  <2>1. x \in Seq(Out) /\ demux' = [demux EXCEPT !.packets = x]
    BY <1>1, <1>3
  <2> HIDE DEF x
  <2>2. /\ demux' \in Demuxer /\ demux'.packets = x /\ demux'.buffer = demux.buffer
        /\ demux'.track = demux.track /\ demux'.base = demux.base /\ demux'.rows = demux.rows
    BY <1>2, <2>1 DEF Demuxer
  <2> QED
    BY <2>2 DEF x
<1>6. Ahead' = Ahead /\ Unparsed' = Unparsed
  BY <1>1, <1>5 DEF Ahead, Unparsed, Unread
<1>7. \A t \in Track : Queued(mux, t)' = Queued(mux, t) /\ Line(t)' = Line(t)
  BY <1>1, <1>2 DEF Queued, Line
<1>8. PICK q \in Seq(Block) : Holds(q) /\ \A t \in Track : accepted[t] = Owed(q, t)
  BY DEF TransitInv
<1>9. Holds(q)'
  BY <1>1, <1>5, <1>6, <1>8 DEF Holds
<1>10. ASSUME NEW t \in Track
       PROVE  /\ Owed(q, t)' \in Seq(Said)
              /\ accepted[t] = (IF k = t THEN <<o.content>> ELSE <<>>) \o Owed(q, t)'
  <2> DEFINE r == Read(Tail(p), t)
             c == Contents(OfTrack(q, t) \o Line(t))
             x == IF k = t THEN <<o.content>> ELSE <<>>
  <2>1. r \in Seq(Said) /\ Read(p, t) = x \o r
    BY <1>0, <1>1, <1>2, <1>3, ReadParts
  <2>2. c \in Seq(Said)
    BY <1>2, OfTrackParts, TransitTyped, PacketsJoin, ContentsTyped
  <2>3. Owed(q, t)' = r \o c
    BY <1>5, <1>7 DEF Owed
  <2>4. accepted[t] = (x \o r) \o c
    BY <1>8, <2>1 DEF Owed
  <2>5. x \in Seq(Said)
    BY <1>4
  <2> HIDE DEF r, c, x
  <2>6. (x \o r) \o c = x \o (r \o c)
    BY <2>1, <2>2, <2>5, SaidAssociate, ZenonT(60)
  <2>7. r \o c \in Seq(Said)
    BY <2>1, <2>2
  <2>8. accepted[t] = x \o Owed(q, t)'
    BY <2>3, <2>4, <2>6
  <2> QED
    BY <2>3, <2>7, <2>8 DEF x
<1>11. /\ accepted[k] # <<>> /\ Head(accepted[k]) = o.content
       /\ SubSeq(accepted[k], 2, Len(accepted[k])) = Owed(q, k)'
       /\ Tail(accepted[k]) = Owed(q, k)'
  <2> DEFINE z == Owed(q, k)'
             x == o.content
             w == accepted[k]
  <2>1. z \in Seq(Said) /\ x \in Said /\ w = <<x>> \o z
    <3>1. w = (IF k = k THEN <<x>> ELSE <<>>) \o z /\ z \in Seq(Said)
      BY <1>4, <1>10
    <3> HIDE DEF z, x, w
    <3>2. w = <<x>> \o z
      BY <3>1
    <3> QED
      BY <1>4, <3>1, <3>2 DEF x
  <2> HIDE DEF z, x, w
  <2>2. w # <<>> /\ Head(w) = x /\ SubSeq(w, 2, Len(w)) = z /\ Tail(w) = z
    BY <2>1, TailIs
  <2> QED
    BY <2>2 DEF z, x, w
<1>12. accepted' = [accepted EXCEPT ![k] = Tail(accepted[k])]
  BY <1>0, <1>1, <1>11
<1>13. \A t \in Track : accepted'[t] = Owed(q, t)' /\ Owed(q, t)' \in Seq(Said)
  <2> TAKE t \in Track
  <2>1. CASE t = k
    <3> DEFINE z == Owed(q, t)'
    <3>1. z \in Seq(Said) /\ Tail(accepted[t]) = z
      BY <1>10, <1>11, <2>1
    <3> HIDE DEF z
    <3>2. accepted'[t] = z
      BY <1>2, <1>12, <2>1, <3>1
    <3> QED
      BY <3>1, <3>2 DEF z
  <2>2. CASE t # k
    <3> DEFINE z == Owed(q, t)'
    <3>1. z \in Seq(Said) /\ accepted[t] = <<>> \o z
      BY <1>10, <2>2
    <3> HIDE DEF z
    <3>2. <<>> \o z = z
      BY <3>1, ConcatEmptySeq
    <3>3. accepted'[t] = z
      BY <1>2, <1>12, <2>2, <3>1, <3>2
    <3> QED
      BY <3>1, <3>3 DEF z
  <2> QED
    BY <2>1, <2>2
<1>14. accepted' \in [Track -> Seq(Said)]
  <2>1. accepted' = [t \in Track |-> accepted'[t]]
    BY <1>2, <1>12
  <2> QED
    BY <1>13, <2>1
<1>15. TransitInv'
  <2>1. \A t \in Track : InTime(t)'
    BY <1>1, <1>7 DEF TransitInv, InTime
  <2>2. \E r \in Seq(Block) : Holds(r)' /\ \A t \in Track : accepted'[t] = Owed(r, t)'
    BY <1>9, <1>13
  <2>3. mux'.header = None => \A t \in Track : Queued(mux, t)' = <<>>
    BY <1>1, <1>7 DEF TransitInv
  <2> QED
    BY <1>5, <1>14, <2>1, <2>2, <2>3 DEF TransitInv
<1>16. Channels!Deliver(k)
  <2>1. (IF returned = None THEN None ELSE returned.content)' = o.content
    BY <1>0, <1>1, <1>4
  <2> QED
    BY <1>11, <1>12, <2>1 DEF Channels!Deliver
<1> QED
  BY <1>4, <1>15, <1>16

\* Nothing is on its way when the session is opened.
LEMMA TransitBegins ==
  ASSUME Init
  PROVE  TransitInv
<1>1. IInv
  BY Begins
<1>2. /\ reports \in Reporting /\ mux = NewMuxer(TrackList, {t \in Track : reports[t] = "open"})
      /\ inside = [t \in Track |-> <<>>] /\ file = <<>> /\ fed = 0 /\ demux = NewDemuxer
      /\ accepted = [t \in Track |-> <<>>]
  BY DEF Init
<1>3. {t \in Track : reports[t] = "open"} \subseteq Tracks
  BY <1>2, Configured
<1>4. mux.header = None /\ mux.pending = [t \in Tracks |-> <<>>]
  BY <1>2, <1>3, NewMuxerSound
<1>5. mux.output = <<>> /\ mux.consumed = 0
  BY <1>2 DEF NewMuxer
<1>6. demux \in Demuxer /\ demux.buffer = <<>> /\ demux.packets = <<>>
  <2>1. <<>> \in Seq(Byte) /\ <<>> \in Seq(Row) /\ <<>> \in Seq(Out)
    OBVIOUS
  <2> QED
    BY <1>2, <2>1 DEF NewDemuxer, Demuxer
<1>7. SubSeq(<<>>, 1, 0) = <<>> /\ Len(<<>>) = 0 /\ 0 + 1 = 1
  OBVIOUS
<1>8. Unread(mux) = <<>>
  BY <1>5, <1>7 DEF Unread
<1>9. Ahead = <<>>
  BY <1>2, <1>7, <1>8, BytesJoin DEF Ahead
<1>10. Unparsed = <<>>
  BY <1>6, <1>9, BytesJoin DEF Unparsed
<1>11. \A t \in Track : Queued(mux, t) = <<>> /\ Line(t) = <<>>
  BY <1>2, <1>4, PacketsJoin DEF Queued, Line
<1>12. \A t \in Track : InTime(t)
  BY <1>7, <1>11 DEF InTime, Rising
<1>13. <<>> \in Seq(Block) /\ Holds(<<>>)
  BY <1>4, <1>10 DEF Holds
<1>14. \A t \in Track : accepted[t] = Owed(<<>>, t)
  <2>1. <<>> \in Seq(Said) /\ <<>> \o <<>> = <<>> /\ Contents(<<>>) = <<>>
    BY ConcatEmptySeq DEF Contents
  <2> TAKE t \in Track
  <2>2. Read(<<>>, t) = <<>> /\ OfTrack(<<>>, t) = <<>>
    BY ReadParts, OfTrackParts
  <2> QED
    BY <1>2, <1>6, <1>11, <2>1, <2>2 DEF Owed
<1>15. accepted \in [Track -> Seq(Said)]
  BY <1>2
<1>16. \E q \in Seq(Block) : Holds(q) /\ \A t \in Track : accepted[t] = Owed(q, t)
  BY <1>13, <1>14
<1> QED
  BY <1>6, <1>11, <1>12, <1>15, <1>16 DEF TransitInv

\* A queue that is kept, or appended to, was a part of what it is now.
LEMMA QueueGrows ==
  ASSUME NEW S, NEW x \in Seq(S), NEW c \in S, NEW y, y = x \/ y = Append(x, c)
  PROVE  IsPrefix(x, y)
<1>1. Len(x) <= Len(y) /\ SubSeq(y, 1, Len(x)) = x /\ SubSeq(x, 1, Len(x)) = x
  OBVIOUS
<1> QED
  BY <1>1 DEF IsPrefix

\* A step that returns nothing and takes nothing back sends.
LEMMA StepSends ==
  ASSUME NEW t \in Track, NEW c \in Said, accepted \in [Track -> Seq(Said)], returned' = None,
         \/ accepted' = accepted
         \/ accepted' = [accepted EXCEPT ![t] = Append(@, c)]
  PROVE  Channels!Send
<1>1. ASSUME NEW u \in Track PROVE IsPrefix(accepted[u], accepted'[u])
  <2>1. accepted[u] \in Seq(Said)
        /\ (accepted'[u] = accepted[u] \/ accepted'[u] = Append(accepted[u], c))
    OBVIOUS
  <2> QED
    BY <2>1, QueueGrows
<1>2. DOMAIN accepted' = Track
  OBVIOUS
<1>3. (IF returned = None THEN None ELSE returned.content)' = None
  OBVIOUS
<1> QED
  BY <1>1, <1>2, <1>3 DEF Channels!Send, Channels!IsPrefix, IsPrefix

\* Every step keeps what is on its way, and sends, delivers or does neither.
LEMMA SessionStep ==
  ASSUME 0 \notin Gaps, IInv, TransitInv, [Next]_vars
  PROVE  TransitInv' /\ (Channels!Next \/ UNCHANGED <<accepted, returned>>)
<1>0. /\ IInv' /\ accepted \in [Track -> Seq(Said)] /\ Video \in Track
      /\ reports \in Reporting /\ Sound(mux, file) /\ mux \in Muxer /\ Unread(mux) \in Seq(Byte)
  <2>1. reports \in Reporting /\ Sound(mux, file)
    BY DEF IInv, SessionInv
  <2> QED
    BY <2>1, NextKeeps, SoundTyped DEF TransitInv, Track
<1>1. ASSUME accepted' = accepted, returned' = None PROVE Channels!Next
  <2>1. \E c : c \in Said
    <3>1. <<>> \in Seq(PayloadByte) /\ 0 \in Nat /\ TRUE \in BOOLEAN
      OBVIOUS
    <3>2. [dts |-> 0, key |-> TRUE, payload |-> <<>>] \in Said
      BY <3>1 DEF Said
    <3> QED
      BY <3>2
  <2> QED
    BY <1>0, <1>1, <2>1, StepSends DEF Channels!Next
<1>2. ASSUME NEW t \in Track, NEW key \in BOOLEAN, NEW gap \in Gaps, Write(t, key, gap)
      PROVE  TransitInv' /\ Channels!Next
  <2> DEFINE p == Encoded(t, key, gap)
             c == Content(p)
  <2>1. c \in Said
    <3> DEFINE s == <<p>>
    <3>1. p \in Packet
      BY <1>2, FrameJoinsLine
    <3> HIDE DEF p
    <3>2. s \in Seq(Packet) /\ Len(s) = 1 /\ s[1] = p
      BY <3>1
    <3> HIDE DEF s
    <3>3. Content(s[1]) \in Said
      BY <3>2, ContentsTyped
    <3> QED
      BY <3>2, <3>3
  <2>2. /\ returned' = None
        /\ accepted' = accepted \/ accepted' = [accepted EXCEPT ![t] = Append(@, c)]
    BY <1>2 DEF Write
  <2> HIDE DEF p, c
  <2>3. Channels!Send
    BY <1>0, <2>1, <2>2, StepSends
  <2> QED
    BY <1>2, <2>3, WriteTransit DEF Channels!Next
<1>3. ASSUME NEW t \in Track, DrainPacket(t) PROVE TransitInv' /\ Channels!Next
  <2>1. accepted' = accepted /\ returned' = None
    BY <1>3 DEF DrainPacket
  <2> QED
    BY <1>0, <1>1, <1>3, <2>1, DrainTransit
<1>4. ASSUME NEW t \in Track, DrainEnds(t) PROVE TransitInv' /\ Channels!Next
  <2>1. UNCHANGED <<reports, inside, given, mux, file, readerVars, accepted>> /\ returned' = None
    BY <1>4 DEF DrainEnds
  <2> QED
    BY <1>1, <2>1, TransitUntouched
<1>5. CASE Fails \/ FinishBegins
  <2>1. UNCHANGED <<reports, inside, given, mux, file, readerVars, accepted>> /\ returned' = None
    BY <1>5 DEF Fails, FinishBegins
  <2> QED
    BY <1>1, <2>1, TransitUntouched
<1>6. CASE PollBytes
  <2>1. /\ mux' = Polled(mux) /\ file' = file \o Unread(mux)
        /\ UNCHANGED <<reports, inside, given, readerVars, accepted>> /\ returned' = None
    BY <1>6 DEF PollBytes
  <2>2. Emits(mux, mux, <<>>)
    BY <1>0, EmitsNothing
  <2>3. TransitInv'
    BY <1>0, <2>1, <2>2, BytesTransit
  <2> QED
    BY <1>1, <2>1, <2>3
<1>7. CASE FinishVideo \/ FinishAudio
  <2> DEFINE m == FlushAll(mux)
  <2>1. UNCHANGED <<reports, inside, given, readerVars, accepted>> /\ returned' = None
    BY <1>7 DEF FinishVideo, FinishAudio
  <2>2. \/ UNCHANGED <<mux, file>>
        \/ mux' = Polled(m) /\ file' = file \o Unread(m)
    BY <1>7 DEF FinishVideo, FinishAudio
  <2>3. CASE UNCHANGED <<mux, file>>
    BY <1>1, <2>1, <2>3, TransitUntouched
  <2>4. CASE mux' = Polled(m) /\ file' = file \o Unread(m)
    <3>1. PICK r : Emits(mux, m, r)
      BY <1>0, MuxOrderly, FlushAllEmits
    <3>2. Sound(m, file) /\ m.header = mux.header
      BY <1>0, FlushAllSound DEF FlushedFrom
    <3> HIDE DEF m
    <3>3. TransitInv'
      BY <1>0, <2>1, <2>4, <3>1, <3>2, BytesTransit
    <3> QED
      BY <1>1, <2>1, <3>3
  <2> QED
    BY <2>2, <2>3, <2>4
<1>8. ASSUME NEW k \in Reads, PushBytes(k) PROVE TransitInv' /\ Channels!Next
  <2>1. accepted' = accepted /\ returned' = None
    BY <1>8 DEF PushBytes
  <2> QED
    BY <1>0, <1>1, <1>8, <2>1, PushBytesTransit
<1>9. CASE Pump
  <2>1. accepted' = accepted /\ returned' = None
    BY <1>9 DEF Pump
  <2> QED
    BY <1>1, <1>9, <2>1, PumpTransit
<1>10. CASE PollPacket
  BY <1>10, PollTransit DEF Channels!Next
<1>11. CASE UNCHANGED vars
  <2>1. UNCHANGED <<reports, inside, given, mux, file, readerVars, accepted, returned>>
    BY <1>11 DEF vars, sessionVars
  <2> QED
    BY <2>1, TransitUntouched
<1> QED
  BY <1>2, <1>3, <1>4, <1>5, <1>6, <1>7, <1>8, <1>9, <1>10, <1>11 DEF Next

-----------------------------------------------------------------------------
(* The theorems.                                                             *)

\* The encoders' packets, the muxer's queues and what was read stay in step,
\* whatever fails.
THEOREM Invariance == Spec => []IInv
<1>1. Init => IInv
  BY Begins
<1>2. IInv /\ [Next]_vars => IInv'
  BY NextKeeps
<1> QED
  BY <1>1, <1>2, PTL DEF Spec

\* The muxer's header, its queues and the count of the bytes it dropped agree
\* with the file (the state of mediaway's EncodeSession and iso-bmff's Muxer).
THEOREM TypeCorrect == Spec => []TypeOK
<1>1. IInv => TypeOK
  <2> SUFFICES ASSUME IInv PROVE TypeOK
    OBVIOUS
  <2>1. /\ mux.tracks = TrackList /\ mux.configured \in SUBSET Tracks
        /\ mux.consumed \in Nat /\ Len(mux.output) \in Nat
        /\ mux.consumed <= Len(mux.output) /\ mux.drained + mux.consumed = Len(file)
    BY MuxerFields DEF IInv, Sound
  <2>2. mux.consumed \in 0 .. Len(mux.output)
    BY <2>1
  <2>3. /\ inside \in [Track -> Seq(Packet)]
        /\ \A t \in Tracks : Len(mux.pending[t]) < Batch
        /\ mux.header = None \/ mux.header \subseteq mux.configured
    BY DEF IInv, InsideInv, BatchInv, Waiting
  <2> QED
    BY <2>1, <2>2, <2>3 DEF IInv, SessionInv, TypeOK
<1> QED
  BY <1>1, Invariance, PTL

\* Every placement the muxer reported is where its packet is in the stream, for
\* any fragment length and any number of polls that made the muxer drop its
\* output (Muxer::flush_track, poll_bytes).
THEOREM PlacementsHold == Spec => []PlacementsTrue
<1>1. IInv => PlacementsTrue
  BY DEF IInv, Sound, PlacedIn, Whole, Stream, PlacementsTrue
<1> QED
  BY <1>1, Invariance, PTL

\* The header of a session without audio describes the video, whichever way the
\* encoder makes its configuration known (EncodeSession::drain).
THEOREM LoneTrackDescribed == Spec => []LoneTrackConfigured
<1>1. IInv => LoneTrackConfigured
  BY DEF IInv, LoneInv, LoneTrackConfigured
<1> QED
  BY <1>1, Invariance, PTL

\* Whatever the encoders accepted comes out of the demuxer, per track, once, in
\* order, with its time, key flag and payload, whatever the muxer cut into which
\* fragments, dropped or kept, however the file was read and whichever calls
\* failed. Two frames must not have the same time: a sample lasts one tick at
\* least (write_fragment), so those after it would be read later than written.
THEOREM Refinement == ASSUME 0 \notin Gaps PROVE Spec => RefinesChannels
<1>1. Init => IInv /\ TransitInv /\ Channels!Init
  BY Begins, TransitBegins DEF Init, Channels!Init
<1>2. IInv /\ TransitInv /\ [Next]_vars
      => /\ IInv' /\ TransitInv'
         /\ [Channels!Next]_<<accepted, IF returned = None THEN None ELSE returned.content>>
  BY NextKeeps, SessionStep
<1> QED
  BY <1>1, <1>2, PTL DEF Spec, RefinesChannels, Channels!Spec
=============================================================================
