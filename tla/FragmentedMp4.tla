--------------------------- MODULE FragmentedMp4 ---------------------------
(* The streaming MP4 muxer and demuxer of iso-bmff. The muxer is a record    *)
(* its caller keeps, the demuxer another; their methods are operators on    *)
(* them. A byte is an element of a sequence: the bytes of a box carry what  *)
(* the box says, the bytes of an mdat which packet they belong to.          *)
(*                                                                          *)
(* A packet is [track, n, dts, key, size, config]: n tells packets apart,   *)
(* config says whether its payload carries the parameter sets. Encryption,  *)
(* composition offsets and non-fragmented files are left out.               *)
EXTENDS Integers, Sequences, SequencesExt, SequenceSums

CONSTANTS
  Aac,      \* the tracks whose codec is AAC
  Batch,    \* samples per fragment at most
  DrainAt,  \* poll_bytes drops what it has returned beyond this length
  None

ASSUME Mp4Assumption == Batch \in Nat \ {0} /\ DrainAt \in Nat

Header == 2    \* length of ftyp and moov together
Moof == 2      \* length of a moof

Bytes(box, len) == [i \in 1 .. len |-> [box |-> box, at |-> i]]
Payload(p) == Bytes([type |-> "payload", track |-> p.track, n |-> p.n], p.size)

\* What the sample says, and what the reader gets back of it.
Content(p) == [dts |-> p.dts, key |-> p.key, payload |-> Payload(p)]

----------------------------------------------------------------------------
(* The muxer.                                                               *)
NewMuxer(tracks, known) ==
  [tracks |-> tracks, configured |-> known, header |-> None,
   pending |-> [t \in ToSet(tracks) |-> <<>>], output |-> <<>>, consumed |-> 0, drained |-> 0,
   placements |-> {}]

\* set_track_extra_data
Describe(m, t) == IF m.header = None THEN [m EXCEPT !.configured = @ \cup {t}] ELSE m

\* A sample lasts until the next one, and the last one as long as the one before
\* (or as its packet says; no time a reader computes depends on it).
Duration_Mutant(s, i) == s[i].dts                        \* mutant: no difference taken
Duration(s, i) ==
  LET j == IF i < Len(s) THEN i ELSE i - 1 IN
  IF j = 0 \/ s[j + 1].dts - s[j].dts < 1 THEN 1 ELSE s[j + 1].dts - s[j].dts

SizeOf(s) == Total([i \in DOMAIN s |-> s[i].size])

\* write_fragment
Fragment(t, s) ==
  LET base == IF s[1].dts > 0 THEN s[1].dts ELSE 0
      rows == [i \in DOMAIN s |-> [duration |-> Duration(s, i), size |-> s[i].size, key |-> s[i].key]]
      moof == [type |-> "moof", len |-> Moof, track |-> t, base |-> base, rows |-> rows]
      mdat == [type |-> "mdat", len |-> SizeOf(s) + 1]
  IN Bytes(moof, Moof) \o Bytes(mdat, 1) \o FlattenSeq([i \in DOMAIN s |-> Payload(s[i])])

\* Where the samples of a fragment begin that ends the output.
Placed_Mutant(m, s) ==                                   \* mutant: forgets what was dropped
  {[packet |-> s[i], offset |-> Len(m.output) - SizeOf(SubSeq(s, i, Len(s)))] : i \in DOMAIN s}
Placed(m, s) ==
  {[packet |-> s[i], offset |-> m.drained + Len(m.output) - SizeOf(SubSeq(s, i, Len(s)))] :
     i \in DOMAIN s}

FlushTrack(m, t) ==
  IF m.pending[t] = <<>> THEN m ELSE
  LET written == [m EXCEPT !.output = @ \o Fragment(t, m.pending[t])] IN
  [written EXCEPT !.pending[t] = <<>>, !.placements = @ \cup Placed(written, m.pending[t])]

\* A fragment ends before a keyframe that is not AAC, and when it is full.
EndsFragment(m, p) ==
  /\ m.pending[p.track] # <<>>
  /\ (p.key /\ p.track \notin Aac) \/ Len(m.pending[p.track]) >= Batch

\* The header is written at the first packet of any track.
WriteHeader(m, p) ==
  IF m.header # None THEN m ELSE
  [m EXCEPT !.header = m.configured,
            !.output = @ \o Bytes([type |-> "moov", len |-> Header], Header)]

\* A payload is one as to_avcc, to_hvcc or strip_adts leave it, and dts is not negative.
PushPacket(m, p) ==
  LET described == IF p.config THEN [m EXCEPT !.configured = @ \cup {p.track}] ELSE m
      headed == WriteHeader(described, p)
      cut == IF EndsFragment(headed, p) THEN FlushTrack(headed, p.track) ELSE headed
      queued == [cut EXCEPT !.pending[p.track] = Append(@, p)]
  IN IF Len(queued.pending[p.track]) >= Batch THEN FlushTrack(queued, p.track) ELSE queued

\* All tracks, one after the other.
FlushAll(m) ==
  LET flushed[i \in 0 .. Len(m.tracks)] ==
        IF i = 0 THEN m ELSE FlushTrack(flushed[i - 1], m.tracks[i])
  IN flushed[Len(m.tracks)]

Unread(m) == SubSeq(m.output, m.consumed + 1, Len(m.output))

Polled_Mutant(m) ==                                      \* mutant: does not count what it drops
  IF Len(m.output) >= DrainAt THEN [m EXCEPT !.output = <<>>, !.consumed = 0]
  ELSE [m EXCEPT !.consumed = Len(m.output)]

\* poll_bytes returns Unread(m) and leaves this muxer.
Polled(m) ==
  IF Unread(m) = <<>> THEN m
  ELSE IF Len(m.output) >= DrainAt
  THEN [m EXCEPT !.output = <<>>, !.consumed = 0, !.drained = @ + Len(m.output)]
  ELSE [m EXCEPT !.consumed = Len(m.output)]

----------------------------------------------------------------------------
(* The demuxer.                                                             *)
NewDemuxer == [buffer |-> <<>>, streams |-> FALSE, track |-> 0, base |-> 0, rows |-> <<>>,
               packets |-> <<>>]

HasBox(d) == d.buffer # <<>> /\ Len(d.buffer) >= d.buffer[1].box.len

\* The time the first n rows take, and the bytes.
Elapsed(rows, n) == Total([i \in 1 .. n |-> rows[i].duration])
Extent(rows, n) == SizeOf(SubSeq(rows, 1, n))

\* drain_mdat: a sample the body is too short for is not returned.
Samples(d, body) ==
  LET Fitting == {i \in DOMAIN d.rows : Extent(d.rows, i) <= Len(body)} IN
  [i \in Fitting |->
     [track |-> d.track,
      content |-> [dts |-> d.base + Elapsed(d.rows, i - 1), key |-> d.rows[i].key,
                   payload |-> SubSeq(body, Extent(d.rows, i - 1) + 1, Extent(d.rows, i))]]]

\* pump takes the box at the front of the buffer.
TakeBox(d) ==
  LET box == d.buffer[1].box
      left == [d EXCEPT !.buffer = SubSeq(@, box.len + 1, Len(@))]
  IN CASE box.type = "moov" -> [left EXCEPT !.streams = TRUE]
       [] box.type = "moof" -> [left EXCEPT !.track = box.track, !.base = box.base, !.rows = box.rows]
       [] box.type = "mdat" ->
            [left EXCEPT !.rows = <<>>, !.packets = @ \o Samples(d, SubSeq(d.buffer, 2, box.len))]
=============================================================================
