---------------------------- MODULE ChunkStream -----------------------------
(* The RTMP chunk stream (crates/rtmp): a sender cuts messages into chunks,  *)
(* compressing headers against what it last sent on the chunk stream id, and *)
(* a decoder puts them together again from a byte stream that arrives in     *)
(* arbitrary pieces. The sender is this crate's Muxer, or a server that      *)
(* follows the same rules and interleaves chunks of different streams.       *)
(*                                                                           *)
(* The wire is a sequence of items, one per field of a header and one per    *)
(* byte of a payload, so that a decoder that miscounts reads the wrong item. *)
EXTENDS Integers, Sequences, FiniteSets, FiniteSetsExt, SequencesExt

CONSTANTS
  Calls,         \* media and command messages: [csid, type, stream, time, len]
  Wrap,          \* 2^32: timestamps are below it
  Escape,        \* 0xFFFFFF: a 24-bit time field that means "extended"
  MaxLen,        \* 2^24 - 1: the limit of the length field
  Default,       \* DEFAULT_CHUNK_SIZE
  MuxSizes,      \* chunk sizes a Muxer is made with
  PeerSizes,     \* chunk sizes a server announces
  SizeWrap,      \* 2^31: the top bit of an announced size is reserved
  AnnounceLen,   \* bytes of a Set Chunk Size payload, 4
  Backlog        \* bound: items unread when the sender writes more

\* A Set Chunk Size message. The others carry no value that matters here.
Announcement(v) == [csid |-> "control", type |-> "size", stream |-> 0, time |-> 0,
                    len |-> AnnounceLen, value |-> v]
Control == Announcement(Default)
Csid == {m.csid : m \in Calls} \cup {Control.csid}

ASSUME TimeAssumption == /\ Wrap \in Nat \ {0} /\ Escape \in Nat
                         /\ \A m \in Calls : m.time \in 0 .. Wrap - 1
ASSUME LengthAssumption == /\ MaxLen \in Nat /\ AnnounceLen \in 1 .. MaxLen
                           /\ \A m \in Calls : m.len \in Nat
ASSUME SizeAssumption == /\ Default \in Nat \ {0} /\ AnnounceLen <= Default
                         /\ SizeWrap \in Nat \ {0}
                         /\ MuxSizes \subseteq Nat /\ PeerSizes \subseteq 1 .. SizeWrap - 1
ASSUME ControlAssumption == /\ \A m \in Calls : m.csid # Control.csid /\ m.type # Control.type
                            /\ Backlog \in Nat

VARIABLES
  sender,    \* "mux" or "peer"
  muxSize,   \* Muxer::chunk_size, as it was given
  announced, \* Muxer::chunk_size_sent
  size,      \* the sender's chunk size (ChunkEncoder::chunk_size)
  headers,   \* the sender's header cache, by chunk stream
  rest,      \* rest[c]: what a server has still to send of a message on c
  wire,      \* items on their way
  buf,       \* ChunkDecoder::buf
  decSize,   \* ChunkDecoder::chunk_size
  streams,   \* ChunkDecoder::state: [header, received] by chunk stream
  status,    \* "ok"; "error" once poll_message failed; "garbled" once it misread
  queue,     \* history: per chunk stream, the messages sent and not returned
  returned   \* the message the last step returned, or None

senderVars == <<sender, muxSize, announced, size, headers, rest>>
decoderVars == <<buf, decSize, streams, status>>
vars == <<senderVars, wire, decoderVars, queue, returned>>

None == [none |-> TRUE]
NoDelta == -1
Min2(a, b) == IF a < b THEN a ELSE b

Header == [time : 0 .. Wrap - 1, len : 0 .. MaxLen, delta : {NoDelta} \cup 0 .. Wrap - 1,
           type : {m.type : m \in Calls \cup {Control}},
           stream : {m.stream : m \in Calls \cup {Control}}]

TypeOK ==
  /\ sender \in {"mux", "peer"} /\ muxSize \in Nat /\ announced \in BOOLEAN
  /\ size \in Nat \ {0} /\ decSize \in Nat \ {0}
  /\ \A c \in Csid : /\ headers[c] \in Header \cup {None}
                     /\ rest[c] # None => rest[c].at \in 1 .. rest[c].m.len - 1
                     /\ Len(streams[c].received) \in 0 .. MaxLen
  /\ status \in {"ok", "error", "garbled"}

-----------------------------------------------------------------------------
(* Messages and their items.                                                 *)

\* The bytes of message m, and what of it the decoder has to return.
Payload(m) == [i \in 1 .. m.len |-> [is |-> "byte", of |-> m.csid, at |-> i, value |-> m.value]]
Content(m) == [type |-> m.type, time |-> m.time, payload |-> Payload(m)]

Basic(fmt, c) == [is |-> "basic", fmt |-> fmt, csid |-> c]
Field(is, v) == [is |-> is, value |-> v]
TypeField(type) == [is |-> "type", type |-> type]

\* How many fields the message header of a format has.
HeaderLen(fmt) == CASE fmt = 0 -> 4 [] fmt = 1 -> 3 [] fmt = 2 -> 1 [] fmt = 3 -> 0

\* write_message_header: a time of Escape or more does not fit its field.
HeaderItems(fmt, v, m) ==
  SubSeq(<<Field("time", Min2(v, Escape)), Field("len", Min2(m.len, MaxLen)),
           TypeField(m.type), Field("stream", m.stream)>>, 1, HeaderLen(fmt))

Extended(v) == IF v >= Escape THEN <<Field("ext", v)>> ELSE <<>>

\* A message's first chunk, and one that carries on after `at` bytes.
FirstChunk(fmt, v, m, chunk) ==
  <<Basic(fmt, m.csid)>> \o HeaderItems(fmt, v, m) \o Extended(v)
    \o SubSeq(Payload(m), 1, Min2(chunk, m.len))
NextChunk(v, m, at, chunk) ==
  <<Basic(3, m.csid)>> \o Extended(v) \o SubSeq(Payload(m), at + 1, Min2(at + chunk, m.len))

-----------------------------------------------------------------------------
(* The sender.                                                               *)

\* The time since the last message of the stream: wrapping_sub.
Delta_Mutant(h, m) == m.time - h.time         \* mutant: it does not wrap
Delta(h, m) == (m.time - h.time + Wrap) % Wrap

\* choose_fmt: the most compressed form the header cache allows.
ChooseFmt_Mutant(h, m) ==                         \* mutant: the delta is not compared
  IF h = None THEN 0
  ELSE IF h.stream # m.stream THEN 0
  ELSE IF h.type # m.type \/ h.len # Min2(m.len, MaxLen) THEN 1 ELSE 3
ChooseFmt(h, m) ==
  IF h = None THEN 0
  ELSE IF h.stream # m.stream THEN 0
  ELSE IF h.type # m.type \/ h.len # Min2(m.len, MaxLen) THEN 1
  ELSE IF h.delta # Delta(h, m) THEN 2 ELSE 3

\* The time field of a message in this form, and the cache after it.
TimeField(fmt, h, m) == IF fmt = 0 THEN m.time ELSE Delta(h, m)
SentHeader(fmt, h, m) ==
  [time |-> m.time, len |-> Min2(m.len, MaxLen), type |-> m.type,
   stream |-> m.stream, delta |-> IF fmt = 0 THEN NoDelta ELSE Delta(h, m)]

\* All the chunks encode_message appends for m.
Encoded(h, m, chunk) ==
  LET fmt == ChooseFmt(h, m)
      v == TimeField(fmt, h, m)
      more == IF m.len = 0 THEN 0 ELSE (m.len - 1) \div chunk
  IN FirstChunk(fmt, v, m, chunk)
       \o FlattenSeq([k \in 1 .. more |-> NextChunk(v, m, k * chunk, chunk)])

Cached(h, m) == SentHeader(ChooseFmt(h, m), h, m)

\* The sender's calls are not made while much is unread; the decoder cannot
\* tell, since it looks at nothing behind the chunk it is reading.
Room == status = "ok" /\ Len(wire) + Len(buf) <= Backlog

\* Muxer::new(n) makes an encoder of at least 1, and remembers n; a peer starts
\* with the protocol's default, as the decoder does.
Init ==
  /\ \/ sender = "mux" /\ muxSize \in MuxSizes /\ size = IF muxSize = 0 THEN 1 ELSE muxSize
     \/ sender = "peer" /\ muxSize = Default /\ size = Default
  /\ announced = FALSE
  /\ headers = [c \in Csid |-> None] /\ rest = [c \in Csid |-> None]
  /\ wire = <<>> /\ buf = <<>> /\ decSize = Default
  /\ streams = [c \in Csid |-> [header |-> None, received |-> <<>>]]
  /\ status = "ok"
  /\ queue = [c \in Csid |-> <<>>] /\ returned = None

\* maybe_emit_set_chunk_size, on the Muxer's first call: what it appends.
Emitted_Mutant == <<>>                        \* mutant: the announcement is forgotten
Emitted == IF announced THEN <<>> ELSE Encoded(None, Announcement(muxSize), size)

\* write_connect .. push_audio_data: the announcement if it is the first call,
\* then one message.
MuxMessage(m) ==
  LET first == [headers EXCEPT ![Control.csid] =
                  IF announced THEN @ ELSE Cached(@, Announcement(muxSize))]
      asked == [queue EXCEPT ![Control.csid] =
                  IF announced THEN @ ELSE <<Content(Announcement(muxSize))>>]
  IN /\ sender = "mux" /\ Room
     /\ wire' = wire \o Emitted \o Encoded(headers[m.csid], m, size)
     /\ announced' = TRUE
     /\ headers' = [first EXCEPT ![m.csid] = Cached(@, m)]
     /\ queue' = [asked EXCEPT ![m.csid] = Append(@, Content(m))]
     /\ returned' = None
     /\ UNCHANGED <<sender, muxSize, size, rest, decoderVars>>

\* A server starts a message, in any form its header cache allows, while it may
\* be in the middle of others; and carries on with one of them.
PeerStarts(m, fmt) ==
  LET v == TimeField(fmt, headers[m.csid], m)
  IN /\ sender = "peer" /\ Room /\ rest[m.csid] = None
     /\ fmt <= ChooseFmt(headers[m.csid], m)
     /\ wire' = wire \o FirstChunk(fmt, v, m, size)
     /\ headers' = [headers EXCEPT ![m.csid] = SentHeader(fmt, @, m)]
     /\ rest' = [rest EXCEPT ![m.csid] =
                   IF m.len <= size THEN None ELSE [m |-> m, v |-> v, at |-> size]]
     /\ queue' = [queue EXCEPT ![m.csid] = Append(@, Content(m))]
     /\ returned' = None
     /\ UNCHANGED <<sender, muxSize, announced, decoderVars>>

PeerMessage(m, fmt) == PeerStarts(m, fmt) /\ UNCHANGED size

PeerContinues(c) ==
  /\ Room /\ rest[c] # None
  /\ LET r == rest[c] IN
       /\ wire' = wire \o NextChunk(r.v, r.m, r.at, size)
       /\ rest' = [rest EXCEPT ![c] =
                     IF r.m.len <= r.at + size THEN None ELSE [r EXCEPT !.at = @ + size]]
  /\ returned' = None
  /\ UNCHANGED <<sender, muxSize, announced, size, headers, decoderVars, queue>>

\* set_chunk_size, called after appending the announcement. One that did not
\* fit a chunk would end in the size it announces.
PeerSetsChunkSize(v, fmt) ==
  /\ AnnounceLen <= size
  /\ PeerStarts(Announcement(v), fmt)
  /\ size' = v

-----------------------------------------------------------------------------
(* The decoder. push_bytes appends whatever has arrived, and the caller polls *)
(* until poll_message has nothing more, or fails. poll_message loops over step; each *)
(* DecodeX is one turn of the loop, which ends where NeedMoreBytes holds.    *)

\* The items of a chunk, as the decoder counts them.
Shape(fmt, extended, bytes) ==
  <<"basic">> \o SubSeq(<<"time", "len", "type", "stream">>, 1, HeaderLen(fmt))
    \o (IF extended THEN <<"ext">> ELSE <<>>) \o [i \in 1 .. bytes |-> "byte"]

\* A type-3 chunk continues a message of which some bytes were received.
Continuation(basic) == basic.is = "basic" /\ basic.fmt = 3 /\ streams[basic.csid].received # <<>>

\* What the header at the front of buf says, given the stream's cache h; time
\* is the field as it stands.
Read(h, fmt) ==
  [time |-> IF fmt = 3 THEN 0 ELSE buf[2].value,
   len |-> IF fmt <= 1 THEN buf[3].value ELSE h.len,
   type |-> IF fmt <= 1 THEN buf[4].type ELSE h.type,
   stream |-> IF fmt = 0 THEN buf[5].value ELSE h.stream]

\* Whether an extended time follows: said by the field, or by the cache.
IsExtended(h, fmt) == IF fmt = 3 THEN h.ext ELSE buf[2].value = Escape

\* The header with its time resolved against the cache.
Resolved(h, fmt) ==
  LET read == Read(h, fmt)
      field == IF IsExtended(h, fmt) THEN buf[2 + HeaderLen(fmt)].value ELSE read.time
      delta == IF fmt = 3 THEN (IF h.delta = NoDelta THEN 0 ELSE h.delta) ELSE field
  IN [time |-> IF fmt = 0 THEN field ELSE (h.time + delta) % Wrap,
      len |-> read.len, type |-> read.type, stream |-> read.stream,
      delta |-> IF fmt = 0 THEN NoDelta ELSE delta, ext |-> IsExtended(h, fmt)]

\* The chunk at the front of buf, once its message header has arrived: how many
\* bytes of payload it carries, and its items.
Unknown == buf[1].fmt # 0 /\ streams[buf[1].csid].header = None
ChunkBytes ==
  LET s == streams[buf[1].csid]
  IN IF Continuation(buf[1]) THEN Min2(s.header.len - Len(s.received), decSize)
     ELSE Min2(Read(s.header, buf[1].fmt).len, decSize)
ChunkShape ==
  LET h == streams[buf[1].csid].header
  IN Shape(buf[1].fmt, IF Continuation(buf[1]) THEN h.ext ELSE IsExtended(h, buf[1].fmt), ChunkBytes)

AtChunk == buf # <<>> /\ buf[1].is = "basic"
NeedMoreBytes ==
  IF ~AtChunk THEN buf = <<>>
  ELSE IF Len(buf) <= HeaderLen(buf[1].fmt) THEN TRUE
  ELSE ~Unknown /\ Len(buf) < Len(ChunkShape)

PushBytes(n) ==
  /\ status = "ok" /\ NeedMoreBytes
  /\ buf' = buf \o SubSeq(wire, 1, n) /\ wire' = SubSeq(wire, n + 1, Len(wire))
  /\ returned' = None
  /\ UNCHANGED <<senderVars, decSize, streams, status, queue>>

\* Whether these are all the bytes of a message with header h.
Complete_Mutant(h, got) == got # <<>> /\ Len(got) >= h.len   \* mutant: not an empty one
Complete(h, got) == Len(got) >= h.len

\* finish_if_complete, after `got` bytes of a message with header h on stream c.
Finish(c, h, got) ==
  LET announces == h.type = Control.type /\ Len(got) = AnnounceLen
      value == got[1].value % SizeWrap
      Stream(received) == [streams EXCEPT ![c] = [header |-> h, received |-> received]]
  IN \/ /\ ~Complete(h, got)
        /\ streams' = Stream(got) /\ returned' = None
        /\ UNCHANGED <<decSize, status, queue>>
     \/ /\ Complete(h, got) /\ announces /\ value = 0
        /\ streams' = Stream(<<>>) /\ status' = "error" /\ returned' = None
        /\ UNCHANGED <<decSize, queue>>
     \/ /\ Complete(h, got) /\ (announces => value # 0)
        /\ streams' = Stream(<<>>)
        /\ decSize' = IF announces THEN value ELSE decSize
        /\ returned' = [type |-> h.type, time |-> h.time, payload |-> got]
        /\ queue' = [queue EXCEPT ![c] = SubSeq(@, 2, Len(@))]
        /\ UNCHANGED status

\* step takes a chunk off buf. Were the chunk not what the decoder takes it for,
\* nothing would tell it so, and whatever followed would have no meaning.
TakeChunk(h, before) ==
  LET n == Len(ChunkShape)
  IN /\ buf' = SubSeq(buf, n + 1, Len(buf))
     /\ IF \A i \in 1 .. n : buf[i].is = ChunkShape[i]
          THEN Finish(buf[1].csid, h, before \o SubSeq(buf, n - ChunkBytes + 1, n))
          ELSE status' = "garbled" /\ returned' = None /\ UNCHANGED <<decSize, streams, queue>>
     /\ UNCHANGED <<senderVars, wire>>

Ready == status = "ok" /\ ~NeedMoreBytes

\* step_continuation.
DecodeContinuation ==
  /\ Ready /\ Continuation(buf[1])
  /\ TakeChunk(streams[buf[1].csid].header, streams[buf[1].csid].received)

\* NoCachedHeader consumes nothing. Bytes in the middle of a chunk would be
\* taken for its beginning.
DecodeFails ==
  /\ status' = IF AtChunk THEN "error" ELSE "garbled"
  /\ returned' = None
  /\ UNCHANGED <<senderVars, wire, buf, decSize, streams, queue>>

\* step_new_message. What was received of an unfinished message is forgotten.
DecodeNewMessage ==
  /\ Ready /\ ~Continuation(buf[1])
  /\ IF AtChunk /\ ~Unknown
       THEN TakeChunk(Resolved(streams[buf[1].csid].header, buf[1].fmt), <<>>)
       ELSE DecodeFails

Decode == DecodeContinuation \/ DecodeNewMessage

Next ==
  \/ \E m \in Calls : MuxMessage(m) \/ \E fmt \in 0 .. 3 : PeerMessage(m, fmt)
  \/ \E c \in Csid : PeerContinues(c)
  \/ \E v \in PeerSizes, fmt \in 0 .. 3 : PeerSetsChunkSize(v, fmt)
  \/ \E n \in 1 .. Len(wire) : PushBytes(n)
  \/ Decode

Spec == Init /\ [][Next]_vars

\* What is on its way arrives, and the caller polls.
FairSpec == Spec /\ WF_vars(\E n \in 1 .. Len(wire) : PushBytes(n)) /\ WF_vars(Decode)

-----------------------------------------------------------------------------
(* Properties.                                                               *)

\* The decoder never fails and never takes one item for another, however the
\* bytes are cut up on arrival (poll_message, step).
InStep == status = "ok"

\* The chunk stream is a set of reliable, ordered message channels.
Channels == INSTANCE MessageChannels
RefinesChannels == Channels!Spec

\* A message sent to its end is returned: while there is one on a chunk stream,
\* messages keep being returned from it. Empty messages and headers of the least
\* possible form complete a message, too (poll_message).
Waiting(c) == queue[c] # <<>> /\ rest[c] = None
AllReturned == \A c \in Csid : \/ []<>~Waiting(c)
                               \/ []<><<Len(queue'[c]) < Len(queue[c])>>_queue
=============================================================================
