--------------------------- MODULE EncodeSession ---------------------------
(* EncodeSession of the mediaway crate: a video encoder, maybe an audio      *)
(* encoder, and the MP4 muxer they feed; the file the polled bytes are      *)
(* written to, and a demuxer that reads it once the session is over.        *)
(* Encoders are known by their traits: pipelines that return what they were *)
(* given in order, and can fail at any call. A call of the session is       *)
(* several steps, one for each packet it moves; between calls it is idle.   *)
EXTENDS FragmentedMp4

CONSTANTS
  Video, Audio,  \* the track numbers
  Reporting,     \* how each encoder may make its configuration known
  Gaps,          \* bound: time from a frame of a track to the next
  MaxFrames,     \* bound: per track, frames given to its encoder
  Reads,         \* bound: how much of the file is read at a time
  MaxFailures    \* bound: encoder errors

Track == {Video, Audio}

ASSUME SessionAssumption ==
  /\ Video # Audio
  /\ None \notin {"open", "late", "inband"} /\ \A known \in SUBSET Track : known # None
  /\ Reporting \subseteq {r \in [Track -> {"open", "late", "inband", None}] : r[Video] # None}
  /\ None \notin [track : Track, content : [dts : Nat, key : BOOLEAN,
                   payload : Seq([box : [type : {"payload"}, track : Track, n : Nat], at : Nat])]]
  /\ Gaps \subseteq Nat /\ Reads \subseteq Nat /\ MaxFrames \in [Track -> Nat] /\ MaxFailures \in Nat

VARIABLES
  reports,   \* per track: configuration "open", "late" or "inband"; None: no such track
  inside,    \* per track: frames in the encoder, as the packets they become
  given,     \* per track: frames accepted so far, and the time of the last one
  call,      \* what the session is doing
  failures,  \* encoder errors so far
  mux,       \* the muxer
  file,      \* every byte poll_bytes and finish_into returned
  fed,       \* how much of the file the demuxer was given
  demux,     \* the demuxer
  accepted,  \* history: per track, what was accepted and not read back
  returned   \* the packet the demuxer returned last, or None

sessionVars == <<reports, inside, given, call, failures, mux, file>>
readerVars == <<fed, demux>>
vars == <<sessionVars, readerVars, accepted, returned>>

Tracks == {t \in Track : reports[t] # None}

\* The tracks as the muxer was told of them.
TrackList == IF Audio \in Tracks THEN <<Video, Audio>> ELSE <<Video>>

Over == call \in {"finished", "lost"}

Packet == [track : Track, n : Nat, dts : Nat, key : BOOLEAN, size : Nat, config : BOOLEAN]

TypeOK ==
  /\ reports \in Reporting
  /\ inside \in [Track -> Seq(Packet)]
  /\ call \in {"idle", "video", "audio", "finish video", "finish audio", "finished", "lost"}
  /\ failures \in 0 .. MaxFailures
  /\ mux.tracks = TrackList /\ mux.configured \subseteq Tracks
  /\ mux.header = None \/ mux.header \subseteq mux.configured
  /\ \A t \in Tracks : Len(mux.pending[t]) < Batch
  /\ mux.consumed \in 0 .. Len(mux.output)
  /\ mux.drained + mux.consumed = Len(file)
  /\ fed \in 0 .. Len(file)

\* open_in, open_in_with_audio
Init ==
  /\ reports \in Reporting
  /\ inside = [t \in Track |-> <<>>] /\ given = [t \in Track |-> [frames |-> 0, dts |-> 0]]
  /\ call = "idle" /\ failures = 0
  /\ mux = NewMuxer(TrackList, {t \in Track : reports[t] = "open"})
  /\ file = <<>> /\ fed = 0 /\ demux = NewDemuxer
  /\ accepted = [t \in Track |-> <<>>] /\ returned = None

----------------------------------------------------------------------------
(* Writing.                                                                 *)
Failing == failures < MaxFailures /\ failures' = failures + 1

\* The packet a frame becomes: a keyframe first, twice the size of the others.
Encoded(t, key, gap) ==
  [track |-> t, n |-> given[t].frames + 1, dts |-> given[t].dts + gap, key |-> key,
   size |-> IF key /\ t = Video THEN 2 ELSE 1, config |-> reports[t] = "inband" /\ key]

\* write_frame, write_audio_frame: the encoder accepts the frame, or does not.
Write(t, key, gap) ==
  LET p == Encoded(t, key, gap) IN
  /\ call = "idle" /\ t \in Tracks /\ given[t].frames < MaxFrames[t]
  /\ given[t].frames = 0 \/ t = Audio => key
  /\ t = Audio => gap = 1
  /\ \/ /\ inside' = [inside EXCEPT ![t] = Append(@, p)]
        /\ given' = [given EXCEPT ![t] = [frames |-> @.frames + 1, dts |-> p.dts]]
        /\ accepted' = [accepted EXCEPT ![t] = Append(@, Content(p))]
        /\ call' = IF t = Video THEN "video" ELSE "audio"
        /\ UNCHANGED failures
     \/ Failing /\ UNCHANGED <<inside, given, accepted, call>>
  /\ returned' = None
  /\ UNCHANGED <<reports, mux, file, readerVars>>

Draining(t) == call \in (IF t = Video THEN {"video", "finish video"} ELSE {"audio", "finish audio"})
Finishing == call \in {"finish video", "finish audio"}

\* Only the video encoder's configuration is asked for again.
Described_Mutant(t) == mux                               \* mutant: never asked for again
Described(t) == IF t = Video /\ reports[t] = "late" THEN Describe(mux, t) ELSE mux

\* One turn of drain's loop, or drain_audio's.
DrainPacket(t) ==
  /\ Draining(t) /\ inside[t] # <<>>
  /\ mux' = PushPacket(Described(t), Head(inside[t]))
  /\ inside' = [inside EXCEPT ![t] = Tail(@)]
  /\ returned' = None
  /\ UNCHANGED <<reports, given, call, failures, file, readerVars, accepted>>

\* poll_packet returns nothing: what it keeps, a pipeline keeps until flushed.
DrainEnds(t) ==
  /\ Draining(t) /\ ~Finishing /\ call' = "idle"
  /\ returned' = None
  /\ UNCHANGED <<reports, inside, given, failures, mux, file, readerVars, accepted>>

\* poll_packet or flush returns an error. finish_into consumes the session.
Fails ==
  /\ call \notin {"idle", "finished", "lost"} /\ Failing
  /\ call' = IF Finishing THEN "lost" ELSE "idle"
  /\ returned' = None
  /\ UNCHANGED <<reports, inside, given, mux, file, readerVars, accepted>>

PollBytes ==
  /\ call = "idle" /\ Unread(mux) # <<>>
  /\ file' = file \o Unread(mux) /\ mux' = Polled(mux)
  /\ returned' = None
  /\ UNCHANGED <<reports, inside, given, call, failures, readerVars, accepted>>

----------------------------------------------------------------------------
(* finish_into: the encoders one after the other, then the muxer.           *)
FinishBegins ==
  /\ call = "idle" /\ call' = "finish video" /\ returned' = None
  /\ UNCHANGED <<reports, inside, given, failures, mux, file, readerVars, accepted>>

\* Mutant: the audio encoder is not drained.
AfterVideo_Mutant == "finished"
AfterVideo == IF Audio \in Tracks THEN "finish audio" ELSE "finished"

FinishVideo ==
  /\ call = "finish video" /\ inside[Video] = <<>>
  /\ call' = AfterVideo
  /\ IF call' = "finished"
     THEN mux' = Polled(FlushAll(mux)) /\ file' = file \o Unread(FlushAll(mux))
     ELSE UNCHANGED <<mux, file>>
  /\ returned' = None
  /\ UNCHANGED <<reports, inside, given, failures, readerVars, accepted>>

FinishAudio ==
  /\ call = "finish audio" /\ inside[Audio] = <<>>
  /\ call' = "finished"
  /\ mux' = Polled(FlushAll(mux)) /\ file' = file \o Unread(FlushAll(mux))
  /\ returned' = None
  /\ UNCHANGED <<reports, inside, given, failures, readerVars, accepted>>

----------------------------------------------------------------------------
(* Reading.                                                                 *)
PushBytes(k) ==
  LET upto == IF fed + k < Len(file) THEN fed + k ELSE Len(file) IN
  /\ Over /\ ~HasBox(demux) /\ fed < Len(file)
  /\ fed' = upto
  /\ demux' = [demux EXCEPT !.buffer = @ \o SubSeq(file, fed + 1, upto)]
  /\ returned' = None
  /\ UNCHANGED <<sessionVars, accepted>>

Pump ==
  /\ HasBox(demux) /\ demux' = TakeBox(demux) /\ returned' = None
  /\ UNCHANGED <<sessionVars, fed, accepted>>

PollPacket ==
  /\ ~HasBox(demux) /\ demux.packets # <<>>
  /\ returned' = Head(demux.packets)
  /\ demux' = [demux EXCEPT !.packets = Tail(@)]
  /\ accepted' = [accepted EXCEPT ![returned'.track] = SubSeq(@, 2, Len(@))]
  /\ UNCHANGED <<sessionVars, fed>>

Next ==
  \/ \E t \in Track, key \in BOOLEAN, gap \in Gaps : Write(t, key, gap)
  \/ \E t \in Track : DrainPacket(t)
  \/ \E t \in Track : DrainEnds(t)
  \/ Fails
  \/ PollBytes
  \/ FinishBegins \/ FinishVideo \/ FinishAudio
  \/ \E k \in Reads : PushBytes(k)
  \/ Pump \/ PollPacket

Spec == Init /\ [][Next]_vars

\* Somebody reads the file to its end; nobody needs to go on writing.
FairSpec ==
  Spec /\ WF_vars(\E k \in Reads : PushBytes(k)) /\ WF_vars(Pump) /\ WF_vars(PollPacket)

----------------------------------------------------------------------------
Stream == file \o Unread(mux)

\* A placement is where its packet's payload is in the stream, however much of
\* the stream was polled, and dropped by the muxer, before or since.
PlacementsTrue ==
  \A p \in mux.placements :
    SubSeq(Stream, p.offset + 1, p.offset + p.packet.size) = Payload(p.packet)

\* The header of a session without audio describes the video, however late the
\* encoder made its configuration known.
LoneTrackConfigured == Tracks = {Video} /\ mux.header # None => Video \in mux.header

\* Whatever the encoders accepted comes out of the demuxer, per track, once, in
\* order, with its time, key flag and payload.
Channels == INSTANCE MessageChannels WITH
  Csid <- Track, queue <- accepted,
  returned <- IF returned = None THEN None ELSE returned.content
RefinesChannels == Channels!Spec

\* Nothing is missing from a file finish_into has completed.
NothingLost == call = "finished" ~> \A t \in Track : accepted[t] = <<>>
=============================================================================
