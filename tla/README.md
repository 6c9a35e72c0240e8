# A verification of mediaway

TLA+ models of the parts of mediaway whose correctness depends on who does what
when: threads that share textures by reference count, handles that change owner
and mode, surfaces lent to a caller while a decoder goes on, bounded queues, and
rings that forget. Each module is written from the
Rust source; comments and ADRs only decide what to call things and what is
promised. TLC checks every module on small instances and TLAPS proves the core
ones for all values of their constants.

## The system

mediaway is a media stack: capture backends feed encoders, encoders feed muxers
and network transports, and a C ABI with bindings wraps all of it. Most crates
are sans-io and sequential (bytes or packets in, packets or bytes out). The
hard behaviour is concentrated in a few places.

| Component | State it keeps | Operations | Talks to | What makes it hard |
|---|---|---|---|---|
| Shared desktop duplication (`mediaway-device`, `dxgi_shared.rs`) | a ring of textures with `latest`, per-consumer records, fallback textures, control channel, shutdown flag | attach, poll, release, detach, drop; the driver's acquire/publish loop | DXGI; capture handles on any thread | lock-free recycling by `Arc::strong_count`, access loss, last-owner join |
| Duplication registry (`dxgi_shared.rs`, `dxgi.rs`, `dxgi_exclusive.rs`) | `HashMap<DeviceId, Weak<..>>` under one mutex | open (shared or exclusive), close | driver threads; DXGI's one-duplication rule | check-then-spawn races, dying sessions, joins under the lock |
| Device hotplug (`mediaway-ffi` `hotplug.rs`, `mediaway-device` `windows/hotplug.rs`) | mode of the handle, poisoned and stop flags, bounded event queue | open, poll, register and unregister callback, close | the audio engine's threads; the caller's callback | two consumers of one stream, callbacks after teardown, failures with nobody to tell |
| Replay ring (`mediaway-container`, `replay.rs`) | per-stream packet queues, cut points, byte count, newest time | push, add stream, clip | encoders and muxers through the caller | decode order against presentation order, eviction against cutting, rounding |
| RTMP client (`rtmp`) | handshake phase, chunk header caches, chunk size | push bytes, poll, send | a server | two peers' caches must stay equal; interleaved messages |
| H.264 hardware decode sessions (`mediaway-decoder`: `linux/vaapi`, `vulkan`, `windows/d3d12_video_decode`) | decoded picture buffer (DPB), order-count state, pending frames, slots lent to the caller | push, poll, release, flush | the GPU driver; the caller's GPU code | references against loans, wrapping counters, refused pushes that are repeated, device errors half way |
| Encode session (`mediaway`, `session.rs`) | encoders, muxer | write, poll bytes, finish | encoders and muxer | frames inside a pipelined encoder, a failure half way through a drain |
| MP4 muxer and demuxer (`iso-bmff`), WebM (`ebml-webm`) | header, pending samples, output not yet polled, boxes being read | push, poll, flush; push bytes, poll | files, the session | a header that cannot be changed, offsets into output that was dropped |
| Windows audio playback (`mediaway-device`, `wasapi_playback.rs`) | frame queue, flush and stop flags, played clock, what the endpoint holds | write, flush, played, close; the worker's loop | the WASAPI render client | a flush against a worker that is anywhere in its turn |
| Windows audio capture, WGC, camera | worker thread, bounded queue, timeline | open, poll, close | the platform | drop-oldest queues, teardown |
| Other platforms' capture backends | worker or callback, bounded queue | open, poll, close | the platform | mostly the platform's own state |
| MPEG-TS, RTP, Ogg reassembly | partial units per stream | push packet, poll | the network | loss, duplication, reordering |
| Encoders, other decoders | driver sessions, reference pictures | submit, drain | GPU drivers | picture-buffer bookkeeping, as in H.264 |
| Software codecs | sample state | process | nothing | numerical |
| Remaining C ABI, bindings | a pointer and a flag | pass-through | callers | little |

What makes each correct, in a sentence: a consumer never sees a texture freed or
rewritten, and sees frames in order; a session ends exactly when its last owner
leaves and the output is then free; a hotplug event reaches one consumer, once,
in order, and none after teardown; a clip is what would have been cut from the
whole history; an RTMP decoder reconstructs the encoder's messages; a decode
session predicts from the picture the encoder meant and never decodes over one
the caller reads; an encode session loses no packet it accepted; audio is heard
once, in order, unless a later flush discards it; a reassembler emits a unit
whole or not at all.

## Modules

| Module | Models | Role |
|---|---|---|
| `FrameFanout` | the promise of a shared capture | abstract specification |
| `SharedDuplication` | one live session: driver thread and handles | detailed specification, refines `FrameFanout` |
| `SharedDuplicationProofs` | | theorems about it |
| `DuplicationRegistry` | opens and closes of many handles over many sessions | the environment of a session |
| `HotplugBridge` | the C handle, the bridging thread, the Windows backend | component |
| `ReplayRing` | the ring and its clips | algorithm as a state machine |
| `MessageChannels` | ordered message channels, one per chunk stream or track | abstract specification |
| `ChunkStream` | RTMP sender, byte stream, decoder | detailed specification, refines `MessageChannels` |
| `PictureDelivery` | the promise of a video decoder | abstract specification |
| `H264Session` | the stream a caller feeds, and what the three H.264 sessions share | common state and operators |
| `VaapiH264`, `VulkanH264`, `D3d12H264` | the push, poll, release and flush of each backend | components |
| `H264Decoders` | a session of any of them with its caller | composition, refines `PictureDelivery` |
| `FragmentedMp4` | the streaming MP4 muxer and its demuxer | operators on records |
| `EncodeSession` | encoders, session, muxer, the file and its reader | composition, refines `MessageChannels` |
| `PlayoutQueue` | the promise of a playback session | abstract specification |
| `WasapiPlayback` | caller, worker thread and endpoint | detailed specification, refines `PlayoutQueue` |
| `SequenceSums` | the sum and the filter of a sequence | operators, used by the last four and `ReplayRing`, and by their proofs |
| `SequenceLemmas` | | lemmas about joined, flattened, filtered and summed sequences |
| `DeviceProofs` | | theorems about `HotplugBridge` and, separately, `DuplicationRegistry` |
| `H264DecodersProofs`, `EncodeSessionProofs`, `WasapiPlaybackProofs`, `ReplayRingProofs`, `ChunkStreamProofs` | | theorems |
| `MC...` | | constants and symmetry for TLC |

### SharedDuplication

The driver's `driver` variable is its place in `driver_loop`: `check` (shutdown
flag), `drain` (control channel), `acquire`, `reclaim`, `scan` (one
`strong_count` a step), `copy`, `bump`, `swap`, `alloc`. A handle's `handle` is
its place in `attach`, a poll, or its drop. What another thread can observe
between two steps of one thread is a state; what it cannot is one step, and the
comments of the actions say why (a fallback texture is private until it is
`latest`, an unreferenced fallback can never be referenced again). An
`Arc<RingSlot>` is counted where it is held: `latest`, a record's `held`, the
clone a poll has taken. Frames are numbered; `content` is the number of the
frame in a slot's texture, and the ghost variables `published` and `seen` are
what the specification of the whole is about. Unwinding mutex poisoning is
ignored by the code and by the model. `MaxFrames` and the set `Transient` are
the bounds; a session starts where `spawn_driver` returns.

`FrameFanout` is what the trait promises of every consumer: frames come in the
order they were published, none twice, and the picture a consumer holds does not
change until it gives it back. `RefinesFanout` is the refinement under
`view <- View`. Access loss is outside it: what the consumer holds after that is
the subject of `HeldTextureAlive`.

### DuplicationRegistry

One output. A session is named by the handle that spawned it; its inside is
reduced to whether its driver has opened, is running or is gone, and who owns
it. Where it needs a name of its own beside `HotplugBridge`'s, it begins with `Registry`
(`RegistrySpec`, `RegistryTypeOK`). The registry mutex is held from the lookup to the end of the handshake and,
when a failed attach drops the last Arc, through the join, because `shared` is
declared after the guard. Exclusive handles take no lock. That DXGI grants one
duplication per output and process is the environment's rule, taken from the
comments beside the calls.

### HotplugBridge

`mode` is the enum of `hotplug.rs`; `session` and `queue` exist twice, for the
backend in the handle and for the one on the bridging thread's stack, so that
two live ones are expressible. A handle takes one call at a time, as its
contract asks; `unregistering` and `closing` are the blocked joins. Construction,
polling and the join can fail or panic; that switching or freeing a pulled backend
panics (`hotplug.rs:373-378`, `726`) is left out, since Windows' `close` cannot. Events are
numbered and all of a watched kind. Which thread calls is not modelled, so
neither is the backend's demand to be opened, polled and closed on the same one.

### ReplayRing

Streams are numbered in the order they were added, the anchor first, and `tracks`
is the sequence of their queues. The eviction loop is written in closed form:
`After(ring, k)` is the ring with `k` GOPs dropped (popping a queue up to one
keyframe after another leaves what popping it once, up to the latest, leaves), and
`Evicted` the first that needs no further drop. Clips are
sets of positions with an order, rebased as the iterator does. Times are small
numbers with timebases chosen so that `to_nanos` and `to_ticks` round. Inputs
are what encoders emit: presentation never before decode, and a keyframe
presented after everything decoded before it (open-GOP leading pictures follow
their keyframe in decode order, and are generated). `log` is a history variable,
and `Wanted` is the ADR's definition of a clip over that history, independent of
the ring's.

### ChunkStream

The wire is a sequence of items, one for each field of a header and each byte of
a payload. The decoder takes as many items as its own rules tell it to, and
compares their kinds only for the verdict `garbled`: a decoder that counts one
field too many or too few reads the wrong thing and is caught by `InStep`, by
`RefinesChannels` if what it reads looks right, and by `AllReturned` if it waits
for items nobody sends. Multi-byte fields are single
items, since `step` waits for a whole header and fragment before it consumes
anything; `PushBytes` may still cut the stream between any two of them.

The sender is either the crate's `Muxer`, whose calls append whole messages after
its announcement, or a server keeping to the same rules, which interleaves the
chunks of different streams, may use a less compressed form than it could, and
changes its chunk size between chunks. `queue` is what was sent and not yet
returned: `MessageChannels` says that it is returned from the front. The decoder
is polled until it has nothing more or fails; after a failure a run ends, since
nothing is promised about what a caller then reads. The handshake before the
first chunk and the AMF0 contents of commands are left out.

### H264Session, VaapiH264, VulkanH264, D3d12H264, H264Decoders

`session` says which backend was opened, with CPU or GPU output, and what the
stream's parameter set and the device allow; it never changes. VA-API's and Vulkan's
DPBs have a slot for each reference and one more, but no more than `MaxDpbSlots` (16 in
the code) nor, for Vulkan, than the device's `deviceSlots`. `stream` is the encoder: a
legal sequence of IDR, I and P pictures with their `frame_num`, the low bits of
their order count, and the window of references the encoder may still use. A
picture is its position in the stream, and `surface` says whose pixels each
slot's surface holds, so that "predicted from the right picture" and "still
shows what it was lent for" are comparisons of numbers. P pictures name the most
recent reference, which is the head of the list each backend builds. `unit` is
the picture the caller is pushing: a refused push leaves it there, to be pushed
again or given up (`Skip`). A picture that could not be read back is in the same
place, although it may be recorded as a reference already (`Recorded`). Until its next
IDR picture the stream is `broken` once a reference was given up before it was recorded,
or was pushed again after (`Repeated`): pushed again it is predicted from itself, if it
is a P picture, and the DPB holds it twice. A recorded reference that is given up, and
a picture that is none, break nothing.

The three DPBs were ported from one another and differ where it matters. VA-API
takes the frame it lent back at the next call, whatever that is
(`VaapiTakesBack`). D3D12 has slots to spare, keeps an occupancy apart from the
references and is told by `release_output`. Vulkan marks a slot lent and never
clears the mark. A push is one action: order count, marking, choice of a slot,
decoding, and what happens when the hardware reports an error (`Fails`) or the
picture cannot be read back (`LosesOutput`), each in the order of its backend.

### FragmentedMp4 and EncodeSession

The muxer and the demuxer are records, their methods operators from one record
to the next; `EncodeSession` holds one of each. The stream is a sequence of
elements, as many per box as keeps "cut anywhere" meaningful; an element of a
payload knows its packet and position. `output`, `consumed` and `drained` are
the muxer's own, and `placements` the offsets it promised.

An encoder is a pipeline of what it accepted: it may return a packet at once or
keep it until flushed, and any call of it may fail. One turn of a draining loop
is one step (`DrainPacket`), so that a failure can come between any two.
`finish_into` consumes the session, so a failure in it ends the run (`lost`);
what the file holds by then is still read. `RefinesChannels` relates what the
encoders accepted to what the demuxer returns, per track, through the batches,
the durations, and the bytes as they were polled and cut.

### WasapiPlayback

Time is counted in sample frames and a frame of the caller is the sequence of
its samples, numbered as they were accepted; 0 is silence the worker inserted.
`worker` is the place in `pump_playback_loop`; between two of its steps the
caller may write or flush and the endpoint play. The queue is locked twice in a
turn, when it is measured and when it is filled from, and those are two steps,
`Measure` and `Fill`. A flush is `BeginFlush` (under the lock), the worker's
`Reset`, `Rezero` and `AnswerFlush`, and the caller's `FlushReturns` or, after a
second or when the device is gone, `FlushFails`; the request then stands. The
tracker's positions are counted back from the last release, so that a position
of the stream is the length of what the endpoint has not played; the engine's
own latency between its buffer and the speaker is left out. `GetPosition` may
fail (`MaxUnread` bounds for how long), and so may any call on which the loop
ends. `PlayoutQueue` is the promise: what is accepted is heard in order or
discarded by a flush that began after it, and nothing a flush asked for is heard
once it has returned.

## Runs

| Run | Expect | Bounds | Shows |
|---|---|---|---|
| `shared_duplication` | pass | two or three handles, ring and fallbacks small enough that every slot can be held, two or more frames | safety and refinement of a session under all interleavings |
| `shared_duplication_live` | pass | three handles, one on a foreign device | attach and join return |
| `duplication_registry` | pass | three shared handles, one on a second device, one exclusive | opens and closes racing each other |
| `hotplug_bridge` | pass | queue of two, five events | mode switches, failures, teardown, order |
| `replay_ring` | pass | one anchor, one other stream, five packets, with and without ceiling | clips against the full history |
| `chunk_stream` | pass | clock of 8, of which 5 and up are extended; messages of none to three chunks on two streams and the control stream; chunk sizes 2 and 3 | the decoder stays in step and returns every message |
| `h264_decoders` | pass | seven sessions over the three backends, CPU and GPU output, two of them with as many references as the DPB may have slots; five pictures; `frame_num` wraps at 3 or 4, the order count at 4; one device error; one spare slot | prediction, loans, order and back-pressure |
| `encode_session` | pass | three video frames, two of AAC; fragments of two samples; one encoder failure; output dropped at nearly every poll; the file read in small or large pieces | nothing accepted is lost, placements stay true |
| `wasapi_playback` | pass | queue of two frames, buffer of three samples, lead of one, frames of none to two samples, three samples in all, any number of flushes | order, discard, the played clock, the silence bound |
| `missed_frame` | violation | | equal generations of two slots hide a new frame |
| `freed_while_held` | violation | | access loss frees held textures |
| `lent_slot_reused` | violation | Vulkan with GPU output | a picture is decoded over one its caller still reads |

Why the bounds are enough: the session's races need a reader, a second reader to
pin a slot, and a frame to overwrite another with, and `TransientBound` states
where one more handle would matter; the registry's need a dying session, a new
one and a bystander; the hotplug queue overflows more than twice; a ring of five
packets holds three GOPs with audio between them, and evicts at both limits. The
chunk stream's clock, length field and announcement are scaled down together, so
that the wrap of a delta, the escape value and a message over several chunks all
occur; `Backlog` keeps the sender from running ahead, which the decoder cannot
tell, as it looks at nothing behind the chunk it is reading. Five pictures are
enough to wrap both counters with references on either side, fill the DPB, evict,
and lend every spare slot. Five frames make full fragments, fragments cut by a
keyframe and short ones at the end. With three samples one can be in the
endpoint, one in the worker's hands and one in the queue when a flush comes, and
another written after it timed out.
The exact values are in the `.cfg` files. `CHECK_DEADLOCK FALSE` is there because
handles are opened and closed once, sessions end, and packets, pictures and
events run out; the chunk stream never stops, and is checked for deadlock.

Each violated run is a promise of a comment or ADR the code does not keep; the
findings in `PROJECT.json` quote it.

### Met while modelling, without a run

The models do as the code does in these places; the paths are under
`src/crates/`.

- A shared open that comes while the last session of its output is going away is
  denied, although `dxgi.rs:53-56` says it succeeds.
- A `WindowsScreenCapture` dropped without `close` leaves its consumer record in
  the session, although ADR windows/0006 calls the scheme free of leaks.
- A bridging thread that failed is reported by nobody, although
  `mediaway-ffi/src/device/hotplug.rs:481-486` promises the status; and a pulled
  hotplug handle that is moved between threads uses its backend from a thread
  that did not construct it.
- A replay stream emptied by eviction accepts a dts that goes back
  (`mediaway-container/src/replay.rs:55-61`).
- RTMP chunk sizes below 4, the length of the announcement, lose the stream
  (`rtmp/src/mux.rs:45-48`): the announcement itself is cut at a size the peer does
  not know yet.
- A reference the stream still uses is evicted by VA-API with GPU output once frames
  lent for other pictures fill its DPB, although `linux/vaapi/h264.rs:333-336` (paths
  from here under `mediaway-decoder/src/`) says that there is a free slot whenever every
  reference is in use; and by VA-API and Vulkan alike in a stream of as many references
  as the DPB may have slots (16, or the device's limit), although `vulkan/decoder.rs:327-328`
  says that there is room for one picture more. `WindowHeld` without `KeepsWindow` is
  violated by either in a few pictures.
- D3D12 with one reference frame evicts the picture it is about to predict from
  and refuses a legal stream. A D3D12 slot stays taken after a failed decode
  (`windows/d3d12_video_decode/dpb.rs:76-78` says that a full DPB is references and
  loans only), and with more such failures than it has slots to spare every later push is
  refused; `h264_decoders` has one failure.
- The VA-API and Vulkan windows keep one picture too many, so that the largest one a
  stream may ask for holds two pictures of one `frame_num` when those are four bits wide.
- A read-back that fails on Vulkan (`vulkan/decoder.rs:533-553`) or D3D12 leaves the
  picture recorded, and pushing it again predicts it from itself.
- `KeepsWindow` in `H264Decoders` says for which sessions the window does hold, and
  the instance of `h264_decoders` has sessions on both sides of it; `Repeated` in
  `H264Session`, for how long a stream is left out after such a second push.
- An MP4 header is written at the first packet of any track, so a video encoder
  that learns its configuration late is not described when audio comes first
  (`mediaway-container/src/lib.rs:64-65` recommends the muxer for that case);
  `LoneTrackConfigured` is what does hold. An audio encoder's late configuration
  is never asked for, and every packet of a non-AAC audio track ends a fragment.
- Frames of one track with the same time are accepted, but a sample lasts one tick at least
  (`iso-bmff/src/mux/mod.rs:383-386`), so that those after them in their fragment
  are read back later than they were written. `Gaps` without 0 excludes this.
- An audio frame without samples stays in the playback queue until samples
  follow it; a queue full of them rejects every write for good.

## Fairness

Safety is checked without any. For liveness: a thread that can take its next
step does (weak fairness of the driver, of the bridging thread, and of calls
that have begun; nothing makes a caller call). The driver's two steps that need
the `consumers` mutex are strongly fair, since handles may poll in a loop and
the mutex is free again and again; std's mutex promises no order, and that is an
assumption. Callbacks return, which their contract asks for. Bytes sent to the
RTMP decoder arrive, and its caller polls. `AllReturned` speaks of messages
sent to their end: nothing makes a server finish one, or send another. The
caller of a decode session goes on pushing the picture it has in hand, polls, and
gives frames back; nothing makes it skip a picture, flush, or send another. The
file an encode session wrote is read to its end; nothing makes its writer
go on. The audio worker's loop waits for nobody and the endpoint plays what it
has been given; nothing is asked of the caller, so a flush may stay unanswered
by it.

## Proofs

`SharedDuplicationProofs` is about any set of handles, any ring depth of at least
one, any set of fallback textures, and any number of frames; it assumes only the
named assumptions of the module.

`DestinationUnshared` alone is not inductive: to see that the scanned slot stays
unreferenced one must know that a reference is only ever made from `latest`
(`NoNewReference`), and that the driver alone moves `latest`. `TexturesAlive`
needs that every reachable slot is fixed or listed. Delivery in order needs
that a slot's generation is at least one once it was published, that what a
record has last seen on a slot is not above its generation, and that a newer
frame is never on a slot with an older number. These are `IInv`'s conjuncts.
`Invariance` proves `IInv` inductive, one lemma per group of conjuncts and one
step per action; `TypeCorrect`, `NoTornRead`, `ReclaimIsSafe` and
`NeverClosedWhileOpen` follow. `FanoutStep` shows that under `IInv` every step
is a `FrameFanout` step or a stutter, whence `Refinement`.

`DeviceProofs` has two parts, each about one module; they share no state. The part
about `DuplicationRegistry` is about any set of handles, exclusive or shared, on
two devices. `SpawnOnlyWhenAlone` rests on the mutex (`Locked`), on the one
session with owners being the registered one (`OneOwnedSession`), so that a dead
`Weak` means no owners anywhere, and on a starting driver belonging to the open
that waits for it (`DriverSpawned`). `DuplicationAccounted` is inductive once
these are known.

The part about `HotplugBridge` is about any queue capacity and any number of events.
`BridgeOwned` and `HandleOwned` tie each backend and the thread to the mode and
the call in progress; `OneSession`, `CallbackWhileRegistered` and
`NothingOutlivesClose` follow from them. `QueueIsSuffix` is inductive with
`Pending`, and needs `OneSession`: with two live queues an event taken from one
would still wait in the other. `InOrder` is its consequence for a step.

`H264DecodersProofs` is about any set of sessions, any headroom, any number of
pictures and of device errors. `TypeCorrect` holds of all of them. `LoansKept` and
`Refinement` assume that no session is Vulkan's with GPU output, which the run
`lent_slot_reused` shows to be needed. `LoanKept` is not inductive: that a slot
about to be decoded into is lent to nobody follows from `FramesLent` (what is
lent is marked), from `LentInUse` for D3D12, which looks at its occupancy and not
at the marks, and from `CopiesHaveNoSlot` for CPU output. VA-API's taking back
clears the marks of what the caller holds, and must not clear the mark of a
frame still queued on the same slot: by `FramesLent` both would show the picture
in that slot, and by `FramesInOrder` a queued picture is newer than a held one.
`UnitIsNewest` keeps that order when a picture is queued, and gives `Finish` its
place in the refinement.

`PredictionExact` and `ReferencesHeld` rest on `WindowInv`, again for any sessions,
Vulkan's with GPU output included, and any number of pictures, losses and refusals.
Its main conjunct, `RefInv`, says what the three DPBs have in common (`Keeps`): the n
references held are the n newest of the stream, one of each age from 1 to n, where
the age is counted back from the current `frame_num` modulo its range, and each is
still in the surface of its slot. The order of the ages is the code's order by
`FrameNumWrap`, so eviction takes age n and the head of the reference list is age 1;
an IDR starts over, a refused push changes nothing, and a picture kept as a reference
moves the others one age up. `PocInv` says the order count last stored is the last
reference's, or the unit's own when its push was refused after storing it, and at
most half a range behind: the condition under which the wrap is derived right either
time. `RecordedInv` says all this of a picture that was recorded and could not be read
back, so that giving it up costs nothing; `NoneAhead`, that the DPB holds nothing from
later in the stream, tells a picture recorded before from one that is new. For which
sessions the window is kept is `KeepsWindow`: those whose DPB, after every clamp, has a
slot for each reference and one for the picture. The theorems say nothing of the others,
some of which lose a reference ("Met while modelling"), nor of a stream that is `broken`. They assume `H264Assumption` only.

`DeviceProofs` also proves the types of both modules. `NothingOutlivesClose` (a freed
handle leaves no thread and no registration) is proved and in no run.

`FallbackBounded` (in `SharedDuplicationProofs`) is a count. The search for a slot is
not atomic: one it found busy may be free again by the time it allocates, so who holds
what at that moment says nothing. `SearchInv` counts instead the slots the search has
met and the fallbacks it keeps (`Met`), and the handles that may still make it find
another busy (`Waiting`): together never more than the handles on the capture's
device. A handle that gives its slot back can next come to hold `latest` only, so it
leaves `Waiting` when the search passes its slot and does not return to it. The proof
needs that the handles are finitely many (`CaptureAssumption`) and that those of
another device never hold anything (`ForeignInv`).

`EncodeSessionProofs` is about any way the two encoders report themselves, any
fragment length, any limit at which the muxer drops its output, any frames, errors
and reads. Its invariant is about the muxer between two calls: `Sound` says that the
bytes polled before and the bytes still held are the one stream every placement
refers to, which each of header, fragment, poll and drop keeps; `Waiting`, that no
queue holds a whole batch. That a placement is right follows for one fragment from
`SamplePlaced` (a payload begins as far from the fragment's end as it and those
after it are long), and for the rest because a stream that only grows keeps what was
placed in it (`PlacedStays`). `LoneInv` ties the header of a session without audio to
the encoder's configuration. Its assumptions are on the constants only
(`SessionAssumption`, `Mp4Assumption`).

`Refinement` in it says that the session implements `MessageChannels`: whatever was
accepted is read back, per track, once, in order, unchanged. It adds `TransitInv` to
that invariant. What the demuxer has not parsed (`Unparsed`: in its buffer, unread in
the file, unpolled in the muxer) is the header and whole fragments, or only whole
fragments, or such with the first `moof` parsed already (`Holds`), wherever a poll or a
read may have cut the bytes. What was accepted of a track and is not read back is,
in this order, what is parsed and not polled, the samples of those fragments, those
that wait in the muxer, and those in the encoder (`Owed`). A call of the muxer moves
samples from waiting to fragments and appends just these (`Emits`: `PushPacketEmits`,
`FlushAllEmits`, and `StreamGrows` for the invariant); polling and reading change
nothing in `Unparsed`; and the demuxer undoes one box at a time (`TakeMoov`,
`TakeMoof`, `TakeMdat`), with `SamplesAre` for what it makes of a fragment: offsets add
up to where each payload is, and durations to the times, as long as times rise.
That is the hypothesis, `0 \notin Gaps`: no two frames of a track at the same time ("Met
while modelling"). `SessionAssumption` also has `None` be no packet, so that nothing
read is taken for nothing.

`WasapiPlaybackProofs` is about any capacity of queue and endpoint, any lead, any
frames, including those without samples, and any number of flushes. Its invariant
says where every accepted sample is: the queue holds a run that ends with the last
one (`QueueInv`); what is in the worker's hands or in the endpoint is older than the
last flush while that is unanswered, and younger afterwards (`FlightInv`); what the
worker has read in this turn still bounds what it may do, or a flush has come in
between and the next thing it does is reset (`TurnInv`, the reason the queue may be
measured under one lock and filled from under another); and the tracker says of each
sample the endpoint may still hold whether it was the caller's (`TrackerInv`). From
it follow the types, `PlayedTrue`, `LeadBounded`, and step by step that the session
implements `PlayoutQueue`: what is in flight before what is queued is the abstract
queue, and a flush forgets what it finds there.

`ReplayRingProofs` is about any number of streams, any timebases, window, ceilings
and number of packets. Its invariant compares the ring with the log: what is held is
what was pushed, in order (`TracksInv`); the cut points are the newest keyframes
(`CutsInv`); the byte count is the queues' total; and, the heart of it, whatever is
not held decodes too early for the oldest cut point still there (`EvictedInv`,
`Gone`), hence for every later one. That last part is what an eviction by whole GOPs
has to keep and what `ClipFaithful` alone does not say of the next eviction.
`EvictionStops` shows that the loop ends, at the latest with one GOP, and after which
drop; `AfterKeeps` that any number of drops keeps the invariant, other streams being
trimmed by presentation time and so never of a packet that decodes late enough;
`RingPushed` that a push does before it evicts. `WindowCovered` follows from the
loop's condition for the last GOP dropped. For `ClipsFaithful`, `CutForIs` and
`StartForIs` show that the cut point chosen is the keyframe's the definition names,
`HoldsWanted` that nothing wanted is gone and nothing else is yielded, and
`FirstIsZero` that no rounding makes a time negative (`TicksBelow`). The keyframes a
clip may start from are told apart by presentation time: two may decode at the same
tick, and a clock that rounds gives more of them the same time. Its assumptions are
on the constants only (that timebases are positive is what `add_stream` refuses
otherwise), and what `Emitted` says of the encoders.

`ChunkStreamProofs` is about any messages on any chunk streams, any chunk sizes,
clock and escape value, with a Muxer or with a server that interleaves. The bytes
on the wire mean nothing by themselves: a type-3 chunk of three bytes is read by
what the decoder remembers of its stream. So the invariant (`InTransit`) says what
they mean. A state of a sender is what its receiver has to agree with: the header
cache, the message each stream is in the middle of, the chunk size, and what it has
begun and not seen returned. A decoder has *caught up* with such a state (`Caught`)
if its own caches say the same, its partial payloads are what was sent so far, and
its chunk size is the one that comes next. The invariant is that what is unread,
`buf` and then `wire`, is the chunks that lead, one by one (`Leads`), from some state the
decoder has caught up with to the sender's present one (`SenderNow`). A sender's step
adds a chunk at the far end (for a Muxer, those of a whole message, `EncodedLeads`, and
of the announcement before the first); arriving bytes change nothing; and the
decoder's turn is on the first of the chunks, which it finds where it looks for it
(`StartIsRead`) and reads as it was written: `StartIsResolved` undoes the
four formats and the extended time, `DeltaWraps` the wrapping delta. When that chunk was the last
of its message, the message is the oldest of its stream in every state since, and
leaves them all (`LeadsPopped`), which is `Deliver` of `MessageChannels`. That is
`Refinement`, and with it `StaysInStep` and the types. The hypothesis `WithinLimits` is
what the code leaves to its caller: no message of 2^24 bytes or more (its length field
would be cut short), and no Muxer with a chunk size below four ("Met while modelling") or above 2^31 - 1. `SizeAssumption` has the default, 128, hold an announcement.

`SequenceLemmas` holds what these four rest on: sums of sequences, how flattening and
filtering distribute over joining, and where the parts of a joined sequence are.
They are about the folds of the community modules, unfolded one element at a time.

Only model-checked: liveness (`AttachAnswered`, `JoinReturns` twice,
`RegistryReleased`, `AllReturned`, `BackpressureClears`, `NothingLost`, `AllHeard`),
which the prover does not do under fairness.

## Not modelled, and what would come next

Not modelled: configuration checks before a backend is opened, byte layouts,
numerical code, GPU command recording and the platform under each backend. In
H.264 sessions, B pictures, reordered reference lists, long-term references, packets
of several pictures, streams that allow no reference frame, and the picture order
count types 1 and 2, which D3D12 alone derives
(`windows/d3d12_video_decode/h264_poc.rs:61-62`, `114-210`): every stream here is of
type 0. In the MP4 muxer, what `to_avcc`, `to_hvcc` and `strip_adts` do to a payload
(`iso-bmff/src/mux/mod.rs:228-245`; that the first packet may bring the configuration is
modelled) and negative decode times, which the first sample of a fragment would have
clamped to 0 (`290`). In the encode session, filters before an encoder and
voice activity detection. Next, in order:

1. MPEG-TS and RTP reassembly over a lossy, reordering network, against
   "a unit is emitted whole or not at all".
2. The RTMP handshake, composed with `ChunkStream`: a server's first chunks may
   arrive with the end of its handshake, and none may be swallowed.
3. WASAPI capture: its worker and drop-oldest queue, and the timeline that places
   loopback audio between silences; then its siblings on other platforms.
4. The HEVC, AV1 and VP9 sessions, over `PictureDelivery`.
5. WebM, and MP4 files with sample tables.
