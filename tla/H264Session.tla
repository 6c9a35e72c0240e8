---------------------------- MODULE H264Session ----------------------------
(* What the hardware H.264 sessions of mediaway-decoder share: the stream a *)
(* caller feeds them, the decoded picture buffer (DPB), the queue of frames *)
(* decoded and not yet polled, and the frames the caller is reading. VA-API, *)
(* Vulkan and D3D12 (VaapiH264, VulkanH264, D3d12H264) each have a DPB of   *)
(* their own, ported from one another; H264Decoders puts them together.     *)
(*                                                                          *)
(* A picture is its position in the stream; 0 is no picture. A packet holds *)
(* one picture. P pictures name one reference, the most recent one, which   *)
(* is what VA-API's slice parser accepts.                                   *)
EXTENDS Integers, Sequences, FiniteSets

CONSTANTS
  Sessions,          \* the sessions opened, a subset of SessionKind
  CallerHeadroom,    \* slots D3D12 adds for the caller's handles
  MaxDpbSlots,       \* H264_MAX_DPB_SLOTS: VA-API's and Vulkan's DPBs have no more
  LastSlot,          \* no DPB has a slot beyond this one
  MaxPicOrderCntLsb, \* 1 << log2_max_pic_order_cnt_lsb
  Kinds,             \* the <<slice type, is a reference>> pairs of the stream
  MaxPictures,       \* bound: length of the stream
  MaxFailures,       \* bound: device errors
  None

\* max_num_ref_frames and 1 << log2_max_frame_num come with the SPS, and max_dpb_slots
\* with the device a Vulkan session runs on.
SessionKind == [backend : {"vaapi", "vulkan", "d3d12"}, output : {"cpu", "gpu"},
                maxRefFrames : Nat \ {0}, maxFrameNum : Nat \ {0},
                deviceSlots : Nat \ {0}]

AnyReference == [pic : Nat, frameNum : Nat, poc : Int]
AnyUnit == [pic : Nat, kind : {"idr", "i", "p"}, ref : BOOLEAN, frameNum : Nat, lsb : Nat,
            poc : Nat, wants : Nat]

ASSUME H264Assumption ==
  /\ Sessions \subseteq SessionKind
  /\ CallerHeadroom \in Nat /\ MaxDpbSlots \in Nat \ {0} /\ LastSlot \in Nat
  /\ \A s \in Sessions : s.maxRefFrames + CallerHeadroom <= LastSlot
  /\ MaxPicOrderCntLsb \in Nat \ {0}
  /\ MaxPictures \in Nat /\ MaxFailures \in Nat
  /\ Kinds \subseteq ({"idr"} \X {TRUE}) \cup ({"i", "p"} \X BOOLEAN)
  /\ None \notin Nat /\ None \notin AnyReference /\ None \notin AnyUnit

Slot == 0 .. LastSlot
Picture == 1 .. MaxPictures

VARIABLES
  session,     \* backend, output preference, and what the SPS and the device allow
  stream,      \* the encoder: pictures sent, frame_num, POC, reference window
  unit,        \* the picture the caller is trying to push, or None
  broken,      \* since its last IDR picture the stream lost a reference, or had one twice
  slots,       \* DPB: the reference picture in each slot, or None
  occupied,    \* D3D12: slots whose state is Occupied
  outstanding, \* slots marked as lent to the caller
  surface,     \* the picture whose pixels each slot's surface holds
  prevPoc,     \* prev_poc_msb, prev_poc_lsb
  pending,     \* frames decoded and not polled
  held,        \* frames polled and not yet returned
  flushed,
  failures,    \* device errors so far
  last         \* how the last push ended

vars == <<session, stream, unit, broken, slots, occupied, outstanding, surface,
          prevPoc, pending, held, flushed, failures, last>>

Backend(b) == session.backend = b
Lends == session.output = "gpu"
MaxRefFrames == session.maxRefFrames
MaxFrameNum == session.maxFrameNum

\* A DPB of n slots, as far as it may grow.
Capped(n, limit) == IF n < limit THEN n ELSE limit

NoPoc == [msb |-> 0, lsb |-> 0]
Reference == [pic : Picture, frameNum : 0 .. MaxFrameNum - 1, poc : Int]
Frame == [pic : Picture, slot : Slot \cup {None}]
Unit == [pic : Picture, kind : {"idr", "i", "p"}, ref : BOOLEAN, frameNum : 0 .. MaxFrameNum - 1,
         lsb : 0 .. MaxPicOrderCntLsb - 1, poc : Nat, wants : 0 .. MaxPictures]
Verdict == [result : {"none", "ok", "invalid", "backend", "closed"}, pic : 0 .. MaxPictures,
         kind : {"idr", "i", "p"}, wants : 0 .. MaxPictures, found : 0 .. MaxPictures,
         poc : Int, truePoc : Int]

TypeOK ==
  /\ session \in Sessions
  /\ stream \in [pics : 0 .. MaxPictures, refs : Nat, poc : Nat, refPoc : Nat,
                 window : Seq(Picture)]
  /\ unit \in Unit \cup {None} /\ broken \in BOOLEAN
  /\ slots \in [Slot -> Reference \cup {None}]
  /\ occupied \subseteq Slot /\ outstanding \subseteq Slot
  /\ surface \in [Slot -> 0 .. MaxPictures]
  /\ prevPoc \in [msb : Int, lsb : Nat]
  /\ pending \in Seq(Frame) /\ held \subseteq Frame
  /\ flushed \in BOOLEAN /\ failures \in 0 .. MaxFailures /\ last \in Verdict

Init ==
  /\ session \in Sessions
  /\ stream = [pics |-> 0, refs |-> 0, poc |-> 0, refPoc |-> 0, window |-> <<>>]
  /\ unit = None /\ broken = TRUE
  /\ slots = [s \in Slot |-> None] /\ occupied = {} /\ outstanding = {}
  /\ surface = [s \in Slot |-> 0] /\ prevPoc = NoPoc
  /\ pending = <<>> /\ held = {} /\ flushed = FALSE /\ failures = 0
  /\ last = [result |-> "none", pic |-> 0, kind |-> "idr", wants |-> 0, found |-> 0,
             poc |-> 0, truePoc |-> 0]

----------------------------------------------------------------------------
(* The stream: an IDR picture first; frame_num counts the reference         *)
(* pictures since the last IDR; pictures are coded in output order, and the *)
(* order count never runs ahead by more than half its range.                *)
NewestRefs(pics) == SubSeq(pics, 1, IF Len(pics) < MaxRefFrames THEN Len(pics) ELSE MaxRefFrames)

NextUnit(kind, ref) ==
  LET idr == kind = "idr"
      pic == stream.pics + 1
      poc == IF idr THEN 0 ELSE stream.poc + 1
      refs == IF idr THEN 0 ELSE stream.refs
      earlier == IF idr THEN <<>> ELSE stream.window
  IN
  /\ unit = None /\ ~flushed /\ stream.pics < MaxPictures
  /\ stream.window = <<>> => idr
  /\ ~idr => poc - stream.refPoc <= MaxPicOrderCntLsb \div 2
  /\ unit' = [pic |-> pic, kind |-> kind, ref |-> ref, frameNum |-> refs % MaxFrameNum,
              lsb |-> poc % MaxPicOrderCntLsb, poc |-> poc,
              wants |-> IF kind = "p" THEN Head(stream.window) ELSE 0]
  /\ stream' = [pics |-> pic, refs |-> IF ref THEN refs + 1 ELSE refs, poc |-> poc,
                refPoc |-> IF ref THEN poc ELSE stream.refPoc,
                window |-> IF ref THEN NewestRefs(<<pic>> \o earlier) ELSE earlier]
  /\ UNCHANGED <<session, broken, slots, occupied, outstanding, surface, prevPoc, pending,
                 held, flushed, failures, last>>

References(sl) == {s \in Slot : sl[s] # None}

\* An earlier push of the picture in hand failed only once it was recorded.
Recorded == unit # None /\ \E s \in References(slots) : slots[s].pic = unit.pic

\* Pushed again all the same, it may be predicted from itself, and is recorded twice
\* (unless it is an IDR picture, which empties the DPB first).
Repeated == Recorded /\ ~flushed

\* The caller gives up on a picture the session refused.
Skip ==
  /\ unit # None /\ last.pic = unit.pic /\ last.result \in {"invalid", "backend"}
  /\ unit' = None /\ broken' = (broken \/ (unit.ref /\ ~Recorded))
  /\ UNCHANGED <<session, stream, slots, occupied, outstanding, surface, prevPoc, pending,
                 held, flushed, failures, last>>

----------------------------------------------------------------------------
(* Reference bookkeeping, relative to the picture being decoded.            *)
FrameNumWrap_Mutant(n) == n                              \* mutant: never wraps
FrameNumWrap(n) == IF n > unit.frameNum THEN n - MaxFrameNum ELSE n

IsFirst(s, S) == s \in S /\ \A t \in S : s <= t

\* Mutant: the largest FrameNumWrap instead.
IsOldest_Mutant(s, sl) ==
  /\ s \in References(sl)
  /\ \A t \in References(sl) \ {s} :
       LET ws == FrameNumWrap(sl[s].frameNum)  wt == FrameNumWrap(sl[t].frameNum)
       IN ws > wt \/ (ws = wt /\ s < t)

\* The reference with the smallest FrameNumWrap, the first slot on a tie.
IsOldest(s, sl) ==
  /\ s \in References(sl)
  /\ \A t \in References(sl) \ {s} :
       LET ws == FrameNumWrap(sl[s].frameNum)  wt == FrameNumWrap(sl[t].frameNum)
       IN ws < wt \/ (ws = wt /\ s < t)

\* The head of RefPicList0: the largest FrameNumWrap, the first slot on a tie.
IsHeadOfList0(s, sl) ==
  /\ s \in References(sl)
  /\ \A t \in References(sl) \ {s} :
       LET ws == FrameNumWrap(sl[s].frameNum)  wt == FrameNumWrap(sl[t].frameNum)
       IN ws > wt \/ (ws = wt /\ s < t)

\* Evicting every reference in slot order, up to the first one that is lent.
ClearAll(sl, lent) ==
  [s \in Slot |-> IF \E t \in References(sl) \cap lent : t <= s THEN sl[s] ELSE None]

PicOrderCntMsb(lsb, prev) ==
  LET half == MaxPicOrderCntLsb \div 2 IN
  IF lsb < prev.lsb /\ prev.lsb - lsb >= half THEN prev.msb + MaxPicOrderCntLsb
  ELSE IF lsb > prev.lsb /\ lsb - prev.lsb > half THEN prev.msb - MaxPicOrderCntLsb
  ELSE prev.msb

\* The session's (msb, lsb) once the unit's order count is derived.
UnitPoc == [msb |-> PicOrderCntMsb(unit.lsb, IF unit.kind = "idr" THEN NoPoc ELSE prevPoc),
            lsb |-> unit.lsb]
PocValue(p) == p.msb + p.lsb

\* Mutant: records the frame_num expected next.
RefEntry_Mutant == [pic |-> unit.pic, frameNum |-> unit.frameNum + 1, poc |-> PocValue(UnitPoc)]
RefEntry == [pic |-> unit.pic, frameNum |-> unit.frameNum, poc |-> PocValue(UnitPoc)]

----------------------------------------------------------------------------
(* How a push ends.                                                         *)
Ends(result, found) ==
  last' = [result |-> result, pic |-> unit.pic, kind |-> unit.kind, wants |-> unit.wants,
           found |-> found, poc |-> PocValue(UnitPoc), truePoc |-> unit.poc]

\* An IDR picture the session decodes makes the stream whole again.
Resumes == broken' = ((broken \/ Repeated) /\ unit.kind # "idr")

\* What the surface a P picture predicts from holds when decoding starts.
Found(from) == IF from = None THEN 0 ELSE surface[from]

Refuses(result) ==
  /\ Ends(result, 0) /\ broken' = (broken \/ Repeated)
  /\ UNCHANGED <<unit, surface, pending, failures>>

\* The hardware reports an error part way: the surface holds no picture.
Fails(dst) ==
  /\ failures < MaxFailures /\ failures' = failures + 1
  /\ surface' = [surface EXCEPT ![dst] = 0]
  /\ Ends("backend", 0) /\ broken' = (broken \/ Repeated)
  /\ UNCHANGED <<unit, pending>>

\* Mutant: queued at the wrong end.
Delivers_Mutant(dst, from) ==
  /\ surface' = [surface EXCEPT ![dst] = unit.pic]
  /\ pending' = <<[pic |-> unit.pic, slot |-> IF Lends THEN dst ELSE None]>> \o pending
  /\ unit' = None /\ Resumes
  /\ Ends("ok", Found(from))
  /\ UNCHANGED failures

\* The picture is decoded into dst and queued.
Delivers(dst, from) ==
  /\ surface' = [surface EXCEPT ![dst] = unit.pic]
  /\ pending' = Append(pending, [pic |-> unit.pic, slot |-> IF Lends THEN dst ELSE None])
  /\ unit' = None /\ Resumes
  /\ Ends("ok", Found(from))
  /\ UNCHANGED failures

\* The picture is decoded, and recorded if it is a reference, but reading it back fails:
\* it is not queued, and the caller has it in hand still.
LosesOutput(dst) ==
  /\ failures < MaxFailures /\ failures' = failures + 1
  /\ surface' = [surface EXCEPT ![dst] = unit.pic]
  /\ Ends("backend", 0) /\ Resumes
  /\ UNCHANGED <<unit, pending>>

Flush ==
  /\ ~flushed /\ flushed' = TRUE
  /\ UNCHANGED <<session, stream, unit, broken, slots, occupied, surface, prevPoc, pending,
                 failures, last>>
=============================================================================
