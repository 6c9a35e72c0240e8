---------------------------- MODULE H264Decoders ---------------------------
(* The hardware H.264 sessions together: one session of one backend, a      *)
(* caller that pushes a legal stream, polls, may give up on a picture the   *)
(* session refused, and flushes.                                            *)
EXTENDS VaapiH264, VulkanH264, D3d12H264

Push == VaapiPush \/ VulkanPush \/ D3d12Push
Poll == VaapiPoll \/ VulkanPoll \/ D3d12Poll
Release == \E f \in held : D3d12Release(f)

Next ==
  \/ \E k \in Kinds : NextUnit(k[1], k[2])
  \/ Skip
  \/ VaapiPush \/ VaapiPoll \/ VaapiFlush
  \/ VulkanPush \/ VulkanPoll \/ VulkanFlush
  \/ D3d12Push \/ D3d12Poll \/ D3d12Flush
  \/ \E f \in held : D3d12Release(f)

Spec == Init /\ [][Next]_vars

\* The caller keeps pushing what it has in hand, drains, and gives its frames
\* back; nothing makes it flush, skip or go on with the stream.
FairSpec == Spec /\ WF_vars(Push) /\ WF_vars(Poll) /\ WF_vars(Release)

----------------------------------------------------------------------------
Frames == {pending[i] : i \in DOMAIN pending} \cup held

\* A frame waiting to be polled or being read by the caller still shows the
\* picture it was made for: no later picture is decoded over it.
LoanKept == \A f \in Frames : f.slot # None => surface[f.slot] = f.pic

\* The sessions whose DPB can keep every reference of the stream: it has a slot for each,
\* and one for the picture being decoded, even in a stream of as many references as a DPB
\* has slots. VA-API's cannot once frames lent for non-reference pictures fill it: the next
\* picture evicts a reference for want of a slot. D3D12's cannot in a stream of one
\* reference frame, which it evicts before it predicts from it. And no DPB can hold as many
\* as there are frame_nums: the oldest would count as the newest.
KeepsWindow ==
  /\ Backend("vaapi") => ~Lends /\ MaxRefFrames \in VaapiSlot
  /\ Backend("vulkan") => MaxRefFrames \in VulkanSlot
  /\ Backend("d3d12") => MaxRefFrames > 1
  /\ MaxRefFrames + (IF Backend("d3d12") THEN 0 ELSE 1) < MaxFrameNum

\* In a session whose DPB is large enough, and since an IDR picture after which no reference
\* was given up before it was recorded, nor pushed again after: a P picture is predicted from
\* the picture its encoder predicted it from, and every picture gets the output order its
\* encoder gave it, though its push was refused, or its pixels lost, any number of times
\* before; none is called invalid.
IntactExact ==
  KeepsWindow /\ ~broken =>
    /\ last.result # "invalid"
    /\ last.result = "ok" => last.found = last.wants /\ last.poc = last.truePoc

\* Every reference the encoder may still use is in the DPB.
HoldsWindow ==
  \A i \in DOMAIN stream.window :
    \E s \in References(slots) : slots[s].pic = stream.window[i] /\ surface[s] = stream.window[i]

\* So it is in those sessions whenever they are between two pictures.
WindowHeld == KeepsWindow /\ ~broken /\ unit = None => HoldsWindow

\* A push that is refused goes through once the caller has drained, unless the
\* picture has no reference.
Unanswered == unit # None /\ ~flushed /\ ~(last.result = "invalid" /\ last.pic = unit.pic)
BackpressureClears == Unanswered ~> ~Unanswered

\* The sessions keep the VideoDecoder trait's promise: frames come out in order,
\* once, and show the same picture from the push that made them until the call
\* that ends the loan.
Shows(f) == IF f.slot = None THEN f.pic ELSE surface[f.slot]
Delivery == INSTANCE PictureDelivery WITH
  taken <- IF unit = None THEN stream.pics ELSE stream.pics - 1,
  queue <- [i \in DOMAIN pending |-> Shows(pending[i])],
  lent <- {Shows(f) : f \in held}
RefinesDelivery == Delivery!Spec
=============================================================================
