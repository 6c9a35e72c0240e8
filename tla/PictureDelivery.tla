-------------------------- MODULE PictureDelivery --------------------------
(* What a video decoder promises its caller (the VideoDecoder trait,        *)
(* mediaway-decoder/src/video.rs): pictures come out in the order they went *)
(* in, each at most once, and a picture once out does not change until the  *)
(* caller gives it back. A picture is its position in the stream.           *)
EXTENDS Naturals, Sequences

VARIABLES taken,  \* pictures the decoder has finished with
          queue,  \* what the frames waiting to be polled show
          lent    \* what the frames the caller is reading show

Init == taken = 0 /\ queue = <<>> /\ lent = {}

\* The next picture is decoded, or given up; any call may end a loan.
Finish ==
  /\ taken' = taken + 1
  /\ queue' \in {queue, Append(queue, taken + 1)}
  /\ lent' \subseteq lent

Poll ==
  /\ queue # <<>> /\ queue' = Tail(queue)
  /\ lent' \subseteq lent \cup {Head(queue)}
  /\ UNCHANGED taken

Return == lent' \subseteq lent /\ UNCHANGED <<taken, queue>>

Next == Finish \/ Poll \/ Return

Spec == Init /\ [][Next]_<<taken, queue, lent>>
=============================================================================
