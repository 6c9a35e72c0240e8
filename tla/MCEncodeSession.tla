-------------------------- MODULE MCEncodeSession --------------------------
(* EncodeSession on small instances: video is track 0, audio AAC, track 1.  *)
EXTENDS EncodeSession

AacTracks == {1}

\* Sessions without audio, and with audio, whose encoders know their
\* configuration when opened, once they have encoded, or in their packets.
Sessions == {[t \in {0, 1} |-> IF t = 0 THEN r[1] ELSE r[2]] :
               r \in {<<"late", None>>, <<"inband", None>>, <<"open", "inband">>}}
FramesOf == [t \in {0, 1} |-> 3 - t]
=============================================================================
