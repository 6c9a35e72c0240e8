---------------------------- MODULE MCReplayRing ----------------------------
(* ReplayRing on small instances: a video anchor of 2 nanos a tick, and an   *)
(* audio stream whose tick, 5/2 nanos, makes the conversions round.          *)
EXTENDS ReplayRing

MCNum == [s \in Streams |-> IF s = Anchor THEN 2 ELSE 5]
MCDen == [s \in Streams |-> IF s = Anchor THEN 1 ELSE 2]
MCCeilings == {NoCeiling, 4}
=============================================================================
