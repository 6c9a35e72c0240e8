-------------------------- MODULE MCWasapiPlayback --------------------------
(* WasapiPlayback on small instances: frames of two samples, of one, and,    *)
(* as write_frame takes them too, of none.                                   *)
EXTENDS WasapiPlayback

Sizes == 0 .. 2
=============================================================================
