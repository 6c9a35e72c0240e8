-------------------------- MODULE MCHotplugBridge --------------------------
(* HotplugBridge on small instances.                                        *)
EXTENDS HotplugBridge, TLC
=============================================================================
