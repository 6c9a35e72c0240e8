--------------------------- MODULE MCH264Decoders --------------------------
(* H264Decoders on small instances.                                         *)
EXTENDS H264Decoders

Opened(backend, output, refs, frameNums) ==
  [backend |-> backend, output |-> output, maxRefFrames |-> refs, maxFrameNum |-> frameNums,
   deviceSlots |-> 2]

Several == {Opened("vaapi", "cpu", 1, 3), Opened("vaapi", "gpu", 1, 3),
            Opened("vaapi", "gpu", 2, 4), Opened("vulkan", "cpu", 1, 3),
            Opened("vulkan", "cpu", 2, 4),
            Opened("d3d12", "cpu", 2, 3), Opened("d3d12", "gpu", 2, 3)}
Lending == {Opened("vulkan", "gpu", 2, 4)}

AnyKind == {<<"idr", TRUE>>, <<"i", TRUE>>, <<"i", FALSE>>, <<"p", TRUE>>, <<"p", FALSE>>}
=============================================================================
