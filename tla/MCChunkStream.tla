--------------------------- MODULE MCChunkStream ----------------------------
(* ChunkStream with one stream on which everything about a message changes,  *)
(* and another to interleave it with.                                        *)
EXTENDS ChunkStream

Call(c, type, stream, time, len) ==
  [csid |-> c, type |-> type, stream |-> stream, time |-> time, len |-> len, value |-> 0]

\* Times 0, 7, 6 and 6, 7, 0 are steps of an equal delta, one of them extended.
MCCalls == {Call("media", "video", 1, t, 3) : t \in {0, 6, 7}}
           \cup {Call("media", "video", 1, 0, 0), Call("media", "video", 0, 0, 3),
                 Call("media", "command", 1, 0, 3), Call("other", "audio", 1, 0, 5)}
=============================================================================
