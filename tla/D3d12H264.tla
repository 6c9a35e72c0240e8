----------------------------- MODULE D3d12H264 -----------------------------
(* The D3D12 session: windows/d3d12_video_decode.rs over its dpb.rs and     *)
(* h264_refs.rs. Slots are Free or Occupied apart from being references;    *)
(* the sliding window runs before the picture is decoded; the caller gives  *)
(* each zero-copy frame back with release_output.                           *)
EXTENDS H264Session

D3d12Slot == 0 .. (MaxRefFrames + CallerHeadroom)

\* SlotTable::references is References(slots). sliding_window_evict:
D3d12Evicts(s) ==
  /\ unit.ref /\ unit.kind # "idr" /\ Cardinality(References(slots)) >= MaxRefFrames
  /\ IsOldest(s, slots)

\* The references, and the slots in use, left once the marking is done.
D3d12Marked ==
  IF unit.kind = "idr" THEN ClearAll(slots, outstanding)
  ELSE [s \in Slot |-> IF D3d12Evicts(s) /\ s \notin outstanding THEN None ELSE slots[s]]
D3d12InUse == occupied \ (References(slots) \ References(D3d12Marked))

D3d12Blocked ==
  \E s \in References(slots) \cap outstanding : unit.kind = "idr" \/ D3d12Evicts(s)

D3d12Refuses(result) ==
  /\ Refuses(result) /\ slots' = D3d12Marked /\ occupied' = D3d12InUse
  /\ UNCHANGED <<outstanding, prevPoc>>

D3d12Decodes(dst, from) ==
  LET kept == [D3d12Marked EXCEPT ![dst] = IF unit.ref THEN RefEntry ELSE None]
      poc == IF unit.ref THEN UnitPoc ELSE prevPoc
  IN
  \/ /\ Fails(dst) /\ slots' = D3d12Marked /\ occupied' = D3d12InUse \cup {dst}
     /\ UNCHANGED <<outstanding, prevPoc>>
  \/ /\ Delivers(dst, from) /\ slots' = kept /\ prevPoc' = poc
     /\ outstanding' = IF Lends THEN outstanding \cup {dst} ELSE outstanding
     /\ occupied' = IF Lends \/ unit.ref THEN D3d12InUse \cup {dst} ELSE D3d12InUse
  \/ /\ ~Lends /\ LosesOutput(dst) /\ slots' = kept /\ prevPoc' = poc
     /\ occupied' = D3d12InUse \cup {dst} /\ UNCHANGED outstanding

D3d12Push ==
  /\ Backend("d3d12") /\ unit # None
  /\ IF flushed
     THEN /\ last.result # "closed" /\ Refuses("closed")
          /\ UNCHANGED <<slots, occupied, outstanding, prevPoc>>
     ELSE IF D3d12Blocked THEN D3d12Refuses("backend")
     ELSE IF unit.kind = "p" /\ References(D3d12Marked) = {} THEN D3d12Refuses("invalid")
     ELSE IF D3d12Slot \subseteq D3d12InUse THEN D3d12Refuses("backend")
     ELSE \E dst \in D3d12Slot, from \in D3d12Slot \cup {None} :
            /\ IsFirst(dst, D3d12Slot \ D3d12InUse)
            /\ IF unit.kind = "p" THEN from # None /\ IsHeadOfList0(from, D3d12Marked)
               ELSE from = None
            /\ D3d12Decodes(dst, from)
  /\ UNCHANGED <<session, stream, held, flushed>>

D3d12Poll ==
  /\ Backend("d3d12") /\ pending # <<>>
  /\ held' = (IF Lends THEN held \cup {Head(pending)} ELSE held) /\ pending' = Tail(pending)
  /\ UNCHANGED <<session, stream, unit, broken, slots, occupied, outstanding, surface, prevPoc,
                 flushed, failures, last>>

\* release_output, SlotTable::release_handle
D3d12Release(f) ==
  /\ Backend("d3d12") /\ f \in held
  /\ held' = held \ {f} /\ outstanding' = outstanding \ {f.slot}
  /\ occupied' = IF slots[f.slot] = None THEN occupied \ {f.slot} ELSE occupied
  /\ UNCHANGED <<session, stream, unit, broken, slots, surface, prevPoc, pending, flushed,
                 failures, last>>

D3d12Flush ==
  /\ Backend("d3d12") /\ Flush
  /\ UNCHANGED <<held, outstanding>>
=============================================================================
