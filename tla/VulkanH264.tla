----------------------------- MODULE VulkanH264 ----------------------------
(* The Vulkan Video session: vulkan/decoder.rs over vulkan/dpb.rs. Same DPB *)
(* as VA-API's within what the device offers, but a slot without a          *)
(* reference counts as free even while its frame is lent, and no call ever  *)
(* clears the outstanding mark.                                             *)
EXTENDS H264Session

VulkanSlot == 0 .. (Capped(Capped(MaxRefFrames + 1, session.deviceSlots), MaxDpbSlots) - 1)

VulkanAllocates(dst, sl) ==
  LET free == {s \in VulkanSlot : sl[s] = None} IN
  IF free # {} THEN IsFirst(dst, free)
  ELSE IsOldest(dst, sl) /\ dst \notin outstanding

VulkanClosed ==
  /\ flushed /\ unit # None /\ last.result # "closed"
  /\ Refuses("closed") /\ UNCHANGED <<slots, outstanding, prevPoc>>

VulkanIdrRefused ==
  /\ ~flushed /\ unit # None /\ unit.kind = "idr"
  /\ References(slots) \cap outstanding # {}
  /\ slots' = ClearAll(slots, outstanding)
  /\ Refuses("backend") /\ UNCHANGED <<outstanding, prevPoc>>

\* The reference is recorded before the picture is read back or lent; a
\* reference is refused when its slot is still marked.
VulkanDecodes(dst, from, sl) ==
  LET evicted == [sl EXCEPT ![dst] = None]
      kept == [sl EXCEPT ![dst] = IF unit.ref THEN RefEntry ELSE None]
  IN
  \/ Fails(dst) /\ slots' = evicted /\ UNCHANGED outstanding
  \/ IF unit.ref /\ dst \in outstanding
     THEN /\ surface' = [surface EXCEPT ![dst] = unit.pic] /\ slots' = evicted
          /\ Ends("backend", 0) /\ broken' = (broken \/ Repeated)
          /\ UNCHANGED <<unit, pending, failures, outstanding>>
     ELSE \/ /\ Delivers(dst, from) /\ slots' = kept
             /\ outstanding' = IF Lends THEN outstanding \cup {dst} ELSE outstanding
          \/ ~Lends /\ LosesOutput(dst) /\ slots' = kept /\ UNCHANGED outstanding

\* A P picture without any reference is decoded all the same.
VulkanDecode ==
  LET sl == IF unit.kind = "idr" THEN ClearAll(slots, outstanding) ELSE slots IN
  /\ ~flushed /\ unit # None
  /\ unit.kind = "idr" => References(slots) \cap outstanding = {}
  /\ prevPoc' = IF unit.ref THEN UnitPoc ELSE prevPoc
  /\ IF \A dst \in VulkanSlot : ~VulkanAllocates(dst, sl)
     THEN Refuses("backend") /\ slots' = sl /\ UNCHANGED outstanding
     ELSE \E dst \in VulkanSlot, from \in VulkanSlot \cup {None} :
            /\ VulkanAllocates(dst, sl)
            /\ IF unit.kind = "p" /\ References(sl) # {}
               THEN from # None /\ IsHeadOfList0(from, sl) ELSE from = None
            /\ VulkanDecodes(dst, from, sl)

\* The contract lets the caller read a polled frame until its next call.
VulkanPush ==
  /\ Backend("vulkan") /\ held' = {}
  /\ VulkanClosed \/ VulkanIdrRefused \/ VulkanDecode
  /\ UNCHANGED <<session, stream, occupied, flushed>>

VulkanPoll ==
  /\ Backend("vulkan") /\ pending # <<>>
  /\ held' = (IF Lends THEN {Head(pending)} ELSE {}) /\ pending' = Tail(pending)
  /\ UNCHANGED <<session, stream, unit, broken, slots, occupied, outstanding, surface, prevPoc,
                 flushed, failures, last>>

VulkanFlush ==
  /\ Backend("vulkan") /\ Flush
  /\ held' = {} /\ UNCHANGED outstanding
=============================================================================
