----------------------------- MODULE VaapiH264 -----------------------------
(* The VA-API session: linux/vaapi/h264.rs over linux/vaapi/dpb.rs. The DPB *)
(* has one slot more than the stream has references, but never more than    *)
(* MaxDpbSlots. A frame polled in zero-copy mode is taken back by the next  *)
(* call, whatever that call is.                                             *)
EXTENDS H264Session

VaapiSlot == 0 .. (Capped(MaxRefFrames + 1, MaxDpbSlots) - 1)

\* release_previous_gpu_export
VaapiTakesBack == held' = {}
\* Mutant: taken back only from slots that are not references.
VaapiLent_Mutant == outstanding \ {f.slot : f \in {g \in held : slots[g.slot] = None}}
VaapiLent == outstanding \ {f.slot : f \in held}

\* Mutant: a lent slot without a reference counts as free.
VaapiAllocates_Mutant(dst, sl) ==
  LET free == {s \in VaapiSlot : sl[s] = None} IN
  IF free # {} THEN IsFirst(dst, free)
  ELSE IsOldest(dst, sl) /\ dst \notin VaapiLent

\* Dpb::free_slot_index, then the sliding window.
VaapiAllocates(dst, sl) ==
  LET free == {s \in VaapiSlot : sl[s] = None /\ s \notin VaapiLent} IN
  IF free # {} THEN IsFirst(dst, free)
  ELSE IsOldest(dst, sl) /\ dst \notin VaapiLent

VaapiClosed ==
  /\ flushed /\ unit # None /\ last.result # "closed"
  /\ VaapiTakesBack /\ outstanding' = VaapiLent
  /\ Refuses("closed") /\ UNCHANGED <<slots, prevPoc>>

\* An IDR picture finds a reference lent: what was evicted so far stays so.
VaapiIdrRefused ==
  /\ ~flushed /\ unit # None /\ unit.kind = "idr"
  /\ References(slots) \cap VaapiLent # {}
  /\ slots' = ClearAll(slots, VaapiLent)
  /\ VaapiTakesBack /\ outstanding' = VaapiLent
  /\ Refuses("backend") /\ UNCHANGED prevPoc

VaapiDecodes(dst, from, sl) ==
  \/ /\ Fails(dst)
     /\ slots' = [sl EXCEPT ![dst] = None] /\ outstanding' = VaapiLent
  \/ /\ Delivers(dst, from)
     /\ slots' = [sl EXCEPT ![dst] = IF unit.ref THEN RefEntry ELSE None]
     /\ outstanding' = IF Lends THEN VaapiLent \cup {dst} ELSE VaapiLent

VaapiDecode ==
  LET sl == IF unit.kind = "idr" THEN ClearAll(slots, VaapiLent) ELSE slots IN
  /\ ~flushed /\ unit # None
  /\ unit.kind = "idr" => References(slots) \cap VaapiLent = {}
  /\ VaapiTakesBack
  /\ prevPoc' = IF unit.ref THEN UnitPoc ELSE prevPoc
  /\ IF unit.kind = "p" /\ References(sl) = {}
     THEN Refuses("invalid") /\ slots' = sl /\ outstanding' = VaapiLent
     ELSE IF \A dst \in VaapiSlot : ~VaapiAllocates(dst, sl)
     THEN Refuses("backend") /\ slots' = sl /\ outstanding' = VaapiLent
     ELSE \E dst \in VaapiSlot, from \in VaapiSlot \cup {None} :
            /\ VaapiAllocates(dst, sl)
            /\ IF unit.kind = "p" THEN from # None /\ IsHeadOfList0(from, sl) ELSE from = None
            /\ VaapiDecodes(dst, from, sl)

VaapiPush ==
  /\ Backend("vaapi")
  /\ VaapiClosed \/ VaapiIdrRefused \/ VaapiDecode
  /\ UNCHANGED <<session, stream, occupied, flushed>>

VaapiPoll ==
  /\ Backend("vaapi") /\ (pending # <<>> \/ held # {})
  /\ outstanding' = VaapiLent
  /\ IF pending = <<>> THEN held' = {} /\ UNCHANGED pending
     ELSE held' = (IF Lends THEN {Head(pending)} ELSE {}) /\ pending' = Tail(pending)
  /\ UNCHANGED <<session, stream, unit, broken, slots, occupied, surface, prevPoc, flushed,
                 failures, last>>

VaapiFlush ==
  /\ Backend("vaapi") /\ Flush
  /\ VaapiTakesBack /\ outstanding' = VaapiLent
=============================================================================
