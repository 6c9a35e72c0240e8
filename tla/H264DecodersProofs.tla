------------------------- MODULE H264DecodersProofs -------------------------
(* Theorems about H264Decoders: any sessions, any headroom, any number of    *)
(* pictures and of device errors.                                            *)
EXTENDS H264Decoders, SequenceTheorems, FiniteSetTheorems, TLAPS

-----------------------------------------------------------------------------
(* The inductive invariant.                                                  *)

\* A lent surface is marked, and shows the picture it was lent for.
FramesLent ==
  \A f \in Frames : f.slot # None => f.slot \in outstanding /\ surface[f.slot] = f.pic

\* Frames are queued in stream order, behind those the caller has.
FramesInOrder ==
  /\ \A i, j \in DOMAIN pending : i < j => pending[i].pic < pending[j].pic
  /\ \A f \in held, i \in DOMAIN pending : f.pic < pending[i].pic
  /\ \A f \in Frames : f.pic <= stream.pics

\* The picture being pushed is the newest, and not decoded yet.
UnitIsNewest == unit # None => unit.pic = stream.pics /\ \A f \in Frames : f.pic < unit.pic

CopiesHaveNoSlot == ~Lends => \A f \in Frames : f.slot = None

\* D3D12: what the caller may hold is not free.
LentInUse == Backend("d3d12") => outstanding \subseteq occupied

\* Vulkan with GPU output lends slots without keeping track of them.
KeepsLoans == ~(Backend("vulkan") /\ Lends)

LoanInv == FramesLent /\ FramesInOrder /\ UnitIsNewest /\ CopiesHaveNoSlot /\ LentInUse
IInv == TypeOK /\ (KeepsLoans => LoanInv)

-----------------------------------------------------------------------------
(* Types.                                                                    *)

\* The bounds of the stream's parameters and of the DPB.
LEMMA Bounds ==
  ASSUME TypeOK
  PROVE  /\ MaxRefFrames \in Nat \ {0} /\ MaxFrameNum \in Nat \ {0}
         /\ session.deviceSlots \in Nat \ {0} /\ MaxDpbSlots \in Nat \ {0}
         /\ CallerHeadroom \in Nat /\ LastSlot \in Nat
         /\ MaxRefFrames + CallerHeadroom <= LastSlot
         /\ MaxPicOrderCntLsb \in Nat \ {0} /\ MaxPictures \in Nat /\ MaxFailures \in Nat
         /\ None \notin Nat
  BY H264Assumption DEF TypeOK, SessionKind, MaxRefFrames, MaxFrameNum

\* A pool of no more than n + 1 slots numbers them 0 .. n, and has all of them if n is one.
LEMMA PoolFits ==
  ASSUME NEW n \in Nat, NEW a \in Nat \ {0}, NEW b \in Nat \ {0}
  PROVE  LET one == 0 .. (Capped(n + 1, a) - 1)
             two == 0 .. (Capped(Capped(n + 1, b), a) - 1)
         IN /\ one \subseteq 0 .. n /\ (n \in one => one = 0 .. n)
            /\ two \subseteq 0 .. n /\ (n \in two => two = 0 .. n)
<1> DEFINE x == Capped(n + 1, a)
           y == Capped(n + 1, b)
           z == Capped(y, a)
<1>1. x \in 1 .. n + 1 /\ y \in 1 .. n + 1
  BY DEF Capped
<1>2. z \in 1 .. n + 1
  <2> HIDE DEF y
  <2> QED
    BY <1>1 DEF Capped
<1> HIDE DEF x, y, z
<1>3. \A k \in 1 .. n + 1 : 0 .. (k - 1) \subseteq 0 .. n
                            /\ (n \in 0 .. (k - 1) => 0 .. (k - 1) = 0 .. n)
  <2> TAKE k \in 1 .. n + 1
  <2>1. n \in 0 .. (k - 1) => k = n + 1
    OBVIOUS
  <2> QED
    BY <2>1
<1> QED
  BY <1>1, <1>2, <1>3 DEF x, y, z

\* A session's slots are among the model's.
LEMMA SlotsFit ==
  ASSUME TypeOK
  PROVE  /\ VaapiSlot \subseteq Slot /\ VulkanSlot \subseteq Slot /\ D3d12Slot \subseteq Slot
         /\ 0 .. MaxRefFrames \subseteq Slot
         /\ VaapiSlot \subseteq 0 .. MaxRefFrames /\ VulkanSlot \subseteq 0 .. MaxRefFrames
         /\ MaxRefFrames \in VaapiSlot => VaapiSlot = 0 .. MaxRefFrames
         /\ MaxRefFrames \in VulkanSlot => VulkanSlot = 0 .. MaxRefFrames
<1>1. 0 .. MaxRefFrames \subseteq Slot /\ D3d12Slot \subseteq Slot
  BY Bounds DEF D3d12Slot, Slot
<1>2. /\ VaapiSlot \subseteq 0 .. MaxRefFrames /\ VulkanSlot \subseteq 0 .. MaxRefFrames
      /\ MaxRefFrames \in VaapiSlot => VaapiSlot = 0 .. MaxRefFrames
      /\ MaxRefFrames \in VulkanSlot => VulkanSlot = 0 .. MaxRefFrames
  BY Bounds, PoolFits DEF VaapiSlot, VulkanSlot
<1> QED
  BY <1>1, <1>2

\* The order count derived for a unit, and the entry its reference gets.
LEMMA UnitTyped ==
  ASSUME TypeOK, unit # None
  PROVE  /\ unit \in Unit
         /\ UnitPoc \in [msb : Int, lsb : Nat]
         /\ PocValue(UnitPoc) \in Int
         /\ RefEntry \in Reference
<1> USE Bounds
<1>1. unit \in Unit
  BY DEF TypeOK
<1>2. prevPoc.msb \in Int /\ prevPoc.lsb \in Nat
  BY DEF TypeOK
<1>3. unit.lsb \in 0 .. MaxPicOrderCntLsb - 1
  BY <1>1 DEF Unit
<1>4. \A p : p.msb \in Int /\ p.lsb \in Nat => PicOrderCntMsb(unit.lsb, p) \in Int
  BY <1>3 DEF PicOrderCntMsb
<1>5. NoPoc.msb \in Int /\ NoPoc.lsb \in Nat
  BY DEF NoPoc
<1>6. UnitPoc.msb \in Int /\ UnitPoc.lsb = unit.lsb
  BY <1>2, <1>4, <1>5 DEF UnitPoc
<1>7. UnitPoc \in [msb : Int, lsb : Nat]
  BY <1>3, <1>6 DEF UnitPoc
<1>8. PocValue(UnitPoc) \in Int
  BY <1>3, <1>6 DEF PocValue
<1>9. RefEntry \in Reference
  BY <1>1, <1>8 DEF RefEntry, Reference, Unit
<1> QED
  BY <1>1, <1>7, <1>8, <1>9

\* What the outcome of a push leaves typed.
OutcomeTyped ==
  /\ unit' \in Unit \cup {None} /\ broken' \in BOOLEAN
  /\ surface' \in [Slot -> 0 .. MaxPictures]
  /\ pending' \in Seq(Frame) /\ failures' \in 0 .. MaxFailures /\ last' \in Verdict

\* A call that ends keeps its result and the queue typed.
LEMMA EndsTyped ==
  ASSUME TypeOK, unit # None, NEW found \in 0 .. MaxPictures,
         NEW result \in {"none", "ok", "invalid", "backend", "closed"}, Ends(result, found)
  PROVE  last' \in Verdict
<1>1. unit.pic \in 0 .. MaxPictures /\ unit.wants \in 0 .. MaxPictures
      /\ unit.kind \in {"idr", "i", "p"} /\ unit.poc \in Int
  BY UnitTyped, Bounds DEF Unit, Picture
<1> QED
  BY <1>1, UnitTyped DEF Ends, Verdict

\* A refusal keeps every type.
LEMMA RefusesTyped ==
  ASSUME TypeOK, unit # None,
         NEW result \in {"none", "ok", "invalid", "backend", "closed"}, Refuses(result)
  PROVE  OutcomeTyped
<1>1. last' \in Verdict
  <2>1. 0 \in 0 .. MaxPictures
    BY Bounds
  <2> QED
    BY <2>1, EndsTyped DEF Refuses
<1>2. broken' \in BOOLEAN
  BY DEF Refuses
<1> QED
  BY <1>1, <1>2 DEF Refuses, OutcomeTyped, TypeOK

\* A device error keeps every type.
LEMMA FailsTyped ==
  ASSUME TypeOK, unit # None, NEW dst \in Slot, Fails(dst)
  PROVE  OutcomeTyped
<1>1. 0 \in 0 .. MaxPictures
  BY Bounds
<1>2. last' \in Verdict
  BY <1>1, EndsTyped DEF Fails
<1>3. failures' \in 0 .. MaxFailures
  BY SMTT(30), Bounds DEF Fails, TypeOK
<1>4. surface' \in [Slot -> 0 .. MaxPictures]
  BY <1>1 DEF Fails, TypeOK
<1>5. broken' \in BOOLEAN
  BY DEF Fails
<1> QED
  BY <1>2, <1>3, <1>4, <1>5 DEF Fails, OutcomeTyped, TypeOK

\* A picture that cannot be read back keeps every type.
LEMMA LosesOutputTyped ==
  ASSUME TypeOK, unit # None, NEW dst \in Slot, LosesOutput(dst)
  PROVE  OutcomeTyped
<1>1. 0 \in 0 .. MaxPictures
  BY Bounds
<1>2. last' \in Verdict
  BY <1>1, EndsTyped DEF LosesOutput
<1>3. failures' \in 0 .. MaxFailures
  BY SMTT(30), Bounds DEF LosesOutput, TypeOK
<1>4. unit.pic \in 0 .. MaxPictures
  BY UnitTyped, Bounds DEF Unit, Picture
<1>5. surface' \in [Slot -> 0 .. MaxPictures]
  BY <1>4 DEF LosesOutput, TypeOK
<1>6. broken' \in BOOLEAN
  BY DEF LosesOutput, Resumes
<1> QED
  BY <1>2, <1>3, <1>5, <1>6 DEF LosesOutput, OutcomeTyped, TypeOK

\* A delivery keeps every type.
LEMMA DeliversTyped ==
  ASSUME TypeOK, unit # None, NEW dst \in Slot, NEW from \in Slot \cup {None}, Delivers(dst, from)
  PROVE  OutcomeTyped
<1>1. Found(from) \in 0 .. MaxPictures
  BY Bounds DEF Found, TypeOK
<1>2. last' \in Verdict
  BY <1>1, EndsTyped DEF Delivers
<1>3. unit.pic \in Picture /\ unit.pic \in 0 .. MaxPictures
  BY UnitTyped, Bounds DEF Unit, Picture
<1>4. surface' \in [Slot -> 0 .. MaxPictures]
  BY <1>3 DEF Delivers, TypeOK
<1>5. [pic |-> unit.pic, slot |-> IF Lends THEN dst ELSE None] \in Frame
  BY <1>3 DEF Frame
<1>6. pending' \in Seq(Frame)
  BY <1>5, AppendProperties DEF Delivers, TypeOK
<1>7. broken' \in BOOLEAN /\ unit' = None
  BY DEF Delivers, Resumes
<1> QED
  BY <1>2, <1>4, <1>6, <1>7 DEF Delivers, OutcomeTyped, TypeOK

\* What a push leaves typed besides its outcome.
Bookkept ==
  /\ slots' \in [Slot -> Reference \cup {None}]
  /\ occupied' \subseteq Slot /\ outstanding' \subseteq Slot
  /\ prevPoc' \in [msb : Int, lsb : Nat] /\ held' \subseteq Frame

\* The types after any end of a push.
LEMMA PushTyped ==
  ASSUME TypeOK, OutcomeTyped, Bookkept, UNCHANGED <<session, stream, flushed>>
  PROVE  TypeOK'
<1>1. (Unit \cup {None})' = Unit \cup {None} /\ Reference' = Reference
  BY DEF Unit, Reference, MaxFrameNum
<1> QED
  BY <1>1 DEF TypeOK, OutcomeTyped, Bookkept

\* ClearAll keeps or evicts, and evicts all when none of them is lent.
LEMMA ClearAllTyped ==
  ASSUME NEW lent, NEW sl \in [Slot -> Reference \cup {None}]
  PROVE  ClearAll(sl, lent) \in [Slot -> Reference \cup {None}]
  BY DEF ClearAll

-----------------------------------------------------------------------------
(* What a push does: kept are the marks it leaves alone, into the slots it   *)
(* may decode into.                                                          *)

PushEffect(kept, into) ==
  /\ unit # None /\ UNCHANGED <<session, stream, flushed>>
  /\ OutcomeTyped /\ Bookkept /\ held' \subseteq held
  /\ \/ UNCHANGED <<unit, pending, surface>> /\ outstanding' = kept
     \/ \E dst \in into :
          /\ UNCHANGED <<unit, pending>> /\ outstanding' = kept
          /\ \A s \in Slot \ {dst} : surface'[s] = surface[s]
     \/ \E dst \in into, from \in Slot \cup {None} :
          Delivers(dst, from) /\ outstanding' = IF Lends THEN kept \cup {dst} ELSE kept

\* The types after a push, whatever its effect.
LEMMA EffectTyped ==
  ASSUME TypeOK, NEW kept, NEW into, PushEffect(kept, into)
  PROVE  TypeOK'
  BY PushTyped DEF PushEffect

\* A refusal, in any state of the books.
LEMMA RefusalEffect ==
  ASSUME TypeOK, unit # None, NEW kept, NEW into, UNCHANGED <<session, stream, flushed>>,
         Bookkept, held' \subseteq held, outstanding' = kept,
         NEW result \in {"none", "ok", "invalid", "backend", "closed"}, Refuses(result)
  PROVE  PushEffect(kept, into)
<1>1. OutcomeTyped
  BY RefusesTyped
<1> QED
  BY <1>1 DEF PushEffect, Refuses

\* A device error, or a picture lost in reading it back.
LEMMA LossEffect ==
  ASSUME TypeOK, unit # None, NEW kept, NEW into, UNCHANGED <<session, stream, flushed>>,
         Bookkept, held' \subseteq held, outstanding' = kept,
         NEW dst \in into \cap Slot, Fails(dst) \/ LosesOutput(dst)
  PROVE  PushEffect(kept, into)
<1>1. OutcomeTyped
  BY FailsTyped, LosesOutputTyped
<1>2. UNCHANGED <<unit, pending>> /\ \A s \in Slot \ {dst} : surface'[s] = surface[s]
  BY DEF Fails, LosesOutput, TypeOK
<1> QED
  BY <1>1, <1>2 DEF PushEffect

\* What a delivery does to the loans.
LEMMA DeliveryEffect ==
  ASSUME TypeOK, unit # None, NEW kept, NEW into, UNCHANGED <<session, stream, flushed>>,
         Bookkept, held' \subseteq held, NEW dst \in into \cap Slot, NEW from \in Slot \cup {None},
         Delivers(dst, from), outstanding' = IF Lends THEN kept \cup {dst} ELSE kept
  PROVE  PushEffect(kept, into)
<1>1. OutcomeTyped
  BY DeliversTyped
<1> QED
  BY <1>1 DEF PushEffect

-----------------------------------------------------------------------------
(* VA-API.                                                                   *)

\* What a VA-API push does: it refuses, fails or delivers into a slot that is
\* nobody's.
LEMMA VaapiPushEffect ==
  ASSUME TypeOK, VaapiPush
  PROVE  PushEffect(VaapiLent, Slot \ VaapiLent) /\ held' = {}
<1> DEFINE sl == IF unit.kind = "idr" THEN ClearAll(slots, VaapiLent) ELSE slots
<1> USE DEF VaapiPush
<1>1. unit # None /\ UNCHANGED <<session, stream, flushed>> /\ held' = {}
  BY DEF VaapiClosed, VaapiIdrRefused, VaapiDecode, VaapiTakesBack
<1>2. VaapiLent \subseteq Slot /\ occupied' \subseteq Slot
  BY DEF VaapiLent, TypeOK
<1>3. slots \in [Slot -> Reference \cup {None}] /\ prevPoc \in [msb : Int, lsb : Nat]
  BY DEF TypeOK
<1>4. UnitPoc \in [msb : Int, lsb : Nat] /\ RefEntry \in Reference
  BY <1>1, UnitTyped
<1>5. CASE VaapiClosed
  <2>1. Bookkept
    BY <1>1, <1>2, <1>3, <1>5 DEF VaapiClosed, Bookkept
  <2> QED
    BY <1>1, <1>5, <2>1, RefusalEffect DEF VaapiClosed
<1>6. CASE VaapiIdrRefused
  <2>1. Bookkept
    BY <1>1, <1>2, <1>3, <1>6, ClearAllTyped DEF VaapiIdrRefused, Bookkept
  <2> QED
    BY <1>1, <1>6, <2>1, RefusalEffect DEF VaapiIdrRefused
<1>7. CASE VaapiDecode
  <2>1. sl \in [Slot -> Reference \cup {None}]
    BY <1>3, ClearAllTyped
  <2>2. prevPoc' \in [msb : Int, lsb : Nat]
    BY <1>3, <1>4, <1>7 DEF VaapiDecode
  <2>3. \/ \E r \in {"invalid", "backend"} : Refuses(r) /\ slots' = sl /\ outstanding' = VaapiLent
        \/ \E dst \in VaapiSlot, from \in VaapiSlot \cup {None} :
             VaapiAllocates(dst, sl) /\ VaapiDecodes(dst, from, sl)
    BY <1>7 DEF VaapiDecode
  <2>4. CASE \E r \in {"invalid", "backend"} : Refuses(r) /\ slots' = sl /\ outstanding' = VaapiLent
    <3>1. Bookkept
      BY <1>1, <1>2, <2>1, <2>2, <2>4 DEF Bookkept
    <3> QED
      BY <1>1, <2>4, <3>1, RefusalEffect
  <2>5. ASSUME NEW dst \in VaapiSlot, NEW from \in VaapiSlot \cup {None},
               VaapiAllocates(dst, sl), VaapiDecodes(dst, from, sl)
        PROVE  PushEffect(VaapiLent, Slot \ VaapiLent)
    <3>1. dst \in Slot /\ from \in Slot \cup {None}
      BY SlotsFit
    <3>2. dst \notin VaapiLent
      BY <2>5 DEF VaapiAllocates, IsFirst
    <3> HIDE DEF sl
    <3>3. slots' \in [Slot -> Reference \cup {None}] /\ outstanding' \subseteq Slot
      BY <1>2, <1>4, <2>1, <2>5, <3>1 DEF VaapiDecodes
    <3>4. Bookkept
      BY <1>1, <1>2, <2>2, <3>3 DEF Bookkept
    <3> QED
      BY <1>1, <2>5, <3>1, <3>2, <3>4, LossEffect, DeliveryEffect DEF VaapiDecodes
  <2> QED
    BY <1>1, <2>3, <2>4, <2>5
<1> QED
  BY <1>1, <1>5, <1>6, <1>7

-----------------------------------------------------------------------------
(* Vulkan: it may decode into a slot that is lent.                           *)

\* The same of a Vulkan push.
LEMMA VulkanPushEffect ==
  ASSUME TypeOK, VulkanPush
  PROVE  PushEffect(outstanding, Slot)
<1> DEFINE sl == IF unit.kind = "idr" THEN ClearAll(slots, outstanding) ELSE slots
<1> USE DEF VulkanPush
<1>1. unit # None /\ UNCHANGED <<session, stream, flushed>> /\ held' \subseteq held
  BY DEF VulkanClosed, VulkanIdrRefused, VulkanDecode
<1>2. outstanding \subseteq Slot /\ occupied' \subseteq Slot /\ held' \subseteq Frame
  BY DEF TypeOK
<1>3. slots \in [Slot -> Reference \cup {None}] /\ prevPoc \in [msb : Int, lsb : Nat]
  BY DEF TypeOK
<1>4. UnitPoc \in [msb : Int, lsb : Nat] /\ RefEntry \in Reference
  BY <1>1, UnitTyped
<1>5. CASE VulkanClosed
  <2>1. Bookkept
    BY <1>2, <1>3, <1>5 DEF VulkanClosed, Bookkept
  <2> QED
    BY <1>1, <1>5, <2>1, RefusalEffect DEF VulkanClosed
<1>6. CASE VulkanIdrRefused
  <2>1. Bookkept
    BY <1>2, <1>3, <1>6, ClearAllTyped DEF VulkanIdrRefused, Bookkept
  <2> QED
    BY <1>1, <1>6, <2>1, RefusalEffect DEF VulkanIdrRefused
<1>7. CASE VulkanDecode
  <2>1. sl \in [Slot -> Reference \cup {None}]
    BY <1>3, ClearAllTyped
  <2>2. prevPoc' \in [msb : Int, lsb : Nat]
    BY <1>3, <1>4, <1>7 DEF VulkanDecode
  <2>3. \/ Refuses("backend") /\ slots' = sl /\ UNCHANGED outstanding
        \/ \E dst \in VulkanSlot, from \in VulkanSlot \cup {None} : VulkanDecodes(dst, from, sl)
    BY <1>7 DEF VulkanDecode
  <2>4. CASE Refuses("backend") /\ slots' = sl /\ UNCHANGED outstanding
    <3>1. Bookkept
      BY <1>2, <2>1, <2>2, <2>4 DEF Bookkept
    <3> QED
      BY <1>1, <2>4, <3>1, RefusalEffect
  <2>5. ASSUME NEW dst \in VulkanSlot, NEW from \in VulkanSlot \cup {None},
               VulkanDecodes(dst, from, sl)
        PROVE  PushEffect(outstanding, Slot)
    <3>1. dst \in Slot /\ from \in Slot \cup {None}
      BY SlotsFit
    <3> HIDE DEF sl
    <3>2. slots' \in [Slot -> Reference \cup {None}] /\ outstanding' \subseteq Slot
      BY <1>2, <1>4, <2>1, <2>5, <3>1 DEF VulkanDecodes
    <3>3. Bookkept
      BY <1>2, <2>2, <3>2 DEF Bookkept
    <3>4. CASE Fails(dst) /\ UNCHANGED outstanding
      BY <1>1, <3>1, <3>3, <3>4, LossEffect
    <3>5. CASE LosesOutput(dst) /\ UNCHANGED outstanding
      BY <1>1, <3>1, <3>3, <3>5, LossEffect
    <3>6. CASE /\ Delivers(dst, from)
               /\ outstanding' = IF Lends THEN outstanding \cup {dst} ELSE outstanding
      BY <1>1, <3>1, <3>3, <3>6, DeliveryEffect
    <3>7. CASE /\ surface' = [surface EXCEPT ![dst] = unit.pic] /\ Ends("backend", 0)
               /\ broken' = (broken \/ Repeated)
               /\ UNCHANGED <<unit, pending, failures, outstanding>>
      <4>1. 0 \in 0 .. MaxPictures /\ unit.pic \in 0 .. MaxPictures
        BY <1>1, UnitTyped, Bounds DEF Unit, Picture
      <4>2. last' \in Verdict
        BY <1>1, <3>7, <4>1, EndsTyped
      <4>3. surface' \in [Slot -> 0 .. MaxPictures]
            /\ \A s \in Slot \ {dst} : surface'[s] = surface[s]
        BY <3>7, <4>1 DEF TypeOK
      <4>4. OutcomeTyped
        BY <3>7, <4>2, <4>3 DEF OutcomeTyped, TypeOK, Repeated
      <4> QED
        BY <1>1, <3>1, <3>3, <3>7, <4>3, <4>4 DEF PushEffect
    <3> QED
      BY <2>5, <3>4, <3>5, <3>6, <3>7 DEF VulkanDecodes
  <2> QED
    BY <2>3, <2>4, <2>5
<1> QED
  BY <1>5, <1>6, <1>7

-----------------------------------------------------------------------------
(* D3D12: what is lent is in use, and marking frees none of it.              *)

\* Marking by the sliding window keeps the slots' type.
LEMMA MarkingTyped ==
  ASSUME TypeOK
  PROVE  D3d12Marked \in [Slot -> Reference \cup {None}]
<1>1. slots \in [Slot -> Reference \cup {None}]
  BY DEF TypeOK
<1> QED
  BY <1>1, ClearAllTyped DEF D3d12Marked

\* The slots left occupied by D3D12's marking include every lent one.
LEMMA LentStaysInUse ==
  ASSUME TypeOK, outstanding \subseteq occupied
  PROVE  outstanding \subseteq D3d12InUse /\ D3d12InUse \subseteq Slot
<1>1. ASSUME NEW s \in References(slots) \cap outstanding
      PROVE  s \in References(D3d12Marked)
  <2>1. s \in Slot /\ s <= s /\ slots[s] # None
    BY DEF References, Slot
  <2>2. ClearAll(slots, outstanding)[s] = slots[s]
    BY <2>1 DEF ClearAll
  <2>3. D3d12Marked[s] = slots[s]
    BY <2>1, <2>2 DEF D3d12Marked
  <2> QED
    BY <2>1, <2>3 DEF References
<1> QED
  BY <1>1 DEF D3d12InUse, TypeOK

\* The same of a D3D12 push.
LEMMA D3d12PushEffect ==
  ASSUME TypeOK, outstanding \subseteq occupied, D3d12Push
  PROVE  /\ PushEffect(outstanding, Slot \ outstanding) /\ held' = held
         /\ outstanding' \subseteq occupied'
<1> USE DEF D3d12Push
<1>1. unit # None /\ UNCHANGED <<session, stream, flushed, held>>
  OBVIOUS
<1>2. outstanding \subseteq Slot /\ occupied \subseteq Slot /\ held' \subseteq Frame
  BY DEF TypeOK
<1>3. slots \in [Slot -> Reference \cup {None}] /\ prevPoc \in [msb : Int, lsb : Nat]
  BY DEF TypeOK
<1>4. UnitPoc \in [msb : Int, lsb : Nat] /\ RefEntry \in Reference
  BY <1>1, UnitTyped
<1>5. outstanding \subseteq D3d12InUse /\ D3d12InUse \subseteq Slot
  BY LentStaysInUse
<1>6. D3d12Marked \in [Slot -> Reference \cup {None}]
  BY MarkingTyped
<1>7. CASE Refuses("closed") /\ UNCHANGED <<slots, occupied, outstanding, prevPoc>>
  <2>1. Bookkept
    BY <1>2, <1>3, <1>7 DEF Bookkept
  <2> QED
    BY <1>1, <1>7, <2>1, RefusalEffect
<1>8. ASSUME NEW r \in {"invalid", "backend"}, D3d12Refuses(r)
      PROVE  PushEffect(outstanding, Slot \ outstanding) /\ outstanding' \subseteq occupied'
  <2>1. Bookkept
    BY <1>2, <1>3, <1>5, <1>6, <1>8 DEF D3d12Refuses, Bookkept
  <2> QED
    BY <1>1, <1>5, <1>8, <2>1, RefusalEffect DEF D3d12Refuses
<1>9. ASSUME NEW dst \in D3d12Slot, NEW from \in D3d12Slot \cup {None},
             IsFirst(dst, D3d12Slot \ D3d12InUse), D3d12Decodes(dst, from)
      PROVE  PushEffect(outstanding, Slot \ outstanding) /\ outstanding' \subseteq occupied'
  <2>1. dst \in Slot \ outstanding /\ from \in Slot \cup {None}
    BY <1>5, <1>9, SlotsFit DEF IsFirst
  <2>2. slots' \in [Slot -> Reference \cup {None}] /\ prevPoc' \in [msb : Int, lsb : Nat]
    BY <1>3, <1>4, <1>6, <1>9, <2>1 DEF D3d12Decodes
  <2>3. occupied' \subseteq Slot /\ outstanding' \subseteq Slot /\ outstanding' \subseteq occupied'
    BY <1>2, <1>5, <1>9, <2>1 DEF D3d12Decodes
  <2>4. Bookkept
    BY <1>2, <2>2, <2>3 DEF Bookkept
  <2> QED
    BY <1>1, <1>9, <2>1, <2>3, <2>4, LossEffect, DeliveryEffect DEF D3d12Decodes
<1> QED
  BY <1>1, <1>7, <1>8, <1>9

-----------------------------------------------------------------------------
(* Loans.                                                                    *)

\* The invariant holds when a session is opened.
LEMMA InitInv == Init => IInv
<1> SUFFICES ASSUME Init PROVE IInv
  OBVIOUS
<1> USE H264Assumption DEF Init
<1>1. TypeOK
  <2>1. <<>> \in Seq(Picture) /\ <<>> \in Seq(Frame)
    BY EmptySeq
  <2>2. last \in Verdict /\ prevPoc \in [msb : Int, lsb : Nat]
    BY DEF Verdict, NoPoc
  <2>3. surface \in [Slot -> 0 .. MaxPictures] /\ slots \in [Slot -> Reference \cup {None}]
    OBVIOUS
  <2>4. stream \in [pics : 0 .. MaxPictures, refs : Nat, poc : Nat, refPoc : Nat,
                    window : Seq(Picture)]
    BY <2>1
  <2>5. pending \in Seq(Frame) /\ failures \in 0 .. MaxFailures
    BY <2>1
  <2> QED
    BY <2>2, <2>3, <2>4, <2>5 DEF TypeOK
<1>2. Frames = {}
  BY DEF Frames
<1>3. LoanInv
  BY <1>2 DEF LoanInv, FramesLent, FramesInOrder, UnitIsNewest, CopiesHaveNoSlot, LentInUse
<1> QED
  BY <1>1, <1>3 DEF IInv

\* The frames a push leaves as they are, and the marks that protect them.
Remaining == {pending[i] : i \in DOMAIN pending} \cup held'
Respects(kept, into) == \A f \in Remaining : f.slot # None => f.slot \in kept \ into

\* The frames a caller can be shown are pictures in slots of the session.
LEMMA FramesTyped ==
  ASSUME TypeOK
  PROVE  Frames \subseteq Frame
<1>1. pending \in Seq(Frame) /\ held \subseteq Frame
  BY DEF TypeOK
<1>2. \A i \in DOMAIN pending : pending[i] \in Frame
  BY <1>1, LenProperties, ElementOfSeq
<1> QED
  BY <1>1, <1>2 DEF Frames

\* A push keeps what is known of the loans.
LEMMA PushKeepsLoans ==
  ASSUME TypeOK, LoanInv, NEW kept, NEW into \in SUBSET Slot, PushEffect(kept, into), Respects(kept, into)
  PROVE  (FramesLent /\ FramesInOrder /\ UnitIsNewest /\ CopiesHaveNoSlot)'
<1>1. TypeOK /\ FramesLent /\ FramesInOrder /\ UnitIsNewest /\ CopiesHaveNoSlot
  BY DEF LoanInv
<1>2. held' \subseteq held /\ unit # None /\ stream' = stream /\ (Lends' <=> Lends)
      /\ unit.pic \in Nat
  BY <1>1, UnitTyped, Bounds DEF PushEffect, Lends, Unit, Picture
<1>3. \A f \in Frames : f.slot \in Slot \cup {None}
  BY <1>1, FramesTyped DEF Frame
<1>4. Remaining \subseteq Frames
  BY <1>2 DEF Remaining, Frames
<1>5. CASE UNCHANGED <<unit, pending, surface>> /\ outstanding' = kept
  <2>1. Frames' = Remaining
    BY <1>5 DEF Frames, Remaining
  <2> QED
    BY <1>4, <1>1, <1>2, <1>5, <2>1
    DEF FramesLent, FramesInOrder, UnitIsNewest, CopiesHaveNoSlot, Respects
<1>6. ASSUME NEW dst \in into, UNCHANGED <<unit, pending>>, outstanding' = kept,
             \A s \in Slot \ {dst} : surface'[s] = surface[s]
      PROVE  (FramesLent /\ FramesInOrder /\ UnitIsNewest /\ CopiesHaveNoSlot)'
  <2>1. Frames' = Remaining
    BY <1>6 DEF Frames, Remaining
  <2>2. FramesLent'
    BY <1>4, <1>1, <1>3, <1>6, <2>1 DEF FramesLent, Respects
  <2> QED
    BY <1>4, <1>1, <1>2, <1>6, <2>1, <2>2 DEF FramesInOrder, UnitIsNewest, CopiesHaveNoSlot
<1>7. ASSUME NEW dst \in into, NEW from \in Slot \cup {None}, Delivers(dst, from),
             outstanding' = IF Lends THEN kept \cup {dst} ELSE kept
      PROVE  (FramesLent /\ FramesInOrder /\ UnitIsNewest /\ CopiesHaveNoSlot)'
  <2> DEFINE f == [pic |-> unit.pic, slot |-> IF Lends THEN dst ELSE None]
  <2>1. f \in Frame /\ pending' = Append(pending, f) /\ unit' = None
        /\ surface' = [surface EXCEPT ![dst] = unit.pic] /\ surface \in [Slot -> 0 .. MaxPictures]
    <3>1. dst \in Slot /\ unit.pic \in Picture
      BY <1>1, <1>2, UnitTyped DEF Unit
    <3> QED
      BY <1>1, <1>7, <3>1 DEF Delivers, Frame, TypeOK
  <2>2. /\ Len(pending') = Len(pending) + 1 /\ pending'[Len(pending) + 1] = f
        /\ \A i \in 1 .. Len(pending) : pending'[i] = pending[i]
        /\ DOMAIN pending = 1 .. Len(pending) /\ DOMAIN pending' = 1 .. Len(pending) + 1
        /\ Len(pending) \in Nat
    <3>1. pending \in Seq(Frame) /\ pending' \in Seq(Frame)
      BY <1>1, <2>1, AppendProperties DEF TypeOK
    <3> QED
      BY <2>1, <3>1, AppendProperties, LenProperties
  <2>3. Frames' \subseteq Remaining \cup {f}
    BY <2>2 DEF Frames, Remaining
  <2>4. FramesLent'
    <3>1. f.slot # None => f.slot \in outstanding' /\ surface'[f.slot] = f.pic
      BY <1>7, <2>1
    <3>2. \A g \in Remaining : g.slot # None => g.slot \in outstanding' /\ surface'[g.slot] = g.pic
      BY <1>4, <1>1, <1>3, <1>7, <2>1 DEF FramesLent, Respects
    <3> QED
      BY <2>3, <3>1, <3>2 DEF FramesLent
  <2>5. \A g \in Frames : g.pic < f.pic /\ f.pic = stream.pics
    BY <1>1, <1>2 DEF UnitIsNewest
  <2>6. f.pic = unit.pic /\ f.pic = stream.pics /\ (~Lends => f.slot = None)
    BY <1>1, <1>2 DEF UnitIsNewest
  <2> HIDE DEF f
  <2>7. FramesInOrder'
    <3>1. ASSUME NEW i \in DOMAIN pending', NEW j \in DOMAIN pending', i < j
          PROVE  pending'[i].pic < pending'[j].pic
      <4>1. i \in DOMAIN pending /\ pending'[i] = pending[i] /\ pending[i] \in Frames
        BY <2>2, <3>1 DEF Frames
      <4>2. CASE j = Len(pending) + 1
        BY <2>2, <2>5, <4>1, <4>2
      <4>3. CASE j \in DOMAIN pending
        BY <1>1, <2>2, <3>1, <4>1, <4>3 DEF FramesInOrder
      <4> QED
        BY <2>2, <4>2, <4>3
    <3>2. ASSUME NEW g \in held', NEW i \in DOMAIN pending'
          PROVE  g.pic < pending'[i].pic
      <4>1. g \in held /\ g \in Frames
        BY <1>2 DEF Frames
      <4>2. CASE i = Len(pending) + 1
        BY <2>2, <2>5, <4>1, <4>2
      <4>3. CASE i \in DOMAIN pending
        BY <1>1, <2>2, <4>1, <4>3 DEF FramesInOrder
      <4> QED
        BY <2>2, <4>2, <4>3
    <3>3. \A g \in Frames' : g.pic <= stream'.pics
      <4>1. stream.pics \in Nat
        BY <1>2, <2>6
      <4> QED
        BY <1>4, <1>1, <1>2, <2>3, <2>6, <4>1 DEF FramesInOrder
    <3> QED
      BY <3>1, <3>2, <3>3 DEF FramesInOrder
  <2>8. UnitIsNewest'
    BY <2>1 DEF UnitIsNewest
  <2>9. CopiesHaveNoSlot'
    BY <1>4, <1>1, <1>2, <2>3, <2>6 DEF CopiesHaveNoSlot
  <2> QED
    BY <2>4, <2>7, <2>8, <2>9
<1> QED
  BY <1>5, <1>6, <1>7 DEF PushEffect

-----------------------------------------------------------------------------
(* The steps that push nothing.                                              *)

\* The encoder's next picture keeps the invariant.
LEMMA NextUnitKeeps ==
  ASSUME TypeOK, NEW k \in Kinds, NextUnit(k[1], k[2])
  PROVE  TypeOK' /\ (LoanInv => LoanInv')
<1> DEFINE pic == stream.pics + 1
           earlier == IF k[1] = "idr" THEN <<>> ELSE stream.window
<1> USE DEF NextUnit
<1>1. TypeOK
  OBVIOUS
<1>2. k[1] \in {"idr", "i", "p"} /\ k[2] \in BOOLEAN
  BY H264Assumption
<1>3. pic \in Picture /\ stream.pics \in Nat /\ stream'.pics = pic
      /\ unit'.pic = pic
  <2>1. stream.pics \in 0 .. MaxPictures /\ MaxPictures \in Nat /\ stream.pics < MaxPictures
    BY <1>1, Bounds DEF TypeOK
  <2>2. pic \in Picture /\ stream.pics \in Nat
    BY <2>1 DEF Picture
  <2>3. stream'.pics = pic /\ unit'.pic = pic
    OBVIOUS
  <2> QED
    BY <2>2, <2>3
<1>4. unit' \in Unit
  <2>1. stream.refs \in Nat /\ stream.poc \in Nat /\ stream.window \in Seq(Picture)
    BY <1>1 DEF TypeOK
  <2>2. k[1] = "p" => Head(stream.window) \in Picture
    BY <2>1, HeadTailProperties
  <2> DEFINE refs == IF k[1] = "idr" THEN 0 ELSE stream.refs
             poc == IF k[1] = "idr" THEN 0 ELSE stream.poc + 1
  <2>3. /\ unit'.frameNum = refs % MaxFrameNum /\ unit'.lsb = poc % MaxPicOrderCntLsb
        /\ unit'.poc = poc /\ unit'.wants = IF k[1] = "p" THEN Head(stream.window) ELSE 0
    OBVIOUS
  <2>4. refs \in Nat /\ poc \in Nat
    BY <2>1
  <2>5. MaxFrameNum \in Nat \ {0} /\ MaxPicOrderCntLsb \in Nat \ {0} /\ MaxPictures \in Nat
    BY <1>1, Bounds
  <2> HIDE DEF refs, poc, NextUnit
  <2>6. unit'.wants \in 0 .. MaxPictures /\ unit'.poc \in Nat
    BY <2>2, <2>3, <2>4, <2>5 DEF Picture
  <2>7. unit'.frameNum \in 0 .. MaxFrameNum - 1 /\ unit'.lsb \in 0 .. MaxPicOrderCntLsb - 1
    BY <2>3, <2>4, <2>5
  <2>8. unit' = [pic |-> unit'.pic, kind |-> k[1], ref |-> k[2], frameNum |-> unit'.frameNum,
                 lsb |-> unit'.lsb, poc |-> unit'.poc, wants |-> unit'.wants]
    BY DEF NextUnit
  <2> QED
    BY <1>2, <1>3, <2>6, <2>7, <2>8 DEF Unit
<1>5. stream' \in [pics : 0 .. MaxPictures, refs : Nat, poc : Nat, refPoc : Nat,
                   window : Seq(Picture)]
  <2>1. /\ stream.refs \in Nat /\ stream.poc \in Nat /\ stream.refPoc \in Nat
        /\ earlier \in Seq(Picture)
    BY <1>1, EmptySeq DEF TypeOK
  <2>2. <<pic>> \in Seq(Picture) /\ <<pic>> \o earlier \in Seq(Picture)
    BY <1>3, <2>1, ConcatProperties
  <2>3. NewestRefs(<<pic>> \o earlier) \in Seq(Picture)
    <3> DEFINE q == <<pic>> \o earlier
               n == IF Len(q) < MaxRefFrames THEN Len(q) ELSE MaxRefFrames
    <3>1. q \in Seq(Picture) /\ Len(q) \in Nat
      BY <2>2, LenProperties
    <3> HIDE DEF q
    <3>2. n \in Nat /\ n <= Len(q)
      BY <1>1, <3>1, Bounds
    <3>3. \A i \in 1 .. n : q[i] \in Picture
      BY <3>1, <3>2, ElementOfSeq
    <3> HIDE DEF n
    <3>4. SubSeq(q, 1, n) \in Seq(Picture)
      BY <3>2, <3>3, SubSeqProperties
    <3> QED
      BY <3>4 DEF NewestRefs, q, n
  <2>4. stream'.window \in Seq(Picture)
    BY <2>1, <2>3
  <2>5. stream'.refs \in Nat /\ stream'.poc \in Nat /\ stream'.refPoc \in Nat
    BY <2>1
  <2>6. stream'.pics \in 0 .. MaxPictures
    BY <1>1, <1>3, Bounds DEF Picture
  <2>7. stream' = [pics |-> stream'.pics, refs |-> stream'.refs, poc |-> stream'.poc,
                   refPoc |-> stream'.refPoc, window |-> stream'.window]
    OBVIOUS
  <2> QED
    BY <2>4, <2>5, <2>6, <2>7
<1>6. TypeOK'
  <2>1. Unit' = Unit /\ Reference' = Reference
    BY DEF Unit, Reference, MaxFrameNum
  <2> QED
    BY <1>1, <1>4, <1>5, <2>1 DEF TypeOK
<1>7. ASSUME LoanInv PROVE LoanInv'
  <2>1. UNCHANGED <<session, slots, occupied, outstanding, surface, pending, held>>
    OBVIOUS
  <2>2. Frames' = Frames /\ Frames \subseteq Frame
    BY <1>1, <2>1, FramesTyped DEF Frames
  <2>3. \A f \in Frames : f.pic \in Nat
    BY <1>1, <2>2, Bounds DEF Frame, Picture
  <2>4. \A f \in Frames : f.pic <= stream.pics
    BY <1>7 DEF LoanInv, FramesInOrder
  <2>5. \A f \in Frames : f.pic < pic /\ f.pic <= pic
    BY <1>3, <2>3, <2>4
  <2> HIDE DEF pic, NextUnit
  <2>6. FramesInOrder'
    BY <1>3, <1>7, <2>1, <2>2, <2>5 DEF LoanInv, FramesInOrder
  <2>7. UnitIsNewest'
    BY <1>3, <2>2, <2>5 DEF UnitIsNewest
  <2>8. FramesLent' /\ CopiesHaveNoSlot' /\ LentInUse'
    BY <1>7, <2>1, <2>2 DEF LoanInv, FramesLent, CopiesHaveNoSlot, LentInUse, Lends, Backend
  <2> QED
    BY <2>6, <2>7, <2>8 DEF LoanInv
<1> QED
  BY <1>6, <1>7

\* Giving up on a picture keeps the invariant.
LEMMA SkipKeeps ==
  ASSUME TypeOK, Skip
  PROVE  TypeOK' /\ (LoanInv => LoanInv')
<1>1. TypeOK'
  <2>1. Unit' = Unit /\ Reference' = Reference
    BY DEF Skip, Unit, Reference, MaxFrameNum
  <2>2. unit.ref \in BOOLEAN
    BY UnitTyped DEF Skip, Unit
  <2> QED
    BY <2>1, <2>2 DEF TypeOK, Skip
<1>2. Frames' = Frames
  BY DEF Frames, Skip
<1>3. LoanInv => LoanInv'
  BY <1>2 DEF LoanInv, Skip, FramesLent, FramesInOrder, UnitIsNewest, CopiesHaveNoSlot,
              LentInUse, Lends, Backend
<1> QED
  BY <1>1, <1>3

\* A poll, flush or release: frames leave the queue from the front, or end.
Calm ==
  /\ UNCHANGED <<session, stream, unit, broken, slots, surface, prevPoc, failures, last>>
  /\ flushed' \in BOOLEAN /\ occupied' \subseteq Slot /\ outstanding' \subseteq Slot
  /\ \/ pending' = pending /\ held' \subseteq held
     \/ pending # <<>> /\ pending' = Tail(pending) /\ held' \subseteq held \cup {Head(pending)}

StillMarked == \A f \in Frames' : f.slot # None => f.slot \in outstanding'

\* What is left of a queue once its head is taken.
LEMMA QueueTail ==
  ASSUME NEW q \in Seq(Frame), q # <<>>
  PROVE  /\ DOMAIN q = 1 .. Len(q) /\ Len(q) \in Nat \ {0} /\ Head(q) = q[1]
         /\ Tail(q) \in Seq(Frame) /\ DOMAIN Tail(q) = 1 .. Len(q) - 1
         /\ \A i \in 1 .. Len(q) - 1 : Tail(q)[i] = q[i + 1]
  BY HeadTailProperties, LenProperties, EmptySeq

\* A step that leaves slots, loans and queue alone keeps the invariant.
LEMMA CalmKeeps ==
  ASSUME TypeOK, Calm
  PROVE  /\ TypeOK'
         /\ LoanInv /\ StillMarked /\ LentInUse' => LoanInv'
<1>1. TypeOK
  OBVIOUS
<1>2. pending \in Seq(Frame) /\ held \subseteq Frame
  BY <1>1 DEF TypeOK
<1>3. pending' \in Seq(Frame) /\ held' \subseteq Frame
  BY <1>2, HeadTailProperties DEF Calm
<1>4. TypeOK'
  <2>1. Unit' = Unit /\ Reference' = Reference
    BY DEF Calm, Unit, Reference, MaxFrameNum
  <2> QED
    BY <1>1, <1>3, <2>1 DEF Calm, TypeOK
<1>5. SUFFICES ASSUME LoanInv, StillMarked, LentInUse' PROVE LoanInv'
  BY <1>4
<1>6. CASE pending' = pending /\ held' \subseteq held
  <2>1. Frames' \subseteq Frames
    BY <1>6 DEF Frames
  <2> QED
    BY <1>5, <1>6, <2>1 DEF Calm, StillMarked, LoanInv, FramesLent, FramesInOrder, UnitIsNewest,
                            CopiesHaveNoSlot, Lends
<1>7. CASE /\ pending # <<>> /\ pending' = Tail(pending)
           /\ held' \subseteq held \cup {Head(pending)}
  <2>1. /\ DOMAIN pending = 1 .. Len(pending) /\ Len(pending) \in Nat \ {0}
        /\ DOMAIN pending' = 1 .. Len(pending) - 1
        /\ \A i \in 1 .. Len(pending) - 1 : pending'[i] = pending[i + 1]
        /\ Head(pending) = pending[1]
    BY <1>2, <1>7, QueueTail
  <2>2. Frames' \subseteq Frames
    BY <1>7, <2>1 DEF Frames
  <2>3. FramesInOrder'
    <3>1. \A i, j \in DOMAIN pending' : i < j => pending'[i].pic < pending'[j].pic
      <4> SUFFICES ASSUME NEW i \in DOMAIN pending', NEW j \in DOMAIN pending', i < j
                   PROVE  pending[i + 1].pic < pending[j + 1].pic
        BY <2>1
      <4>1. i + 1 \in DOMAIN pending /\ j + 1 \in DOMAIN pending /\ i + 1 < j + 1
        BY <2>1
      <4> QED
        BY <1>5, <4>1 DEF LoanInv, FramesInOrder
    <3>2. \A f \in held', i \in DOMAIN pending' : f.pic < pending'[i].pic
      <4> SUFFICES ASSUME NEW f \in held', NEW i \in DOMAIN pending'
                   PROVE  f.pic < pending[i + 1].pic
        BY <2>1
      <4>1. i + 1 \in DOMAIN pending /\ 1 \in DOMAIN pending /\ 1 < i + 1
        BY <2>1
      <4>2. CASE f \in held
        BY <1>5, <4>1, <4>2 DEF LoanInv, FramesInOrder
      <4>3. CASE f = pending[1]
        BY <1>5, <4>1, <4>3 DEF LoanInv, FramesInOrder
      <4> QED
        BY <1>7, <2>1, <4>2, <4>3
    <3> QED
      BY <1>5, <2>2, <3>1, <3>2 DEF Calm, LoanInv, FramesInOrder
  <2> QED
    BY <1>5, <2>2, <2>3 DEF Calm, StillMarked, LoanInv, FramesLent, UnitIsNewest,
                            CopiesHaveNoSlot, Lends
<1> QED
  BY <1>6, <1>7 DEF Calm

-----------------------------------------------------------------------------
(* Invariance.                                                               *)

\* Two frames on one surface are the same frame.
LEMMA OneFramePerSlot ==
  ASSUME TypeOK, LoanInv, NEW f \in Frames, NEW g \in Frames, f.slot # None, f.slot = g.slot
  PROVE  f = g
<1>1. f.pic = g.pic
  BY DEF LoanInv, FramesLent
<1>2. f \in Frame /\ g \in Frame
  BY FramesTyped
<1> QED
  BY <1>1, <1>2 DEF Frame

\* No frame is both with the caller and in the queue.
LEMMA QueuedIsNotHeld ==
  ASSUME TypeOK, LoanInv, NEW f \in held, NEW i \in DOMAIN pending
  PROVE  f # pending[i]
<1>1. f.pic \in Nat /\ f.pic < pending[i].pic
  BY Bounds DEF TypeOK, Frame, Picture, LoanInv, FramesInOrder
<1> QED
  BY <1>1

\* What VA-API takes back is what no queued frame is lent on.
LEMMA QueuedStaysLent ==
  ASSUME TypeOK, LoanInv, NEW i \in DOMAIN pending, pending[i].slot # None
  PROVE  pending[i].slot \in VaapiLent
<1>1. pending[i] \in Frames /\ held \subseteq Frames
  BY DEF Frames
<1>2. pending[i].slot \in outstanding
  BY <1>1 DEF LoanInv, FramesLent
<1>3. \A f \in held : f.slot # pending[i].slot
  BY <1>1, OneFramePerSlot, QueuedIsNotHeld
<1> QED
  BY <1>2, <1>3 DEF VaapiLent

\* Every call of a VA-API session keeps the invariant.
LEMMA VaapiKeeps ==
  ASSUME IInv, VaapiPush \/ VaapiPoll \/ VaapiFlush
  PROVE  IInv'
<1>1. TypeOK /\ LoanInv /\ Backend("vaapi") /\ session' = session
  BY DEF IInv, KeepsLoans, Backend, VaapiPush, VaapiPoll, VaapiFlush, Flush
<1>2. LentInUse'
  BY <1>1 DEF LentInUse, Backend
<1>3. CASE VaapiPush
  <2>1. PushEffect(VaapiLent, Slot \ VaapiLent) /\ held' = {}
    BY <1>1, <1>3, VaapiPushEffect
  <2>2. TypeOK'
    BY <1>1, <2>1, EffectTyped
  <2>3. Respects(VaapiLent, Slot \ VaapiLent)
    BY <1>1, <2>1, QueuedStaysLent DEF Respects, Remaining
  <2>4. LoanInv'
    BY <1>1, <1>2, <2>1, <2>3, PushKeepsLoans DEF LoanInv
  <2> QED
    BY <2>2, <2>4 DEF IInv
<1>4. CASE VaapiPoll \/ VaapiFlush
  <2>1. Calm
    BY <1>1, <1>4 DEF Calm, TypeOK, VaapiPoll, VaapiFlush, Flush, VaapiLent, VaapiTakesBack
  <2>2. outstanding' = VaapiLent
    BY <1>1, <1>4 DEF VaapiPoll, VaapiFlush, Backend, VaapiTakesBack
  <2>3. Frames' \subseteq {pending[i] : i \in DOMAIN pending}
    <3>1. CASE VaapiFlush \/ pending = <<>>
      BY <1>4, <3>1 DEF VaapiPoll, VaapiFlush, VaapiTakesBack, Flush, Frames
    <3>2. CASE VaapiPoll /\ pending # <<>>
      <4>1. pending' = Tail(pending) /\ held' \subseteq {Head(pending)} /\ pending \in Seq(Frame)
        BY <1>1, <3>2 DEF VaapiPoll, TypeOK
      <4>2. /\ DOMAIN pending = 1 .. Len(pending) /\ Len(pending) \in Nat \ {0}
            /\ DOMAIN pending' = 1 .. Len(pending) - 1 /\ Head(pending) = pending[1]
            /\ \A i \in 1 .. Len(pending) - 1 : pending'[i] = pending[i + 1]
        BY <3>2, <4>1, QueueTail
      <4> QED
        BY <4>1, <4>2 DEF Frames
    <3> QED
      BY <1>4, <3>1, <3>2
  <2>4. StillMarked
    BY <1>1, <2>2, <2>3, QueuedStaysLent DEF StillMarked
  <2> QED
    BY <1>1, <1>2, <2>1, <2>4, CalmKeeps DEF IInv
<1> QED
  BY <1>3, <1>4

\* Without a device that fills them, the frames of a queue that only shrinks
\* were frames before.
LEMMA PolledFrames ==
  ASSUME TypeOK, Calm
  PROVE  Frames' \subseteq Frames
<1>1. pending \in Seq(Frame)
  BY DEF TypeOK
<1>2. CASE pending' = pending /\ held' \subseteq held
  BY <1>2 DEF Frames
<1>3. CASE /\ pending # <<>> /\ pending' = Tail(pending)
           /\ held' \subseteq held \cup {Head(pending)}
  <2>1. /\ DOMAIN pending = 1 .. Len(pending) /\ Len(pending) \in Nat \ {0}
        /\ DOMAIN pending' = 1 .. Len(pending) - 1 /\ Head(pending) = pending[1]
        /\ \A i \in 1 .. Len(pending) - 1 : pending'[i] = pending[i + 1]
    BY <1>1, <1>3, QueueTail
  <2> QED
    BY <1>3, <2>1 DEF Frames
<1> QED
  BY <1>2, <1>3 DEF Calm

\* Every call of a Vulkan session keeps the invariant.
LEMMA VulkanKeeps ==
  ASSUME IInv, VulkanPush \/ VulkanPoll \/ VulkanFlush
  PROVE  IInv'
<1>1. TypeOK /\ Backend("vulkan") /\ session' = session
  BY DEF IInv, VulkanPush, VulkanPoll, VulkanFlush, Flush
<1>2. LentInUse' /\ (KeepsLoans' <=> KeepsLoans)
  BY <1>1 DEF LentInUse, KeepsLoans, Lends, Backend
<1>3. KeepsLoans => LoanInv /\ \A f \in Frames : f.slot = None
  BY <1>1 DEF IInv, KeepsLoans, LoanInv, CopiesHaveNoSlot
<1>4. CASE VulkanPush
  <2>1. PushEffect(outstanding, Slot)
    BY <1>1, <1>4, VulkanPushEffect
  <2>2. TypeOK'
    BY <1>1, <2>1, EffectTyped
  <2>3. KeepsLoans => Respects(outstanding, Slot)
    <3>1. Remaining \subseteq Frames
      BY <2>1 DEF PushEffect, Remaining, Frames
    <3> QED
      BY <1>3, <3>1 DEF Respects
  <2>4. KeepsLoans => LoanInv'
    BY <1>1, <1>2, <1>3, <2>1, <2>3, PushKeepsLoans DEF LoanInv
  <2> QED
    BY <1>2, <2>2, <2>4 DEF IInv
<1>5. CASE VulkanPoll \/ VulkanFlush
  <2>1. Calm
    BY <1>1, <1>5 DEF Calm, TypeOK, VulkanPoll, VulkanFlush, Flush
  <2>2. KeepsLoans => StillMarked
    BY <1>1, <1>3, <2>1, PolledFrames DEF StillMarked
  <2> QED
    BY <1>1, <1>2, <1>3, <2>1, <2>2, CalmKeeps DEF IInv
<1> QED
  BY <1>4, <1>5

\* Every call of a D3D12 session keeps the invariant.
LEMMA D3d12Keeps ==
  ASSUME IInv, D3d12Push \/ D3d12Poll \/ D3d12Flush \/ Release
  PROVE  IInv'
<1>1. TypeOK /\ LoanInv /\ Backend("d3d12") /\ session' = session
  BY DEF IInv, KeepsLoans, Backend, D3d12Push, D3d12Poll, D3d12Flush, Flush, Release, D3d12Release
<1>2. outstanding \subseteq occupied /\ outstanding \subseteq Slot /\ occupied \subseteq Slot
  BY <1>1 DEF LoanInv, LentInUse, TypeOK
<1>3. \A f \in Frames : f.slot # None => f.slot \in outstanding
  BY <1>1 DEF LoanInv, FramesLent
<1>4. CASE D3d12Push
  <2>1. /\ PushEffect(outstanding, Slot \ outstanding) /\ held' = held
        /\ outstanding' \subseteq occupied'
    BY <1>1, <1>2, <1>4, D3d12PushEffect
  <2>2. TypeOK'
    BY <1>1, <2>1, EffectTyped
  <2>3. Respects(outstanding, Slot \ outstanding)
    BY <1>3, <2>1 DEF Respects, Remaining, Frames
  <2>4. LoanInv'
    BY <1>1, <2>1, <2>3, PushKeepsLoans DEF LoanInv, LentInUse
  <2> QED
    BY <2>2, <2>4 DEF IInv
<1>5. CASE D3d12Poll \/ D3d12Flush
  <2>1. Calm /\ UNCHANGED <<occupied, outstanding>>
    BY <1>1, <1>5 DEF Calm, TypeOK, D3d12Poll, D3d12Flush, Flush
  <2>2. StillMarked /\ LentInUse'
    BY <1>1, <1>2, <1>3, <2>1, PolledFrames DEF StillMarked, LentInUse
  <2> QED
    BY <1>1, <2>1, <2>2, CalmKeeps DEF IInv
<1>6. ASSUME NEW f \in held, D3d12Release(f)
      PROVE  IInv'
  <2>1. Calm /\ outstanding' = outstanding \ {f.slot} /\ held' = held \ {f}
    BY <1>1, <1>2, <1>6 DEF Calm, TypeOK, D3d12Release
  <2>2. outstanding' \subseteq occupied'
    BY <1>2, <1>6 DEF D3d12Release
  <2>3. ASSUME NEW g \in Frames', g.slot # None
        PROVE  g.slot \in outstanding'
    <3>1. g \in Frames /\ f \in Frames
      BY <1>1, <2>1, PolledFrames DEF Frames
    <3>2. g # f
      BY <1>1, <1>6, <2>1, QueuedIsNotHeld DEF D3d12Release, Frames
    <3>3. g.slot # f.slot
      BY <1>1, <2>3, <3>1, <3>2, OneFramePerSlot
    <3> QED
      BY <1>3, <2>1, <2>3, <3>1, <3>3
  <2>4. StillMarked /\ LentInUse'
    BY <2>2, <2>3 DEF StillMarked, LentInUse
  <2> QED
    BY <1>1, <2>1, <2>4, CalmKeeps DEF IInv
<1> QED
  BY <1>4, <1>5, <1>6 DEF Release

\* The invariant is about the variables of the specification.
LEMMA StutterKeeps ==
  ASSUME IInv, UNCHANGED vars
  PROVE  IInv'
  BY SMTT(30) DEF IInv, vars, TypeOK, Unit, Reference, MaxFrameNum, KeepsLoans, LoanInv, FramesLent,
         FramesInOrder, UnitIsNewest, CopiesHaveNoSlot, LentInUse, Frames, Backend, Lends

\* Every session keeps IInv.
THEOREM Invariance == Spec => []IInv
<1>1. Init => IInv
  BY InitInv
<1>2. IInv /\ [Next]_vars => IInv'
  <2> SUFFICES ASSUME IInv, [Next]_vars PROVE IInv'
    OBVIOUS
  <2>1. ASSUME NEW k \in Kinds, NextUnit(k[1], k[2]) PROVE IInv'
    <3>1. KeepsLoans' <=> KeepsLoans
      BY <2>1 DEF NextUnit, KeepsLoans, Backend, Lends
    <3> QED
      BY <2>1, <3>1, NextUnitKeeps DEF IInv
  <2>2. CASE Skip
    <3>1. KeepsLoans' <=> KeepsLoans
      BY <2>2 DEF Skip, KeepsLoans, Backend, Lends
    <3> QED
      BY <2>2, <3>1, SkipKeeps DEF IInv
  <2>3. CASE VaapiPush \/ VaapiPoll \/ VaapiFlush
    BY <2>3, VaapiKeeps
  <2>4. CASE VulkanPush \/ VulkanPoll \/ VulkanFlush
    BY <2>4, VulkanKeeps
  <2>5. CASE D3d12Push \/ D3d12Poll \/ D3d12Flush \/ Release
    BY <2>5, D3d12Keeps
  <2>6. CASE UNCHANGED vars
    BY <2>6, StutterKeeps
  <2> QED
    BY <2>1, <2>2, <2>3, <2>4, <2>5, <2>6 DEF Next, Release
<1> QED
  BY <1>1, <1>2, PTL DEF Spec

\* The books are well-formed, in every session: slots, marks and counts stay in
\* range however pushes, refusals, losses and wraps follow each other.
THEOREM TypeCorrect == Spec => []TypeOK
<1>1. IInv => TypeOK
  BY DEF IInv
<1> QED
  BY <1>1, Invariance, PTL

\* No session but Vulkan's with GPU output decodes over a frame its caller may
\* still read, whatever the DPB's size and however long the caller keeps it.
THEOREM LoansKept ==
  ASSUME \A s \in Sessions : ~(s.backend = "vulkan" /\ s.output = "gpu")
  PROVE  Spec => []LoanKept
<1>1. IInv => LoanKept
  BY DEF IInv, TypeOK, KeepsLoans, Backend, Lends, LoanInv, FramesLent, LoanKept
<1> QED
  BY <1>1, Invariance, PTL

-----------------------------------------------------------------------------
(* The sessions implement PictureDelivery.                                   *)

Taken == IF unit = None THEN stream.pics ELSE stream.pics - 1
Queue == [i \in DOMAIN pending |-> Shows(pending[i])]
Lent == {Shows(f) : f \in held}

Pics(q) == [i \in DOMAIN q |-> q[i].pic]

\* While loans are kept, a frame shows the picture it was made for.
LEMMA FramesShow ==
  ASSUME IInv, KeepsLoans
  PROVE  Queue = Pics(pending) /\ Lent = {f.pic : f \in held}
<1>1. \A f \in Frames : Shows(f) = f.pic
  BY DEF IInv, LoanInv, FramesLent, Shows
<1> QED
  BY <1>1 DEF Queue, Pics, Lent, Frames

\* What the frames show depends on the surfaces of their slots only.
LEMMA FramesShowNext ==
  ASSUME IInv', KeepsLoans'
  PROVE  Queue' = Pics(pending') /\ Lent' = {f.pic : f \in held'}
<1>1. \A f \in Frames' : Shows(f)' = f.pic
  BY DEF IInv, LoanInv, FramesLent, Shows
<1> QED
  BY <1>1 DEF Queue, Pics, Lent, Frames

\* The pictures of a sequence of frames.
LEMMA PicsTyped ==
  ASSUME NEW q \in Seq(Frame)
  PROVE  /\ Pics(q) \in Seq(Picture) /\ Len(Pics(q)) = Len(q)
         /\ \A i \in 1 .. Len(q) : Pics(q)[i] = q[i].pic
<1>1. DOMAIN q = 1 .. Len(q) /\ Len(q) \in Nat /\ \A i \in 1 .. Len(q) : q[i] \in Frame
  BY LenProperties, ElementOfSeq
<1>2. Pics(q) \in [1 .. Len(q) -> Picture]
  BY <1>1 DEF Pics, Frame
<1>3. Pics(q) \in Seq(Picture)
  BY <1>1, <1>2, SeqDef
<1>4. DOMAIN Pics(q) = 1 .. Len(Pics(q)) /\ Len(Pics(q)) \in Nat
  BY <1>3, LenProperties
<1> QED
  BY <1>1, <1>2, <1>3, <1>4 DEF Pics

\* The pictures of a queue one frame longer.
LEMMA PicsOfAppend ==
  ASSUME NEW q \in Seq(Frame), NEW f \in Frame
  PROVE  Pics(Append(q, f)) = Append(Pics(q), f.pic)
<1>1. /\ Append(q, f) \in Seq(Frame) /\ Len(Append(q, f)) = Len(q) + 1 /\ f.pic \in Picture
      /\ Append(q, f)[Len(q) + 1] = f /\ \A i \in 1 .. Len(q) : Append(q, f)[i] = q[i]
  BY AppendProperties DEF Frame
<1>2. /\ Pics(Append(q, f)) \in Seq(Picture) /\ Append(Pics(q), f.pic) \in Seq(Picture)
      /\ Len(Pics(Append(q, f))) = Len(q) + 1 /\ Len(Append(Pics(q), f.pic)) = Len(q) + 1
  <2>1. Pics(q) \in Seq(Picture) /\ Len(Pics(q)) = Len(q)
    BY PicsTyped
  <2>2. Append(Pics(q), f.pic) \in Seq(Picture) /\ Len(Append(Pics(q), f.pic)) = Len(q) + 1
    BY <1>1, <2>1, AppendProperties
  <2>3. Pics(Append(q, f)) \in Seq(Picture) /\ Len(Pics(Append(q, f))) = Len(q) + 1
    BY <1>1, PicsTyped
  <2> QED
    BY <2>2, <2>3
<1>3. \A i \in 1 .. Len(q) + 1 : Pics(Append(q, f))[i] = Append(Pics(q), f.pic)[i]
  <2>1. Len(q) \in Nat
    BY LenProperties
  <2>2. \A i \in 1 .. Len(q) + 1 : Pics(Append(q, f))[i] = Append(q, f)[i].pic
    BY <1>1, PicsTyped
  <2>3. /\ Pics(q) \in Seq(Picture) /\ Len(Pics(q)) = Len(q)
        /\ \A i \in 1 .. Len(q) : Pics(q)[i] = q[i].pic
    BY PicsTyped
  <2>4. /\ Append(Pics(q), f.pic)[Len(q) + 1] = f.pic
        /\ \A i \in 1 .. Len(q) : Append(Pics(q), f.pic)[i] = Pics(q)[i]
    BY <1>1, <2>3, AppendProperties
  <2> QED
    BY <1>1, <2>1, <2>2, <2>3, <2>4
<1> QED
  BY <1>2, <1>3, SeqEqual

\* The pictures of a queue one frame shorter.
LEMMA PicsOfTail ==
  ASSUME NEW q \in Seq(Frame), q # <<>>
  PROVE  Pics(q) # <<>> /\ Head(Pics(q)) = Head(q).pic /\ Tail(Pics(q)) = Pics(Tail(q))
<1>1. /\ Len(q) \in Nat \ {0} /\ Head(q) = q[1] /\ Tail(q) \in Seq(Frame)
      /\ Len(Tail(q)) = Len(q) - 1 /\ \A i \in 1 .. Len(q) - 1 : Tail(q)[i] = q[i + 1]
  BY QueueTail, HeadTailProperties
<1>2. /\ Pics(q) \in Seq(Picture) /\ Len(Pics(q)) = Len(q)
      /\ \A i \in 1 .. Len(q) : Pics(q)[i] = q[i].pic
  BY PicsTyped
<1>3. Pics(q) # <<>>
  BY <1>1, <1>2, EmptySeq
<1>4. Head(Pics(q)) = Head(q).pic
  BY <1>1, <1>2
<1>5. /\ Tail(Pics(q)) \in Seq(Picture) /\ Len(Tail(Pics(q))) = Len(q) - 1
      /\ \A i \in 1 .. Len(q) - 1 : Tail(Pics(q))[i] = Pics(q)[i + 1]
  BY <1>2, <1>3, HeadTailProperties
<1>6. /\ Pics(Tail(q)) \in Seq(Picture) /\ Len(Pics(Tail(q))) = Len(q) - 1
      /\ \A i \in 1 .. Len(q) - 1 : Pics(Tail(q))[i] = Tail(q)[i].pic
  BY <1>1, PicsTyped
<1>7. \A i \in 1 .. Len(q) - 1 : Tail(Pics(q))[i] = Pics(Tail(q))[i]
  BY <1>1, <1>2, <1>5, <1>6
<1> QED
  BY <1>3, <1>4, <1>5, <1>6, <1>7, SeqEqual

Step == [Delivery!Next]_<<Taken, Queue, Lent>>

\* A step that leaves queue and loans alone is a stutter of PictureDelivery.
LEMMA CalmServes ==
  ASSUME IInv, IInv', KeepsLoans, KeepsLoans', Calm
  PROVE  Step
<1>1. Taken' = Taken /\ pending \in Seq(Frame)
  BY DEF Calm, Taken, IInv, TypeOK
<1>2. /\ Queue = Pics(pending) /\ Lent = {f.pic : f \in held}
      /\ Queue' = Pics(pending') /\ Lent' = {f.pic : f \in held'}
  BY FramesShow, FramesShowNext
<1>3. CASE pending' = pending /\ held' \subseteq held
  <2>1. Delivery!Return
    BY <1>1, <1>2, <1>3 DEF Delivery!Return, Taken, Queue, Lent
  <2> QED
    BY <2>1 DEF Step, Delivery!Next
<1>4. CASE /\ pending # <<>> /\ pending' = Tail(pending)
           /\ held' \subseteq held \cup {Head(pending)}
  <2>1. Queue # <<>> /\ Queue' = Tail(Queue) /\ Lent' \subseteq Lent \cup {Head(Queue)}
    BY <1>1, <1>2, <1>4, PicsOfTail
  <2>2. Delivery!Poll
    BY <1>1, <2>1 DEF Delivery!Poll, Taken, Queue, Lent
  <2> QED
    BY <2>2 DEF Step, Delivery!Next
<1> QED
  BY <1>3, <1>4 DEF Calm

\* A push is a delivery or a stutter of PictureDelivery.
LEMMA PushServes ==
  ASSUME IInv, IInv', KeepsLoans, KeepsLoans', NEW kept, NEW into \in SUBSET Slot,
         PushEffect(kept, into)
  PROVE  Step
<1>1. /\ Queue = Pics(pending) /\ Lent = {f.pic : f \in held}
      /\ Queue' = Pics(pending') /\ Lent' = {f.pic : f \in held'}
  BY FramesShow, FramesShowNext
<1>2. unit # None /\ stream' = stream /\ Lent' \subseteq Lent /\ pending \in Seq(Frame)
  BY <1>1 DEF PushEffect, IInv, TypeOK
<1>3. CASE UNCHANGED <<unit, pending>>
  <2>1. Taken' = Taken /\ Queue' = Queue
    BY <1>1, <1>2, <1>3 DEF Taken
  <2>2. Delivery!Return
    BY <1>2, <2>1 DEF Delivery!Return, Taken, Queue, Lent
  <2> QED
    BY <2>2 DEF Step, Delivery!Next
<1>4. ASSUME NEW dst \in into, NEW from \in Slot \cup {None}, Delivers(dst, from)
      PROVE  Step
  <2> DEFINE f == [pic |-> unit.pic, slot |-> IF Lends THEN dst ELSE None]
  <2>1. unit.pic = stream.pics /\ unit.pic \in Picture /\ MaxPictures \in Nat
    BY <1>2, UnitTyped, Bounds DEF IInv, LoanInv, UnitIsNewest, Unit
  <2>2. f \in Frame /\ f.pic = unit.pic /\ pending' = Append(pending, f) /\ unit' = None
    BY <1>4, <2>1 DEF Delivers, Frame
  <2>3. stream.pics \in Nat
    BY <2>1 DEF Picture
  <2>4. Taken' = Taken + 1 /\ Taken + 1 = unit.pic
    BY <1>2, <2>1, <2>2, <2>3 DEF Taken
  <2> HIDE DEF f
  <2>5. Queue' = Append(Queue, Taken + 1)
    BY <1>1, <1>2, <2>2, <2>4, PicsOfAppend
  <2>6. Delivery!Finish
    BY <1>2, <2>4, <2>5 DEF Delivery!Finish, Taken, Queue, Lent
  <2> QED
    BY <2>6 DEF Step, Delivery!Next
<1> QED
  BY <1>3, <1>4 DEF PushEffect

\* The next picture leaves the decoder as it is; giving one up finishes it.
LEMMA StreamServes ==
  ASSUME IInv, IInv', KeepsLoans, KeepsLoans',
         (\E k \in Kinds : NextUnit(k[1], k[2])) \/ Skip
  PROVE  Step
<1>1. UNCHANGED <<pending, held>>
  BY DEF NextUnit, Skip
<1>2. Queue' = Queue /\ Lent' = Lent
  BY <1>1, FramesShow, FramesShowNext
<1>3. stream.pics \in Nat
  BY DEF IInv, TypeOK
<1>4. Taken' = Taken \/ Taken' = Taken + 1
  BY <1>3 DEF Taken, NextUnit, Skip
<1>5. CASE Taken' = Taken
  BY <1>2, <1>5 DEF Step
<1>6. CASE Taken' = Taken + 1
  <2>1. Delivery!Finish
    BY <1>2, <1>6 DEF Delivery!Finish, Taken, Queue, Lent
  <2> QED
    BY <2>1 DEF Step, Delivery!Next
<1> QED
  BY <1>4, <1>5, <1>6

\* Every step of a session that tracks its loans is one of PictureDelivery, or
\* a stutter.
LEMMA DeliveryStep ==
  ASSUME IInv, IInv', KeepsLoans, KeepsLoans', [Next]_vars
  PROVE  Step
<1>1. TypeOK /\ LoanInv
  BY DEF IInv
<1>2. CASE (\E k \in Kinds : NextUnit(k[1], k[2])) \/ Skip
  BY <1>2, StreamServes
<1>3. CASE VaapiPush \/ VulkanPush \/ D3d12Push
  <2>1. \E kept : \E into \in SUBSET Slot : PushEffect(kept, into)
    <3>1. CASE VaapiPush
      BY <1>1, <3>1, VaapiPushEffect
    <3>2. CASE VulkanPush
      BY <1>1, <3>2, VulkanPushEffect
    <3>3. CASE D3d12Push
      <4>1. outstanding \subseteq occupied
        BY <1>1, <3>3 DEF D3d12Push, LoanInv, LentInUse
      <4> QED
        BY <1>1, <3>3, <4>1, D3d12PushEffect
    <3> QED
      BY <1>3, <3>1, <3>2, <3>3
  <2> QED
    BY <2>1, PushServes
<1>4. CASE \/ VaapiPoll \/ VaapiFlush \/ VulkanPoll \/ VulkanFlush
           \/ D3d12Poll \/ D3d12Flush \/ Release
  <2>1. VaapiPoll \/ VaapiFlush => Calm
    BY <1>1 DEF Calm, TypeOK, VaapiPoll, VaapiFlush, Flush, VaapiLent, VaapiTakesBack
  <2>2. VulkanPoll \/ VulkanFlush => Calm
    BY <1>1 DEF Calm, TypeOK, VulkanPoll, VulkanFlush, Flush
  <2>3. D3d12Poll \/ D3d12Flush \/ Release => Calm
    BY <1>1 DEF Calm, TypeOK, D3d12Poll, D3d12Flush, Flush, Release, D3d12Release
  <2> QED
    BY <1>4, <2>1, <2>2, <2>3, CalmServes
<1>5. CASE UNCHANGED vars
  <2>1. Taken' = Taken /\ Queue' = Queue /\ Lent' = Lent
    BY <1>5, FramesShow, FramesShowNext DEF vars, Taken
  <2> QED
    BY <2>1 DEF Step
<1> QED
  BY <1>2, <1>3, <1>4, <1>5 DEF Next, Release

\* The sessions, Vulkan's with GPU output apart, implement PictureDelivery:
\* pictures come out in order, at most once, and do not change while lent.
THEOREM Refinement ==
  ASSUME \A s \in Sessions : ~(s.backend = "vulkan" /\ s.output = "gpu")
  PROVE  Spec => RefinesDelivery
<1>1. Init => Delivery!Init
  <2> SUFFICES ASSUME Init PROVE Delivery!Init
    OBVIOUS
  <2>1. Taken = 0 /\ Queue = <<>> /\ Lent = {}
    BY DEF Init, Taken, Queue, Lent
  <2> QED
    BY <2>1 DEF Delivery!Init, Taken, Queue, Lent
<1>2. IInv => KeepsLoans
  BY DEF IInv, TypeOK, KeepsLoans, Backend, Lends
<1>3. (IInv => KeepsLoans) /\ (IInv' => KeepsLoans')
  BY <1>2 DEF IInv, TypeOK, KeepsLoans, Backend, Lends
<1>4. IInv /\ IInv' /\ [Next]_vars =>
        [Delivery!Next]_<<IF unit = None THEN stream.pics ELSE stream.pics - 1,
                          [i \in DOMAIN pending |-> Shows(pending[i])], {Shows(f) : f \in held}>>
  BY <1>3, DeliveryStep DEF Step, Taken, Queue, Lent
<1> QED
  BY <1>1, <1>4, Invariance, PTL DEF Spec, RefinesDelivery, Delivery!Spec

-----------------------------------------------------------------------------
(* The invariant of the reference window.                                    *)

\* How many reference pictures ago frame_num f was, seen from frame_num now.
Age(f, now, range) == IF f > now THEN now - f + range ELSE now - f

\* The DPB sl holds the n reference pictures before frame_num now, each in the surface
\* of its slot. Those the encoder still uses, w after the first `coming`, are among
\* them, and the one before the last is `wants`, unless that is 0.
Keeps(sl, surf, now, range, n, w, coming, wants) ==
  LET ref == References(sl)
      age(s) == Age(sl[s].frameNum, now, range)
  IN
  /\ n \in Nat /\ Cardinality(ref) = n
  /\ \A s \in ref : /\ sl[s].frameNum \in 0 .. range - 1 /\ age(s) \in 1 .. n
                     /\ surf[s] = sl[s].pic
  /\ \A s, t \in ref : age(s) = age(t) => s = t
  /\ \A k \in 1 .. n : \E s \in ref : age(s) = k
  /\ \A s \in ref : age(s) + coming <= Len(w) => sl[s].pic = w[age(s) + coming]
  /\ Len(w) - coming <= n
  /\ wants # 0 => n >= 1 /\ \A s \in ref : age(s) = 1 => sl[s].pic = wants

\* The unit in hand is the last of its stream.
Coming == IF unit # None /\ unit.ref THEN 1 ELSE 0
Wanted == IF unit = None THEN 0 ELSE unit.wants
Now == IF unit = None THEN stream.refs % MaxFrameNum ELSE unit.frameNum

StreamInv ==
  /\ Len(stream.window) <= MaxRefFrames /\ Coming <= stream.refs /\ stream.refPoc <= stream.poc
  /\ unit # None =>
       /\ unit.frameNum = (stream.refs - Coming) % MaxFrameNum
       /\ unit.poc = stream.poc /\ unit.lsb = stream.poc % MaxPicOrderCntLsb
       /\ unit.ref => stream.refPoc = stream.poc /\ stream.window # <<>>
                      /\ stream.window[1] = unit.pic
       /\ unit.kind = "p" <=> unit.wants # 0
       /\ unit.kind = "idr" => unit.ref /\ stream.refs = 1 /\ stream.poc = 0
                               /\ Len(stream.window) = 1

\* References are in the slots the backend has; D3D12's are occupied, and nothing is
\* lent of a session that copies.
SlotsInv ==
  /\ ~Backend("d3d12") => References(slots) \subseteq 0 .. MaxRefFrames
  /\ Backend("d3d12") => References(slots) \subseteq occupied
  /\ ~Lends => outstanding = {}

\* As long as nothing was lost, and the picture in hand is to follow what the DPB holds: it
\* is not recorded there yet, and no IDR picture about to start over.
Intact == KeepsWindow /\ ~broken /\ ~Recorded /\ ~(unit # None /\ unit.kind = "idr")
Depth == IF Backend("d3d12") THEN MaxRefFrames ELSE MaxRefFrames + 1

RefInv ==
  Intact => /\ Keeps(slots, surface, Now, MaxFrameNum, Cardinality(References(slots)),
                     stream.window, Coming, Wanted)
            /\ Cardinality(References(slots)) <= Depth

\* The order count last stored is the last reference's, or the unit's own if it was
\* refused before; the stream's is at most half a range ahead when it is derived.
PocInv ==
  Intact =>
    LET stored == PocValue(prevPoc)
        ahead == stream.poc - stored
    IN /\ prevPoc.lsb \in 0 .. MaxPicOrderCntLsb - 1 /\ ahead \in Nat
       /\ stream.poc % MaxPicOrderCntLsb
            \in {prevPoc.lsb + ahead, prevPoc.lsb + ahead - MaxPicOrderCntLsb}
       /\ unit # None => ahead <= MaxPicOrderCntLsb \div 2
       /\ Coming = 0 => stored = stream.refPoc

\* What the DPB sl, its surfaces and the order count prev stored hold after the last
\* picture of the stream.
PocWhole(prev) ==
  LET ahead == stream.poc - PocValue(prev) IN
  /\ prev.lsb \in 0 .. MaxPicOrderCntLsb - 1 /\ ahead \in Nat
  /\ stream.poc % MaxPicOrderCntLsb \in {prev.lsb + ahead, prev.lsb + ahead - MaxPicOrderCntLsb}
  /\ PocValue(prev) = stream.refPoc
RefWhole(sl, surf) ==
  LET n == Cardinality(References(sl)) IN
  /\ Keeps(sl, surf, stream.refs % MaxFrameNum, MaxFrameNum, n, stream.window, 0, 0)
  /\ n <= Depth

\* A picture whose pixels were lost only after it was recorded is part of the window.
RecordedInv ==
  KeepsWindow /\ ~broken /\ Recorded => RefWhole(slots, surface) /\ PocWhole(prevPoc)

WindowInv == StreamInv /\ SlotsInv /\ RefInv /\ PocInv /\ RecordedInv /\ IntactExact

\* What the DPB holds is not from later in the stream.
NoneAhead ==
  /\ unit # None => unit.pic = stream.pics
  /\ \A s \in References(slots) : slots[s].pic <= stream.pics

-----------------------------------------------------------------------------
(* Numbers that wrap.                                                        *)

\* A counter modulo its range, one step on.
LEMMA ModStep ==
  ASSUME NEW a \in Nat, NEW m \in Nat \ {0}
  PROVE  (a + 1) % m = IF a % m = m - 1 THEN 0 ELSE (a % m) + 1
<1> DEFINE q == a \div m
           r == a % m
           p == (a + 1) \div m
           t == (a + 1) % m
           d == q - p
<1>1. /\ q \in Int /\ p \in Int /\ r \in 0 .. m - 1 /\ t \in 0 .. m - 1
      /\ a = m * q + r /\ a + 1 = m * p + t
  OBVIOUS
<1>2. d \in Int /\ m * d = t - r - 1
  <2> HIDE DEF q, r, p, t
  <2>1. m * (q - p) = m * q - m * p
    BY <1>1
  <2> QED
    BY <1>1, <2>1
<1> HIDE DEF q, r, p, t, d
<1>3. m * d >= 0 - m /\ m * d <= m - 2
  BY <1>1, <1>2
<1>4. ~(d >= 1)
  <2> SUFFICES ASSUME d >= 1 PROVE FALSE
    OBVIOUS
  <2>1. m * d >= m * 1
    BY <1>2
  <2> QED
    BY <1>2, <1>3, <2>1
<1>5. ~(d <= -2)
  <2> SUFFICES ASSUME d <= -2 PROVE FALSE
    OBVIOUS
  <2>1. m * d <= m * (-2)
    BY <1>2
  <2> QED
    BY <1>2, <1>3, <2>1
<1>6. d = 0 \/ d = -1
  BY <1>2, <1>4, <1>5
<1>7. CASE d = 0
  BY <1>1, <1>2, <1>7 DEF r, t
<1>8. CASE d = -1
  BY <1>1, <1>2, <1>8 DEF r, t
<1> QED
  BY <1>6, <1>7, <1>8

\* A number within the range is its own remainder.
LEMMA ModSmall ==
  ASSUME NEW m \in Nat \ {0}, NEW a \in 0 .. m - 1
  PROVE  a % m = a
OBVIOUS

\* A remainder is within the range.
LEMMA ModRange ==
  ASSUME NEW a \in Int, NEW m \in Nat \ {0}
  PROVE  a % m \in 0 .. m - 1
OBVIOUS

\* Twice half of a range is at most the range.
LEMMA Half ==
  ASSUME NEW m \in Nat \ {0}
  PROVE  m \div 2 \in Nat /\ 2 * (m \div 2) <= m
OBVIOUS

\* An age counts back from now, and orders references as FrameNumWrap does.
LEMMA AgeTyped ==
  ASSUME NEW m \in Nat \ {0}, NEW f \in 0 .. m - 1, NEW now \in 0 .. m - 1
  PROVE  /\ Age(f, now, m) \in 0 .. m - 1
         /\ (IF f > now THEN f - m ELSE f) = now - Age(f, now, m)
BY DEF Age

\* Seen from one reference later, an age is one more.
LEMMA AgeNext ==
  ASSUME NEW m \in Nat \ {0}, NEW f \in 0 .. m - 1, NEW now \in 0 .. m - 1,
         Age(f, now, m) < m - 1
  PROVE  Age(f, IF now = m - 1 THEN 0 ELSE now + 1, m) = Age(f, now, m) + 1
BY DEF Age

-----------------------------------------------------------------------------
(* The DPB as a list of its references by age.                               *)

\* There are no more references than slots.
LEMMA ReferencesFinite ==
  ASSUME NEW sl
  PROVE  IsFiniteSet(References(sl)) /\ References(sl) \subseteq Slot
<1>1. IsFiniteSet(Slot)
  <2>1. LastSlot \in Int /\ 0 \in Int
    BY H264Assumption
  <2> QED
    BY <2>1, FS_Interval DEF Slot
<1>2. References(sl) \subseteq Slot
  BY DEF References
<1> QED
  BY <1>1, <1>2, FS_Subset

\* Eviction and entry, as sets of slots.
LEMMA ReferencesMove ==
  ASSUME NEW sl, DOMAIN sl = Slot, NEW d \in Slot, NEW e
  PROVE  /\ References([sl EXCEPT ![d] = None]) = References(sl) \ {d}
         /\ e # None => References([sl EXCEPT ![d] = e]) = References(sl) \cup {d}
BY DEF References

\* What the surfaces of other slots show does not matter, nor, in the end, what was wanted.
LEMMA KeepsElsewhere ==
  ASSUME NEW sl, NEW surf, NEW now, NEW m, NEW n, NEW w, NEW c, NEW p, NEW next,
         Keeps(sl, surf, now, m, n, w, c, p), \A s \in References(sl) : next[s] = surf[s]
  PROVE  Keeps(sl, next, now, m, n, w, c, p) /\ Keeps(sl, next, now, m, n, w, c, 0)
BY DEF Keeps

\* The oldest reference is evicted.
LEMMA KeepsEvicting ==
  ASSUME NEW sl, DOMAIN sl = Slot, NEW surf, NEW now, NEW m, NEW n, NEW w, NEW c, NEW p,
         NEW next, Keeps(sl, surf, now, m, n, w, c, p),
         NEW d \in References(sl), Age(sl[d].frameNum, now, m) = n,
         Len(w) - c <= n - 1, p # 0 => n - 1 >= 1,
         \A s \in References(sl) \ {d} : next[s] = surf[s]
  PROVE  Keeps([sl EXCEPT ![d] = None], next, now, m, n - 1, w, c, p)
<1> DEFINE R == References(sl)
           slx == [sl EXCEPT ![d] = None]
           Q == References(slx)
           a(s) == Age(sl[s].frameNum, now, m)
<1>1. d \in Slot /\ IsFiniteSet(R) /\ Q = R \ {d} /\ R \subseteq Slot
  <2>1. d \in Slot
    BY DEF References
  <2> QED
    BY <2>1, ReferencesMove, ReferencesFinite
<1>2. \A s \in Q : slx[s] = sl[s] /\ s \in R /\ s # d
  BY <1>1
<1>3. /\ n \in Nat /\ Cardinality(R) = n
      /\ \A s \in R : sl[s].frameNum \in 0 .. m - 1 /\ a(s) \in 1 .. n /\ surf[s] = sl[s].pic
      /\ \A s, t \in R : a(s) = a(t) => s = t
      /\ \A k \in 1 .. n : \E s \in R : a(s) = k
      /\ \A s \in R : a(s) + c <= Len(w) => sl[s].pic = w[a(s) + c]
      /\ p # 0 => \A s \in R : a(s) = 1 => sl[s].pic = p
  BY DEF Keeps
<1>4. a(d) = n /\ d \in R
  OBVIOUS
<1>5. Cardinality(Q) = n - 1 /\ n - 1 \in Nat
  <2> HIDE DEF R, Q
  <2>1. Cardinality(R \ {d}) = Cardinality(R) - 1
    BY <1>1, <1>4, FS_RemoveElement
  <2> QED
    BY <1>1, <1>3, <1>4, <2>1
<1> HIDE DEF a, R, Q, slx
<1>6. \A s \in Q : a(s) \in 1 .. n - 1
  <2> SUFFICES ASSUME NEW s \in Q PROVE a(s) \in 1 .. n - 1
    OBVIOUS
  <2>1. a(s) # n /\ a(s) \in 1 .. n
    BY <1>2, <1>3, <1>4
  <2> QED
    BY <1>3, <2>1
<1>7. \A k \in 1 .. n - 1 : \E s \in Q : a(s) = k
  <2> SUFFICES ASSUME NEW k \in 1 .. n - 1 PROVE \E s \in Q : a(s) = k
    OBVIOUS
  <2>1. k \in 1 .. n /\ k # n
    BY <1>3
  <2>2. PICK s \in R : a(s) = k
    BY <1>3, <2>1
  <2>3. s # d
    BY <1>4, <2>1, <2>2
  <2> QED
    BY <1>1, <2>2, <2>3
<1>8. \A s \in Q : a(s) = Age(slx[s].frameNum, now, m)
  BY <1>2 DEF a
<1>9. \A s \in Q : /\ slx[s].frameNum \in 0 .. m - 1 /\ a(s) \in 1 .. n - 1
                   /\ next[s] = slx[s].pic
  BY <1>1, <1>2, <1>3, <1>6 DEF R
<1>10. \A s \in Q : a(s) + c <= Len(w) => slx[s].pic = w[a(s) + c]
  BY <1>2, <1>3
<1>11. p # 0 => n - 1 >= 1 /\ \A s \in Q : a(s) = 1 => slx[s].pic = p
  BY <1>2, <1>3
<1>12. \A s, t \in Q : a(s) = a(t) => s = t
  BY <1>2, <1>3
<1>13. Keeps(slx, next, now, m, n - 1, w, c, p)
  BY <1>5, <1>7, <1>8, <1>9, <1>10, <1>11, <1>12 DEF Keeps, Q
<1> QED
  BY <1>13 DEF slx

\* The picture in hand becomes the youngest.
LEMMA KeepsAdding ==
  ASSUME NEW sl, DOMAIN sl = Slot, NEW surf, NEW m \in Nat \ {0}, NEW now \in 0 .. m - 1,
         NEW n, NEW w, NEW p, NEW next, Keeps(sl, surf, now, m, n, w, 1, p),
         NEW d \in Slot, d \notin References(sl), NEW e, e # None, e.frameNum = now,
         Len(w) \in Nat, e.pic = w[1], n < m - 1,
         next[d] = e.pic, \A s \in References(sl) : next[s] = surf[s]
  PROVE  Keeps([sl EXCEPT ![d] = e], next, IF now = m - 1 THEN 0 ELSE now + 1, m, n + 1, w, 0, 0)
<1> DEFINE R == References(sl)
           slx == [sl EXCEPT ![d] = e]
           Q == References(slx)
           a(s) == Age(sl[s].frameNum, now, m)
           then == IF now = m - 1 THEN 0 ELSE now + 1
           b(s) == Age(slx[s].frameNum, then, m)
<1>1. IsFiniteSet(R) /\ Q = R \cup {d} /\ R \subseteq Slot
  BY ReferencesMove, ReferencesFinite
<1>2. \A s \in R : slx[s] = sl[s] /\ s # d
  BY <1>1
<1>3. slx[d] = e
  OBVIOUS
<1>4. /\ n \in Nat /\ Cardinality(R) = n
      /\ \A s \in R : sl[s].frameNum \in 0 .. m - 1 /\ a(s) \in 1 .. n /\ surf[s] = sl[s].pic
      /\ \A s, t \in R : a(s) = a(t) => s = t
      /\ \A k \in 1 .. n : \E s \in R : a(s) = k
      /\ \A s \in R : a(s) + 1 <= Len(w) => sl[s].pic = w[a(s) + 1]
      /\ Len(w) - 1 <= n
  BY DEF Keeps
<1>5. Cardinality(Q) = n + 1 /\ n + 1 \in Nat
  <2>1. d \notin R
    OBVIOUS
  <2> HIDE DEF R, Q
  <2>2. Cardinality(R \cup {d}) = Cardinality(R) + 1
    BY <1>1, <2>1, FS_AddElement
  <2> QED
    BY <1>1, <1>4, <2>2
<1>6. \A s \in R : b(s) = a(s) + 1
  <2> SUFFICES ASSUME NEW s \in R PROVE b(s) = a(s) + 1
    OBVIOUS
  <2>1. sl[s].frameNum \in 0 .. m - 1 /\ Age(sl[s].frameNum, now, m) < m - 1
    BY <1>4
  <2> QED
    BY <1>2, <2>1, AgeNext
<1>7. b(d) = 1
  <2>1. Age(now, now, m) = 0
    BY DEF Age
  <2>2. 0 < m - 1
    BY <1>4
  <2> QED
    BY <1>3, <2>1, <2>2, AgeNext
<1> HIDE DEF a, b, R, Q, slx, then
<1>8. \A s \in Q : b(s) \in 1 .. n + 1
  BY <1>1, <1>4, <1>6, <1>7
<1>9. \A s, t \in Q : b(s) = b(t) => s = t
  <2> SUFFICES ASSUME NEW s \in Q, NEW t \in Q, b(s) = b(t) PROVE s = t
    OBVIOUS
  <2>1. CASE s \in R /\ t \in R
    BY <1>4, <1>6, <2>1
  <2>2. \A u \in R : b(u) # b(d)
    BY <1>4, <1>6, <1>7
  <2> QED
    BY <1>1, <2>1, <2>2
<1>10. \A k \in 1 .. n + 1 : \E s \in Q : b(s) = k
  <2> SUFFICES ASSUME NEW k \in 1 .. n + 1 PROVE \E s \in Q : b(s) = k
    OBVIOUS
  <2>1. CASE k = 1
    BY <1>1, <1>7, <2>1
  <2>2. CASE k # 1
    <3>1. k - 1 \in 1 .. n
      BY <1>4, <2>2
    <3>2. PICK s \in R : a(s) = k - 1
      BY <1>4, <3>1
    <3> QED
      BY <1>1, <1>6, <3>2
  <2> QED
    BY <2>1, <2>2
<1>11. \A s \in Q : slx[s].frameNum \in 0 .. m - 1 /\ next[s] = slx[s].pic
  <2>1. slx[d].frameNum \in 0 .. m - 1 /\ next[d] = slx[d].pic
    BY <1>3
  <2>2. \A s \in R : slx[s].frameNum \in 0 .. m - 1 /\ next[s] = slx[s].pic
    BY <1>2, <1>4 DEF R
  <2> QED
    BY <1>1, <2>1, <2>2
<1>12. \A s \in Q : b(s) + 0 <= Len(w) => slx[s].pic = w[b(s) + 0]
  <2>1. \A s \in R : b(s) <= Len(w) => slx[s].pic = w[b(s)]
    BY <1>2, <1>4, <1>6
  <2>2. slx[d].pic = w[b(d)]
    BY <1>3, <1>7
  <2>3. \A s \in Q : b(s) + 0 = b(s)
    BY <1>8
  <2> QED
    BY <1>1, <2>1, <2>2, <2>3
<1>13. Len(w) - 0 <= n + 1
  BY <1>4
<1>14. Keeps(slx, next, then, m, n + 1, w, 0, 0)
  BY <1>5, <1>8, <1>9, <1>10, <1>11, <1>12, <1>13 DEF Keeps, Q, b
<1> QED
  BY <1>14 DEF slx, then

\* An IDR picture is the only reference.
LEMMA KeepsFirst ==
  ASSUME NEW sl, DOMAIN sl = Slot, NEW m \in Nat, m > 1, NEW w, NEW next,
         References(sl) = {}, NEW d \in Slot, NEW e, e # None, e.frameNum = 0,
         Len(w) = 1, e.pic = w[1], next[d] = e.pic
  PROVE  Keeps([sl EXCEPT ![d] = e], next, 1, m, 1, w, 0, 0)
<1> DEFINE slx == [sl EXCEPT ![d] = e]
           Q == References(slx)
<1>1. Q = {d} /\ slx[d] = e
  <2>1. Q = References(sl) \cup {d}
    BY ReferencesMove
  <2> QED
    BY <2>1
<1>2. Cardinality(Q) = 1
  BY <1>1, FS_Singleton
<1>3. Age(slx[d].frameNum, 1, m) = 1
  BY <1>1 DEF Age
<1> HIDE DEF slx, Q
<1>4. Keeps(slx, next, 1, m, 1, w, 0, 0)
  BY <1>1, <1>2, <1>3 DEF Keeps, Q
<1> QED
  BY <1>4 DEF slx

\* The stream goes on by a picture: the references are one picture older in its window.
LEMMA KeepsShifting ==
  ASSUME NEW sl, NEW surf, NEW now, NEW m, NEW n, NEW w, NEW v, NEW c \in 0 .. 1, NEW p,
         Keeps(sl, surf, now, m, n, w, 0, 0), Len(v) \in Nat, Len(w) \in Nat,
         Len(v) - c <= Len(w), \A k \in 1 .. Len(w) : k + c <= Len(v) => v[k + c] = w[k],
         p # 0 => Len(w) >= 1 /\ p = w[1]
  PROVE  Keeps(sl, surf, now, m, n, v, c, p)
<1> DEFINE R == References(sl)
           a(s) == Age(sl[s].frameNum, now, m)
<1>1. /\ n \in Nat /\ Cardinality(R) = n
      /\ \A s \in R : sl[s].frameNum \in 0 .. m - 1 /\ a(s) \in 1 .. n /\ surf[s] = sl[s].pic
      /\ \A s, t \in R : a(s) = a(t) => s = t
      /\ \A k \in 1 .. n : \E s \in R : a(s) = k
      /\ \A s \in R : a(s) + 0 <= Len(w) => sl[s].pic = w[a(s) + 0]
      /\ Len(w) - 0 <= n
  BY DEF Keeps
<1> HIDE DEF R, a
<1>2. \A s \in R : a(s) <= Len(w) => sl[s].pic = w[a(s)]
  <2>1. \A s \in R : a(s) + 0 = a(s)
    BY <1>1
  <2> QED
    BY <1>1, <2>1
<1>3. \A s \in R : a(s) + c <= Len(v) => sl[s].pic = v[a(s) + c]
  <2> SUFFICES ASSUME NEW s \in R, a(s) + c <= Len(v) PROVE sl[s].pic = v[a(s) + c]
    OBVIOUS
  <2>1. a(s) \in 1 .. Len(w)
    BY <1>1
  <2> QED
    BY <1>2, <2>1
<1>4. Len(v) - c <= n
  BY <1>1
<1>5. p # 0 => n >= 1 /\ \A s \in R : a(s) = 1 => sl[s].pic = p
  BY <1>1, <1>2
<1> QED
  BY <1>1, <1>3, <1>4, <1>5 DEF Keeps, R, a

\* IsOldest finds the reference of the greatest age.
LEMMA OldestAge ==
  ASSUME MaxFrameNum \in Nat \ {0}, unit.frameNum \in 0 .. MaxFrameNum - 1,
         NEW sl, NEW surf, NEW n, NEW w, NEW c, NEW p,
         Keeps(sl, surf, unit.frameNum, MaxFrameNum, n, w, c, p), NEW d, IsOldest(d, sl)
  PROVE  d \in References(sl) /\ Age(sl[d].frameNum, unit.frameNum, MaxFrameNum) = n
<1> DEFINE R == References(sl)
           a(s) == Age(sl[s].frameNum, unit.frameNum, MaxFrameNum)
           g(s) == FrameNumWrap(sl[s].frameNum)
<1>1. /\ n \in Nat /\ \A s \in R : sl[s].frameNum \in 0 .. MaxFrameNum - 1 /\ a(s) \in 1 .. n
      /\ \A s, t \in R : a(s) = a(t) => s = t
      /\ \A k \in 1 .. n : \E s \in R : a(s) = k
  BY DEF Keeps
<1>2. \A s \in R : g(s) = unit.frameNum - a(s)
  BY <1>1, AgeTyped DEF FrameNumWrap
<1>3. d \in R /\ \A t \in R \ {d} : g(d) < g(t) \/ (g(d) = g(t) /\ d < t)
  BY DEF IsOldest
<1> HIDE DEF R, a, g
<1>4. PICK t \in R : a(t) = n
  BY <1>1, <1>3
<1>5. CASE t = d
  BY <1>3, <1>4, <1>5 DEF R, a
<1>6. CASE t # d
  <2>1. g(d) <= g(t) /\ g(d) = unit.frameNum - a(d) /\ g(t) = unit.frameNum - a(t)
    <3>1. g(d) = unit.frameNum - a(d) /\ g(t) = unit.frameNum - a(t)
      BY <1>2, <1>3
    <3>2. g(d) < g(t) \/ g(d) = g(t)
      BY <1>3, <1>6
    <3> QED
      BY <1>1, <1>3, <3>1, <3>2
  <2>2. a(d) >= a(t) /\ a(d) \in 1 .. n
    BY <1>1, <1>3, <2>1
  <2>3. a(d) = a(t)
    BY <1>1, <1>4, <2>2
  <2> QED
    BY <1>1, <1>3, <1>6, <2>3
<1> QED
  BY <1>5, <1>6

\* The head of RefPicList0 is the youngest.
LEMMA HeadAge ==
  ASSUME MaxFrameNum \in Nat \ {0}, unit.frameNum \in 0 .. MaxFrameNum - 1,
         NEW sl, NEW surf, NEW n, NEW w, NEW c, NEW p,
         Keeps(sl, surf, unit.frameNum, MaxFrameNum, n, w, c, p), NEW d, IsHeadOfList0(d, sl)
  PROVE  d \in References(sl) /\ Age(sl[d].frameNum, unit.frameNum, MaxFrameNum) = 1
<1> DEFINE R == References(sl)
           a(s) == Age(sl[s].frameNum, unit.frameNum, MaxFrameNum)
           g(s) == FrameNumWrap(sl[s].frameNum)
<1>1. /\ n \in Nat /\ \A s \in R : sl[s].frameNum \in 0 .. MaxFrameNum - 1 /\ a(s) \in 1 .. n
      /\ \A s, t \in R : a(s) = a(t) => s = t
      /\ \A k \in 1 .. n : \E s \in R : a(s) = k
  BY DEF Keeps
<1>2. \A s \in R : g(s) = unit.frameNum - a(s)
  BY <1>1, AgeTyped DEF FrameNumWrap
<1>3. d \in R /\ \A t \in R \ {d} : g(d) > g(t) \/ (g(d) = g(t) /\ d < t)
  BY DEF IsHeadOfList0
<1> HIDE DEF R, a, g
<1>4. PICK t \in R : a(t) = 1
  BY <1>1, <1>3
<1>5. CASE t = d
  BY <1>3, <1>4, <1>5 DEF R, a
<1>6. CASE t # d
  <2>1. g(d) >= g(t) /\ g(d) = unit.frameNum - a(d) /\ g(t) = unit.frameNum - a(t)
    <3>1. g(d) = unit.frameNum - a(d) /\ g(t) = unit.frameNum - a(t)
      BY <1>2, <1>3
    <3>2. g(d) > g(t) \/ g(d) = g(t)
      BY <1>3, <1>6
    <3> QED
      BY <1>1, <1>3, <3>1, <3>2
  <2>2. a(d) <= a(t) /\ a(d) \in 1 .. n
    BY <1>1, <1>3, <2>1
  <2>3. a(d) = a(t)
    BY <1>1, <1>4, <2>2
  <2> QED
    BY <1>1, <1>3, <1>6, <2>3
<1> QED
  BY <1>5, <1>6

\* A P picture is predicted from the surface of the picture it wants.
LEMMA HeadFound ==
  ASSUME MaxFrameNum \in Nat \ {0}, unit.frameNum \in 0 .. MaxFrameNum - 1,
         NEW sl, NEW n, NEW w, NEW c, unit.wants # 0,
         Keeps(sl, surface, unit.frameNum, MaxFrameNum, n, w, c, unit.wants),
         NEW from, from # None, IsHeadOfList0(from, sl)
  PROVE  Found(from) = unit.wants
<1>1. from \in References(sl) /\ Age(sl[from].frameNum, unit.frameNum, MaxFrameNum) = 1
  BY HeadAge
<1>2. surface[from] = sl[from].pic /\ sl[from].pic = unit.wants
  BY <1>1 DEF Keeps
<1> QED
  BY <1>2 DEF Found

-----------------------------------------------------------------------------
(* The order count.                                                          *)

\* What is derived is what the encoder gave.
LEMMA PocExact ==
  ASSUME TypeOK, StreamInv, PocInv, unit # None, unit.kind = "idr" \/ Intact
  PROVE  PocValue(UnitPoc) = unit.poc /\ UnitPoc.lsb = unit.lsb
<1> DEFINE m == MaxPicOrderCntLsb
           h == m \div 2
<1>1. m \in Nat \ {0} /\ h \in Nat /\ 2 * h <= m
  BY Bounds, Half
<1>2. /\ unit.poc = stream.poc /\ unit.lsb = stream.poc % m /\ unit.poc \in Nat
      /\ unit.lsb \in 0 .. m - 1
  BY UnitTyped DEF StreamInv, Unit
<1> HIDE DEF h
<1>3. CASE unit.kind = "idr"
  <2>1. unit.poc = 0 /\ unit.lsb = 0
    BY <1>1, <1>2, <1>3, ModSmall DEF StreamInv
  <2> QED
    BY <1>1, <1>3, <2>1 DEF PocValue, UnitPoc, PicOrderCntMsb, NoPoc, h
<1>4. CASE unit.kind # "idr"
  <2> DEFINE lsb == prevPoc.lsb
             msb == prevPoc.msb
             d == stream.poc - (msb + lsb)
  <2>1. /\ lsb \in 0 .. m - 1 /\ msb \in Int /\ d \in Nat /\ d <= h
        /\ stream.poc = msb + lsb + d
        /\ unit.lsb = lsb + d \/ unit.lsb = lsb + d - m
    <3>1. msb \in Int /\ lsb \in Nat /\ stream.poc \in Nat
      BY DEF TypeOK
    <3>2. lsb \in 0 .. m - 1 /\ d \in Nat /\ stream.poc % m \in {lsb + d, lsb + d - m} /\ d <= h
      BY <1>4 DEF PocInv, PocValue, h
    <3> QED
      BY <1>1, <1>2, <3>1, <3>2
  <2>2. UnitPoc = [msb |-> PicOrderCntMsb(unit.lsb, prevPoc), lsb |-> unit.lsb]
    BY <1>4 DEF UnitPoc
  <2>3. PicOrderCntMsb(unit.lsb, prevPoc) = IF unit.lsb = lsb + d THEN msb ELSE msb + m
    <3> HIDE DEF d
    <3>1. CASE unit.lsb = lsb + d
      BY <1>1, <1>2, <2>1, <3>1 DEF PicOrderCntMsb, h
    <3>2. CASE unit.lsb # lsb + d
      <4>1. unit.lsb < lsb /\ lsb - unit.lsb >= h
        BY <1>1, <1>2, <2>1, <3>2
      <4> QED
        BY <3>2, <4>1 DEF PicOrderCntMsb, h
    <3> QED
      BY <3>1, <3>2
  <2> HIDE DEF d
  <2>4. PocValue(UnitPoc) = (IF unit.lsb = lsb + d THEN msb ELSE msb + m) + unit.lsb
    BY <2>2, <2>3 DEF PocValue
  <2> QED
    BY <1>1, <1>2, <2>1, <2>2, <2>4
<1> QED
  BY <1>3, <1>4

-----------------------------------------------------------------------------
(* What a push does to the window.                                           *)

\* A push that stores the unit's order count, or leaves the stored one alone.
LEMMA PocKept ==
  ASSUME TypeOK, StreamInv, PocInv, unit # None, UNCHANGED <<session, stream>>,
         unit.kind = "idr" \/ Intact,
         \/ prevPoc' = UnitPoc /\ unit.ref
         \/ /\ prevPoc' = prevPoc /\ Intact
            /\ unit' = unit \/ (unit' = None /\ ~unit.ref)
  PROVE  PocInv'
<1>1. /\ MaxPicOrderCntLsb \in Nat \ {0} /\ stream.poc \in Nat /\ unit \in Unit
      /\ stream' = stream
  BY UnitTyped, Bounds DEF TypeOK
<1>2. CASE prevPoc' = UnitPoc /\ unit.ref
  <2>1. PocValue(prevPoc') = stream.poc /\ prevPoc'.lsb = stream.poc % MaxPicOrderCntLsb
    BY <1>2, PocExact DEF StreamInv
  <2>2. stream.refPoc = stream.poc
    BY <1>2 DEF StreamInv
  <2>3. stream.poc % MaxPicOrderCntLsb \in 0 .. MaxPicOrderCntLsb - 1
        /\ MaxPicOrderCntLsb \div 2 \in Nat
    <3>1. MaxPicOrderCntLsb \div 2 \in Nat
      BY <1>1, Half
    <3>2. stream.poc \in Int
      BY <1>1
    <3>3. stream.poc % MaxPicOrderCntLsb \in 0 .. MaxPicOrderCntLsb - 1
      BY <1>1, <3>2, ModRange
    <3> QED
      BY <3>1, <3>3
  <2> DEFINE l == stream.poc % MaxPicOrderCntLsb
             h == MaxPicOrderCntLsb \div 2
  <2> HIDE DEF l, h
  <2>4. /\ prevPoc'.lsb = l /\ l \in 0 .. MaxPicOrderCntLsb - 1 /\ h \in Nat
    BY <2>1, <2>3 DEF l, h
  <2>5. l = l + (stream.poc - stream.poc)
    BY <1>1, <2>4
  <2>6. PocInv' <=> (Intact' =>
          /\ prevPoc'.lsb \in 0 .. MaxPicOrderCntLsb - 1 /\ stream.poc - PocValue(prevPoc') \in Nat
          /\ l \in {prevPoc'.lsb + (stream.poc - PocValue(prevPoc')),
                    prevPoc'.lsb + (stream.poc - PocValue(prevPoc')) - MaxPicOrderCntLsb}
          /\ unit' # None => stream.poc - PocValue(prevPoc') <= h
          /\ Coming' = 0 => PocValue(prevPoc') = stream.refPoc)
    BY <1>1 DEF PocInv, l, h, PocValue
  <2> QED
    BY <1>1, <2>1, <2>2, <2>4, <2>5, <2>6
<1>3. CASE /\ prevPoc' = prevPoc /\ Intact
           /\ unit' = unit \/ (unit' = None /\ ~unit.ref)
  <2>1. Coming' = 0 => Coming = 0
    BY <1>3 DEF Coming
  <2> QED
    BY <1>1, <1>3, <2>1 DEF PocInv, PocValue
<1> QED
  BY <1>2, <1>3

\* The stream of a push is the encoder's: it may only take the unit in hand.
LEMMA StreamKept ==
  ASSUME TypeOK, StreamInv, UNCHANGED <<session, stream>>, unit' = unit \/ unit' = None
  PROVE  StreamInv'
<1>1. stream.refs \in Nat /\ stream' = stream /\ MaxRefFrames' = MaxRefFrames
      /\ MaxFrameNum' = MaxFrameNum
  BY DEF TypeOK, MaxRefFrames, MaxFrameNum
<1>2. CASE unit' = unit
  BY <1>1, <1>2 DEF StreamInv, Coming
<1>3. CASE unit' = None
  BY <1>1, <1>3 DEF StreamInv, Coming
<1> QED
  BY <1>2, <1>3

\* A broken stream, or one whose DPB is too small for it, has no window to keep.
LEMMA NoWindow ==
  ASSUME TypeOK, WindowInv, UNCHANGED <<session, stream>>, unit' = unit \/ unit' = None,
         SlotsInv', broken' \/ ~KeepsWindow
  PROVE  WindowInv'
<1>1. StreamInv'
  BY StreamKept DEF WindowInv
<1>2. KeepsWindow' = KeepsWindow
  BY DEF KeepsWindow, Backend, Lends, MaxRefFrames, MaxFrameNum, VaapiSlot, VulkanSlot
<1> QED
  BY <1>1, <1>2 DEF WindowInv, RefInv, PocInv, RecordedInv, IntactExact, Intact

\* What the DPB holds, said of the state after a step that leaves the stream alone.
LEMMA WholeNext ==
  ASSUME UNCHANGED <<session, stream>>
  PROVE  /\ RefWhole(slots', surface') <=> RefWhole(slots, surface)'
         /\ PocWhole(prevPoc') <=> PocWhole(prevPoc)'
<1>1. /\ Depth' = Depth /\ MaxFrameNum' = MaxFrameNum /\ References(slots') = References(slots)'
      /\ stream' = stream
  BY DEF Depth, MaxFrameNum, References, Backend, MaxRefFrames
<1>2. PocValue(prevPoc') = PocValue(prevPoc)'
  BY DEF PocValue
<1>3. RefWhole(slots', surface') <=> RefWhole(slots, surface)'
  <2> DEFINE n == Cardinality(References(slots'))
             k == stream.refs % MaxFrameNum
  <2>1. RefWhole(slots, surface)' <=>
          /\ Keeps(slots', surface', k, MaxFrameNum, n, stream.window, 0, 0) /\ n <= Depth
    BY <1>1 DEF RefWhole
  <2> QED
    BY <2>1 DEF RefWhole
<1>4. PocWhole(prevPoc') <=> PocWhole(prevPoc)'
  BY <1>1, <1>2 DEF PocWhole
<1> QED
  BY <1>3, <1>4

\* Between two pictures the window is whole.
LEMMA WholeAfter ==
  ASSUME UNCHANGED <<session, stream>>, unit' = None,
         RefWhole(slots', surface'), PocWhole(prevPoc')
  PROVE  RefInv' /\ PocInv'
<1>1. RefWhole(slots, surface)' /\ PocWhole(prevPoc)'
  BY WholeNext
<1>2. Coming' = 0 /\ Wanted' = 0 /\ Now' = (stream.refs % MaxFrameNum)'
  BY DEF Coming, Wanted, Now
<1>3. RefInv'
  BY <1>1, <1>2 DEF RefInv, RefWhole
<1>4. PocInv'
  BY <1>1 DEF PocInv, PocWhole
<1> QED
  BY <1>3, <1>4

\* Nothing is in sl that was not in the DPB.
Within(sl) == \A s \in References(sl) : s \in References(slots) /\ sl[s] = slots[s]

\* A push that keeps the picture in hand keeps the window, if the DPB has lost at
\* most what is older than it.
LEMMA Withheld ==
  ASSUME TypeOK, WindowInv, unit # None, UNCHANGED <<session, stream, unit>>,
         broken' = (broken \/ Repeated), Within(slots'),
         flushed => UNCHANGED <<slots, surface, prevPoc>>,
         SlotsInv', last'.result \in {"backend", "closed"},
         prevPoc' = prevPoc \/ (unit.ref /\ prevPoc' = UnitPoc),
         NEW n, Intact => Keeps(slots', surface', unit.frameNum, MaxFrameNum, n, stream.window,
                                Coming, unit.wants) /\ n <= Depth
  PROVE  WindowInv'
<1> SUFFICES ASSUME ~Repeated PROVE WindowInv'
  BY NoWindow
<1>1. StreamInv'
  BY StreamKept DEF WindowInv
<1>2. /\ broken' = broken /\ Depth' = Depth /\ MaxFrameNum' = MaxFrameNum /\ Coming' = Coming
      /\ stream' = stream /\ unit' = unit /\ KeepsWindow' = KeepsWindow
  BY DEF KeepsWindow, Depth, Coming, Backend, Lends, MaxRefFrames, MaxFrameNum, VaapiSlot,
     VulkanSlot, TypeOK
<1>3. Recorded => flushed
  BY DEF Repeated
<1>4. Recorded' <=> Recorded
  <2>1. Recorded' => Recorded
    <3>1. References(slots') = References(slots)'
      BY DEF References
    <3> QED
      BY <1>2, <3>1 DEF Recorded, Within
  <2>2. Recorded => Recorded'
    BY <1>2, <1>3 DEF Recorded, References
  <2> QED
    BY <2>1, <2>2
<1>5. Intact' <=> Intact
  BY <1>2, <1>4 DEF Intact
<1>6. IntactExact'
  BY DEF IntactExact
<1>7. PocInv'
  <2>1. CASE Intact
    BY <2>1, PocKept DEF WindowInv
  <2>2. CASE ~Intact
    BY <1>5, <2>2 DEF PocInv
  <2> QED
    BY <2>1, <2>2
<1>8. RefInv'
  <2> SUFFICES ASSUME Intact PROVE RefInv'
    BY <1>5 DEF RefInv
  <2>1. n = Cardinality(References(slots')) /\ References(slots') = References(slots)'
    BY DEF Keeps, References
  <2>2. Now' = unit.frameNum /\ Wanted' = unit.wants
    BY <1>2 DEF Now, Wanted
  <2> QED
    BY <1>2, <2>1, <2>2 DEF RefInv
<1>9. RecordedInv'
  <2> SUFFICES ASSUME Recorded, KeepsWindow, ~broken PROVE RecordedInv'
    BY <1>2, <1>4 DEF RecordedInv
  <2>1. UNCHANGED <<slots, surface, prevPoc>>
    BY <1>3
  <2>2. RefWhole(slots, surface) /\ PocWhole(prevPoc)
    BY DEF WindowInv, RecordedInv
  <2> QED
    BY <1>2, <2>1, <2>2, WholeNext DEF RecordedInv
<1> QED
  BY <1>1, <1>6, <1>7, <1>8, <1>9 DEF WindowInv

\* Only the references of a DPB matter.
LEMMA KeepsSame ==
  ASSUME NEW sl, NEW same, NEW surf, NEW now, NEW m, NEW n, NEW w, NEW c, NEW p,
         Keeps(sl, surf, now, m, n, w, c, p), References(same) = References(sl),
         \A s \in References(sl) : same[s] = sl[s]
  PROVE  Keeps(same, surf, now, m, n, w, c, p)
BY DEF Keeps

\* The order count after a picture that stores its own, or is no reference.
LEMMA PocAfter ==
  ASSUME TypeOK, StreamInv, PocInv, unit # None, unit.kind = "idr" \/ Intact,
         unit.kind = "idr" => unit.ref
  PROVE  PocWhole(IF unit.ref THEN UnitPoc ELSE prevPoc)
<1>1. MaxPicOrderCntLsb \in Nat \ {0} /\ stream.poc \in Nat
  BY Bounds DEF TypeOK
<1>2. CASE unit.ref
  <2> DEFINE l == stream.poc % MaxPicOrderCntLsb
  <2>1. PocValue(UnitPoc) = stream.poc /\ UnitPoc.lsb = l /\ stream.refPoc = stream.poc
    BY <1>2, PocExact DEF StreamInv
  <2>2. l \in 0 .. MaxPicOrderCntLsb - 1
    <3>1. stream.poc \in Int
      BY <1>1
    <3> QED
      BY <1>1, <3>1, ModRange
  <2> HIDE DEF l
  <2>3. stream.poc - stream.poc = 0 /\ l = l + 0
    BY <1>1, <2>2
  <2>4. PocWhole(UnitPoc)
    BY <1>1, <2>1, <2>2, <2>3 DEF PocWhole, l
  <2> QED
    BY <1>2, <2>4
<1>3. CASE ~unit.ref
  <2>1. Intact /\ Coming = 0
    BY <1>3 DEF Coming
  <2>2. PocWhole(prevPoc)
    BY <2>1 DEF PocInv, PocWhole
  <2> QED
    BY <1>3, <2>2
<1> QED
  BY <1>2, <1>3

\* A picture decoded into a slot that holds no reference moves the window on by itself,
\* if it is one.
LEMMA Decoded ==
  ASSUME TypeOK, WindowInv, unit # None,
         NEW sl, DOMAIN sl = Slot, NEW dst \in Slot, dst \notin References(sl),
         NEW next, unit.ref => next = [sl EXCEPT ![dst] = RefEntry],
         ~unit.ref => References(next) = References(sl) /\ \A s \in References(sl) : next[s] = sl[s],
         NEW surf, surf[dst] = unit.pic, \A s \in References(sl) : surf[s] = surface[s],
         unit.kind = "idr" => References(sl) = {},
         KeepsWindow, unit.kind = "idr" \/ Intact,
         NEW n, Intact => Keeps(sl, surface, unit.frameNum, MaxFrameNum, n, stream.window,
                                Coming, unit.wants) /\ n + Coming <= Depth
  PROVE  /\ RefWhole(next, surf)
         /\ PocWhole(IF unit.ref THEN UnitPoc ELSE prevPoc) /\ PocValue(UnitPoc) = unit.poc
<1>1. /\ unit \in Unit /\ RefEntry \in Reference /\ stream \in [pics : 0 .. MaxPictures,
           refs : Nat, poc : Nat, refPoc : Nat, window : Seq(Picture)]
      /\ MaxFrameNum \in Nat \ {0} /\ surface \in [Slot -> 0 .. MaxPictures]
  BY UnitTyped, Bounds DEF TypeOK
<1>2. PocValue(UnitPoc) = unit.poc /\ PocWhole(IF unit.ref THEN UnitPoc ELSE prevPoc)
  <2>1. unit.kind = "idr" => unit.ref
    BY DEF WindowInv, StreamInv
  <2> QED
    BY <2>1, PocExact, PocAfter DEF WindowInv
<1>3. RefWhole(next, surf)
  <2>1. SUFFICES \E k : Keeps(next, surf, stream.refs % MaxFrameNum, MaxFrameNum, k,
                              stream.window, 0, 0) /\ k <= Depth
    <3>1. ASSUME NEW k, Keeps(next, surf, stream.refs % MaxFrameNum, MaxFrameNum, k,
                              stream.window, 0, 0) /\ k <= Depth
          PROVE  RefWhole(next, surf)
      <4>1. k = Cardinality(References(next))
        BY <3>1 DEF Keeps
      <4> QED
        BY <3>1, <4>1 DEF RefWhole
    <3> QED
      BY <2>1, <3>1
  <2>2. RefEntry # None /\ RefEntry.pic = unit.pic /\ RefEntry.frameNum = unit.frameNum
    <3>1. RefEntry \in AnyReference
      BY <1>1 DEF Reference, AnyReference, Picture
    <3> QED
      BY <3>1, H264Assumption DEF RefEntry
  <2>3. surf[dst] = unit.pic /\ \A s \in References(sl) : surf[s] = surface[s]
    OBVIOUS
  <2>4. CASE unit.kind = "idr"
    <3>1. /\ unit.ref /\ stream.refs = 1 /\ Len(stream.window) = 1 /\ stream.window[1] = unit.pic
          /\ Coming = 1 /\ unit.frameNum = (stream.refs - Coming) % MaxFrameNum
      BY <2>4 DEF WindowInv, StreamInv, Coming
    <3>2. MaxFrameNum > 1 /\ Depth >= 1
      BY Bounds DEF KeepsWindow, Depth
    <3>3. unit.frameNum = 0 /\ stream.refs % MaxFrameNum = 1
      BY <1>1, <3>1, <3>2, ModSmall
    <3>4. Keeps(next, surf, 1, MaxFrameNum, 1, stream.window, 0, 0)
      BY <1>1, <2>2, <2>3, <2>4, <3>1, <3>2, <3>3, KeepsFirst
    <3> QED
      BY <3>2, <3>3, <3>4
  <2>5. CASE unit.kind # "idr" /\ unit.ref
    <3>1. /\ Intact /\ Coming = 1 /\ n \in Nat
          /\ Keeps(sl, surface, unit.frameNum, MaxFrameNum, n, stream.window, 1, unit.wants)
          /\ n + 1 <= Depth
      BY <2>5 DEF Coming, Keeps
    <3>2. n < MaxFrameNum - 1
      BY <3>1, Bounds DEF KeepsWindow, Depth
    <3>3. /\ stream.window[1] = unit.pic /\ 1 <= stream.refs
          /\ unit.frameNum = (stream.refs - 1) % MaxFrameNum
      BY <2>5, <3>1 DEF WindowInv, StreamInv
    <3>4. stream.refs % MaxFrameNum = IF unit.frameNum = MaxFrameNum - 1 THEN 0
                                      ELSE unit.frameNum + 1
      <4>1. stream.refs - 1 \in Nat /\ (stream.refs - 1) + 1 = stream.refs
        BY <1>1, <3>3
      <4> QED
        BY <1>1, <3>3, <4>1, ModStep
    <3>5. unit.frameNum \in 0 .. MaxFrameNum - 1 /\ Len(stream.window) \in Nat
      BY <1>1 DEF Unit
    <3>6. next = [sl EXCEPT ![dst] = RefEntry]
      BY <2>5
    <3>7. Keeps([sl EXCEPT ![dst] = RefEntry], surf, IF unit.frameNum = MaxFrameNum - 1
                THEN 0 ELSE unit.frameNum + 1, MaxFrameNum, n + 1, stream.window, 0, 0)
      <4> DEFINE m == MaxFrameNum
                 now == unit.frameNum
                 w == stream.window
                 p == unit.wants
                 e == RefEntry
      <4>1. /\ m \in Nat \ {0} /\ now \in 0 .. m - 1 /\ Keeps(sl, surface, now, m, n, w, 1, p)
            /\ e # None /\ e.frameNum = now /\ Len(w) \in Nat /\ e.pic = w[1] /\ n < m - 1
            /\ surf[dst] = e.pic /\ \A s \in References(sl) : surf[s] = surface[s]
        BY <1>1, <2>2, <2>3, <3>1, <3>2, <3>3, <3>5
      <4> HIDE DEF m, now, w, p, e
      <4>2. Keeps([sl EXCEPT ![dst] = e], surf, IF now = m - 1 THEN 0 ELSE now + 1, m, n + 1, w,
                  0, 0)
        BY <4>1, KeepsAdding
      <4> QED
        BY <4>2 DEF m, now, w, e
    <3> QED
      BY <3>1, <3>4, <3>6, <3>7
  <2>6. CASE ~unit.ref
    <3>1. /\ Intact /\ Coming = 0 /\ n \in Nat
          /\ Keeps(sl, surface, unit.frameNum, MaxFrameNum, n, stream.window, 0, unit.wants)
          /\ n <= Depth
      <4>1. unit.kind # "idr"
        BY <2>6 DEF WindowInv, StreamInv
      <4> QED
        BY <2>6, <4>1 DEF Coming, Keeps
    <3>2. unit.frameNum = stream.refs % MaxFrameNum
      BY <1>1, <3>1 DEF WindowInv, StreamInv
    <3>3. References(next) = References(sl) /\ \A s \in References(sl) : next[s] = sl[s]
      BY <2>6
    <3>4. Keeps(sl, surf, stream.refs % MaxFrameNum, MaxFrameNum, n, stream.window, 0, 0)
      <4> DEFINE now == unit.frameNum
                 w == stream.window
                 p == unit.wants
      <4>1. /\ Keeps(sl, surface, now, MaxFrameNum, n, w, 0, p)
            /\ \A s \in References(sl) : surf[s] = surface[s]
        BY <2>3, <3>1
      <4> HIDE DEF now, w, p
      <4>2. Keeps(sl, surf, now, MaxFrameNum, n, w, 0, 0)
        BY <4>1, KeepsElsewhere
      <4> QED
        BY <3>2, <4>2 DEF now, w
    <3>5. Keeps(next, surf, stream.refs % MaxFrameNum, MaxFrameNum, n, stream.window, 0, 0)
      <4> DEFINE now == stream.refs % MaxFrameNum
                 w == stream.window
      <4>1. Keeps(sl, surf, now, MaxFrameNum, n, w, 0, 0)
        BY <3>4
      <4> HIDE DEF now, w
      <4>2. Keeps(next, surf, now, MaxFrameNum, n, w, 0, 0)
        BY <3>3, <4>1, KeepsSame
      <4> QED
        BY <4>2 DEF now, w
    <3> QED
      BY <3>1, <3>5
  <2> QED
    BY <2>4, <2>5, <2>6
<1> QED
  BY <1>2, <1>3

\* A decoded picture that is delivered leaves the window whole.
LEMMA Delivered ==
  ASSUME TypeOK, WindowInv, unit # None, ~flushed, UNCHANGED <<session, stream>>, SlotsInv',
         NEW sl, DOMAIN sl = Slot, NEW dst \in Slot, dst \notin References(sl), NEW from,
         Delivers(dst, from), slots' = [sl EXCEPT ![dst] = IF unit.ref THEN RefEntry ELSE None],
         prevPoc' = IF unit.ref THEN UnitPoc ELSE prevPoc,
         unit.kind = "idr" => References(sl) = {},
         Intact => Found(from) = unit.wants, unit.kind # "p" => Found(from) = 0,
         NEW n, Intact => Keeps(sl, surface, unit.frameNum, MaxFrameNum, n, stream.window,
                                Coming, unit.wants) /\ n + Coming <= Depth
  PROVE  WindowInv'
<1>1. StreamInv'
  BY StreamKept DEF WindowInv, Delivers
<1>2. /\ unit' = None /\ broken' = ((broken \/ Repeated) /\ unit.kind # "idr")
      /\ surface' = [surface EXCEPT ![dst] = unit.pic] /\ last'.result = "ok"
      /\ last'.found = Found(from) /\ last'.wants = unit.wants
      /\ last'.poc = PocValue(UnitPoc) /\ last'.truePoc = unit.poc
  BY DEF Delivers, Ends, Resumes
<1> SUFFICES ASSUME KeepsWindow, ~broken' PROVE WindowInv'
  BY <1>2, NoWindow
<1>3. unit.kind = "idr" \/ Intact
  BY <1>2 DEF Intact, Repeated
<1>4. RefWhole(slots', surface') /\ PocWhole(prevPoc') /\ PocValue(UnitPoc) = unit.poc
  <2> DEFINE next == slots'
             surf == surface'
  <2>1. /\ unit.ref => next = [sl EXCEPT ![dst] = RefEntry]
        /\ ~unit.ref => References(next) = References(sl)
                        /\ \A s \in References(sl) : next[s] = sl[s]
        /\ surf[dst] = unit.pic /\ \A s \in References(sl) : surf[s] = surface[s]
    BY <1>2 DEF References, TypeOK
  <2> HIDE DEF next, surf
  <2>2. /\ RefWhole(next, surf)
        /\ PocWhole(IF unit.ref THEN UnitPoc ELSE prevPoc) /\ PocValue(UnitPoc) = unit.poc
    BY <1>3, <2>1, Decoded
  <2> QED
    BY <2>2 DEF next, surf
<1>5. unit.kind = "idr" => unit.wants = 0
  BY DEF WindowInv, StreamInv
<1>6. IntactExact'
  BY <1>2, <1>3, <1>4, <1>5 DEF IntactExact
<1>7. ~Recorded' /\ RecordedInv'
  BY <1>2 DEF Recorded, RecordedInv
<1> QED
  BY <1>1, <1>2, <1>4, <1>6, <1>7, WholeAfter DEF WindowInv

\* A decoded picture that cannot be read back does too, though it stays in hand: either it
\* is recorded, or it is no reference and the window is what it was.
LEMMA Unread ==
  ASSUME TypeOK, WindowInv, unit # None, ~flushed, UNCHANGED <<session, stream>>, SlotsInv',
         NEW sl, DOMAIN sl = Slot, NEW dst \in Slot, dst \notin References(sl), Within(sl),
         LosesOutput(dst), slots' = [sl EXCEPT ![dst] = IF unit.ref THEN RefEntry ELSE None],
         prevPoc' = IF unit.ref THEN UnitPoc ELSE prevPoc,
         unit.kind = "idr" => References(sl) = {},
         NEW n, Intact => Keeps(sl, surface, unit.frameNum, MaxFrameNum, n, stream.window,
                                Coming, unit.wants) /\ n \in Nat /\ n + Coming <= Depth
  PROVE  WindowInv'
<1>1. /\ unit' = unit /\ broken' = ((broken \/ Repeated) /\ unit.kind # "idr")
      /\ surface' = [surface EXCEPT ![dst] = unit.pic] /\ last'.result = "backend"
  BY DEF LosesOutput, Ends, Resumes
<1> SUFFICES ASSUME KeepsWindow, ~broken' PROVE WindowInv'
  BY <1>1, NoWindow
<1>2. unit.kind = "idr" \/ Intact
  BY <1>1 DEF Intact, Repeated
<1>3. CASE unit.ref
  <2>1. RefWhole(slots', surface') /\ PocWhole(prevPoc')
    <3> DEFINE next == slots'
               surf == surface'
    <3>1. /\ next = [sl EXCEPT ![dst] = RefEntry]
          /\ surf[dst] = unit.pic /\ \A s \in References(sl) : surf[s] = surface[s]
      BY <1>1, <1>3 DEF References, TypeOK
    <3> HIDE DEF next, surf
    <3>2. /\ RefWhole(next, surf)
          /\ PocWhole(IF unit.ref THEN UnitPoc ELSE prevPoc)
      BY <1>2, <1>3, <3>1, Decoded
    <3> QED
      BY <3>2 DEF next, surf
  <2>2. Recorded'
    <3>1. RefEntry # None /\ RefEntry.pic = unit.pic
      <4>1. RefEntry \in AnyReference
        BY UnitTyped DEF Reference, AnyReference, Picture
      <4> QED
        BY <4>1, H264Assumption DEF RefEntry
    <3>2. slots'[dst] = RefEntry
      BY <1>3
    <3> QED
      BY <1>1, <3>1, <3>2 DEF Recorded, References
  <2>3. StreamInv'
    BY <1>1, StreamKept DEF WindowInv
  <2>4. RecordedInv'
    BY <2>1, WholeNext DEF RecordedInv
  <2> QED
    BY <1>1, <2>2, <2>3, <2>4 DEF WindowInv, RefInv, PocInv, IntactExact, Intact
<1>4. CASE ~unit.ref
  <2>1. /\ unit.kind # "idr" /\ Intact /\ Coming = 0 /\ n \in Nat /\ n <= Depth
        /\ Keeps(sl, surface, unit.frameNum, MaxFrameNum, n, stream.window, Coming, unit.wants)
    <3>1. unit.kind # "idr"
      BY <1>4 DEF WindowInv, StreamInv
    <3> QED
      BY <1>2, <1>4, <3>1 DEF Coming
  <2>2. References(slots') = References(sl) /\ \A s \in References(sl) : slots'[s] = sl[s]
    BY <1>4 DEF References
  <2>3. \A s \in References(sl) : surface'[s] = surface[s]
    BY <1>1 DEF References, TypeOK
  <2>4. Keeps(slots', surface', unit.frameNum, MaxFrameNum, n, stream.window, Coming, unit.wants)
    <3> DEFINE next == slots'
               surf == surface'
    <3>1. /\ References(next) = References(sl) /\ \A s \in References(sl) : next[s] = sl[s]
          /\ \A s \in References(sl) : surf[s] = surface[s]
      BY <2>2, <2>3
    <3> HIDE DEF next, surf
    <3>2. Keeps(sl, surf, unit.frameNum, MaxFrameNum, n, stream.window, Coming, unit.wants)
      BY <2>1, <3>1, KeepsElsewhere
    <3>3. Keeps(next, surf, unit.frameNum, MaxFrameNum, n, stream.window, Coming, unit.wants)
      BY <3>1, <3>2, KeepsSame
    <3> QED
      BY <3>3 DEF next, surf
  <2>5. Within(slots')
    BY <2>2 DEF Within
  <2>6. broken' = (broken \/ Repeated) /\ prevPoc' = prevPoc
    BY <1>1, <1>4, <2>1
  <2> QED
    BY <1>1, <2>1, <2>4, <2>5, <2>6, Withheld
<1> QED
  BY <1>3, <1>4

\* What RefInv says of a picture in hand.
LEMMA InHand ==
  ASSUME WindowInv, unit # None, Intact
  PROVE  /\ Keeps(slots, surface, unit.frameNum, MaxFrameNum, Cardinality(References(slots)),
                  stream.window, Coming, unit.wants)
         /\ Cardinality(References(slots)) <= Depth
BY DEF WindowInv, RefInv, Now, Wanted

\* Clearing only takes references away, and takes all of them when none is lent.
LEMMA Clears ==
  ASSUME NEW sl, NEW lent
  PROVE  /\ References(ClearAll(sl, lent)) \subseteq References(sl)
         /\ \A s \in References(ClearAll(sl, lent)) : ClearAll(sl, lent)[s] = sl[s]
         /\ References(sl) \cap lent = {} => References(ClearAll(sl, lent)) = {}
BY DEF References, ClearAll

\* VA-API and Vulkan: a free slot leaves room for a reference, and a full DPB holds
\* one picture more than the stream's window.
LEMMA Evicting ==
  ASSUME TypeOK, WindowInv, unit # None, ~Backend("d3d12"), Intact,
         NEW d \in 0 .. MaxRefFrames, NEW next,
         \/ slots[d] = None
         \/ 0 .. MaxRefFrames \subseteq References(slots) /\ IsOldest(d, slots),
         \A s \in Slot \ {d} : next[s] = surface[s]
  PROVE  LET sl == [slots EXCEPT ![d] = None]
             n == Cardinality(References(sl))
         IN /\ Keeps(sl, next, unit.frameNum, MaxFrameNum, n, stream.window, Coming, unit.wants)
            /\ n + 1 <= Depth
<1> DEFINE sl == [slots EXCEPT ![d] = None]
           R == References(slots)
           n == Cardinality(R)
           I == 0 .. MaxRefFrames
<1>1. /\ MaxRefFrames \in Nat \ {0} /\ MaxFrameNum \in Nat \ {0} /\ unit \in Unit
      /\ DOMAIN slots = Slot /\ I \subseteq Slot /\ d \in Slot /\ Depth = MaxRefFrames + 1
      /\ unit.frameNum \in 0 .. MaxFrameNum - 1
  BY Bounds, UnitTyped, SlotsFit DEF TypeOK, Depth, Unit
<1>2. /\ Keeps(slots, surface, unit.frameNum, MaxFrameNum, n, stream.window, Coming, unit.wants)
      /\ n <= Depth
  BY InHand
<1>3. R \subseteq I /\ Len(stream.window) <= MaxRefFrames /\ Coming \in 0 .. 1
      /\ Len(stream.window) \in Nat
  BY DEF WindowInv, SlotsInv, StreamInv, Coming, TypeOK
<1>4. IsFiniteSet(I) /\ Cardinality(I) = MaxRefFrames + 1 /\ IsFiniteSet(R) /\ n \in Nat
  <2>1. IsFiniteSet(I) /\ Cardinality(I) = MaxRefFrames + 1
    <3> DEFINE k == MaxRefFrames
    <3>1. 0 \in Int /\ k \in Int /\ ~(0 > k)
      BY <1>1
    <3> HIDE DEF k
    <3>2. IsFiniteSet(0 .. k) /\ Cardinality(0 .. k) = k - 0 + 1
      BY <3>1, FS_Interval
    <3> QED
      BY <1>1, <3>2 DEF k
  <2> QED
    BY <1>3, <2>1, FS_Subset, FS_CardinalityType
<1>5. References(sl) = R \ {d}
  BY <1>1, ReferencesMove
<1>6. CASE slots[d] = None
  <2>1. d \notin R
    BY <1>6 DEF References
  <2>2. \A s \in R : next[s] = surface[s]
    BY <2>1 DEF References
  <2>3. Keeps(slots, next, unit.frameNum, MaxFrameNum, n, stream.window, Coming, unit.wants)
    BY <1>2, <2>2, KeepsElsewhere
  <2>4. sl = slots
    BY <1>1, <1>6 DEF TypeOK
  <2>5. n < MaxRefFrames + 1
    <3>1. R # I
      BY <2>1
    <3>2. n <= Cardinality(I) /\ (n = Cardinality(I) => R = I)
      BY <1>3, <1>4, FS_Subset
    <3> QED
      BY <1>1, <1>4, <3>1, <3>2
  <2>6. References(sl) = R /\ Cardinality(References(sl)) = n
    BY <2>4
  <2>7. Keeps(sl, next, unit.frameNum, MaxFrameNum, n, stream.window, Coming, unit.wants)
    BY <2>3, <2>4
  <2> QED
    BY <1>1, <1>4, <1>6, <2>1, <2>5, <2>6, <2>7
<1>7. CASE 0 .. MaxRefFrames \subseteq References(slots) /\ IsOldest(d, slots)
  <2>1. R = I /\ n = MaxRefFrames + 1 /\ d \in R
    BY <1>3, <1>4, <1>7
  <2>2. Age(slots[d].frameNum, unit.frameNum, MaxFrameNum) = n
    BY <1>1, <1>2, <1>7, OldestAge
  <2>3. Cardinality(References(sl)) = n - 1
    BY <1>4, <1>5, <2>1, FS_RemoveElement
  <2>4. \A s \in R \ {d} : next[s] = surface[s]
    BY DEF References
  <2>5. Len(stream.window) - Coming <= n - 1 /\ n - 1 >= 1
    BY <1>1, <1>3, <2>1
  <2>6. Keeps(sl, next, unit.frameNum, MaxFrameNum, n - 1, stream.window, Coming, unit.wants)
    BY <1>1, <1>2, <2>1, <2>2, <2>4, <2>5, KeepsEvicting
  <2> QED
    BY <1>1, <2>1, <2>3, <2>6
<1> QED
  BY <1>6, <1>7

\* A picture in hand of an intact stream; a P picture needs the reference it wants.
LEMMA Wanting ==
  ASSUME TypeOK, WindowInv, unit # None
  PROVE  /\ ~Intact => unit.kind = "idr" \/ broken \/ Recorded \/ ~KeepsWindow
         /\ Intact => unit.kind # "idr"
         /\ Intact /\ unit.kind = "p" => References(slots) # {}
         /\ unit.kind = "p" <=> unit.wants # 0
         /\ Coming \in 0 .. 1
<1>1. ASSUME Intact, unit.kind = "p" PROVE References(slots) # {}
  <2>1. /\ Keeps(slots, surface, unit.frameNum, MaxFrameNum, Cardinality(References(slots)),
                 stream.window, Coming, unit.wants)
        /\ unit.wants # 0
    BY <1>1, InHand DEF WindowInv, StreamInv
  <2>2. PICK k \in 1 .. Cardinality(References(slots)) : k = 1
    BY <2>1 DEF Keeps
  <2> QED
    BY <2>1, <2>2 DEF Keeps
<1> QED
  BY <1>1 DEF Intact, WindowInv, StreamInv, Coming

\* How the end of a VA-API or Vulkan push keeps the window, sl being the DPB the
\* slot was chosen in.
LEMMA SlotChosen ==
  ASSUME TypeOK, WindowInv, unit # None, ~Backend("d3d12"), UNCHANGED <<session, stream>>,
         ~flushed, SlotsInv', NEW sl, DOMAIN sl = Slot, Within(sl), NEW dst \in 0 .. MaxRefFrames,
         Intact => /\ sl = slots
                   /\ \/ slots[dst] = None
                      \/ 0 .. MaxRefFrames \subseteq References(slots) /\ IsOldest(dst, slots),
         unit.kind = "idr" => References(sl) = {},
         prevPoc' = IF unit.ref THEN UnitPoc ELSE prevPoc,
         NEW from, unit.kind # "p" => from = None,
         Intact /\ unit.kind = "p" => from # None /\ IsHeadOfList0(from, sl),
         \/ /\ unit' = unit /\ broken' = (broken \/ Repeated) /\ last'.result = "backend"
            /\ slots' = [sl EXCEPT ![dst] = None]
            /\ \A s \in Slot \ {dst} : surface'[s] = surface[s]
         \/ /\ Delivers(dst, from) \/ LosesOutput(dst)
            /\ slots' = [sl EXCEPT ![dst] = IF unit.ref THEN RefEntry ELSE None]
  PROVE  WindowInv'
<1> DEFINE sx == [sl EXCEPT ![dst] = None]
           n == Cardinality(References(sx))
<1>1. dst \in Slot /\ unit \in Unit /\ MaxFrameNum \in Nat \ {0} /\ DOMAIN sx = Slot
      /\ MaxRefFrames \in Nat
  BY SlotsFit, UnitTyped, Bounds
<1>2. ASSUME NEW next, \A s \in Slot \ {dst} : next[s] = surface[s], Intact
      PROVE  /\ Keeps(sx, next, unit.frameNum, MaxFrameNum, n, stream.window, Coming, unit.wants)
             /\ n + 1 <= Depth
  <2>1. sl = slots /\ \/ slots[dst] = None
                      \/ 0 .. MaxRefFrames \subseteq References(slots) /\ IsOldest(dst, slots)
    BY <1>2
  <2> QED
    BY <1>2, <2>1, Evicting
<1>3. Intact => /\ Keeps(sx, surface, unit.frameNum, MaxFrameNum, n, stream.window, Coming,
                         unit.wants)
                /\ n \in Nat /\ n + 1 <= Depth /\ Depth \in Nat
  <2> SUFFICES ASSUME Intact
               PROVE  /\ Keeps(sx, surface, unit.frameNum, MaxFrameNum, n, stream.window, Coming,
                               unit.wants)
                      /\ n \in Nat /\ n + 1 <= Depth /\ Depth \in Nat
    OBVIOUS
  <2> HIDE DEF sx, n
  <2>1. /\ Keeps(sx, surface, unit.frameNum, MaxFrameNum, n, stream.window, Coming, unit.wants)
        /\ n + 1 <= Depth
    BY <1>2
  <2>2. n \in Nat
    BY <2>1 DEF Keeps
  <2>3. Depth \in Nat
    BY <1>1 DEF Depth
  <2> QED
    BY <2>1, <2>2, <2>3
<1> HIDE DEF n
<1>4. CASE /\ unit' = unit /\ broken' = (broken \/ Repeated) /\ last'.result = "backend"
           /\ slots' = sx
           /\ \A s \in Slot \ {dst} : surface'[s] = surface[s]
  <2>1. Intact => Keeps(slots', surface', unit.frameNum, MaxFrameNum, n, stream.window, Coming,
                        unit.wants) /\ n <= Depth
    <3> HIDE DEF sx
    <3> SUFFICES ASSUME Intact
                 PROVE  Keeps(sx, surface', unit.frameNum, MaxFrameNum, n, stream.window, Coming,
                              unit.wants) /\ n <= Depth
      BY <1>4
    <3>1. Keeps(sx, surface', unit.frameNum, MaxFrameNum, n, stream.window, Coming, unit.wants)
      BY <1>2, <1>4
    <3> QED
      BY <1>3, <3>1
  <2>2. Within(slots')
    BY <1>4, SMTT(30) DEF Within, References
  <2> QED
    BY <1>4, <2>1, <2>2, Withheld
<1>5. CASE /\ Delivers(dst, from) \/ LosesOutput(dst)
           /\ slots' = [sl EXCEPT ![dst] = IF unit.ref THEN RefEntry ELSE None]
  <2>1. slots' = [sx EXCEPT ![dst] = IF unit.ref THEN RefEntry ELSE None]
    BY <1>1, <1>5
  <2>2. References(sx) = References(sl) \ {dst}
    BY <1>1, ReferencesMove
  <2>3. unit.kind # "p" => Found(from) = 0
    BY DEF Found
  <2>4. Intact => Found(from) = unit.wants
    <3> SUFFICES ASSUME Intact, unit.kind = "p" PROVE Found(from) = unit.wants
      BY <2>3, Wanting
    <3>1. /\ from # None /\ IsHeadOfList0(from, slots) /\ unit.wants # 0
          /\ unit.frameNum \in 0 .. MaxFrameNum - 1
      BY <1>1, Wanting DEF Unit
    <3> QED
      BY <1>1, <3>1, InHand, HeadFound
  <2>5. Intact => Keeps(sx, surface, unit.frameNum, MaxFrameNum, n, stream.window, Coming,
                        unit.wants) /\ n \in Nat /\ n + Coming <= Depth
    BY <1>3, Wanting
  <2>6. Within(sx)
    BY <1>1, <2>2, SMTT(30) DEF Within, References
  <2> HIDE DEF sx
  <2>7. CASE Delivers(dst, from)
    BY <1>1, <2>1, <2>2, <2>3, <2>4, <2>5, <2>7, Delivered
  <2>8. CASE LosesOutput(dst)
    BY <1>1, <2>1, <2>2, <2>5, <2>6, <2>8, Unread
  <2> QED
    BY <1>5, <2>7, <2>8
<1> QED
  BY <1>4, <1>5

\* How a refusal keeps the window: the DPB as it was, unless an IDR picture has begun
\* to clear it.
LEMMA Refused ==
  ASSUME TypeOK, WindowInv, unit # None, UNCHANGED <<session, stream>>, SlotsInv',
         NEW result \in {"invalid", "backend", "closed"}, Refuses(result),
         prevPoc' = prevPoc \/ (unit.ref /\ prevPoc' = UnitPoc),
         unit.kind # "idr" => slots' = slots, Within(slots'),
         flushed => UNCHANGED <<slots, prevPoc>>,
         result = "invalid" => unit.kind = "p" /\ References(slots) = {}
  PROVE  WindowInv'
<1> DEFINE n == Cardinality(References(slots))
<1>1. /\ UNCHANGED <<unit, surface>> /\ last'.result = result
      /\ broken' = (broken \/ Repeated)
  BY DEF Refuses, Ends
<1>2. Intact => /\ slots' = slots /\ n <= Depth
                /\ Keeps(slots, surface, unit.frameNum, MaxFrameNum, n, stream.window, Coming,
                         unit.wants)
  BY InHand, Wanting
<1> HIDE DEF n
<1>3. Intact => Keeps(slots', surface', unit.frameNum, MaxFrameNum, n, stream.window, Coming,
                      unit.wants) /\ n <= Depth
  BY <1>1, <1>2
<1>4. CASE result # "invalid"
  BY <1>1, <1>3, <1>4, Withheld
<1>5. CASE result = "invalid"
  <2>1. ~Recorded
    BY <1>5 DEF Recorded
  <2> QED
    BY <1>1, <1>5, <2>1, Wanting, NoWindow
<1> QED
  BY <1>4, <1>5

\* Every push of a VA-API session keeps the window.
LEMMA VaapiWindow ==
  ASSUME TypeOK, WindowInv, VaapiPush
  PROVE  WindowInv'
<1> DEFINE sl == IF unit.kind = "idr" THEN ClearAll(slots, VaapiLent) ELSE slots
           I == 0 .. MaxRefFrames
<1>1. /\ unit # None /\ UNCHANGED <<session, stream, occupied>> /\ Backend("vaapi")
      /\ outstanding' \subseteq IF Lends THEN outstanding' ELSE VaapiLent
  BY DEF VaapiPush, VaapiClosed, VaapiIdrRefused, VaapiDecode, VaapiDecodes
<1>2. /\ DOMAIN slots = Slot /\ DOMAIN sl = Slot /\ ~Backend("d3d12") /\ I \subseteq Slot
      /\ VaapiSlot \subseteq I /\ (KeepsWindow => VaapiSlot = I)
      /\ References(slots) \subseteq I /\ References(sl) \subseteq I
      /\ Within(slots) /\ Within(ClearAll(slots, VaapiLent)) /\ Within(sl)
      /\ ~Lends => VaapiLent = {}
  <2>1. VaapiSlot \subseteq I /\ I \subseteq Slot /\ (KeepsWindow => VaapiSlot = I)
    BY <1>1, SlotsFit DEF KeepsWindow
  <2>2. ~Backend("d3d12")
    BY <1>1 DEF Backend
  <2>3. References(slots) \subseteq I /\ (~Lends => outstanding = {})
    BY <2>2 DEF WindowInv, SlotsInv
  <2>4. References(sl) \subseteq References(slots)
    BY Clears
  <2>5. DOMAIN slots = Slot /\ DOMAIN sl = Slot
    BY DEF TypeOK, ClearAll
  <2>6. Within(slots) /\ Within(ClearAll(slots, VaapiLent)) /\ Within(sl)
    BY Clears DEF Within
  <2> QED
    BY <2>1, <2>2, <2>3, <2>4, <2>5, <2>6 DEF VaapiLent
<1>3. /\ MaxRefFrames' = MaxRefFrames /\ Backend("d3d12")' = Backend("d3d12") /\ Lends' = Lends
      /\ References(slots)' = References(slots')
  BY <1>1 DEF MaxRefFrames, Backend, Lends, References
<1>4. ASSUME References(slots') \subseteq I PROVE SlotsInv'
  BY <1>1, <1>2, <1>3, <1>4 DEF SlotsInv
<1>5. CASE VaapiClosed
  BY <1>1, <1>2, <1>4, <1>5, Refused DEF VaapiClosed
<1>6. CASE VaapiIdrRefused
  BY <1>1, <1>2, <1>4, <1>6, Refused DEF VaapiIdrRefused
<1>7. CASE VaapiDecode
  <2>1. /\ ~flushed /\ prevPoc' = IF unit.ref THEN UnitPoc ELSE prevPoc
        /\ unit.kind = "idr" => References(sl) = {}
    BY <1>7, Clears DEF VaapiDecode
  <2>2. \/ unit.kind = "p" /\ References(sl) = {} /\ Refuses("invalid") /\ slots' = sl
        \/ Refuses("backend") /\ slots' = sl
        \/ \E dst \in VaapiSlot, from \in VaapiSlot \cup {None} :
             /\ VaapiAllocates(dst, sl)
             /\ IF unit.kind = "p" THEN from # None /\ IsHeadOfList0(from, sl) ELSE from = None
             /\ VaapiDecodes(dst, from, sl)
    BY <1>7 DEF VaapiDecode
  <2>3. CASE unit.kind = "p" /\ References(sl) = {} /\ Refuses("invalid") /\ slots' = sl
    BY <1>1, <1>2, <1>4, <2>1, <2>3, Refused
  <2>4. CASE Refuses("backend") /\ slots' = sl
    BY <1>1, <1>2, <1>4, <2>1, <2>4, Refused
  <2>5. ASSUME NEW dst \in VaapiSlot, NEW from \in VaapiSlot \cup {None},
               VaapiAllocates(dst, sl), VaapiDecodes(dst, from, sl),
               IF unit.kind = "p" THEN from # None /\ IsHeadOfList0(from, sl) ELSE from = None
        PROVE  WindowInv'
    <3>1. Intact => /\ sl = slots
                    /\ slots[dst] = None \/ (I \subseteq References(slots) /\ IsOldest(dst, slots))
      <4> SUFFICES ASSUME Intact
                   PROVE  /\ sl = slots
                          /\ slots[dst] = None
                             \/ (I \subseteq References(slots) /\ IsOldest(dst, slots))
        OBVIOUS
      <4>1. sl = slots /\ VaapiLent = {}
        BY <1>1, <1>2, Wanting DEF Intact, KeepsWindow
      <4> HIDE DEF sl
      <4>2. VaapiAllocates(dst, slots)
        BY <2>5, <4>1
      <4>3. CASE \E s \in VaapiSlot : slots[s] = None
        BY <4>1, <4>2, <4>3 DEF VaapiAllocates, IsFirst
      <4>4. CASE ~\E s \in VaapiSlot : slots[s] = None
        BY <1>2, <4>1, <4>2, <4>4 DEF VaapiAllocates, References, Intact
      <4> QED
        BY <4>1, <4>3, <4>4
    <3>2. dst \in I /\ dst \in Slot
      BY <1>2
    <3> HIDE DEF sl
    <3>3. References(slots') \subseteq I
      <4>1. slots' = [sl EXCEPT ![dst] = None] \/ slots' = [sl EXCEPT ![dst] = RefEntry]
        BY <2>5 DEF VaapiDecodes
      <4>2. DOMAIN sl = Slot /\ References(sl) \subseteq I
        BY <1>2
      <4> QED
        BY <3>2, <4>1, <4>2 DEF References
    <3>4. \/ /\ unit' = unit /\ broken' = (broken \/ Repeated) /\ last'.result = "backend"
             /\ slots' = [sl EXCEPT ![dst] = None]
             /\ \A s \in Slot \ {dst} : surface'[s] = surface[s]
          \/ /\ Delivers(dst, from)
             /\ slots' = [sl EXCEPT ![dst] = IF unit.ref THEN RefEntry ELSE None]
      BY <2>5 DEF VaapiDecodes, Fails, Ends, TypeOK
    <3>5. Intact /\ unit.kind = "p" => from # None /\ IsHeadOfList0(from, sl)
      BY <2>5
    <3>6. unit.kind # "p" => from = None
      BY <2>5
    <3>7. SlotsInv'
      BY <1>4, <3>3
    <3>8. DOMAIN sl = Slot /\ Within(sl)
      BY <1>2
    <3>9. Intact => /\ sl = slots
                    /\ \/ slots[dst] = None
                       \/ 0 .. MaxRefFrames \subseteq References(slots) /\ IsOldest(dst, slots)
      BY <3>1
    <3>10. ~Backend("d3d12") /\ UNCHANGED <<session, stream>> /\ unit # None
           /\ dst \in 0 .. MaxRefFrames
      BY <1>1, <1>2, <3>2
    <3> HIDE DEF I
    <3> QED
      BY <2>1, <3>4, <3>5, <3>6, <3>7, <3>8, <3>9, <3>10, SlotChosen
  <2> QED
    BY <2>2, <2>3, <2>4, <2>5
<1> QED
  BY <1>5, <1>6, <1>7 DEF VaapiPush

\* Every push of a Vulkan session keeps the window, lent slots or not.
LEMMA VulkanWindow ==
  ASSUME TypeOK, WindowInv, VulkanPush
  PROVE  WindowInv'
<1> DEFINE sl == IF unit.kind = "idr" THEN ClearAll(slots, outstanding) ELSE slots
           I == 0 .. MaxRefFrames
<1>1. /\ unit # None /\ UNCHANGED <<session, stream, occupied>> /\ Backend("vulkan")
      /\ ~Lends => outstanding' = outstanding
  BY DEF VulkanPush, VulkanClosed, VulkanIdrRefused, VulkanDecode, VulkanDecodes
<1>2. /\ DOMAIN slots = Slot /\ DOMAIN sl = Slot /\ ~Backend("d3d12") /\ I \subseteq Slot
      /\ VulkanSlot \subseteq I /\ (KeepsWindow => VulkanSlot = I)
      /\ References(slots) \subseteq I /\ References(sl) \subseteq I
      /\ Within(slots) /\ Within(ClearAll(slots, outstanding)) /\ Within(sl)
      /\ ~Lends => outstanding = {}
  <2>1. VulkanSlot \subseteq I /\ I \subseteq Slot /\ (KeepsWindow => VulkanSlot = I)
    BY <1>1, SlotsFit DEF KeepsWindow
  <2>2. ~Backend("d3d12")
    BY <1>1 DEF Backend
  <2>3. References(slots) \subseteq I /\ (~Lends => outstanding = {})
    BY <2>2 DEF WindowInv, SlotsInv
  <2>4. References(sl) \subseteq References(slots)
    BY Clears
  <2>5. DOMAIN slots = Slot /\ DOMAIN sl = Slot
    BY DEF TypeOK, ClearAll
  <2>6. Within(slots) /\ Within(ClearAll(slots, outstanding)) /\ Within(sl)
    BY Clears DEF Within
  <2> QED
    BY <2>1, <2>2, <2>3, <2>4, <2>5, <2>6
<1>3. /\ MaxRefFrames' = MaxRefFrames /\ Backend("d3d12")' = Backend("d3d12") /\ Lends' = Lends
      /\ References(slots)' = References(slots')
  BY <1>1 DEF MaxRefFrames, Backend, Lends, References
<1>4. ASSUME References(slots') \subseteq I PROVE SlotsInv'
  BY <1>1, <1>2, <1>3, <1>4 DEF SlotsInv
<1>5. CASE VulkanClosed
  BY <1>1, <1>2, <1>4, <1>5, Refused DEF VulkanClosed
<1>6. CASE VulkanIdrRefused
  BY <1>1, <1>2, <1>4, <1>6, Refused DEF VulkanIdrRefused
<1>7. CASE VulkanDecode
  <2>1. /\ ~flushed /\ prevPoc' = IF unit.ref THEN UnitPoc ELSE prevPoc
        /\ unit.kind = "idr" => References(sl) = {}
    BY <1>7, Clears DEF VulkanDecode
  <2>2. \/ Refuses("backend") /\ slots' = sl
        \/ \E dst \in VulkanSlot, from \in VulkanSlot \cup {None} :
             /\ VulkanAllocates(dst, sl)
             /\ IF unit.kind = "p" /\ References(sl) # {}
                THEN from # None /\ IsHeadOfList0(from, sl) ELSE from = None
             /\ VulkanDecodes(dst, from, sl)
    BY <1>7 DEF VulkanDecode
  <2>3. CASE Refuses("backend") /\ slots' = sl
    BY <1>1, <1>2, <1>4, <2>1, <2>3, Refused
  <2>4. ASSUME NEW dst \in VulkanSlot, NEW from \in VulkanSlot \cup {None},
               VulkanAllocates(dst, sl), VulkanDecodes(dst, from, sl),
               IF unit.kind = "p" /\ References(sl) # {}
               THEN from # None /\ IsHeadOfList0(from, sl) ELSE from = None
        PROVE  WindowInv'
    <3>1. Intact => sl = slots
      BY <1>1, Wanting
    <3>2. dst \in I /\ dst \in Slot
      BY <1>2
    <3> HIDE DEF sl
    <3>3. Intact => /\ sl = slots
                    /\ slots[dst] = None \/ (I \subseteq References(slots) /\ IsOldest(dst, slots))
      <4> SUFFICES ASSUME Intact
                   PROVE  /\ sl = slots
                          /\ slots[dst] = None
                             \/ (I \subseteq References(slots) /\ IsOldest(dst, slots))
        OBVIOUS
      <4>2. VulkanAllocates(dst, slots)
        BY <2>4, <3>1
      <4>3. CASE \E s \in VulkanSlot : slots[s] = None
        BY <3>1, <4>2, <4>3 DEF VulkanAllocates, IsFirst
      <4>4. CASE ~\E s \in VulkanSlot : slots[s] = None
        BY <1>2, <3>1, <4>2, <4>4 DEF VulkanAllocates, References, Intact
      <4> QED
        BY <3>1, <4>3, <4>4
    <3>4. SlotsInv'
      <4>1. slots' = [sl EXCEPT ![dst] = None] \/ slots' = [sl EXCEPT ![dst] = RefEntry]
        BY <2>4 DEF VulkanDecodes
      <4>2. DOMAIN sl = Slot /\ References(sl) \subseteq I
        BY <1>2
      <4>3. References(slots') \subseteq I
        BY <3>2, <4>1, <4>2 DEF References
      <4> QED
        BY <1>4, <4>3
    <3>5. \/ /\ unit' = unit /\ broken' = (broken \/ Repeated) /\ last'.result = "backend"
             /\ slots' = [sl EXCEPT ![dst] = None]
             /\ \A s \in Slot \ {dst} : surface'[s] = surface[s]
          \/ /\ Delivers(dst, from) \/ LosesOutput(dst)
             /\ slots' = [sl EXCEPT ![dst] = IF unit.ref THEN RefEntry ELSE None]
      BY <2>4 DEF VulkanDecodes, Fails, Ends, TypeOK
    <3>6. Intact /\ unit.kind = "p" => from # None /\ IsHeadOfList0(from, sl)
      BY <1>1, <2>4, <3>1, Wanting
    <3>7. unit.kind # "p" => from = None
      BY <2>4
    <3>8. Intact => /\ sl = slots
                    /\ \/ slots[dst] = None
                       \/ 0 .. MaxRefFrames \subseteq References(slots) /\ IsOldest(dst, slots)
      BY <3>3
    <3>9. /\ ~Backend("d3d12") /\ UNCHANGED <<session, stream>> /\ unit # None
          /\ dst \in 0 .. MaxRefFrames /\ DOMAIN sl = Slot /\ Within(sl)
      BY <1>1, <1>2, <3>2
    <3> HIDE DEF I
    <3> QED
      BY <2>1, <3>4, <3>5, <3>6, <3>7, <3>8, <3>9, SlotChosen
  <2> QED
    BY <2>2, <2>3, <2>4
<1> QED
  BY <1>5, <1>6, <1>7 DEF VulkanPush

\* D3D12: the reference of the greatest age is the one the sliding window takes.
LEMMA OldestFound ==
  ASSUME MaxFrameNum \in Nat \ {0}, unit.frameNum \in 0 .. MaxFrameNum - 1,
         NEW sl, NEW surf, NEW n, NEW w, NEW c, NEW p,
         Keeps(sl, surf, unit.frameNum, MaxFrameNum, n, w, c, p), n >= 1
  PROVE  \E d \in References(sl) : IsOldest(d, sl)
<1> DEFINE R == References(sl)
           now == unit.frameNum
           age(s) == Age(sl[s].frameNum, now, MaxFrameNum)
           wrap(s) == FrameNumWrap(sl[s].frameNum)
<1>1. n \in Nat /\ n \in 1 .. n
  BY DEF Keeps
<1>2. /\ \A s \in R : sl[s].frameNum \in 0 .. MaxFrameNum - 1 /\ age(s) \in 1 .. n
      /\ \A s, t \in R : age(s) = age(t) => s = t
      /\ \E s \in R : age(s) = n
  BY <1>1 DEF Keeps
<1>3. \A s \in R : wrap(s) = now - age(s)
  BY <1>2, AgeTyped DEF FrameNumWrap
<1>4. PICK d \in R : age(d) = n
  BY <1>2
<1>5. \A t \in R \ {d} : wrap(d) < wrap(t)
  <2> TAKE t \in R \ {d}
  <2>1. age(t) \in 1 .. n /\ age(t) # n
    BY <1>2, <1>4
  <2> HIDE DEF age, wrap
  <2> QED
    BY <1>1, <1>3, <1>4, <2>1
<1> QED
  BY <1>4, <1>5 DEF IsOldest

\* One reference at most is evicted, and none if it is lent.
LEMMA MarksOne ==
  ASSUME TypeOK, unit.kind # "idr"
  PROVE  \/ D3d12Marked = slots /\ (D3d12Blocked \/ \A s \in Slot : ~D3d12Evicts(s))
         \/ \E d \in References(slots) :
              D3d12Evicts(d) /\ D3d12Marked = [slots EXCEPT ![d] = None]
<1>1. DOMAIN slots = Slot /\ slots \in [Slot -> Reference \cup {None}]
  BY DEF TypeOK
<1>2. \A s, t \in Slot : D3d12Evicts(s) /\ D3d12Evicts(t) => s = t
  <2> SUFFICES ASSUME NEW s \in Slot, NEW t \in Slot, IsOldest(s, slots), IsOldest(t, slots)
               PROVE  s = t
    BY DEF D3d12Evicts
  <2> DEFINE ws == FrameNumWrap(slots[s].frameNum)
             wt == FrameNumWrap(slots[t].frameNum)
  <2>1. ws \in Int /\ wt \in Int
    <3>1. slots[s] \in Reference /\ slots[t] \in Reference /\ MaxFrameNum \in Nat
      BY <1>1, Bounds DEF IsOldest, References
    <3> QED
      BY <3>1 DEF FrameNumWrap, Reference
  <2>2. s # t => ws < wt \/ (ws = wt /\ s < t)
    BY DEF IsOldest
  <2>3. s # t => wt < ws \/ (ws = wt /\ t < s)
    BY DEF IsOldest
  <2>4. s \in Int /\ t \in Int
    BY DEF Slot
  <2> HIDE DEF ws, wt
  <2> QED
    BY <2>1, <2>2, <2>3, <2>4
<1>3. D3d12Marked = [s \in Slot |-> IF D3d12Evicts(s) /\ s \notin outstanding THEN None ELSE slots[s]]
  BY DEF D3d12Marked
<1>4. \A s \in Slot : D3d12Evicts(s) => s \in References(slots)
  BY DEF D3d12Evicts, IsOldest
<1>5. CASE \E d \in Slot : D3d12Evicts(d) /\ d \notin outstanding
  <2>1. PICK d \in Slot : D3d12Evicts(d) /\ d \notin outstanding
    BY <1>5
  <2>2. \A s \in Slot : D3d12Marked[s] = IF s = d THEN None ELSE slots[s]
    BY <1>2, <1>3, <2>1
  <2>3. D3d12Marked = [slots EXCEPT ![d] = None]
    BY <1>1, <1>3, <2>2
  <2> QED
    BY <1>4, <2>1, <2>3
<1>6. CASE ~\E d \in Slot : D3d12Evicts(d) /\ d \notin outstanding
  <2>1. \A s \in Slot : D3d12Marked[s] = slots[s]
    BY <1>3, <1>6
  <2>2. D3d12Marked = slots
    BY <1>1, <1>3, <2>1
  <2>3. (\E s \in Slot : D3d12Evicts(s)) => D3d12Blocked
    BY <1>4, <1>6 DEF D3d12Blocked
  <2> QED
    BY <2>2, <2>3
<1> QED
  BY <1>5, <1>6

\* D3D12's marking takes at most the oldest reference, and one if it must make room.
LEMMA MarkingKeeps ==
  ASSUME TypeOK, WindowInv, unit # None, Backend("d3d12"), Intact
  PROVE  LET n == Cardinality(References(D3d12Marked)) IN
         /\ Keeps(D3d12Marked, surface, unit.frameNum, MaxFrameNum, n, stream.window, Coming,
                  unit.wants)
         /\ n <= Depth /\ (~D3d12Blocked => n + Coming <= Depth)
<1> DEFINE R == References(slots)
           n == Cardinality(R)
<1>1. /\ MaxRefFrames \in Nat /\ MaxRefFrames > 1 /\ MaxFrameNum \in Nat \ {0} /\ unit \in Unit
      /\ DOMAIN slots = Slot /\ Depth = MaxRefFrames /\ unit.frameNum \in 0 .. MaxFrameNum - 1
      /\ unit.kind # "idr"
  BY Bounds, UnitTyped DEF TypeOK, Depth, Unit, Intact, KeepsWindow
<1>2. /\ Keeps(slots, surface, unit.frameNum, MaxFrameNum, n, stream.window, Coming, unit.wants)
      /\ n <= Depth /\ n \in Nat
  BY InHand DEF Keeps
<1>3. Len(stream.window) <= MaxRefFrames /\ Len(stream.window) \in Nat
      /\ Coming = IF unit.ref THEN 1 ELSE 0
  BY DEF WindowInv, StreamInv, Coming, TypeOK
<1>4. CASE D3d12Marked = slots /\ (D3d12Blocked \/ \A s \in Slot : ~D3d12Evicts(s))
  <2>1. ASSUME ~D3d12Blocked PROVE n + Coming <= Depth
    <3>1. \A s \in Slot : ~D3d12Evicts(s)
      BY <1>4, <2>1
    <3>2. ASSUME unit.ref, n >= MaxRefFrames PROVE FALSE
      <4>1. PICK d \in R : IsOldest(d, slots)
        BY <1>1, <1>2, <3>2, OldestFound
      <4>2. d \in Slot
        BY DEF References
      <4> QED
        BY <1>1, <3>1, <3>2, <4>1, <4>2 DEF D3d12Evicts
    <3> HIDE DEF n
    <3> QED
      BY <1>1, <1>2, <1>3, <3>2
  <2> QED
    BY <1>2, <1>4, <2>1
<1>5. CASE \E d \in References(slots) :
             D3d12Evicts(d) /\ D3d12Marked = [slots EXCEPT ![d] = None]
  <2>1. PICK d \in R : D3d12Evicts(d) /\ D3d12Marked = [slots EXCEPT ![d] = None]
    BY <1>5
  <2>2. unit.ref /\ n >= MaxRefFrames /\ IsOldest(d, slots) /\ d \in Slot
    BY <2>1 DEF D3d12Evicts, References
  <2>3. n = MaxRefFrames /\ Coming = 1
    BY <1>1, <1>2, <1>3, <2>2
  <2>4. Age(slots[d].frameNum, unit.frameNum, MaxFrameNum) = n
    BY <1>1, <1>2, <2>2, OldestAge
  <2>5. References(D3d12Marked) = R \ {d} /\ Cardinality(R \ {d}) = n - 1
    BY <1>1, <2>1, <2>2, ReferencesMove, ReferencesFinite, FS_RemoveElement
  <2>6. Len(stream.window) - Coming <= n - 1 /\ n - 1 >= 1
    BY <1>1, <1>3, <2>3
  <2>7. Keeps([slots EXCEPT ![d] = None], surface, unit.frameNum, MaxFrameNum, n - 1,
              stream.window, Coming, unit.wants)
    BY <1>1, <1>2, <2>1, <2>4, <2>6, KeepsEvicting
  <2> DEFINE k == n - 1
             sx == D3d12Marked
  <2>8. Cardinality(References(sx)) = k /\ k <= Depth /\ k + Coming <= Depth
    BY <1>1, <2>3, <2>5
  <2>9. Keeps(sx, surface, unit.frameNum, MaxFrameNum, k, stream.window, Coming, unit.wants)
    BY <2>1, <2>7
  <2> HIDE DEF k, sx
  <2>10. LET c == Cardinality(References(sx)) IN
         /\ Keeps(sx, surface, unit.frameNum, MaxFrameNum, c, stream.window, Coming, unit.wants)
         /\ c <= Depth /\ c + Coming <= Depth
    BY <2>8, <2>9
  <2> QED
    BY <2>10 DEF sx
<1> QED
  BY <1>1, <1>4, <1>5, MarksOne

\* Every push of a D3D12 session keeps the window.
LEMMA D3d12Window ==
  ASSUME TypeOK, WindowInv, D3d12Push
  PROVE  WindowInv'
<1> DEFINE sl == D3d12Marked
           n == Cardinality(References(sl))
<1>1. /\ unit # None /\ UNCHANGED <<session, stream>> /\ Backend("d3d12")
      /\ ~Lends => outstanding' = outstanding
  BY DEF D3d12Push, D3d12Refuses, D3d12Decodes
<1>2. /\ References(slots) \subseteq occupied /\ (~Lends => outstanding = {})
      /\ References(sl) \subseteq References(slots) /\ DOMAIN sl = Slot
      /\ Within(slots) /\ Within(sl)
      /\ unit.kind = "idr" /\ ~D3d12Blocked => References(sl) = {}
  <2>1. References(slots) \subseteq occupied /\ (~Lends => outstanding = {})
    BY <1>1 DEF WindowInv, SlotsInv
  <2>2. References(sl) \subseteq References(slots) /\ DOMAIN sl = Slot
    BY Clears DEF D3d12Marked, References, ClearAll
  <2>3. unit.kind = "idr" /\ ~D3d12Blocked => References(sl) = {}
    BY Clears DEF D3d12Marked, D3d12Blocked
  <2>4. Within(slots) /\ Within(sl)
    BY Clears DEF Within, D3d12Marked, References
  <2> QED
    BY <2>1, <2>2, <2>3, <2>4
<1>3. References(sl) \subseteq D3d12InUse
  BY <1>2 DEF D3d12InUse
<1>4. Intact => /\ Keeps(sl, surface, unit.frameNum, MaxFrameNum, n, stream.window, Coming,
                         unit.wants)
                /\ n <= Depth /\ (~D3d12Blocked => n + Coming <= Depth)
  BY <1>1, MarkingKeeps
<1>5. /\ Backend("d3d12")' = Backend("d3d12") /\ Lends' = Lends /\ MaxRefFrames' = MaxRefFrames
      /\ References(slots)' = References(slots')
  BY <1>1 DEF Backend, Lends, References, MaxRefFrames
<1> HIDE DEF sl, n
<1>6. ASSUME References(slots') \subseteq occupied' PROVE SlotsInv'
  BY <1>1, <1>2, <1>5, <1>6 DEF SlotsInv
<1>7. ASSUME NEW result \in {"backend", "invalid"}, D3d12Refuses(result), ~flushed,
             result = "invalid" => unit.kind = "p" /\ References(sl) = {}
      PROVE  WindowInv'
  <2>1. /\ SlotsInv' /\ UNCHANGED <<unit, surface, prevPoc>> /\ last'.result = result
        /\ slots' = sl /\ broken' = (broken \/ Repeated)
    BY <1>3, <1>6, <1>7 DEF D3d12Refuses, Refuses, Ends, sl
  <2>2. CASE result = "backend"
    <3>1. Within(slots') /\ ~flushed /\ (Intact => n <= Depth)
      BY <1>2, <1>4, <1>7, <2>1
    <3>2. Intact => Keeps(slots', surface', unit.frameNum, MaxFrameNum, n, stream.window, Coming,
                          unit.wants)
      BY <1>4, <2>1
    <3> QED
      BY <1>1, <2>1, <2>2, <3>1, <3>2, Withheld
  <2>3. CASE result = "invalid"
    <3>1. ~Intact
      <4> SUFFICES ASSUME Intact PROVE FALSE
        OBVIOUS
      <4>1. unit.wants # 0 /\ References(sl) = {}
        BY <1>1, <1>7, <2>3, Wanting
      <4>2. PICK k \in 1 .. n : k = 1
        BY <1>4, <4>1 DEF Keeps
      <4> QED
        BY <1>4, <4>1, <4>2 DEF Keeps
    <3> QED
      BY <1>1, <1>7, <2>1, <2>3, <3>1, Wanting, NoWindow DEF Repeated
  <2> QED
    BY <1>7, <2>2, <2>3
<1>8. CASE flushed
  <2>1. /\ Refuses("closed") /\ UNCHANGED <<slots, occupied, prevPoc>>
    BY <1>8 DEF D3d12Push
  <2> QED
    BY <1>1, <1>2, <1>6, <2>1, Refused
<1>9. ASSUME NEW dst \in D3d12Slot, NEW from \in D3d12Slot \cup {None}, ~D3d12Blocked, ~flushed,
             dst \notin D3d12InUse, D3d12Decodes(dst, from),
             IF unit.kind = "p" THEN from # None /\ IsHeadOfList0(from, sl) ELSE from = None
      PROVE  WindowInv'
  <2>1. dst \in Slot /\ dst \notin References(sl) /\ References(sl) \subseteq Slot
    BY <1>3, <1>9, SlotsFit, ReferencesFinite
  <2>2. SlotsInv'
    <3>1. slots' = sl \/ slots' = [sl EXCEPT ![dst] = IF unit.ref THEN RefEntry ELSE None]
      BY <1>9 DEF D3d12Decodes, sl
    <3>2. D3d12InUse \subseteq occupied' /\ (slots' = sl \/ ~unit.ref \/ dst \in occupied')
      BY <1>9 DEF D3d12Decodes, sl
    <3>3. References(slots') \subseteq References(sl) \cup (IF slots' = sl \/ ~unit.ref THEN {} ELSE {dst})
      BY <1>2, <3>1 DEF References
    <3> QED
      BY <1>3, <1>6, <3>2, <3>3
  <2>3. CASE Fails(dst) /\ slots' = sl /\ UNCHANGED prevPoc
    <3>1. /\ unit' = unit /\ broken' = (broken \/ Repeated) /\ last'.result = "backend"
          /\ \A s \in References(sl) : surface'[s] = surface[s]
      BY <2>1, <2>3 DEF Fails, Ends, TypeOK
    <3>2. Intact => Keeps(slots', surface', unit.frameNum, MaxFrameNum, n, stream.window, Coming,
                          unit.wants) /\ n <= Depth
      <4> DEFINE next == surface'
      <4>1. \A s \in References(sl) : next[s] = surface[s]
        BY <3>1
      <4> HIDE DEF next
      <4>2. Intact => Keeps(sl, next, unit.frameNum, MaxFrameNum, n, stream.window, Coming,
                            unit.wants)
        BY <1>4, <4>1, KeepsElsewhere
      <4> QED
        BY <1>4, <2>3, <4>2 DEF next
    <3> QED
      BY <1>1, <1>2, <1>9, <2>2, <2>3, <3>1, <3>2, Withheld
  <2>4. CASE /\ LosesOutput(dst)
             /\ slots' = [sl EXCEPT ![dst] = IF unit.ref THEN RefEntry ELSE None]
             /\ prevPoc' = IF unit.ref THEN UnitPoc ELSE prevPoc
    <3>1. Intact => Keeps(sl, surface, unit.frameNum, MaxFrameNum, n, stream.window, Coming,
                          unit.wants) /\ n \in Nat /\ n + Coming <= Depth
      BY <1>4, <1>9 DEF Keeps
    <3>2. unit.kind = "idr" => References(sl) = {}
      BY <1>2, <1>9
    <3> QED
      BY <1>1, <1>2, <1>9, <2>1, <2>2, <2>4, <3>1, <3>2, Unread
  <2>5. CASE /\ Delivers(dst, from)
             /\ slots' = [sl EXCEPT ![dst] = IF unit.ref THEN RefEntry ELSE None]
             /\ prevPoc' = IF unit.ref THEN UnitPoc ELSE prevPoc
    <3>1. unit.kind # "p" => Found(from) = 0
      BY <1>9 DEF Found
    <3>2. Intact => Found(from) = unit.wants
      <4> SUFFICES ASSUME Intact, unit.kind = "p" PROVE Found(from) = unit.wants
        BY <1>1, <3>1, Wanting
      <4>1. /\ from # None /\ IsHeadOfList0(from, sl) /\ unit.wants # 0
            /\ unit.frameNum \in 0 .. MaxFrameNum - 1 /\ MaxFrameNum \in Nat \ {0}
        BY <1>1, <1>9, Wanting, UnitTyped, Bounds DEF Unit
      <4> QED
        BY <1>4, <4>1, HeadFound
    <3>3. Intact => Keeps(sl, surface, unit.frameNum, MaxFrameNum, n, stream.window, Coming,
                          unit.wants) /\ n + Coming <= Depth
      BY <1>4, <1>9
    <3>4. unit.kind = "idr" => References(sl) = {}
      BY <1>2, <1>9
    <3> QED
      BY <1>1, <1>2, <1>9, <2>1, <2>2, <2>5, <3>1, <3>2, <3>3, <3>4, Delivered
  <2> QED
    BY <1>9, <2>3, <2>4, <2>5 DEF D3d12Decodes, sl
<1>10. \/ flushed
       \/ ~flushed /\ D3d12Refuses("backend")
       \/ ~flushed /\ unit.kind = "p" /\ References(sl) = {} /\ D3d12Refuses("invalid")
       \/ ~flushed /\ ~D3d12Blocked /\ \E dst \in D3d12Slot, from \in D3d12Slot \cup {None} :
            /\ IsFirst(dst, D3d12Slot \ D3d12InUse)
            /\ IF unit.kind = "p" THEN from # None /\ IsHeadOfList0(from, sl) ELSE from = None
            /\ D3d12Decodes(dst, from)
  BY DEF D3d12Push, sl
<1> QED
  BY <1>7, <1>8, <1>9, <1>10 DEF IsFirst

-----------------------------------------------------------------------------
(* The other calls, and the encoder.                                         *)

\* A call that touches neither the references nor what a push has left behind.
LEMMA CalmWindow ==
  ASSUME TypeOK, WindowInv, SlotsInv',
         UNCHANGED <<session, stream, unit, broken, slots, surface, prevPoc, last>>
  PROVE  WindowInv'
<1>1. /\ Depth' = Depth /\ MaxFrameNum' = MaxFrameNum /\ KeepsWindow' = KeepsWindow
      /\ Coming' = Coming /\ Now' = Now /\ Wanted' = Wanted /\ Intact' = Intact
      /\ References(slots)' = References(slots) /\ Recorded' = Recorded
      /\ PocValue(prevPoc)' = PocValue(prevPoc) /\ MaxRefFrames' = MaxRefFrames
  BY DEF Depth, MaxFrameNum, KeepsWindow, Coming, Now, Wanted, Intact, References, Backend, Lends,
     MaxRefFrames, PocValue, Recorded, VaapiSlot, VulkanSlot
<1>2. StreamInv'
  BY StreamKept DEF WindowInv
<1>3. RefInv'
  BY <1>1 DEF WindowInv, RefInv
<1>4. PocInv'
  BY <1>1 DEF WindowInv, PocInv
<1>5. IntactExact'
  BY <1>1 DEF WindowInv, IntactExact
<1>6. RecordedInv'
  BY <1>1, WholeNext DEF WindowInv, RecordedInv
<1> QED
  BY <1>2, <1>3, <1>4, <1>5, <1>6 DEF WindowInv

\* Polls, flushes and releases leave the references alone.
LEMMA CallWindow ==
  ASSUME TypeOK, WindowInv,
         \/ VaapiPoll \/ VaapiFlush \/ VulkanPoll \/ VulkanFlush \/ D3d12Poll \/ D3d12Flush
         \/ \E f \in held : D3d12Release(f)
         \/ UNCHANGED vars
  PROVE  WindowInv'
<1>1. UNCHANGED <<session, stream, unit, broken, slots, surface, prevPoc, last>>
  BY DEF VaapiPoll, VaapiFlush, VulkanPoll, VulkanFlush, D3d12Poll, D3d12Flush, D3d12Release, Flush,
     vars
<1>2. outstanding' \subseteq outstanding
  BY DEF VaapiPoll, VaapiFlush, VulkanPoll, VulkanFlush, D3d12Poll, D3d12Flush, D3d12Release, Flush,
     vars, VaapiLent
<1>3. occupied' = occupied \/ \E s : occupied' = occupied \ {s} /\ slots[s] = None
  BY DEF VaapiPoll, VaapiFlush, VulkanPoll, VulkanFlush, D3d12Poll, D3d12Flush, D3d12Release, Flush,
     vars
<1>4. SlotsInv'
  <2>1. References(slots) \cap (occupied \ occupied') = {}
    BY <1>3 DEF References
  <2>2. /\ References(slots)' = References(slots) /\ MaxRefFrames' = MaxRefFrames
        /\ Lends' = Lends /\ Backend("d3d12")' = Backend("d3d12")
    BY <1>1 DEF References, MaxRefFrames, Lends, Backend
  <2> QED
    BY <1>2, <2>1, <2>2 DEF WindowInv, SlotsInv
<1> QED
  BY <1>1, <1>4, CalmWindow

\* Giving up on a picture that is no reference, or one recorded, costs the window nothing.
LEMMA SkipWindow ==
  ASSUME TypeOK, WindowInv, Skip
  PROVE  WindowInv'
<1>1. /\ unit # None /\ unit' = None /\ broken' = (broken \/ (unit.ref /\ ~Recorded))
      /\ UNCHANGED <<session, stream, slots, occupied, outstanding, surface, prevPoc, last>>
  BY DEF Skip
<1>2. SlotsInv'
  BY <1>1 DEF WindowInv, SlotsInv, References, MaxRefFrames, Lends, Backend
<1> SUFFICES ASSUME ~broken', KeepsWindow PROVE WindowInv'
  BY <1>1, <1>2, NoWindow
<1>3. StreamInv'
  BY <1>1, StreamKept DEF WindowInv
<1>4. IntactExact'
  BY <1>1 DEF WindowInv, IntactExact
<1>5. ~Recorded' /\ RecordedInv'
  BY <1>1 DEF Recorded, RecordedInv
<1>6. RefWhole(slots, surface) /\ PocWhole(prevPoc)
  <2>1. CASE Recorded
    BY <1>1, <2>1 DEF WindowInv, RecordedInv
  <2>2. CASE ~Recorded
    <3>1. ~unit.ref /\ Intact /\ Coming = 0
      BY <1>1, <2>2 DEF WindowInv, StreamInv, Intact, Coming
    <3>2. PocWhole(prevPoc)
      BY <3>1 DEF WindowInv, PocInv, PocWhole
    <3>3. RefWhole(slots, surface)
      <4> DEFINE n == Cardinality(References(slots))
      <4>1. stream.refs \in Nat /\ unit.frameNum = stream.refs % MaxFrameNum
        BY <1>1, <3>1 DEF WindowInv, StreamInv, TypeOK
      <4>2. /\ Keeps(slots, surface, unit.frameNum, MaxFrameNum, n, stream.window, 0, unit.wants)
            /\ n <= Depth
        BY <1>1, <3>1, InHand
      <4>3. Keeps(slots, surface, stream.refs % MaxFrameNum, MaxFrameNum, n, stream.window, 0, 0)
        BY <4>1, <4>2, KeepsElsewhere
      <4> QED
        BY <4>2, <4>3 DEF RefWhole
    <3> QED
      BY <3>2, <3>3
  <2> QED
    BY <2>1, <2>2
<1> QED
  BY <1>1, <1>2, <1>3, <1>4, <1>5, <1>6, WholeAfter DEF WindowInv

\* The window with a picture at its head, cut to its length.
LEMMA NewestTyped ==
  ASSUME MaxRefFrames \in Nat \ {0}, NEW p \in Picture, NEW w \in Seq(Picture)
  PROVE  LET v == NewestRefs(<<p>> \o w) IN
         /\ v \in Seq(Picture) /\ Len(v) \in 1 .. MaxRefFrames /\ Len(v) <= Len(w) + 1
         /\ v[1] = p /\ (w = <<>> => Len(v) = 1)
         /\ \A k \in 1 .. Len(w) : k + 1 <= Len(v) => v[k + 1] = w[k]
<1> DEFINE u == <<p>> \o w
           k == IF Len(u) < MaxRefFrames THEN Len(u) ELSE MaxRefFrames
           v == SubSeq(u, 1, k)
<1>1. /\ u \in Seq(Picture) /\ Len(u) = Len(w) + 1 /\ u[1] = p /\ Len(w) \in Nat
      /\ \A i \in 1 .. Len(w) : u[i + 1] = w[i]
  OBVIOUS
<1>2. k \in 1 .. Len(u) /\ k <= MaxRefFrames /\ (Len(u) = 1 => k = 1)
  <2> HIDE DEF u
  <2> QED
    BY <1>1
<1> HIDE DEF u, k
<1>3. v \in Seq(Picture) /\ Len(v) = k /\ \A i \in 1 .. k : v[i] = u[i]
  BY <1>1, <1>2
<1> HIDE DEF v
<1>4. w = <<>> => Len(w) = 0
  OBVIOUS
<1>5. \A i \in 1 .. Len(w) : i + 1 <= k => v[i + 1] = w[i]
  BY <1>1, <1>2, <1>3
<1>6. v = NewestRefs(u)
  BY DEF v, k, NewestRefs
<1> QED
  BY <1>1, <1>2, <1>3, <1>4, <1>5, <1>6 DEF u

\* The order count of the next picture, seen from the one stored.
LEMMA PocAhead ==
  ASSUME NEW m \in Nat \ {0}, NEW poc \in Nat, NEW lsb \in 0 .. m - 1, NEW ahead \in Nat,
         ahead + 1 <= m \div 2, poc % m \in {lsb + ahead, lsb + ahead - m}
  PROVE  (poc + 1) % m \in {lsb + (ahead + 1), lsb + (ahead + 1) - m}
<1> DEFINE r == poc % m
           t == (poc + 1) % m
           h == m \div 2
<1>1. t = IF r = m - 1 THEN 0 ELSE r + 1
  BY ModStep
<1>2. r \in 0 .. m - 1
  BY ModRange
<1>3. h \in Nat /\ 2 * h <= m /\ ahead + 1 <= h
  BY Half
<1>4. r \in {lsb + ahead, lsb + ahead - m}
  OBVIOUS
<1> HIDE DEF r, t, h
<1>5. t \in {lsb + (ahead + 1), lsb + (ahead + 1) - m}
  BY <1>1, <1>2, <1>3, <1>4
<1> QED
  BY <1>5 DEF t

\* The encoder's next picture shifts its window over the references of the DPB.
LEMMA NextUnitWindow ==
  ASSUME TypeOK, WindowInv, NoneAhead, NEW k \in Kinds, NextUnit(k[1], k[2])
  PROVE  WindowInv'
<1> DEFINE kind == k[1]
           ref == k[2]
           pic == stream.pics + 1
           w == stream.window
           m == MaxFrameNum
           fn == stream.refs % m
           idr == kind = "idr"
<1>1. /\ kind \in {"idr", "i", "p"} /\ ref \in BOOLEAN /\ (kind = "idr" => ref)
  BY H264Assumption
<1>2. /\ stream.pics \in Nat /\ stream.refs \in Nat /\ stream.poc \in Nat /\ stream.refPoc \in Nat
      /\ w \in Seq(Picture) /\ MaxRefFrames \in Nat \ {0} /\ m \in Nat \ {0}
      /\ MaxPicOrderCntLsb \in Nat \ {0} /\ pic \in Picture
  <2>1. /\ stream \in [pics : 0 .. MaxPictures, refs : Nat, poc : Nat, refPoc : Nat,
                       window : Seq(Picture)]
        /\ stream.pics < MaxPictures
    BY DEF TypeOK, NextUnit
  <2>2. /\ MaxRefFrames \in Nat \ {0} /\ m \in Nat \ {0} /\ MaxPicOrderCntLsb \in Nat \ {0}
        /\ MaxPictures \in Nat
    BY Bounds
  <2> HIDE DEF m
  <2> QED
    BY <2>1, <2>2 DEF Picture
<1> DEFINE poc == IF idr THEN 0 ELSE stream.poc + 1
           refs == IF idr THEN 0 ELSE stream.refs
           earlier == IF idr THEN <<>> ELSE w
           next == [pic |-> pic, kind |-> kind, ref |-> ref, frameNum |-> refs % m,
                    lsb |-> poc % MaxPicOrderCntLsb, poc |-> poc,
                    wants |-> IF kind = "p" THEN Head(w) ELSE 0]
           v == IF ref THEN NewestRefs(<<pic>> \o earlier) ELSE earlier
           c == IF ref THEN 1 ELSE 0
<1>3. /\ unit = None /\ unit' = next /\ (w = <<>> => idr)
      /\ ~idr => poc - stream.refPoc <= MaxPicOrderCntLsb \div 2
      /\ stream' = [pics |-> pic, refs |-> IF ref THEN refs + 1 ELSE refs, poc |-> poc,
                    refPoc |-> IF ref THEN poc ELSE stream.refPoc, window |-> v]
      /\ UNCHANGED <<session, broken, slots, occupied, outstanding, surface, prevPoc, last>>
  BY DEF NextUnit
<1>4. /\ unit'.kind = kind /\ unit'.ref = ref /\ unit'.pic = pic /\ unit'.frameNum = refs % m
      /\ unit'.poc = poc /\ unit'.lsb = poc % MaxPicOrderCntLsb
      /\ unit'.wants = IF kind = "p" THEN Head(w) ELSE 0
      /\ stream'.refs = (IF ref THEN refs + 1 ELSE refs) /\ stream'.poc = poc
      /\ stream'.refPoc = (IF ref THEN poc ELSE stream.refPoc) /\ stream'.window = v
  BY <1>3
<1>5. unit' # None
  <2>1. \A a \in Nat : a % m \in Nat /\ a % MaxPicOrderCntLsb \in Nat
    BY <1>2
  <2>2. kind = "p" => Head(w) \in Picture
    BY <1>2, <1>3
  <2>3. poc \in Nat /\ refs \in Nat /\ pic \in Nat /\ \A q \in Picture : q \in Nat
    BY <1>2 DEF Picture
  <2> HIDE DEF poc, refs, kind, ref, m, w, pic
  <2>4. next \in AnyUnit
    BY <1>1, <2>1, <2>2, <2>3 DEF AnyUnit
  <2> QED
    BY <1>3, <2>4, H264Assumption
<1>6. /\ Coming' = c /\ Now' = refs % m /\ Wanted' = unit'.wants /\ Coming = 0 /\ Now = fn
      /\ Wanted = 0 /\ MaxFrameNum' = m /\ MaxRefFrames' = MaxRefFrames /\ Depth' = Depth
      /\ KeepsWindow' = KeepsWindow /\ References(slots)' = References(slots)
  BY <1>3, <1>4, <1>5 DEF Coming, Now, Wanted, MaxFrameNum, MaxRefFrames, Depth, KeepsWindow,
     References, Backend, Lends, VaapiSlot, VulkanSlot
<1>7. /\ ~Recorded' /\ (Intact' => ~idr /\ Intact)
  <2>1. ~Recorded'
    <3>1. \A s \in References(slots) : slots[s].pic <= stream.pics /\ slots[s].pic \in Nat
      BY DEF NoneAhead, References, TypeOK, Reference, Picture
    <3>2. unit'.pic = stream.pics + 1 /\ slots' = slots
      BY <1>3, <1>4
    <3> HIDE DEF next
    <3>3. \A s \in References(slots) : slots[s].pic # unit'.pic
      BY <1>2, <3>1, <3>2
    <3> QED
      BY <1>6, <3>2, <3>3 DEF Recorded
  <2>2. ~Recorded
    BY <1>3 DEF Recorded
  <2> QED
    BY <1>3, <1>4, <1>5, <1>6, <2>1, <2>2 DEF Intact
<1>8. /\ v \in Seq(Picture) /\ Len(v) \in 0 .. MaxRefFrames /\ (ref => v # <<>> /\ v[1] = pic)
      /\ (idr => Len(v) = 1) /\ (~idr => Len(v) - c <= Len(w))
      /\ (~idr => \A i \in 1 .. Len(w) : i + c <= Len(v) => v[i + c] = w[i])
  <2>1. earlier \in Seq(Picture) /\ Len(earlier) <= MaxRefFrames /\ Len(earlier) \in Nat
        /\ (idr => earlier = <<>>) /\ (~idr => earlier = w)
    BY <1>2 DEF WindowInv, StreamInv
  <2> HIDE DEF earlier
  <2>2. CASE ref
    <3> DEFINE x == NewestRefs(<<pic>> \o earlier)
    <3>1. /\ x \in Seq(Picture) /\ Len(x) \in 1 .. MaxRefFrames /\ Len(x) <= Len(earlier) + 1
          /\ x[1] = pic /\ (earlier = <<>> => Len(x) = 1)
          /\ \A i \in 1 .. Len(earlier) : i + 1 <= Len(x) => x[i + 1] = earlier[i]
      BY SMTT(30), <1>2, <2>1, NewestTyped
    <3>2. v = x /\ c = 1
      BY <2>2
    <3> HIDE DEF x, v, c
    <3> QED
      BY <1>1, <1>2, <2>1, <2>2, <3>1, <3>2
  <2>3. CASE ~ref
    <3>1. v = w /\ c = 0 /\ ~idr
      BY <1>1, <2>1, <2>3
    <3> HIDE DEF v, c
    <3> QED
      BY <1>2, <2>1, <2>3, <3>1
  <2> QED
    BY <1>1, <2>2, <2>3
<1> HIDE DEF v
<1>9. StreamInv'
  <2>1. /\ Len(stream'.window) <= MaxRefFrames /\ Coming' <= stream'.refs
        /\ stream'.refPoc <= stream'.poc
    <3>1. stream.refPoc <= stream.poc
      BY DEF WindowInv, StreamInv
    <3> QED
      BY SMTT(30), <1>1, <1>2, <1>4, <1>6, <1>8, <3>1
  <2>2. unit'.frameNum = (stream'.refs - Coming') % m
    <3>1. stream'.refs - Coming' = refs
      BY <1>1, <1>2, <1>4, <1>6
    <3> QED
      BY <1>4, <3>1
  <2>3. /\ unit'.poc = stream'.poc /\ unit'.lsb = stream'.poc % MaxPicOrderCntLsb
        /\ unit'.ref => stream'.refPoc = stream'.poc /\ stream'.window # <<>>
                         /\ stream'.window[1] = unit'.pic
    BY <1>4, <1>8
  <2>4. unit'.kind = "p" <=> unit'.wants # 0
    <3>1. kind = "p" => Head(w) \in Picture
      BY <1>2, <1>3
    <3> QED
      BY <1>4, <3>1 DEF Picture
  <2>5. unit'.kind = "idr" => unit'.ref /\ stream'.refs = 1 /\ stream'.poc = 0
                              /\ Len(stream'.window) = 1
    BY <1>1, <1>4, <1>8
  <2> QED
    BY <1>6, <2>1, <2>2, <2>3, <2>4, <2>5 DEF StreamInv
<1>10. SlotsInv'
  BY <1>3, <1>6 DEF WindowInv, SlotsInv, Backend, Lends
<1>11. RefInv'
  <2> SUFFICES ASSUME Intact' PROVE RefInv'
    BY DEF RefInv
  <2> DEFINE n == Cardinality(References(slots))
             p == unit'.wants
  <2>1. ~idr /\ Intact /\ refs = stream.refs
    BY <1>7
  <2>2. Keeps(slots, surface, fn, m, n, w, 0, 0) /\ n <= Depth
    BY <1>6, <2>1 DEF WindowInv, RefInv
  <2>3. p # 0 => Len(w) >= 1 /\ p = w[1]
    BY <1>2, <1>3, <1>4
  <2>4. c \in 0 .. 1 /\ Len(v) \in Nat /\ Len(w) \in Nat
    BY <1>2, <1>8
  <2> HIDE DEF n, p, c, fn, w, m
  <2>5. Keeps(slots, surface, fn, m, n, v, c, p)
    BY <1>8, <2>1, <2>2, <2>3, <2>4, KeepsShifting
  <2>6. Now' = fn /\ Wanted' = p /\ surface' = surface /\ slots' = slots
    BY <1>3, <1>6, <2>1 DEF p, fn
  <2> QED
    BY <1>4, <1>6, <2>2, <2>5, <2>6 DEF RefInv, n
<1>12. PocInv'
  <2> SUFFICES ASSUME Intact' PROVE PocInv'
    BY DEF PocInv
  <2> DEFINE stored == PocValue(prevPoc)
             ahead == stream.poc - stored
             L == MaxPicOrderCntLsb
             h == L \div 2
  <2>1. ~idr /\ Intact /\ poc = stream.poc + 1
    BY <1>7
  <2>2. /\ prevPoc.lsb \in 0 .. L - 1 /\ ahead \in Nat /\ stored = stream.refPoc
        /\ stream.poc % L \in {prevPoc.lsb + ahead, prevPoc.lsb + ahead - L}
    BY <1>6, <2>1 DEF WindowInv, PocInv
  <2>3. poc - stored = ahead + 1 /\ ahead + 1 <= h
    <3>1. stored = stream.refPoc /\ stream.refPoc \in Nat /\ stream.poc \in Nat
      BY <1>2, <2>2
    <3>2. poc - stream.refPoc <= h /\ poc = stream.poc + 1
      BY <1>3, <2>1
    <3> HIDE DEF poc, h, stored
    <3> QED
      BY <3>1, <3>2
  <2>4. poc % L \in {prevPoc.lsb + (ahead + 1), prevPoc.lsb + (ahead + 1) - L}
    <3> HIDE DEF ahead, L, h
    <3>1. L \in Nat \ {0} /\ stream.poc \in Nat
      BY <1>2 DEF L
    <3>2. ahead + 1 <= L \div 2
      BY <2>3 DEF h
    <3> QED
      BY <2>1, <2>2, <3>1, <3>2, PocAhead
  <2>5. ahead + 1 \in Nat
    BY <2>2
  <2>6. PocValue(prevPoc)' = stored /\ prevPoc' = prevPoc
    BY <1>3 DEF PocValue
  <2>7. Coming' = 0 => stored = stream'.refPoc
    BY <1>1, <1>4, <1>6, <2>2
  <2> HIDE DEF poc, ahead, stored, h
  <2> QED
    BY <1>4, <2>2, <2>3, <2>4, <2>5, <2>6, <2>7 DEF PocInv, h
<1>13. IntactExact'
  BY <1>3, <1>6 DEF WindowInv, IntactExact
<1>14. RecordedInv'
  <2> SUFFICES Recorded' => FALSE
    BY DEF RecordedInv
  <2> QED
    BY <1>7
<1> QED
  BY <1>9, <1>10, <1>11, <1>12, <1>13, <1>14 DEF WindowInv

\* A push adds at most the picture in hand to the DPB.
LEMMA PushAdds ==
  ASSUME TypeOK, VaapiPush \/ VulkanPush \/ D3d12Push
  PROVE  /\ unit # None /\ stream' = stream /\ unit' \in {unit, None}
         /\ \A s \in References(slots') :
              slots'[s] = RefEntry \/ (s \in References(slots) /\ slots'[s] = slots[s])
<1> DEFINE Adds(sl) == \A s \in References(sl) :
                          sl[s] = RefEntry \/ (s \in References(slots) /\ sl[s] = slots[s])
<1>1. \A lent : Adds(ClearAll(slots, lent))
  BY Clears
<1>2. Adds(slots) /\ Adds(D3d12Marked)
  BY Clears DEF D3d12Marked, References
<1>3. /\ \A lent : DOMAIN ClearAll(slots, lent) = Slot
      /\ DOMAIN slots = Slot /\ DOMAIN D3d12Marked = Slot
  BY DEF TypeOK, ClearAll, D3d12Marked
<1>4. unit # None /\ stream' = stream
  BY DEF VaapiPush, VaapiClosed, VaapiIdrRefused, VaapiDecode, VulkanPush, VulkanClosed,
     VulkanIdrRefused, VulkanDecode, D3d12Push
<1>5. CASE VaapiPush
  <2> DEFINE sl == IF unit.kind = "idr" THEN ClearAll(slots, VaapiLent) ELSE slots
  <2>1. Adds(sl) /\ DOMAIN sl = Slot
    BY <1>1, <1>2, <1>3
  <2>2. \/ unit' = unit /\ (slots' = slots \/ slots' = ClearAll(slots, VaapiLent) \/ slots' = sl)
        \/ \E dst \in VaapiSlot, from \in VaapiSlot \cup {None} : VaapiDecodes(dst, from, sl)
    BY <1>5 DEF VaapiPush, VaapiClosed, VaapiIdrRefused, VaapiDecode, Refuses
  <2> HIDE DEF sl
  <2>3. ASSUME NEW dst, NEW from, VaapiDecodes(dst, from, sl)
        PROVE  unit' \in {unit, None} /\ \E e : /\ e = None \/ e = RefEntry
                                                /\ slots' = [sl EXCEPT ![dst] = e]
    BY <2>3 DEF VaapiDecodes, Fails, Delivers
  <2>4. ASSUME NEW e, e = None \/ e = RefEntry, NEW dst PROVE Adds([sl EXCEPT ![dst] = e])
    BY <2>1, <2>4 DEF References
  <2>5. unit' \in {unit, None} /\ Adds(slots')
    <3>1. Adds(slots) /\ \A lent : Adds(ClearAll(slots, lent))
      BY <1>1, <1>2
    <3> HIDE DEF Adds
    <3> QED
      BY <2>1, <2>2, <2>3, <2>4, <3>1
  <2> QED
    BY <1>4, <2>5
<1>6. CASE VulkanPush
  <2> DEFINE sl == IF unit.kind = "idr" THEN ClearAll(slots, outstanding) ELSE slots
  <2>1. Adds(sl) /\ DOMAIN sl = Slot
    BY <1>1, <1>2, <1>3
  <2>2. \/ unit' = unit /\ (slots' = slots \/ slots' = ClearAll(slots, outstanding) \/ slots' = sl)
        \/ \E dst \in VulkanSlot, from \in VulkanSlot \cup {None} : VulkanDecodes(dst, from, sl)
    BY <1>6 DEF VulkanPush, VulkanClosed, VulkanIdrRefused, VulkanDecode, Refuses
  <2> HIDE DEF sl
  <2>3. ASSUME NEW dst, NEW from, VulkanDecodes(dst, from, sl)
        PROVE  unit' \in {unit, None} /\ \E e : /\ e = None \/ e = RefEntry
                                                /\ slots' = [sl EXCEPT ![dst] = e]
    BY <2>3 DEF VulkanDecodes, Fails, Delivers, LosesOutput
  <2>4. ASSUME NEW e, e = None \/ e = RefEntry, NEW dst PROVE Adds([sl EXCEPT ![dst] = e])
    BY <2>1, <2>4 DEF References
  <2>5. unit' \in {unit, None} /\ Adds(slots')
    <3>1. Adds(slots) /\ \A lent : Adds(ClearAll(slots, lent))
      BY <1>1, <1>2
    <3> HIDE DEF Adds
    <3> QED
      BY <2>1, <2>2, <2>3, <2>4, <3>1
  <2> QED
    BY <1>4, <2>5
<1>7. CASE D3d12Push
  <2> DEFINE sl == D3d12Marked
  <2>1. \/ unit' = unit /\ (slots' = slots \/ slots' = sl)
        \/ \E dst \in D3d12Slot, from \in D3d12Slot \cup {None} : D3d12Decodes(dst, from)
    BY <1>7 DEF D3d12Push, D3d12Refuses, Refuses
  <2>2. ASSUME NEW dst, NEW from, D3d12Decodes(dst, from)
        PROVE  unit' \in {unit, None} /\ (slots' = sl \/ \E e : /\ e = None \/ e = RefEntry
                                                              /\ slots' = [sl EXCEPT ![dst] = e])
    BY <2>2 DEF D3d12Decodes, Fails, Delivers, LosesOutput
  <2>3. Adds(sl) /\ DOMAIN sl = Slot
    BY <1>2, <1>3
  <2> HIDE DEF sl
  <2>4. ASSUME NEW e, e = None \/ e = RefEntry, NEW dst PROVE Adds([sl EXCEPT ![dst] = e])
    BY <2>3, <2>4 DEF References
  <2>5. unit' \in {unit, None} /\ Adds(slots')
    <3>1. Adds(slots)
      BY <1>2
    <3> HIDE DEF Adds
    <3> QED
      BY <2>1, <2>2, <2>3, <2>4, <3>1
  <2> QED
    BY <1>4, <2>5
<1> QED
  BY <1>5, <1>6, <1>7

\* No step puts a picture into the DPB that the stream has yet to come to.
LEMMA AheadStep == TypeOK /\ NoneAhead /\ [Next]_vars => NoneAhead'
<1> SUFFICES ASSUME TypeOK, NoneAhead, [Next]_vars PROVE NoneAhead'
  OBVIOUS
<1>1. stream.pics \in Nat /\ \A s \in References(slots) : slots[s].pic \in Nat
  BY DEF TypeOK, References, Reference, Picture
<1>2. References(slots)' = References(slots')
  BY DEF References
<1>3. ASSUME NEW k \in Kinds, NextUnit(k[1], k[2]) PROVE NoneAhead'
  <2>1. /\ slots' = slots /\ unit'.pic = stream.pics + 1 /\ stream'.pics = stream.pics + 1
    BY <1>3 DEF NextUnit
  <2> QED
    BY <1>1, <1>2, <2>1 DEF NoneAhead
<1>4. CASE VaapiPush \/ VulkanPush \/ D3d12Push
  <2>1. RefEntry.pic = stream.pics
    BY <1>4, PushAdds DEF NoneAhead, RefEntry
  <2> QED
    BY <1>1, <1>2, <1>4, <2>1, PushAdds DEF NoneAhead
<1>5. CASE ~(VaapiPush \/ VulkanPush \/ D3d12Push) /\ ~\E k \in Kinds : NextUnit(k[1], k[2])
  <2>1. slots' = slots /\ stream' = stream /\ unit' \in {unit, None}
    BY <1>5 DEF Next, Skip, VaapiPoll, VaapiFlush, VulkanPoll, VulkanFlush, D3d12Poll, D3d12Flush,
       D3d12Release, Flush, vars
  <2> QED
    BY <1>2, <2>1 DEF NoneAhead
<1> QED
  BY <1>3, <1>4, <1>5

\* Every step keeps the window.
LEMMA WindowStep == TypeOK /\ NoneAhead /\ WindowInv /\ [Next]_vars => WindowInv'
<1> SUFFICES ASSUME TypeOK, NoneAhead, WindowInv, [Next]_vars PROVE WindowInv'
  OBVIOUS
<1>1. CASE \E k \in Kinds : NextUnit(k[1], k[2])
  BY <1>1, NextUnitWindow
<1>2. CASE Skip
  BY <1>2, SkipWindow
<1>3. CASE VaapiPush
  BY <1>3, VaapiWindow
<1>4. CASE VulkanPush
  BY <1>4, VulkanWindow
<1>5. CASE D3d12Push
  BY <1>5, D3d12Window
<1>6. CASE \/ VaapiPoll \/ VaapiFlush \/ VulkanPoll \/ VulkanFlush \/ D3d12Poll \/ D3d12Flush
           \/ \E f \in held : D3d12Release(f)
           \/ UNCHANGED vars
  BY <1>6, CallWindow
<1> QED
  BY <1>1, <1>2, <1>3, <1>4, <1>5, <1>6 DEF Next

\* An empty DPB awaits an IDR picture.
LEMMA WindowStarts == Init => WindowInv
<1> SUFFICES ASSUME Init PROVE WindowInv
  OBVIOUS
<1>1. broken /\ unit = None /\ References(slots) = {} /\ outstanding = {}
  BY DEF Init, References
<1>2. StreamInv
  <2>1. MaxRefFrames \in Nat \ {0}
    BY H264Assumption DEF Init, MaxRefFrames, SessionKind
  <2> QED
    BY <1>1, <2>1 DEF Init, StreamInv, Coming
<1> QED
  BY <1>1, <1>2 DEF WindowInv, SlotsInv, RefInv, PocInv, RecordedInv, IntactExact, Intact

\* In the sessions of KeepsWindow, and while no reference of the stream was given up before
\* it was recorded nor pushed again after, the DPB holds the newest references, each in a
\* surface nobody decoded over, in the order of their frame_nums.
THEOREM WindowInvariance == Spec => []WindowInv
<1>1. Spec => []NoneAhead
  <2>1. Init => NoneAhead
    BY DEF Init, NoneAhead, References
  <2> QED
    BY <2>1, AheadStep, TypeCorrect, PTL DEF Spec
<1> QED
  BY <1>1, WindowStarts, WindowStep, TypeCorrect, PTL DEF Spec

\* In the same sessions and streams, every picture is predicted from the reference its
\* encoder meant and gets the order count its encoder gave it, through any number of
\* refusals, device errors, pictures whose pixels were lost, and wraps of frame_num and of
\* the order count, for any size of the DPB and any limit on it.
THEOREM PredictionExact == Spec => []IntactExact
<1>1. WindowInv => IntactExact
  BY DEF WindowInv
<1> QED
  BY <1>1, WindowInvariance, PTL

\* In the same sessions and streams, every reference the encoder may still use is in the
\* DPB between two pictures.
THEOREM ReferencesHeld == Spec => []WindowHeld
<1>1. TypeOK /\ WindowInv => WindowHeld
  <2> SUFFICES ASSUME TypeOK, WindowInv, KeepsWindow, ~broken, unit = None,
                      NEW i \in DOMAIN stream.window
               PROVE  \E s \in References(slots) :
                        slots[s].pic = stream.window[i] /\ surface[s] = stream.window[i]
    BY DEF WindowHeld, HoldsWindow
  <2> DEFINE n == Cardinality(References(slots))
             w == stream.window
             age(s) == Age(slots[s].frameNum, Now, MaxFrameNum)
  <2>1. Keeps(slots, surface, Now, MaxFrameNum, n, w, 0, 0)
    BY DEF WindowInv, RefInv, Intact, Recorded, Coming, Wanted
  <2>2. i \in 1 .. Len(w) /\ Len(w) \in Nat
    BY DEF TypeOK
  <2>3. /\ n \in Nat /\ Len(w) - 0 <= n
        /\ \A k \in 1 .. n : \E s \in References(slots) : age(s) = k
        /\ \A s \in References(slots) :
             surface[s] = slots[s].pic /\ (age(s) + 0 <= Len(w) => slots[s].pic = w[age(s) + 0])
    BY <2>1 DEF Keeps
  <2>4. PICK s \in References(slots) : age(s) = i
    <3> HIDE DEF n, w, age
    <3> QED
      BY <2>2, <2>3
  <2> HIDE DEF n, w, age
  <2>5. age(s) + 0 = i /\ i <= Len(w)
    BY <2>2, <2>4
  <2> QED
    BY <2>3, <2>4, <2>5 DEF w
<1> QED
  BY <1>1, WindowInvariance, TypeCorrect, PTL
=============================================================================
