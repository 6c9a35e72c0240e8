---------------------- MODULE SharedDuplicationProofs ----------------------
(* The ring of SharedDuplication, for any number of handles, any ring depth  *)
(* and any number of fallback textures.                                      *)
EXTENDS SharedDuplication, FiniteSetTheorems, FunctionTheorems, TLAPS

-----------------------------------------------------------------------------
(* The inductive invariant.                                                  *)

\* The control channel holds at most one Attach per handle, sent by a handle
\* that is still waiting, and Detach only from handles that have left.
ChannelInv ==
  /\ \A i \in 1 .. Len(control) :
       IF control[i].type = "attach"
         THEN driver # "exited" => handle[control[i].from] = "attaching"
         ELSE handle[control[i].from] \in {"dropping", "joining", "closed"}
  /\ \A i, j \in 1 .. Len(control) :
       /\ control[i].type = "attach" /\ control[j].type = "attach"
       /\ control[i].from = control[j].from
       => i = j

\* A handle that has not been attached has no history.
FreshInv ==
  \A c \in Capture : handle[c] \in {"unopened", "upgraded", "attaching", "failing"}
                      => held[c] = NoSlot /\ lastSeen[c] = 0 /\ seen[c] = 0

\* The driver's frame is newer than anything published until it is published.
PublishInv ==
  /\ content[latest] = published /\ published <= grabbed
  /\ driver \in {"reclaim", "scan", "copy", "bump", "swap", "alloc"}
       => published < grabbed
  /\ driver \in {"bump", "swap"} => content[dest] = grabbed

\* What a slot s looks like to a handle that may be given it next: not older
\* than what it was shown, and the same frame only if the generations agree.
Consistent(c, s) ==
  /\ seen[c] <= content[s]
  /\ seen[c] = content[s] => generation[s] \in {0, lastSeen[c]}

DeliveryInv ==
  \A c \in Capture :
    /\ Consistent(c, latest)
    /\ clone[c] # NoSlot =>
         /\ Consistent(c, clone[c])
         /\ held[c] = NoSlot
         /\ content[clone[c]] <= published
         /\ content[clone[c]] = published => clone[c] = latest

IInv == /\ TypeOK /\ TexturesAlive /\ DestinationUnshared /\ OpenHasRecord
        /\ ChannelInv /\ FreshInv /\ PublishInv /\ DeliveryInv

-----------------------------------------------------------------------------
(* Type correctness.                                                         *)

\* Every step of the driver or of a handle keeps every variable in its type.
LEMMA TypeStep == TypeOK /\ [Next]_vars => TypeOK'
<1> SUFFICES ASSUME TypeOK, [Next]_vars PROVE TypeOK'
  OBVIOUS
<1> USE DEF TypeOK
<1>0. Transient \subseteq Slot /\ Fixed \subseteq Slot /\ NoSlot \notin Slot
  BY SlotAssumption DEF Slot, Fixed
<1>1. CASE CheckShutdown
  BY <1>1 DEF CheckShutdown, DriverStep, recordVars
<1>2. CASE DrainAttach
  <2>1. Head(control) \in Message /\ Tail(control) \in Seq(Message)
    BY <1>2 DEF DrainAttach
  <2> QED
    BY <1>2, <2>1 DEF DrainAttach, ConsumersFree, Message, HandleStep, driverVars, ringVars
<1>3. CASE DrainDetach
  <2>1. Head(control) \in Message /\ Tail(control) \in Seq(Message)
    BY <1>3 DEF DrainDetach
  <2> QED
    BY <1>3, <2>1 DEF DrainDetach, Retained, Message, driverVars, ringVars
<1>4. CASE DrainDone
  BY <1>4 DEF DrainDone, DriverStep, ringVars, recordVars
<1>5. CASE AcquireNothing
  BY <1>5 DEF AcquireNothing, DriverStep, ringVars, recordVars
<1>6. CASE AccessLost
  BY <1>6 DEF AccessLost, DriverStep, recordVars
<1>7. CASE AcquireFrame
  BY <1>7 DEF AcquireFrame, DriverStep, ringVars, recordVars
<1>8. CASE ReclaimTransient
  BY <1>8 DEF ReclaimTransient, KeptTransients, DriverStep, recordVars
<1>9. CASE ScanSlot
  <2>1. InRing(scan) => scan \in Slot
    BY DepthAssumption DEF InRing, Slot, Fixed
  <2>2. dest' \in Slot /\ scan' \in Nat /\ driver' \in DriverStep
    BY <1>9, <2>1 DEF ScanSlot, DriverStep
  <2> QED
    BY <1>9, <2>2 DEF ScanSlot, ringVars, recordVars
<1>10. CASE CopyResource
  BY <1>10 DEF CopyResource, DriverStep, recordVars
<1>11. CASE BumpGeneration
  <2>1. generation[dest] + 1 \in Nat
    OBVIOUS
  <2> QED
    BY <1>11, <2>1 DEF BumpGeneration, DriverStep, recordVars
<1>12. CASE SwapLatest
  BY <1>12 DEF SwapLatest, DriverStep, recordVars
<1>13. CASE PublishTransient
  BY <1>0, <1>13 DEF PublishTransient, DriverStep, recordVars
<1>14. CASE AllocationFails
  BY <1>14 DEF AllocationFails, DriverStep, ringVars, recordVars
<1>15. ASSUME NEW c \in Capture, Handle(c) PROVE TypeOK'
  <2> USE DEF HandleStep, driverVars, ringVars, recordVars
  <2>1. CASE Upgrade(c)
    BY <2>1 DEF Upgrade
  <2>2. CASE AttachRefused(c)
    BY <2>2 DEF AttachRefused
  <2>3. CASE SendAttach(c)
    BY <2>3 DEF SendAttach, Message
  <2>4. CASE ReplyLost(c)
    BY <2>4 DEF ReplyLost
  <2>5. CASE PollBegin(c)
    BY <1>0, <2>5 DEF PollBegin
  <2>6. CASE PollNone(c)
    BY <2>6 DEF PollNone
  <2>7. CASE PollFrame(c)
    <3>1. clone[c] \in Slot
      BY <2>7 DEF PollFrame
    <3> QED
      BY <2>7, <3>1 DEF PollFrame, HandedOut
  <2>8. CASE ReleaseFrame(c)
    BY <2>8 DEF ReleaseFrame
  <2>9. CASE Close(c)
    <3>1. control' \in Seq(Message)
      <4>1. [type |-> "detach", from |-> c] \in Message
        BY DEF Message
      <4> QED
        BY <2>9, <4>1 DEF Close
    <3> QED
      BY <2>9, <3>1 DEF Close
  <2>10. CASE Abandon(c)
    BY <2>10 DEF Abandon
  <2>11. CASE DropArc(c)
    BY <2>11 DEF DropArc
  <2>12. CASE Join(c)
    BY <2>12 DEF Join
  <2> QED
    BY <1>15, <2>1, <2>2, <2>3, <2>4, <2>5, <2>6, <2>7, <2>8, <2>9, <2>10,
       <2>11, <2>12 DEF Handle, InCall
<1>16. CASE UNCHANGED vars
  BY <1>16 DEF vars, driverVars, ringVars, recordVars
<1> QED
  BY <1>1, <1>2, <1>3, <1>4, <1>5, <1>6, <1>7, <1>8, <1>9, <1>10, <1>11, <1>12,
     <1>13, <1>14, <1>15, <1>16 DEF Next, Driver

-----------------------------------------------------------------------------
(* Slots: a reference is only ever copied from `latest`, so a slot nobody    *)
(* refers to stays so until the driver publishes it.                         *)

\* Every step but the two that publish creates no reference to a slot that had
\* none before.
LEMMA NoNewReference ==
  ASSUME TypeOK, [Next]_vars, ~SwapLatest, ~PublishTransient
  PROVE  \A s \in Slot : Referenced(s)' => Referenced(s)
<1> USE DEF TypeOK, Referenced
<1>0. NoSlot \notin Slot
  BY SlotAssumption DEF Slot, Fixed
<1>1. CASE Driver
  <2>1. CASE DrainAttach
    <3>1. Head(control) \in Message
      BY <2>1 DEF DrainAttach
    <3> QED
      BY <1>0, <2>1, <3>1 DEF DrainAttach, ringVars, Message
  <2>2. CASE DrainDetach
    <3>1. Head(control) \in Message
      BY <2>2 DEF DrainDetach
    <3> QED
      BY <1>0, <2>2, <3>1 DEF DrainDetach, ringVars, Message
  <2>3. CASE UNCHANGED <<latest, held, clone>>
    BY <2>3
  <2> QED
    BY <1>1, <2>1, <2>2, <2>3 DEF Driver, CheckShutdown, DrainDone, AcquireNothing,
       AccessLost, AcquireFrame, ReclaimTransient, ScanSlot, CopyResource,
       BumpGeneration, AllocationFails, ringVars, recordVars
<1>2. ASSUME NEW c \in Capture, Handle(c)
      PROVE  \A s \in Slot : Referenced(s)' => Referenced(s)
  <2> USE <1>0 DEF ringVars, recordVars
  <2>1. CASE PollBegin(c)
    BY <2>1 DEF PollBegin
  <2>2. CASE PollNone(c)
    BY <2>2 DEF PollNone
  <2>3. CASE PollFrame(c)
    BY <2>3 DEF PollFrame
  <2>4. CASE ReleaseFrame(c)
    BY <2>4 DEF ReleaseFrame
  <2>5. CASE UNCHANGED <<latest, held, clone>>
    BY <2>5
  <2> QED
    BY <1>2, <2>1, <2>2, <2>3, <2>4, <2>5 DEF Handle, InCall, Upgrade,
       AttachRefused, SendAttach, ReplyLost, Close, Abandon, DropArc, Join
<1>3. CASE UNCHANGED vars
  BY <1>3 DEF vars, ringVars, recordVars
<1> QED
  BY <1>1, <1>2, <1>3 DEF Next

\* A handle's step leaves the driver thread's own state alone.
LEMMA HandleKeepsDriver ==
  ASSUME NEW c \in Capture, Handle(c)
  PROVE  UNCHANGED <<driverVars, ringVars>>
BY DEF Handle, InCall, Upgrade, AttachRefused, SendAttach, ReplyLost, PollBegin,
   PollNone, PollFrame, ReleaseFrame, Close, Abandon, DropArc, Join

\* Every step keeps the written slot unshared and the reachable textures alive:
\* the recycling rule of publish_tick and reclaim_transient.
LEMMA SharingStep ==
  TypeOK /\ TexturesAlive /\ DestinationUnshared /\ [Next]_vars
    => TexturesAlive' /\ DestinationUnshared'
<1> SUFFICES ASSUME TypeOK, TexturesAlive, DestinationUnshared, [Next]_vars
             PROVE  TexturesAlive' /\ DestinationUnshared'
  OBVIOUS
<1>0. NoSlot \notin Slot /\ Fixed \subseteq Slot /\ Transient \subseteq Slot
  BY SlotAssumption DEF Slot, Fixed
<1>1. CASE SwapLatest
  <2>1. \A s \in Slot : Referenced(s)' => Referenced(s) \/ s = dest
    BY <1>1 DEF SwapLatest, Referenced, recordVars
  <2>2. dest \in Fixed /\ driver' = "check" /\ Alive' = Alive
    BY <1>1 DEF SwapLatest, DestinationUnshared, Alive
  <2> QED
    BY <1>1, <2>1, <2>2 DEF SwapLatest, TexturesAlive, DestinationUnshared, Alive
<1>2. CASE PublishTransient
  <2>1. PICK t \in Transient \ transient : latest' = t /\ transient' = transient \cup {t}
    BY <1>2 DEF PublishTransient
  <2>2. \A s \in Slot : Referenced(s)' => Referenced(s) \/ s = t
    BY <1>2, <2>1 DEF PublishTransient, Referenced, recordVars
  <2> QED
    BY <1>2, <2>1, <2>2 DEF PublishTransient, TexturesAlive, DestinationUnshared, Alive
<1>3. CASE ~SwapLatest /\ ~PublishTransient
  <2>0. \A s \in Slot : Referenced(s)' => Referenced(s)
    BY <1>3, NoNewReference
  <2>1. CASE Driver
    <3>1. CASE ScanSlot
      <4>1. InRing(scan) => scan \in Fixed
        BY DepthAssumption DEF InRing, Fixed, TypeOK
      <4> QED
        BY <1>0, <2>0, <3>1, <4>1 DEF ScanSlot, IsFree, ringVars, TexturesAlive,
           DestinationUnshared, Alive
    <3>2. CASE ReclaimTransient
      BY <2>0, <3>2 DEF ReclaimTransient, KeptTransients, TexturesAlive,
         DestinationUnshared, Alive
    <3>3. CASE CheckShutdown \/ AccessLost
      BY <2>0, <3>3 DEF CheckShutdown, AccessLost, TexturesAlive,
         DestinationUnshared, Alive
    <3>4. CASE CopyResource \/ BumpGeneration
      <4>1. dest \in Slot
        BY DEF TypeOK
      <4> QED
        BY <2>0, <3>4, <4>1 DEF CopyResource, BumpGeneration, TexturesAlive,
           DestinationUnshared, Alive
    <3>5. CASE DrainAttach \/ DrainDetach \/ DrainDone \/ AcquireNothing
               \/ AcquireFrame \/ AllocationFails
      BY <2>0, <3>5 DEF DrainAttach, DrainDetach, DrainDone, AcquireNothing,
         AcquireFrame, AllocationFails, driverVars, ringVars, TexturesAlive,
         DestinationUnshared, Alive
    <3> QED
      BY <1>3, <2>1, <3>1, <3>2, <3>3, <3>4, <3>5 DEF Driver
  <2>2. CASE UNCHANGED <<driverVars, ringVars>>
    <3>1. dest \in Slot
      BY DEF TypeOK
    <3> QED
      BY <2>0, <2>2, <3>1 DEF driverVars, ringVars, TexturesAlive,
         DestinationUnshared, Alive
  <2> QED
    BY <2>1, <2>2, HandleKeepsDriver DEF Next, vars
<1> QED
  BY <1>1, <1>2, <1>3

-----------------------------------------------------------------------------
(* The control channel and the records.                                      *)

\* What a step can do to the channel and to the handles, whoever takes it.
LEMMA DriverChannel ==
  ASSUME Driver, ~DrainAttach, ~DrainDetach
  PROVE  /\ UNCHANGED <<control, handle, recordVars, clone>>
         /\ driver = "exited" => driver' = "exited"
BY DEF Driver, CheckShutdown, DrainDone, AcquireNothing, AccessLost, AcquireFrame,
   ReclaimTransient, ScanSlot, CopyResource, BumpGeneration, SwapLatest,
   PublishTransient, AllocationFails, recordVars

\* Every step keeps each handle's record and its messages in agreement.
LEMMA ChannelStep ==
  TypeOK /\ ChannelInv /\ FreshInv /\ OpenHasRecord /\ [Next]_vars
    => ChannelInv' /\ FreshInv' /\ OpenHasRecord'
<1> SUFFICES ASSUME TypeOK, ChannelInv, FreshInv, OpenHasRecord, [Next]_vars
             PROVE  ChannelInv' /\ FreshInv' /\ OpenHasRecord'
  OBVIOUS
<1>0. /\ control \in Seq(Message) /\ Len(control) \in Nat
      /\ handle \in [Capture -> HandleStep] /\ held \in [Capture -> Slot \cup {NoSlot}]
      /\ lastSeen \in [Capture -> Nat] /\ seen \in [Capture -> Nat]
      /\ clone \in [Capture -> Slot \cup {NoSlot}]
  BY DEF TypeOK
<1>a. \A i \in 1 .. Len(control) : /\ control[i].type \in {"attach", "detach"}
                                  /\ control[i].from \in Capture
  <2>1. \A i \in 1 .. Len(control) : control[i] \in Message
    BY <1>0
  <2> QED
    BY <2>1 DEF Message
<1> USE <1>0
<1>1. CASE DrainAttach
  <2> DEFINE c == Head(control).from
  <2>1. /\ c \in Capture /\ handle[c] = "attaching"
        /\ \A i \in 1 .. Len(control) : control[i].type = "attach" /\ control[i].from = c
                                     => i = 1
    <3>1. /\ 1 \in 1 .. Len(control) /\ Head(control) = control[1]
          /\ Head(control).type = "attach" /\ driver # "exited"
      BY <1>1 DEF DrainAttach
    <3> QED
      BY <3>1, <1>a DEF ChannelInv
  <2>2. /\ Len(control') = Len(control) - 1
        /\ \A i \in 1 .. Len(control') : /\ i + 1 \in 1 .. Len(control)
                                      /\ control'[i] = control[i + 1]
    BY <1>1 DEF DrainAttach
  <2>3. handle' = [handle EXCEPT ![c] = "open"] /\ driver' = driver
    BY <1>1 DEF DrainAttach, driverVars
  <2>4. ChannelInv'
    <3>1. ASSUME NEW i \in 1 .. Len(control')
          PROVE  IF control'[i].type = "attach"
                   THEN driver' # "exited" => handle'[control'[i].from] = "attaching"
                   ELSE handle'[control'[i].from] \in {"dropping", "joining", "closed"}
      <4>1. i + 1 \in 1 .. Len(control) /\ i + 1 # 1 /\ control'[i] = control[i + 1]
        BY <2>2
      <4>2. control[i + 1].from \in Capture
        BY <4>1, <1>a
      <4>3. control[i + 1].from # c
        BY <2>1, <4>1, <4>2, <1>1 DEF ChannelInv
      <4> QED
        BY <2>3, <4>1, <4>2, <4>3 DEF ChannelInv
    <3>2. ASSUME NEW i \in 1 .. Len(control'), NEW j \in 1 .. Len(control'),
                 control'[i].type = "attach", control'[j].type = "attach",
                 control'[i].from = control'[j].from
          PROVE  i = j
      <4>1. i + 1 = j + 1
        BY ZenonT(30), <2>2, <3>2 DEF ChannelInv
      <4> QED
        BY <2>2, <4>1
    <3> QED
      BY <3>1, <3>2 DEF ChannelInv
  <2>5. FreshInv' /\ OpenHasRecord'
    BY <1>1, <2>1, <2>3 DEF DrainAttach, FreshInv, OpenHasRecord
  <2> QED
    BY <2>4, <2>5
<1>2. CASE DrainDetach
  <2> DEFINE c == Head(control).from
  <2>1. /\ c \in Capture /\ handle[c] \in {"dropping", "joining", "closed"}
    <3>1. /\ 1 \in 1 .. Len(control) /\ Head(control) = control[1]
          /\ Head(control).type # "attach"
      BY <1>2 DEF DrainDetach
    <3> QED
      BY <3>1, <1>a DEF ChannelInv
  <2>2. /\ Len(control') = Len(control) - 1
        /\ \A i \in 1 .. Len(control') : /\ i + 1 \in 1 .. Len(control)
                                      /\ control'[i] = control[i + 1]
    BY <1>2 DEF DrainDetach
  <2>3. handle' = handle /\ driver' = driver
    BY <1>2 DEF DrainDetach, driverVars
  <2>4. ChannelInv'
    <3>1. \A i \in 1 .. Len(control') :
            IF control'[i].type = "attach"
              THEN driver' # "exited" => handle'[control'[i].from] = "attaching"
              ELSE handle'[control'[i].from] \in {"dropping", "joining", "closed"}
      BY SMTT(30), <2>2, <2>3 DEF ChannelInv
    <3>2. ASSUME NEW i \in 1 .. Len(control'), NEW j \in 1 .. Len(control'),
                 control'[i].type = "attach", control'[j].type = "attach",
                 control'[i].from = control'[j].from
          PROVE  i = j
      <4>1. i + 1 = j + 1
        BY ZenonT(30), <2>2, <3>2 DEF ChannelInv
      <4> QED
        BY <2>2, <4>1
    <3> QED
      BY <3>1, <3>2 DEF ChannelInv
  <2>5. FreshInv' /\ OpenHasRecord'
    BY <1>2, <2>1, <2>3 DEF DrainDetach, Retained, FreshInv, OpenHasRecord
  <2> QED
    BY <2>4, <2>5
<1>3. CASE Driver /\ ~DrainAttach /\ ~DrainDetach
  BY <1>3, DriverChannel DEF ChannelInv, FreshInv, OpenHasRecord, recordVars
<1>4. ASSUME NEW c \in Capture, Handle(c)
      PROVE  ChannelInv' /\ FreshInv' /\ OpenHasRecord'
  <2>0. driver' = driver
    BY <1>4, HandleKeepsDriver DEF driverVars
  <2> USE <2>0 DEF ChannelInv, FreshInv, OpenHasRecord, recordVars
  <2>1. CASE Upgrade(c)
    <3>1. /\ handle[c] = "unopened" /\ handle' = [handle EXCEPT ![c] = "upgraded"]
          /\ control' = control
      BY <2>1 DEF Upgrade
    <3>2. ChannelInv'
      BY <1>a, <3>1
    <3> QED
      BY <2>1, <3>2 DEF Upgrade
  <2>2. CASE AttachRefused(c)
    BY <2>2 DEF AttachRefused
  <2>3. CASE SendAttach(c)
    <3>1. \A i \in 1 .. Len(control) : control[i].from \in Capture
      BY <1>a
    <3>2. \A i \in 1 .. Len(control) : control[i].type = "attach" => control[i].from # c
      BY <2>3, <3>1 DEF SendAttach
    <3>3. /\ Len(control') = Len(control) + 1
          /\ control'[Len(control) + 1] = [type |-> "attach", from |-> c]
          /\ \A i \in 1 .. Len(control') :
               i # Len(control) + 1 => i \in 1 .. Len(control) /\ control'[i] = control[i]
      BY <2>3 DEF SendAttach
    <3>4. handle' = [handle EXCEPT ![c] = "attaching"]
      BY <2>3 DEF SendAttach
    <3>5. ChannelInv'
      BY <2>3, <3>1, <3>2, <3>3, <3>4 DEF SendAttach
    <3> QED
      BY <2>3, <3>5 DEF SendAttach
  <2>4. CASE ReplyLost(c)
    BY <2>4 DEF ReplyLost
  <2>5. CASE PollBegin(c)
    BY <2>5 DEF PollBegin
  <2>6. CASE PollNone(c)
    BY <2>6 DEF PollNone
  <2>7. CASE PollFrame(c)
    BY <2>7 DEF PollFrame
  <2>8. CASE ReleaseFrame(c)
    BY <2>8 DEF ReleaseFrame
  <2>9. CASE Close(c)
    <3>1. \A i \in 1 .. Len(control) : control[i].from \in Capture
      BY <1>a
    <3>2. \/ control' = control
          \/ /\ Len(control') = Len(control) + 1
             /\ control'[Len(control) + 1] = [type |-> "detach", from |-> c]
             /\ \A i \in 1 .. Len(control') :
                  i # Len(control) + 1 => i \in 1 .. Len(control) /\ control'[i] = control[i]
      BY <2>9 DEF Close
    <3>3. handle' = [handle EXCEPT ![c] = "dropping"] /\ handle[c] = "open"
      BY <2>9 DEF Close
    <3>4. CASE control' = control
      <4>1. ChannelInv'
        BY <3>1, <3>3, <3>4
      <4> QED
        BY <2>9, <4>1 DEF Close
    <3>5. CASE control' # control
      <4>1. \A i \in 1 .. Len(control') :
              \/ /\ i \in 1 .. Len(control) /\ control'[i] = control[i]
                 /\ control'[i].from \in Capture
                 /\ control'[i].from = c => control'[i].type # "attach"
              \/ control'[i].type = "detach" /\ control'[i].from = c
        <5>1. driver # "exited"
          BY <2>9, <3>5 DEF Close
        <5>2. ASSUME NEW i \in 1 .. Len(control)
              PROVE  control[i].from = c => control[i].type # "attach"
          BY <1>a, <3>3, <5>1
        <5>3. ASSUME NEW i \in 1 .. Len(control'), i = Len(control) + 1
              PROVE  control'[i].type = "detach" /\ control'[i].from = c
          BY <3>2, <3>5, <5>3
        <5>4. ASSUME NEW i \in 1 .. Len(control'), i # Len(control) + 1
              PROVE  i \in 1 .. Len(control) /\ control'[i] = control[i]
          BY <3>2, <3>5, <5>4
        <5> QED
          BY <1>a, <5>2, <5>3, <5>4
      <4>2. ChannelInv'
        BY <1>a, <3>3, <4>1
      <4> QED
        BY <2>9, <4>2 DEF Close
    <3> QED
      BY <3>4, <3>5
  <2>10. CASE Abandon(c)
    BY <2>10 DEF Abandon
  <2>11. CASE DropArc(c)
    <3>1. /\ handle[c] \in {"dropping", "failing"} /\ control' = control
          /\ \/ handle' = [handle EXCEPT ![c] = "joining"]
             \/ handle' = [handle EXCEPT ![c] = "closed"]
      BY <2>11 DEF DropArc
    <3>2. ChannelInv'
      BY <1>a, <3>1
    <3>3. FreshInv'
      BY <2>11, <3>1 DEF DropArc
    <3>4. OpenHasRecord'
      BY <2>11, <3>1 DEF DropArc
    <3> QED
      BY <3>2, <3>3, <3>4
  <2>12. CASE Join(c)
    BY <2>12 DEF Join
  <2> QED
    BY <1>4, <2>1, <2>2, <2>3, <2>4, <2>5, <2>6, <2>7, <2>8, <2>9, <2>10,
       <2>11, <2>12 DEF Handle, InCall
<1>5. CASE UNCHANGED vars
  BY <1>5 DEF vars, driverVars, recordVars, ChannelInv, FreshInv, OpenHasRecord
<1> QED
  BY <1>1, <1>2, <1>3, <1>4, <1>5 DEF Next

-----------------------------------------------------------------------------
(* Frames: what `latest` and a poll's clone mean to each consumer.           *)

\* Every step keeps generations, contents and what was shown in agreement.
LEMMA DeliveryStep ==
  IInv /\ [Next]_vars => PublishInv' /\ DeliveryInv'
<1> SUFFICES ASSUME IInv, [Next]_vars PROVE PublishInv' /\ DeliveryInv'
  OBVIOUS
<1>0. /\ NoSlot \notin Slot /\ Fixed \subseteq Slot /\ Transient \subseteq Slot
      /\ latest \in Slot /\ dest \in Slot /\ published \in Nat /\ grabbed \in Nat
      /\ content \in [Slot -> Nat] /\ generation \in [Slot -> Nat]
      /\ held \in [Capture -> Slot \cup {NoSlot}] /\ lastSeen \in [Capture -> Nat]
      /\ clone \in [Capture -> Slot \cup {NoSlot}] /\ seen \in [Capture -> Nat]
      /\ handle \in [Capture -> HandleStep]
      /\ \A c \in Capture : handle[c] = "polling" <=> clone[c] # NoSlot
  BY SlotAssumption DEF IInv, TypeOK, Slot, Fixed
<1>a. PublishInv /\ DeliveryInv
  BY DEF IInv
<1>b. driver \in {"copy", "bump", "swap"} =>
        /\ dest # latest
        /\ \A c \in Capture : clone[c] # dest
  BY DEF IInv, DestinationUnshared, Referenced
<1> USE <1>0, <1>a
<1>1. CASE CopyResource
  BY <1>1, <1>b DEF CopyResource, recordVars, PublishInv, DeliveryInv, Consistent
<1>2. CASE BumpGeneration
  BY <1>2, <1>b DEF BumpGeneration, recordVars, PublishInv, DeliveryInv, Consistent
<1>3. CASE SwapLatest
  <2>1. published < grabbed /\ content[dest] = grabbed
    BY <1>3 DEF SwapLatest, PublishInv
  <2>2. PublishInv'
    BY <1>3, <2>1 DEF SwapLatest, PublishInv
  <2>3. ASSUME NEW c \in Capture PROVE seen[c] < content[dest]
    BY <2>1 DEF PublishInv, DeliveryInv, Consistent
  <2>4. DeliveryInv'
    BY <1>3, <2>1, <2>3 DEF SwapLatest, recordVars, DeliveryInv, Consistent
  <2> QED
    BY <2>2, <2>4
<1>4. CASE PublishTransient
  <2>1. PICK t \in Transient \ transient :
          /\ content' = [content EXCEPT ![t] = grabbed]
          /\ generation' = [generation EXCEPT ![t] = 1]
          /\ latest' = t
    BY <1>4 DEF PublishTransient
  <2>2. driver = "alloc" /\ driver' = "check" /\ published' = grabbed
        /\ UNCHANGED <<grabbed, dest, recordVars, clone, handle>>
    BY <1>4 DEF PublishTransient
  <2>3. published < grabbed
    BY <2>2 DEF PublishInv
  <2>4. ~Referenced(t)
    <3>1. t \in Slot /\ t \notin Fixed /\ t \notin transient
      BY DepthAssumption, SlotAssumption DEF Slot, Fixed
    <3> QED
      BY <2>2, <3>1 DEF IInv, TexturesAlive, Alive
  <2>5. \A c \in Capture : clone[c] # t
    BY <2>4 DEF Referenced
  <2>6. PublishInv'
    BY <2>1, <2>2 DEF PublishInv
  <2>7. ASSUME NEW c \in Capture PROVE seen[c] < grabbed
    BY <2>3 DEF PublishInv, DeliveryInv, Consistent
  <2>8. DeliveryInv'
    BY <2>1, <2>2, <2>3, <2>5, <2>7 DEF recordVars, DeliveryInv, Consistent
  <2> QED
    BY <2>6, <2>8
<1>5. CASE AcquireFrame
  BY <1>5 DEF AcquireFrame, ringVars, recordVars, PublishInv, DeliveryInv, Consistent
<1>6. CASE ScanSlot \/ ReclaimTransient \/ CheckShutdown \/ DrainDone
           \/ AcquireNothing \/ AccessLost \/ AllocationFails
  <2>1. UNCHANGED <<grabbed, content, generation, latest, published, recordVars, clone>>
    BY <1>6 DEF ScanSlot, ReclaimTransient, CheckShutdown, DrainDone, AcquireNothing,
       AccessLost, AllocationFails, ringVars
  <2>2. driver' \notin {"bump", "swap"}
        /\ (driver' \in {"reclaim", "scan", "copy", "alloc"}
              => driver \in {"reclaim", "scan"})
    BY <1>6 DEF ScanSlot, ReclaimTransient, CheckShutdown, DrainDone, AcquireNothing,
       AccessLost, AllocationFails
  <2> QED
    BY <2>1, <2>2 DEF recordVars, PublishInv, DeliveryInv, Consistent
<1>7. CASE DrainAttach
  <2> DEFINE c == Head(control).from
  <2>1. c \in Capture /\ handle[c] = "attaching"
    <3>1. control \in Seq(Message) /\ 1 \in 1 .. Len(control) /\ driver # "exited"
          /\ Head(control) = control[1] /\ control[1] \in Message
          /\ control[1].type = "attach"
      BY <1>7 DEF DrainAttach, IInv, TypeOK
    <3> QED
      BY <3>1 DEF IInv, ChannelInv, Message
  <2>2. held[c] = NoSlot /\ lastSeen[c] = 0
    BY <2>1 DEF IInv, FreshInv
  <2>3. held' = held /\ lastSeen' = lastSeen
    BY <1>7, <2>1, <2>2 DEF DrainAttach
  <2> QED
    BY <1>7, <2>3 DEF DrainAttach, driverVars, ringVars, PublishInv, DeliveryInv, Consistent
<1>8. CASE DrainDetach
  <2>1. \A c \in Capture : held[c] = NoSlot => held'[c] = NoSlot
    BY <1>8 DEF DrainDetach
  <2> QED
    BY <1>8, <2>1 DEF DrainDetach, driverVars, ringVars, PublishInv, DeliveryInv, Consistent
<1>9. ASSUME NEW c \in Capture, Handle(c) PROVE PublishInv' /\ DeliveryInv'
  <2>0. UNCHANGED <<driverVars, ringVars>>
    BY <1>9, HandleKeepsDriver
  <2>1. PublishInv'
    BY <2>0 DEF driverVars, ringVars, PublishInv
  <2>2. CASE PollBegin(c)
    BY <2>0, <2>1, <2>2 DEF PollBegin, ringVars, recordVars, PublishInv, DeliveryInv, Consistent
  <2>3. CASE PollNone(c)
    BY <2>0, <2>1, <2>3 DEF PollNone, ringVars, recordVars, DeliveryInv, Consistent
  <2>4. CASE PollFrame(c)
    <3>1. clone[c] \in Slot /\ content[clone[c]] <= published
          /\ (content[clone[c]] = published => clone[c] = latest)
      BY <2>4 DEF PollFrame, DeliveryInv
    <3>2. /\ seen' = [seen EXCEPT ![c] = content[clone[c]]]
          /\ lastSeen' = [lastSeen EXCEPT ![c] = generation[clone[c]]]
          /\ clone' = [clone EXCEPT ![c] = NoSlot]
          /\ held' = [held EXCEPT ![c] = clone[c]]
      BY <2>4 DEF PollFrame, HandedOut
    <3>3. DeliveryInv'
      BY <2>0, <3>1, <3>2 DEF ringVars, PublishInv, DeliveryInv, Consistent
    <3> QED
      BY <2>1, <3>3
  <2>5. CASE ReleaseFrame(c)
    BY <2>0, <2>1, <2>5 DEF ReleaseFrame, ringVars, DeliveryInv, Consistent
  <2>6. CASE UNCHANGED <<recordVars, clone>>
    BY <2>0, <2>1, <2>6 DEF ringVars, recordVars, DeliveryInv, Consistent
  <2> QED
    BY <1>9, <2>2, <2>3, <2>4, <2>5, <2>6 DEF Handle, InCall, Upgrade, AttachRefused,
       SendAttach, ReplyLost, Close, Abandon, DropArc, Join
<1>10. CASE UNCHANGED vars
  BY <1>10 DEF vars, driverVars, ringVars, recordVars, PublishInv, DeliveryInv, Consistent
<1> QED
  BY <1>1, <1>2, <1>3, <1>4, <1>5, <1>6, <1>7, <1>8, <1>9, <1>10 DEF Next, Driver

-----------------------------------------------------------------------------
(* The theorems.                                                             *)

\* spawn_driver leaves a session in which the invariant holds.
LEMMA Initially == Init => IInv
<1> SUFFICES ASSUME Init PROVE IInv
  OBVIOUS
<1> USE DepthAssumption, SlotAssumption DEF Init
<1>1. 0 \in Fixed /\ 0 \in Slot
  BY DEF Fixed, Slot
<1>2. TypeOK
  <2>1. handle \in [Capture -> HandleStep] /\ \A c \in Capture : handle[c] # "polling"
    BY DEF HandleStep
  <2>2. driver \in DriverStep /\ content \in [Slot -> Nat] /\ generation \in [Slot -> Nat]
    BY DEF DriverStep
  <2>3. control \in Seq(Message)
    OBVIOUS
  <2>4. /\ held \in [Capture -> Slot \cup {NoSlot}] /\ lastSeen \in [Capture -> Nat]
        /\ clone \in [Capture -> Slot \cup {NoSlot}] /\ seen \in [Capture -> Nat]
        /\ \A c \in Capture : clone[c] = NoSlot
    OBVIOUS
  <2> QED
    BY <1>1, <2>1, <2>2, <2>3, <2>4 DEF TypeOK
<1>3. TexturesAlive /\ DestinationUnshared
  <2>1. NoSlot \notin Slot
    BY DEF Fixed, Slot
  <2> QED
    BY <1>1, <2>1 DEF TexturesAlive, DestinationUnshared, Referenced, Alive
<1>4. OpenHasRecord /\ FreshInv
  BY DEF OpenHasRecord, FreshInv
<1>5. ChannelInv
  BY DEF ChannelInv
<1>6. PublishInv /\ DeliveryInv
  BY <1>1 DEF PublishInv, DeliveryInv, Consistent
<1> QED
  BY <1>2, <1>3, <1>4, <1>5, <1>6 DEF IInv

\* The inductive invariant of the ring holds in every reachable state.
THEOREM Invariance == Spec => []IInv
<1>1. Init => IInv
  BY Initially
<1>2. IInv /\ [Next]_vars => IInv'
  BY TypeStep, SharingStep, ChannelStep, DeliveryStep DEF IInv
<1> QED
  BY <1>1, <1>2, PTL DEF Spec

\* Every variable keeps its type: in particular the driver never indexes past
\* the ring, and a poll holds a clone exactly while it is in progress.
THEOREM TypeCorrect == Spec => []TypeOK
<1>1. IInv => TypeOK
  BY DEF IInv
<1> QED
  BY <1>1, Invariance, PTL

\* At any ring depth, the texture the driver is writing is one no consumer
\* holds, is about to hold, or can still reach through `latest`: no torn read.
THEOREM NoTornRead == Spec => []DestinationUnshared
<1>1. IInv => DestinationUnshared
  BY DEF IInv
<1> QED
  BY <1>1, Invariance, PTL

\* While the driver runs, reclaiming frees no texture a consumer can reach.
THEOREM ReclaimIsSafe == Spec => []TexturesAlive
<1>1. IInv => TexturesAlive
  BY DEF IInv
<1> QED
  BY <1>1, Invariance, PTL

\* An open handle always finds its record: poll_frame never answers Closed.
THEOREM NeverClosedWhileOpen == Spec => []OpenHasRecord
<1>1. IInv => OpenHasRecord
  BY DEF IInv
<1> QED
  BY <1>1, Invariance, PTL

\* Every step of the session publishes a frame, shows one, gives one back, or is
\* invisible to FrameFanout.
LEMMA FanoutStep == IInv /\ [Next]_vars => [Fanout!Next]_(Fanout!vars)
<1> SUFFICES ASSUME IInv, [Next]_vars PROVE [Fanout!Next]_(Fanout!vars)
  OBVIOUS
<1> USE DEF View, Fanout!vars, Fanout!Next
<1>0. /\ NoSlot \notin Slot /\ Fixed \subseteq Slot /\ Transient \subseteq Slot
      /\ dest \in Slot /\ published \in Nat /\ grabbed \in Nat
      /\ content \in [Slot -> Nat]
      /\ held \in [Capture -> Slot \cup {NoSlot}] /\ seen \in [Capture -> Nat]
      /\ clone \in [Capture -> Slot \cup {NoSlot}]
  BY SlotAssumption DEF IInv, TypeOK, Slot, Fixed
<1>1. CASE UNCHANGED <<published, content, held, seen>>
  BY <1>1
<1>2. CASE CopyResource
  <2>1. \A c \in Capture : held[c] # dest
    BY <1>2 DEF CopyResource, IInv, DestinationUnshared, Referenced
  <2>2. View' = View
    BY <1>0, <1>2, <2>1 DEF CopyResource, recordVars
  <2> QED
    BY <1>2, <2>2 DEF CopyResource, recordVars
<1>3. CASE SwapLatest
  <2>1. published' \in Nat /\ published' > published
    BY <1>0, <1>3 DEF SwapLatest, IInv, PublishInv
  <2> QED
    BY <1>3, <2>1 DEF SwapLatest, recordVars, Fanout!Publish
<1>4. CASE PublishTransient
  <2>1. PICK t \in Transient \ transient : content' = [content EXCEPT ![t] = grabbed]
    BY <1>4 DEF PublishTransient
  <2>2. t \in Slot /\ t \notin Fixed /\ driver # "exited"
    BY <1>4, DepthAssumption, SlotAssumption DEF PublishTransient, Slot, Fixed
  <2>3. \A c \in Capture : held[c] # t
    BY <2>2 DEF IInv, TexturesAlive, Alive, Referenced
  <2>4. View' = View
    BY <1>0, <1>4, <2>1, <2>3 DEF PublishTransient, recordVars
  <2>5. published' \in Nat /\ published' > published
    BY <1>0, <1>4 DEF PublishTransient, IInv, PublishInv
  <2> QED
    BY <1>4, <2>4, <2>5 DEF PublishTransient, recordVars, Fanout!Publish
<1>5. CASE DrainAttach \/ DrainDetach \/ \E c \in Capture : ReleaseFrame(c)
  <2>1. PICK c : /\ c \in Capture /\ held' = [held EXCEPT ![c] = NoSlot]
                 /\ UNCHANGED <<published, content, seen>>
    <3>1. ASSUME DrainAttach \/ DrainDetach PROVE Head(control).from \in Capture
      <4>1. control \in Seq(Message) /\ control # <<>>
        BY <3>1 DEF DrainAttach, DrainDetach, IInv, TypeOK
      <4>2. Head(control) \in Message
        BY <4>1
      <4> QED
        BY <4>2 DEF Message
    <3> QED
      BY <1>5, <3>1 DEF DrainAttach, DrainDetach, ReleaseFrame, ringVars
  <2>2. View' = [View EXCEPT ![c] = 0]
    BY <1>0, <2>1
  <2>3. CASE View[c] = 0
    <3>1. View' = View
      BY <2>2, <2>3
    <3> QED
      BY <2>1, <3>1
  <2>4. CASE View[c] # 0
    BY <2>1, <2>2, <2>4 DEF Fanout!GiveBack
  <2> QED
    BY <2>3, <2>4
<1>6. ASSUME NEW c \in Capture, PollFrame(c) PROVE Fanout!Show(c)
  <2>1. clone[c] \in Slot /\ held[c] = NoSlot
    BY <1>6 DEF PollFrame, IInv, TypeOK, DeliveryInv
  <2>2. content[clone[c]] \in seen[c] + 1 .. published
    BY <1>0, <1>6, <2>1 DEF PollFrame, NothingNew, IInv, DeliveryInv, Consistent
  <2>3. /\ View[c] = 0
        /\ View' = [View EXCEPT ![c] = content[clone[c]]]
        /\ seen' = [seen EXCEPT ![c] = content[clone[c]]]
        /\ published' = published
    BY <1>0, <1>6, <2>1 DEF PollFrame, ringVars
  <2> QED
    BY <2>2, <2>3 DEF Fanout!Show
<1>7. ASSUME NEW c \in Capture, Handle(c), ~ReleaseFrame(c), ~PollFrame(c)
      PROVE  UNCHANGED <<published, content, held, seen>>
  BY <1>7 DEF Handle, InCall, Upgrade, AttachRefused, SendAttach, ReplyLost, PollBegin,
     PollNone, Close, Abandon, DropArc, Join, ringVars, recordVars
<1>8. ASSUME Driver, ~CopyResource, ~SwapLatest, ~PublishTransient, ~DrainAttach, ~DrainDetach
      PROVE  UNCHANGED <<published, content, held, seen>>
  BY <1>8 DEF Driver, CheckShutdown, DrainDone, AcquireNothing, AccessLost, AcquireFrame,
     ReclaimTransient, ScanSlot, BumpGeneration, AllocationFails, ringVars, recordVars
<1>9. UNCHANGED vars => UNCHANGED <<published, content, held, seen>>
  BY DEF vars, ringVars, recordVars
<1> QED
  BY <1>1, <1>2, <1>3, <1>4, <1>5, <1>6, <1>7, <1>8, <1>9 DEF Next

\* The shared capture keeps FrameFanout's promise: each consumer is shown a
\* strictly increasing sequence of published frames, and a frame it is being
\* shown does not change until it gives it back.
THEOREM Refinement == Spec => RefinesFanout
<1>1. Init => Fanout!Init
  BY DEF Init, View, Fanout!Init
<1> QED
  BY <1>1, FanoutStep, Invariance, PTL DEF Spec, RefinesFanout, Fanout!Spec

-----------------------------------------------------------------------------
(* How many fallback textures there can be. The search is not atomic: a slot *)
(* it found busy may be free again by the time it allocates. What is counted *)
(* is therefore not who holds a slot now. A handle that gives its slot back  *)
(* can only come to hold `latest` next, so each handle answers for one slot  *)
(* at most that one search finds busy.                                       *)

\* The slot a handle keeps busy, if any: its poll's clone or its held frame.
KeepsBusy(c) == IF clone[c] # NoSlot THEN clone[c] ELSE held[c]

\* The slots this search has met, and the handles it may still be stopped by.
Met == (transient \cup 0 .. scan - 1) \ {latest}
Waiting == {c \in Capture \ Foreign : KeepsBusy(c) \in (scan .. RingDepth - 1) \ {latest}}

\* A handle of another device never comes to hold anything.
ForeignInv ==
  \A c \in Foreign : /\ handle[c] \notin {"attaching", "open", "polling"}
                     /\ held[c] = NoSlot /\ clone[c] = NoSlot

SearchInv ==
  /\ IsFiniteSet(transient)
  /\ driver \in {"scan", "alloc"} =>
       /\ scan \in 0 .. RingDepth /\ (driver = "alloc" => scan = RingDepth)
       /\ Cardinality(Met) + Cardinality(Waiting) <= Cardinality(Capture \ Foreign)

BoundInv == ForeignInv /\ SearchInv /\ TransientBound

\* Every step leaves the handles of another device with nothing.
LEMMA ForeignStep == IInv /\ ForeignInv /\ [Next]_vars => ForeignInv'
<1> SUFFICES ASSUME IInv, ForeignInv, [Next]_vars, NEW c \in Foreign
             PROVE  /\ handle'[c] \notin {"attaching", "open", "polling"}
                    /\ held'[c] = NoSlot /\ clone'[c] = NoSlot
  BY DEF ForeignInv
<1>0. /\ c \in Capture /\ handle \in [Capture -> HandleStep]
      /\ held \in [Capture -> Slot \cup {NoSlot}] /\ clone \in [Capture -> Slot \cup {NoSlot}]
      /\ handle[c] \notin {"attaching", "open", "polling"}
      /\ held[c] = NoSlot /\ clone[c] = NoSlot
  BY ForeignAssumption DEF IInv, TypeOK, ForeignInv
<1>1. CASE DrainAttach
  <2>1. /\ control \in Seq(Message) /\ 1 \in 1 .. Len(control) /\ driver # "exited"
        /\ Head(control) = control[1] /\ control[1].type = "attach"
    BY <1>1 DEF DrainAttach, IInv, TypeOK
  <2>2. Head(control).from # c
    BY <1>0, <2>1 DEF IInv, ChannelInv
  <2> QED
    BY <1>0, <1>1, <2>2 DEF DrainAttach
<1>2. CASE DrainDetach
  BY <1>0, <1>2 DEF DrainDetach
<1>3. ASSUME Driver, ~DrainAttach, ~DrainDetach PROVE UNCHANGED <<handle, held, clone>>
  BY <1>3 DEF Driver, CheckShutdown, DrainDone, AcquireNothing, AccessLost, AcquireFrame,
     ReclaimTransient, ScanSlot, CopyResource, BumpGeneration, SwapLatest, PublishTransient,
     AllocationFails, recordVars
<1>4. ASSUME NEW d \in Capture, Handle(d)
      PROVE  /\ handle'[c] \notin {"attaching", "open", "polling"}
             /\ held'[c] = NoSlot /\ clone'[c] = NoSlot
  BY <1>0, <1>4 DEF Handle, InCall, Upgrade, AttachRefused, SendAttach, ReplyLost, PollBegin,
     PollNone, PollFrame, ReleaseFrame, Close, Abandon, DropArc, Join, recordVars
<1>5. CASE UNCHANGED vars
  BY <1>0, <1>5 DEF vars, recordVars
<1> QED
  BY <1>0, <1>1, <1>2, <1>3, <1>4, <1>5 DEF Next

\* A handle comes to keep busy only what it kept busy before, or `latest`.
LEMMA OnlyLatestIsTaken ==
  ASSUME TypeOK, DeliveryInv, [Next]_vars, NEW c \in Capture
  PROVE  KeepsBusy(c)' \in {KeepsBusy(c), NoSlot, latest}
<1>0. /\ held \in [Capture -> Slot \cup {NoSlot}] /\ clone \in [Capture -> Slot \cup {NoSlot}]
      /\ clone[c] # NoSlot => held[c] = NoSlot
      /\ handle[c] = "polling" <=> clone[c] # NoSlot
  BY DEF TypeOK, DeliveryInv
<1>1. CASE UNCHANGED <<held, clone>>
  BY <1>1 DEF KeepsBusy
<1>2. CASE DrainAttach \/ DrainDetach
  <2>1. held'[c] \in {held[c], NoSlot} /\ clone' = clone
    BY <1>0, <1>2 DEF DrainAttach, DrainDetach
  <2> QED
    BY <2>1 DEF KeepsBusy
<1>3. ASSUME NEW d \in Capture, PollBegin(d) \/ PollNone(d) \/ PollFrame(d) \/ ReleaseFrame(d)
      PROVE  KeepsBusy(c)' \in {KeepsBusy(c), NoSlot, latest}
  <2>1. CASE PollBegin(d)
    BY <1>0, <2>1 DEF PollBegin, recordVars, KeepsBusy
  <2>2. CASE PollNone(d)
    BY <1>0, <2>2 DEF PollNone, recordVars, KeepsBusy
  <2>3. CASE PollFrame(d)
    BY <1>0, <2>3 DEF PollFrame, recordVars, KeepsBusy
  <2>4. CASE ReleaseFrame(d)
    BY <1>0, <2>4 DEF ReleaseFrame, recordVars, KeepsBusy
  <2> QED
    BY <1>3, <2>1, <2>2, <2>3, <2>4
<1>4. ASSUME Driver, ~DrainAttach, ~DrainDetach PROVE UNCHANGED <<held, clone>>
  BY <1>4 DEF Driver, CheckShutdown, DrainDone, AcquireNothing, AccessLost, AcquireFrame,
     ReclaimTransient, ScanSlot, CopyResource, BumpGeneration, SwapLatest, PublishTransient,
     AllocationFails, recordVars
<1>5. ASSUME NEW d \in Capture, Handle(d),
             ~PollBegin(d), ~PollNone(d), ~PollFrame(d), ~ReleaseFrame(d)
      PROVE  UNCHANGED <<held, clone>>
  BY <1>5 DEF Handle, InCall, Upgrade, AttachRefused, SendAttach, ReplyLost, Close, Abandon,
     DropArc, Join, recordVars
<1>6. UNCHANGED vars => UNCHANGED <<held, clone>>
  BY DEF vars, recordVars
<1> QED
  BY <1>1, <1>2, <1>3, <1>4, <1>5, <1>6 DEF Next

\* When a search begins, each fallback texture that was kept, `latest` apart, is
\* held by a handle that no fixed slot of the search can meet again.
LEMMA SearchBegins ==
  ASSUME IInv, ForeignInv, SearchInv, ReclaimTransient
  PROVE  SearchInv'
<1> DEFINE H == Capture \ Foreign
           B == KeptTransients \ {latest}
           G == {c \in H : KeepsBusy(c) \in B}
           f == [c \in G |-> KeepsBusy(c)]
<1>0. RingDepth \in Nat /\ driver' = "scan" /\ scan' = 0 /\ transient' = KeptTransients
      /\ UNCHANGED <<latest, held, clone>> /\ driver # "exited"
      /\ transient \subseteq Transient
  BY DepthAssumption DEF ReclaimTransient, recordVars, IInv, TypeOK
<1>1. Met' = B /\ Waiting' = {c \in H : KeepsBusy(c) \in (0 .. RingDepth - 1) \ {latest}}
  BY <1>0 DEF Met, Waiting, KeepsBusy
<1>2. IsFiniteSet(H) /\ IsFiniteSet(transient) /\ IsFiniteSet(KeptTransients) /\ IsFiniteSet(B)
  <2>1. KeptTransients \in SUBSET transient /\ B \in SUBSET transient /\ H \in SUBSET Capture
    BY DEF KeptTransients
  <2> QED
    BY <2>1, CaptureAssumption, FS_Subset DEF SearchInv
<1>3. \A s \in B : \E c \in G : f[c] = s
  <2> SUFFICES ASSUME NEW s \in B PROVE \E c \in G : f[c] = s
    OBVIOUS
  <2>1. PICK c \in Capture : held[c] = s \/ clone[c] = s
    BY DEF KeptTransients, Referenced
  <2>2. s # NoSlot
    BY <1>0, SlotAssumption DEF KeptTransients
  <2>3. KeepsBusy(c) = s
    BY <2>1, <2>2 DEF IInv, DeliveryInv, KeepsBusy
  <2>4. c \notin Foreign
    BY <2>1, <2>2 DEF ForeignInv
  <2> QED
    BY <2>3, <2>4
<1>4. IsFiniteSet(G) /\ Cardinality(B) <= Cardinality(G)
  <2>1. G \in SUBSET H
    OBVIOUS
  <2>2. IsFiniteSet(G)
    BY <1>2, <2>1, FS_Subset
  <2>3. f \in [G -> B]
    OBVIOUS
  <2>4. f \in Surjection(G, B)
    BY <1>3, <2>3, Fun_IsSurj
  <2> QED
    BY <2>2, <2>4, FS_Surjection
<1>5. G \cap Waiting' = {}
  BY <1>0, <1>1, SlotAssumption DEF KeptTransients
<1>6. Cardinality(G) + Cardinality(Waiting') <= Cardinality(H)
  <2>1. Waiting' \in SUBSET H /\ G \cup Waiting' \in SUBSET H
    BY <1>1
  <2>2. IsFiniteSet(Waiting') /\ Cardinality(G \cup Waiting') <= Cardinality(H)
    BY <1>2, <2>1, FS_Subset
  <2>3. Cardinality(G \cup Waiting') = Cardinality(G) + Cardinality(Waiting') - Cardinality({})
    BY <1>4, <1>5, <2>2, FS_Union
  <2> QED
    BY <1>2, <1>4, <2>2, <2>3, FS_EmptySet, FS_CardinalityType
<1>7. /\ Cardinality(B) \in Nat /\ Cardinality(G) \in Nat /\ Cardinality(H) \in Nat
      /\ IsFiniteSet(Waiting') /\ Cardinality(Waiting') \in Nat
  <2>1. Waiting' \in SUBSET H
    BY <1>1
  <2> QED
    BY <1>2, <1>4, <2>1, FS_Subset, FS_CardinalityType
<1>8. Cardinality(Met') + Cardinality(Waiting') <= Cardinality(H)
  BY <1>1, <1>4, <1>6, <1>7
<1> QED
  BY <1>0, <1>2, <1>8 DEF SearchInv

\* A busy slot the search passes: either `latest`, or one more slot met and one
\* handle less to wait for.
LEMMA SearchPasses ==
  ASSUME IInv, ForeignInv, SearchInv, ScanSlot, scan < RingDepth, ~IsFree(scan)
  PROVE  SearchInv'
<1> DEFINE H == Capture \ Foreign
<1>0. /\ RingDepth \in Nat /\ driver = "scan" /\ driver' = "scan" /\ scan \in Nat /\ scan' = scan + 1
      /\ UNCHANGED <<latest, held, clone, transient>>
      /\ scan \notin Transient /\ transient \subseteq Transient
  BY SlotAssumption, DepthAssumption DEF ScanSlot, InRing, ringVars, recordVars, IInv, TypeOK
<1>1. /\ Met' = (transient \cup 0 .. scan) \ {latest}
      /\ Waiting' = {c \in H : KeepsBusy(c) \in (scan + 1 .. RingDepth - 1) \ {latest}}
  <2>1. scan' - 1 = scan
    BY <1>0
  <2> QED
    BY <1>0, <2>1 DEF Met, Waiting, KeepsBusy
<1>2. IsFiniteSet(H) /\ IsFiniteSet(Met) /\ IsFiniteSet(Waiting)
  <2>1. IsFiniteSet(0 .. scan - 1)
    BY <1>0, FS_Interval
  <2>2. IsFiniteSet(transient \cup 0 .. scan - 1)
    BY <2>1, FS_Union DEF SearchInv
  <2>3. Met \in SUBSET (transient \cup 0 .. scan - 1) /\ Waiting \in SUBSET H /\ H \in SUBSET Capture
    BY DEF Met, Waiting
  <2> QED
    BY <2>2, <2>3, CaptureAssumption, FS_Subset
<1>3. Waiting' \in SUBSET Waiting
  BY <1>0, <1>1 DEF Waiting
<1>4. Cardinality(Met') + Cardinality(Waiting') <= Cardinality(Met) + Cardinality(Waiting)
  <2>1. CASE scan = latest
    <3>1. Met' = Met
      BY <1>0, <1>1, <2>1 DEF Met
    <3>2. Cardinality(Waiting') <= Cardinality(Waiting) /\ IsFiniteSet(Waiting')
      BY <1>2, <1>3, FS_Subset
    <3> QED
      BY <1>2, <3>1, <3>2, FS_CardinalityType
  <2>2. CASE scan # latest
    <3>1. PICK c \in Capture : held[c] = scan \/ clone[c] = scan
      BY <2>2 DEF IsFree, Referenced
    <3>2. scan # NoSlot
      BY <1>0, SlotAssumption
    <3>3. c \in H /\ KeepsBusy(c) = scan
      BY <3>1, <3>2 DEF IInv, DeliveryInv, ForeignInv, KeepsBusy
    <3>4. c \in Waiting /\ Waiting' \in SUBSET (Waiting \ {c})
      BY <1>0, <1>1, <1>3, <2>2, <3>3 DEF Waiting
    <3>5. IsFiniteSet(Waiting \ {c}) /\ Cardinality(Waiting \ {c}) = Cardinality(Waiting) - 1
      BY <1>2, <3>4, FS_RemoveElement
    <3>6. IsFiniteSet(Waiting') /\ Cardinality(Waiting') <= Cardinality(Waiting) - 1
      BY <3>4, <3>5, FS_Subset
    <3>7. Met' = Met \cup {scan} /\ scan \notin Met
      BY <1>0, <1>1, <2>2 DEF Met
    <3>8. Cardinality(Met') = Cardinality(Met) + 1
      BY <1>2, <3>7, FS_AddElement
    <3> QED
      BY <1>2, <3>6, <3>8, FS_CardinalityType
  <2> QED
    BY <2>1, <2>2
<1>5. /\ Cardinality(Met) \in Nat /\ Cardinality(Waiting) \in Nat /\ Cardinality(H) \in Nat
      /\ Cardinality(Met') \in Nat /\ Cardinality(Waiting') \in Nat
  <2>1. IsFiniteSet(Waiting')
    BY <1>2, <1>3, FS_Subset
  <2>2. Met' = (Met \cup {scan}) \ {latest}
    BY <1>0, <1>1 DEF Met
  <2>3. IsFiniteSet(Met \cup {scan})
    BY <1>2, FS_AddElement
  <2>4. IsFiniteSet(Met')
    BY <2>2, <2>3, FS_RemoveElement
  <2> QED
    BY <1>2, <2>1, <2>4, FS_CardinalityType
<1> QED
  BY <1>0, <1>4, <1>5 DEF SearchInv

\* A step that leaves the search where it is: a handle can only have stopped
\* standing in its way.
LEMMA SearchUndisturbed ==
  ASSUME IInv, SearchInv, [Next]_vars, UNCHANGED <<scan, latest, transient>>,
         \/ driver' = driver
         \/ driver' \notin {"scan", "alloc"}
         \/ driver = "scan" /\ driver' = "alloc" /\ scan = RingDepth
  PROVE  SearchInv'
<1> DEFINE H == Capture \ Foreign
<1>0. RingDepth \in Nat
  BY DepthAssumption
<1>1. SUFFICES ASSUME driver' \in {"scan", "alloc"}
               PROVE  Cardinality(Met') + Cardinality(Waiting') <= Cardinality(H)
  BY <1>0 DEF SearchInv
<1>2. driver \in {"scan", "alloc"} /\ scan \in Nat
  BY <1>1 DEF SearchInv
<1>3. Met' = Met
  BY DEF Met
<1>4. Waiting' \in SUBSET Waiting
  <2> SUFFICES ASSUME NEW c \in H, KeepsBusy(c)' \in (scan .. RingDepth - 1) \ {latest}
               PROVE  KeepsBusy(c) \in (scan .. RingDepth - 1) \ {latest}
    BY DEF Waiting
  <2>1. KeepsBusy(c)' \in {KeepsBusy(c), NoSlot, latest}
    BY OnlyLatestIsTaken DEF IInv
  <2>2. NoSlot \notin scan .. RingDepth - 1
    BY <1>0, <1>2, SlotAssumption
  <2> QED
    BY <2>1, <2>2
<1>5. IsFiniteSet(H) /\ IsFiniteSet(Met) /\ IsFiniteSet(Waiting)
  <2>1. IsFiniteSet(transient \cup 0 .. scan - 1)
    <3>1. IsFiniteSet(0 .. scan - 1)
      BY <1>2, FS_Interval
    <3> QED
      BY <3>1, FS_Union DEF SearchInv
  <2>2. Met \in SUBSET (transient \cup 0 .. scan - 1) /\ Waiting \in SUBSET H /\ H \in SUBSET Capture
    BY DEF Met, Waiting
  <2> QED
    BY <2>1, <2>2, CaptureAssumption, FS_Subset
<1>6. IsFiniteSet(Waiting') /\ Cardinality(Waiting') <= Cardinality(Waiting)
  BY <1>4, <1>5, FS_Subset
<1>7. /\ Cardinality(Met) \in Nat /\ Cardinality(Waiting) \in Nat
      /\ Cardinality(Waiting') \in Nat /\ Cardinality(H) \in Nat
  BY <1>5, <1>6, FS_CardinalityType
<1>8. Cardinality(Met) + Cardinality(Waiting) <= Cardinality(H)
  BY <1>2 DEF SearchInv
<1> QED
  BY <1>3, <1>6, <1>7, <1>8

\* A search that ends at a fallback has met the whole ring: what it met bounds
\* the textures there are with the new one.
LEMMA BoundAfterPublish ==
  ASSUME IInv, SearchInv, PublishTransient
  PROVE  IsFiniteSet(transient') /\ TransientBound'
<1> DEFINE N == Cardinality(Capture \ Foreign)
           S == transient \cup 0 .. RingDepth - 1
<1>0. RingDepth \in Nat /\ scan = RingDepth /\ transient \subseteq Transient /\ IsFiniteSet(transient)
  BY DepthAssumption DEF PublishTransient, SearchInv, IInv, TypeOK
<1>1. PICK t \in Transient \ transient : transient' = transient \cup {t}
  BY DEF PublishTransient
<1>2. IsFiniteSet(transient') /\ Cardinality(transient') = Cardinality(transient) + 1
  BY <1>0, <1>1, FS_AddElement
<1>3. IsFiniteSet(0 .. RingDepth - 1) /\ Cardinality(0 .. RingDepth - 1) = RingDepth
  BY <1>0, FS_Interval
<1>4. transient \cap 0 .. RingDepth - 1 = {}
  BY <1>0, SlotAssumption
<1>5. IsFiniteSet(S) /\ Cardinality(S) = Cardinality(transient) + RingDepth
  <2>1. /\ IsFiniteSet(S)
        /\ Cardinality(S) = Cardinality(transient) + Cardinality(0 .. RingDepth - 1)
                              - Cardinality(transient \cap 0 .. RingDepth - 1)
    <3>1. IsFiniteSet(transient) /\ IsFiniteSet(0 .. RingDepth - 1)
      BY <1>0, <1>3
    <3> QED
      BY <3>1, FS_Union
  <2>2. Cardinality(transient) \in Nat
    BY <1>0, FS_CardinalityType
  <2>3. Cardinality(transient \cap 0 .. RingDepth - 1) = 0
    BY <1>4, FS_EmptySet
  <2> QED
    BY <1>0, <1>3, <2>1, <2>2, <2>3
<1>6. Met = S \ {latest}
  BY <1>0 DEF Met
<1>7. IsFiniteSet(Met) /\ Cardinality(Met) >= Cardinality(S) - 1
  <2>1. Cardinality(S) \in Nat
    BY <1>5, FS_CardinalityType
  <2>2. /\ IsFiniteSet(S \ {latest})
        /\ Cardinality(S \ {latest}) =
             IF latest \in S THEN Cardinality(S) - 1 ELSE Cardinality(S)
    BY <1>5, FS_RemoveElement
  <2> QED
    BY <1>6, <2>1, <2>2
<1>8. IsFiniteSet(Waiting) /\ IsFiniteSet(Capture \ Foreign)
  <2>1. Waiting \in SUBSET Capture /\ Capture \ Foreign \in SUBSET Capture
    BY DEF Waiting
  <2> QED
    BY <2>1, CaptureAssumption, FS_Subset
<1>9. Cardinality(Met) + Cardinality(Waiting) <= N
  BY DEF PublishTransient, SearchInv
<1>10. /\ Cardinality(transient) \in Nat /\ Cardinality(Met) \in Nat
       /\ Cardinality(Waiting) \in Nat /\ N \in Nat
  BY <1>0, <1>7, <1>8, FS_CardinalityType
<1> QED
  BY <1>0, <1>2, <1>5, <1>7, <1>9, <1>10 DEF TransientBound

\* Every step keeps the count of the search and the bound it gives.
LEMMA BoundStep == IInv /\ BoundInv /\ [Next]_vars => BoundInv'
<1> SUFFICES ASSUME IInv, BoundInv, [Next]_vars PROVE SearchInv' /\ TransientBound'
  BY ForeignStep DEF BoundInv
<1> USE DEF BoundInv
<1>0. scan \in Nat /\ RingDepth \in Nat
  BY DepthAssumption DEF IInv, TypeOK
<1>1. ASSUME transient' \in SUBSET transient
      PROVE  IsFiniteSet(transient') /\ TransientBound'
  <2>1. /\ IsFiniteSet(transient) /\ IsFiniteSet(transient')
        /\ Cardinality(transient') <= Cardinality(transient)
    BY <1>1, FS_Subset DEF SearchInv
  <2>2. Cardinality(transient) \in Nat /\ Cardinality(transient') \in Nat
    BY <2>1, FS_CardinalityType
  <2>3. Cardinality(Capture \ Foreign) \in Nat
    <3>1. Capture \ Foreign \in SUBSET Capture
      OBVIOUS
    <3> QED
      BY <3>1, CaptureAssumption, FS_Subset, FS_CardinalityType
  <2> QED
    BY <1>0, <1>1, <2>1, <2>2, <2>3 DEF TransientBound
<1>2. CASE PublishTransient
  BY <1>2, BoundAfterPublish DEF PublishTransient, SearchInv
<1>3. CASE ReclaimTransient
  <2>1. transient' \in SUBSET transient
    BY <1>3 DEF ReclaimTransient, KeptTransients
  <2> QED
    BY <1>1, <1>3, <2>1, SearchBegins
<1>4. CASE ScanSlot
  <2>1. transient' = transient /\ latest' = latest
    BY <1>4 DEF ScanSlot, ringVars
  <2>2. CASE scan < RingDepth /\ ~IsFree(scan)
    BY <1>1, <1>4, <2>1, <2>2, SearchPasses
  <2>3. CASE scan < RingDepth /\ IsFree(scan)
    <3>1. driver' = "copy"
      BY <1>4, <2>3 DEF ScanSlot, InRing
    <3> QED
      BY <1>1, <2>1, <3>1 DEF SearchInv
  <2>4. CASE ~(scan < RingDepth)
    <3>1. driver = "scan" /\ driver' = "alloc" /\ scan' = scan /\ scan = RingDepth
      BY <1>0, <1>4, <2>4 DEF ScanSlot, InRing, SearchInv
    <3> QED
      BY <1>1, <2>1, <3>1, SearchUndisturbed
  <2> QED
    BY <2>2, <2>3, <2>4
<1>5. CASE SwapLatest \/ CheckShutdown \/ AccessLost
  <2>1. transient' \in SUBSET transient /\ driver' \notin {"scan", "alloc"}
    BY <1>5 DEF SwapLatest, CheckShutdown, AccessLost
  <2> QED
    BY <1>1, <2>1 DEF SearchInv
<1>6. ASSUME \/ DrainAttach \/ DrainDetach \/ DrainDone \/ AcquireNothing \/ AcquireFrame
             \/ CopyResource \/ BumpGeneration \/ AllocationFails
             \/ UNCHANGED vars \/ \E c \in Capture : Handle(c)
      PROVE  SearchInv' /\ TransientBound'
  <2>1. /\ UNCHANGED <<scan, latest, transient>>
        /\ driver' = driver \/ driver' \notin {"scan", "alloc"}
    BY <1>6, HandleKeepsDriver DEF DrainAttach, DrainDetach, DrainDone, AcquireNothing,
       AcquireFrame, CopyResource, BumpGeneration, AllocationFails, vars, driverVars, ringVars
  <2>2. SearchInv'
    BY <2>1, SearchUndisturbed
  <2> QED
    BY <1>1, <2>1, <2>2
<1> QED
  BY <1>2, <1>3, <1>4, <1>5, <1>6 DEF Next, Driver

\* However many handles there are and however they come and go while the driver
\* searches, the fallback costs at most one texture per handle beyond the ring's
\* slack, and none while RING_DEPTH exceeds the handles by two.
THEOREM FallbackBounded == Spec => []TransientBound
<1>1. Init => BoundInv
  BY FS_EmptySet, ForeignAssumption DEF Init, BoundInv, ForeignInv, SearchInv, TransientBound
<1>2. IInv /\ BoundInv /\ [Next]_vars => BoundInv'
  BY BoundStep
<1>3. BoundInv => TransientBound
  BY DEF BoundInv
<1> QED
  BY <1>1, <1>2, <1>3, Invariance, PTL DEF Spec
=============================================================================
