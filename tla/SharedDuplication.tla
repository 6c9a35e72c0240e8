-------------------------- MODULE SharedDuplication --------------------------
(* One shared DXGI desktop duplication (mediaway-device, dxgi_shared.rs):    *)
(* a driver thread copies each acquired desktop frame into a ring of         *)
(* textures, and any number of WindowsScreenCapture handles, each on its own *)
(* thread, poll the newest slot through an Arc clone. The slots are recycled *)
(* by reference count alone.                                                 *)
(*                                                                           *)
(* Every step is one thread's step between two points another thread can     *)
(* observe: the scan of the ring is a step per slot, a poll clones `latest`  *)
(* in one step and decides in another, publishing is copy, bump, swap. A     *)
(* handle's consumer id is unique (next_id only grows), so a record is named *)
(* by the handle it was created for. `published` and `seen` are history      *)
(* variables: the code does not keep them and no guard reads them.           *)
EXTENDS Naturals, Sequences, FiniteSets

CONSTANTS Capture,      \* WindowsScreenCapture handles, each opened once
          Foreign,      \* those opened with another ID3D11Device than the session's
          RingDepth,    \* RING_DEPTH, the fixed slots
          Transient,    \* textures the fallback can allocate
          MaxFrames,    \* bound: frames the desktop produces
          NoSlot        \* no Arc<RingSlot> held

ASSUME DepthAssumption == RingDepth \in Nat \ {0}
ASSUME SlotAssumption == /\ Transient \cap Nat = {}
                         /\ NoSlot \notin Nat \cup Transient
ASSUME ForeignAssumption == Foreign \subseteq Capture
ASSUME CaptureAssumption == IsFiniteSet(Capture)   \* of the handles a process opens
ASSUME BoundAssumption == MaxFrames \in Nat

Fixed == 0 .. RingDepth - 1
Slot == Fixed \cup Transient

VARIABLES
  driver,     \* where the driver thread is in driver_loop
  grabbed,    \* number of the desktop frame acquired last
  scan,       \* index the search for a free slot looks at
  dest,       \* slot being written
  content,    \* content[s]: number of the frame in slot s's texture
  generation, \* generation[s]
  latest,     \* Ring::latest
  transient,  \* slots in the driver's `transient` list
  control,    \* the control channel
  shutdown,   \* the shutdown flag
  handle,     \* where each handle's thread is
  records,    \* handles with a ConsumerRecord
  held,       \* ConsumerRecord::held
  lastSeen,   \* ConsumerRecord::last_seen_generation
  clone,      \* the poll's own Arc clone of `latest`
  published,  \* history: the newest frame swapped into `latest`
  seen        \* history: the last frame handed to each handle

driverVars == <<driver, grabbed, scan, dest>>
ringVars == <<content, generation, latest, transient, published>>
recordVars == <<records, held, lastSeen, seen>>
vars == <<driverVars, ringVars, recordVars, control, shutdown, handle, clone>>

DriverStep == {"check", "drain", "acquire", "reclaim", "scan", "copy",
               "bump", "swap", "alloc", "exited"}
HandleStep == {"unopened", "upgraded", "attaching", "failing", "open", "polling",
               "dropping", "joining", "closed"}
Message == [type : {"attach", "detach"}, from : Capture]

TypeOK ==
  /\ driver \in DriverStep /\ grabbed \in Nat /\ scan \in Nat /\ dest \in Slot
  /\ content \in [Slot -> Nat] /\ generation \in [Slot -> Nat]
  /\ latest \in Slot /\ transient \subseteq Transient /\ published \in Nat
  /\ control \in Seq(Message) /\ shutdown \in BOOLEAN
  /\ handle \in [Capture -> HandleStep] /\ records \subseteq Capture
  /\ held \in [Capture -> Slot \cup {NoSlot}] /\ lastSeen \in [Capture -> Nat]
  /\ clone \in [Capture -> Slot \cup {NoSlot}] /\ seen \in [Capture -> Nat]
  /\ \A c \in Capture : handle[c] = "polling" <=> clone[c] # NoSlot

\* Right after spawn_driver: the ring is created with slot 0 as `latest`, the
\* driver is about to enter its loop, and the opening thread holds the only Arc.
Init ==
  /\ driver = "check" /\ grabbed = 0 /\ scan = 0 /\ dest = 0
  /\ content = [s \in Slot |-> 0] /\ generation = [s \in Slot |-> 0]
  /\ latest = 0 /\ transient = {} /\ published = 0
  /\ control = <<>> /\ shutdown = FALSE
  /\ \E opener \in Capture \ Foreign :
       handle = [c \in Capture |-> IF c = opener THEN "upgraded" ELSE "unopened"]
  /\ records = {} /\ held = [c \in Capture |-> NoSlot]
  /\ lastSeen = [c \in Capture |-> 0] /\ seen = [c \in Capture |-> 0]
  /\ clone = [c \in Capture |-> NoSlot]

-----------------------------------------------------------------------------
\* Arc<RingSlot>::strong_count above the owner's own reference: `latest`, a
\* record's `held`, or the clone a poll has just taken.
Referenced(s) == latest = s \/ \E c \in Capture : held[c] = s \/ clone[c] = s

\* Textures not yet released; the driver thread owns them all and drops them
\* when its loop ends.
Alive == IF driver = "exited" THEN {} ELSE Fixed \cup transient

\* The `consumers` mutex is held across a poll; the registry mutex across attach.
ConsumersFree == \A c \in Capture : handle[c] # "polling"
RegistryFree == \A c \in Capture : handle[c] \notin {"upgraded", "attaching", "failing"}

\* Handles that own a strong Arc<SharedDuplication>.
Owners == {c \in Capture : handle[c] \in {"upgraded", "attaching", "failing",
                                          "open", "polling", "dropping"}}

\* strong_count == 1 on a fixed slot: the ring's own entry only.
IsFree_Mutant(s) == \A c \in Capture : held[c] # s   \* mutant: forgets `latest`
IsFree(s) == ~Referenced(s)

\* The entries `retain` keeps: strong_count > 1.
KeptTransients_Mutant1 == {s \in transient : s # latest}   \* mutant: forgets `latest`
KeptTransients_Mutant2 == transient                        \* mutant: no reclaim
KeptTransients == {s \in transient : Referenced(s)}

\* An index of Ring::slots.
InRing_Mutant(i) == i <= RingDepth                         \* mutant: off by one
InRing(i) == i < RingDepth

-----------------------------------------------------------------------------
(* The driver thread.                                                        *)

CheckShutdown ==
  /\ driver = "check"
  /\ driver' = IF shutdown THEN "exited" ELSE "drain"
  /\ transient' = IF shutdown THEN {} ELSE transient
  /\ UNCHANGED <<grabbed, scan, dest, content, generation, latest, published,
                 recordVars, control, shutdown, handle, clone>>

\* Mutant: the reply is never sent.
DrainAttach_Mutant ==
  /\ driver = "drain" /\ ConsumersFree
  /\ control # <<>> /\ Head(control).type = "attach"
  /\ control' = Tail(control)
  /\ records' = records \cup {Head(control).from}
  /\ UNCHANGED <<driverVars, ringVars, held, lastSeen, seen, handle, shutdown, clone>>

\* attach_consumer pushes a fresh record and replies with its id.
DrainAttach ==
  /\ driver = "drain" /\ ConsumersFree
  /\ control # <<>> /\ Head(control).type = "attach"
  /\ control' = Tail(control)
  /\ LET c == Head(control).from IN
       /\ records' = records \cup {c}
       /\ held' = [held EXCEPT ![c] = NoSlot]
       /\ lastSeen' = [lastSeen EXCEPT ![c] = 0]
       /\ handle' = [handle EXCEPT ![c] = "open"]
  /\ UNCHANGED <<driverVars, ringVars, shutdown, clone, seen>>

\* The records `retain` keeps.
Retained(c) == records \ {c}

\* `retain` drops the record, and with it the slot it may still hold.
DrainDetach ==
  /\ driver = "drain" /\ ConsumersFree
  /\ control # <<>> /\ Head(control).type = "detach"
  /\ control' = Tail(control)
  /\ LET c == Head(control).from IN
       /\ records' = Retained(c)
       /\ held' = [held EXCEPT ![c] = NoSlot]
  /\ UNCHANGED <<driverVars, ringVars, shutdown, handle, clone, lastSeen, seen>>

DrainDone ==
  /\ driver = "drain" /\ control = <<>>
  /\ driver' = "acquire"
  /\ UNCHANGED <<grabbed, scan, dest, ringVars, recordVars, control, shutdown,
                 handle, clone>>

\* AcquireNextFrame times out, fails transiently, or yields a frame that cannot
\* be cast or copied, which is then as if it had never come: start over.
AcquireNothing ==
  /\ driver = "acquire"
  /\ driver' = "check"
  /\ UNCHANGED <<grabbed, scan, dest, ringVars, recordVars, control, shutdown, handle, clone>>

\* DXGI_ERROR_ACCESS_LOST: the thread returns; its textures, its end of the
\* control channel and every reply sender queued in it are dropped.
AccessLost ==
  /\ driver = "acquire"
  /\ driver' = "exited"
  /\ transient' = {}
  /\ UNCHANGED <<grabbed, scan, dest, content, generation, latest, published,
                 recordVars, control, shutdown, handle, clone>>

AcquireFrame ==
  /\ driver = "acquire" /\ grabbed < MaxFrames
  /\ driver' = "reclaim"
  /\ grabbed' = grabbed + 1
  /\ UNCHANGED <<scan, dest, ringVars, recordVars, control, shutdown, handle, clone>>

\* reclaim_transient: an unreferenced entry can never be referenced again, so
\* sampling all counts at once loses nothing.
ReclaimTransient ==
  /\ driver = "reclaim"
  /\ transient' = KeptTransients
  /\ driver' = "scan" /\ scan' = 0
  /\ UNCHANGED <<grabbed, dest, content, generation, latest, published,
                 recordVars, control, shutdown, handle, clone>>

\* publish_tick looks for the first fixed slot with strong_count == 1, reading
\* one count at a time while consumers poll and release.
ScanSlot ==
  /\ driver = "scan"
  /\ \/ /\ InRing(scan) /\ IsFree(scan)
        /\ dest' = scan /\ driver' = "copy" /\ UNCHANGED scan
     \/ /\ InRing(scan) /\ ~IsFree(scan)
        /\ scan' = scan + 1 /\ UNCHANGED <<dest, driver>>
     \/ /\ ~InRing(scan)
        /\ driver' = "alloc" /\ UNCHANGED <<scan, dest>>
  /\ UNCHANGED <<grabbed, ringVars, recordVars, control, shutdown, handle, clone>>

CopyResource ==
  /\ driver = "copy"
  /\ content' = [content EXCEPT ![dest] = grabbed]
  /\ driver' = "bump"
  /\ UNCHANGED <<grabbed, scan, dest, generation, latest, transient, published,
                 recordVars, control, shutdown, handle, clone>>

BumpGeneration ==
  /\ driver = "bump"
  /\ generation' = [generation EXCEPT ![dest] = @ + 1]
  /\ driver' = "swap"
  /\ UNCHANGED <<grabbed, scan, dest, content, latest, transient, published,
                 recordVars, control, shutdown, handle, clone>>

\* The slot becomes `latest`; ReleaseFrame ends the tick.
SwapLatest ==
  /\ driver = "swap"
  /\ latest' = dest /\ published' = content[dest]
  /\ driver' = "check"
  /\ UNCHANGED <<grabbed, scan, dest, content, generation, transient,
                 recordVars, control, shutdown, handle, clone>>

\* The fallback texture is private until it becomes `latest`, so creating it,
\* filling it and publishing it are one observable step.
PublishTransient ==
  /\ driver = "alloc"
  /\ \E t \in Transient \ transient :
       /\ content' = [content EXCEPT ![t] = grabbed]
       /\ generation' = [generation EXCEPT ![t] = 1]
       /\ latest' = t
       /\ transient' = transient \cup {t}
  /\ published' = grabbed
  /\ driver' = "check"
  /\ UNCHANGED <<grabbed, scan, dest, recordVars, control, shutdown, handle, clone>>

\* CreateTexture2D fails: this tick is skipped.
AllocationFails ==
  /\ driver = "alloc"
  /\ driver' = "check"
  /\ UNCHANGED <<grabbed, scan, dest, ringVars, recordVars, control, shutdown,
                 handle, clone>>

Driver == \/ CheckShutdown \/ DrainAttach \/ DrainDetach \/ DrainDone
          \/ AcquireNothing \/ AccessLost \/ AcquireFrame \/ ReclaimTransient
          \/ ScanSlot \/ CopyResource \/ BumpGeneration \/ SwapLatest
          \/ PublishTransient \/ AllocationFails

-----------------------------------------------------------------------------
(* The handles.                                                              *)

\* attach: Weak::upgrade succeeds while some handle still owns the session.
Upgrade(c) ==
  /\ handle[c] = "unopened" /\ RegistryFree /\ Owners # {}
  /\ handle' = [handle EXCEPT ![c] = "upgraded"]
  /\ UNCHANGED <<driverVars, ringVars, recordVars, control, shutdown, clone>>

\* attach: a different device instance is refused (InvalidInput), and a send to
\* a driver that is gone fails (Backend).
AttachRefused(c) ==
  /\ handle[c] = "upgraded" /\ (c \in Foreign \/ driver = "exited")
  /\ handle' = [handle EXCEPT ![c] = "failing"]
  /\ UNCHANGED <<driverVars, ringVars, recordVars, control, shutdown, clone>>

SendAttach(c) ==
  /\ handle[c] = "upgraded" /\ c \notin Foreign /\ driver # "exited"
  /\ control' = Append(control, [type |-> "attach", from |-> c])
  /\ handle' = [handle EXCEPT ![c] = "attaching"]
  /\ UNCHANGED <<driverVars, ringVars, recordVars, shutdown, clone>>

\* attach: the reply sender was dropped by the driver's exit; recv fails.
ReplyLost(c) ==
  /\ handle[c] = "attaching" /\ driver = "exited"
  /\ handle' = [handle EXCEPT ![c] = "failing"]
  /\ UNCHANGED <<driverVars, ringVars, recordVars, control, shutdown, clone>>

\* poll_shared_frame up to the clone of `latest`; refused while a frame is held.
PollBegin(c) ==
  /\ handle[c] = "open" /\ ConsumersFree
  /\ c \in records /\ held[c] = NoSlot
  /\ clone' = [clone EXCEPT ![c] = latest]
  /\ handle' = [handle EXCEPT ![c] = "polling"]
  /\ UNCHANGED <<driverVars, ringVars, recordVars, control, shutdown>>

NothingNew(c) == \/ generation[clone[c]] = 0
                 \/ generation[clone[c]] = lastSeen[c]

\* Ok(None): the clone is dropped.
PollNone(c) ==
  /\ handle[c] = "polling" /\ NothingNew(c)
  /\ clone' = [clone EXCEPT ![c] = NoSlot]
  /\ handle' = [handle EXCEPT ![c] = "open"]
  /\ UNCHANGED <<driverVars, ringVars, recordVars, control, shutdown>>

\* The generation a poll records as handed out.
HandedOut_Mutant(c) == lastSeen[c]                 \* mutant: not recorded
HandedOut(c) == generation[clone[c]]

\* Ok(Some(frame)): the clone becomes the record's `held`.
PollFrame(c) ==
  /\ handle[c] = "polling" /\ ~NothingNew(c)
  /\ lastSeen' = [lastSeen EXCEPT ![c] = HandedOut(c)]
  /\ held' = [held EXCEPT ![c] = clone[c]]
  /\ seen' = [seen EXCEPT ![c] = content[clone[c]]]
  /\ clone' = [clone EXCEPT ![c] = NoSlot]
  /\ handle' = [handle EXCEPT ![c] = "open"]
  /\ UNCHANGED <<driverVars, ringVars, records, control, shutdown>>

ReleaseFrame(c) ==
  /\ handle[c] = "open" /\ ConsumersFree
  /\ c \in records /\ held[c] # NoSlot
  /\ held' = [held EXCEPT ![c] = NoSlot]
  /\ UNCHANGED <<driverVars, ringVars, records, lastSeen, seen, control, shutdown,
                 handle, clone>>

\* close: send Detach (the error of a dead driver is ignored), then drop the Arc.
Close(c) ==
  /\ handle[c] = "open"
  /\ control' = IF driver = "exited" THEN control
                ELSE Append(control, [type |-> "detach", from |-> c])
  /\ handle' = [handle EXCEPT ![c] = "dropping"]
  /\ UNCHANGED <<driverVars, ringVars, recordVars, shutdown, clone>>

\* The handle is dropped without close: WindowsScreenCapture has no Drop.
Abandon(c) ==
  /\ handle[c] = "open"
  /\ handle' = [handle EXCEPT ![c] = "dropping"]
  /\ UNCHANGED <<driverVars, ringVars, recordVars, control, shutdown, clone>>

\* Mutant: the last drop does not raise the flag.
DropArc_Mutant(c) ==
  /\ handle[c] \in {"dropping", "failing"}
  /\ handle' = [handle EXCEPT ![c] = IF Owners = {c} THEN "joining" ELSE "closed"]
  /\ UNCHANGED <<driverVars, ringVars, recordVars, control, shutdown, clone>>

\* Dropping the Arc; the last one runs SharedDuplication::drop.
DropArc(c) ==
  /\ handle[c] \in {"dropping", "failing"}
  /\ IF Owners = {c}
       THEN /\ shutdown' = TRUE
            /\ handle' = [handle EXCEPT ![c] = "joining"]
       ELSE /\ handle' = [handle EXCEPT ![c] = "closed"]
            /\ UNCHANGED shutdown
  /\ UNCHANGED <<driverVars, ringVars, recordVars, control, clone>>

\* driver_thread.join() returns.
Join(c) ==
  /\ handle[c] = "joining" /\ driver = "exited"
  /\ handle' = [handle EXCEPT ![c] = "closed"]
  /\ UNCHANGED <<driverVars, ringVars, recordVars, control, shutdown, clone>>

\* What a handle's thread does inside a call, once it has been called.
InCall(c) == \/ AttachRefused(c) \/ SendAttach(c) \/ ReplyLost(c)
             \/ PollNone(c) \/ PollFrame(c) \/ DropArc(c) \/ Join(c)

Handle(c) == \/ Upgrade(c) \/ PollBegin(c) \/ ReleaseFrame(c) \/ Close(c)
             \/ Abandon(c) \/ InCall(c)

Next == Driver \/ \E c \in Capture : Handle(c)

Spec == Init /\ [][Next]_vars

\* The driver thread and every call already started keep running. The driver
\* contends for the `consumers` mutex with handles that may poll in a tight
\* loop: it is assumed to get it eventually (std's Mutex promises no order, but
\* a poll's critical section is a few instructions), hence SF on those steps.
FairSpec == /\ Spec
            /\ WF_vars(Driver) /\ SF_vars(DrainAttach) /\ SF_vars(DrainDetach)
            /\ \A c \in Capture : WF_vars(InCall(c))

-----------------------------------------------------------------------------
(* Properties.                                                               *)

\* While the driver runs, every texture a consumer can reach, through a frame
\* it holds, a poll in progress or `latest`, is still allocated.
TexturesAlive ==
  driver # "exited" => \A s \in Slot : Referenced(s) => s \in Alive

\* publish_tick writes only where nobody looks: from the moment the scan chose
\* the slot to the swap, no consumer holds it or is about to.
DestinationUnshared ==
  driver \in {"copy", "bump", "swap"} => dest \in Fixed /\ ~Referenced(dest)

\* The promise of FrameFanout: in-order frames without repetition, and a held
\* frame whose picture does not change (the cross-thread hazard of recycling
\* by reference count).
View == [c \in Capture |-> IF held[c] = NoSlot THEN 0 ELSE content[held[c]]]
Fanout == INSTANCE FrameFanout WITH view <- View
RefinesFanout == Fanout!Spec

\* The fallback costs at most one texture per consumer beyond the ring's slack:
\* none at all while RING_DEPTH exceeds the handles by two.
TransientBound ==
  \/ transient = {}
  \/ Cardinality(transient) + RingDepth <= Cardinality(Capture \ Foreign) + 2

\* A handle whose open succeeded has its record until it closes, so poll_frame
\* never answers Closed on an open handle.
OpenHasRecord ==
  \A c \in Capture : handle[c] \in {"open", "polling"} => c \in records

\* attach holds the registry lock while it waits for the driver's reply: it
\* must be answered, or refused by a driver that died.
AttachAnswered ==
  \A c \in Capture : handle[c] = "attaching" ~> handle[c] # "attaching"

\* The last handle's drop joins the driver: it must come back.
JoinReturns ==
  \A c \in Capture : handle[c] = "joining" ~> handle[c] = "closed"

(* What the comments promise and the code does not do.                       *)

\* dxgi_shared.rs:80-83 and 100-102: a poll that answers None has nothing the
\* consumer has not been shown. Generations are counted per slot and compared
\* across slots, so an equal count on another slot hides a new frame.
NoneMeansNothingNew ==
  \A c \in Capture : handle[c] = "polling" /\ NothingNew(c)
                      => content[clone[c]] \in {0, seen[c]}

\* dxgi_shared.rs:104-108 and 555-561: a slot's texture outlives every hold on
\* it. After DXGI_ERROR_ACCESS_LOST the driver frees it under the consumer.
HeldTextureAlive ==
  \A c \in Capture : held[c] # NoSlot => held[c] \in Alive
=============================================================================
