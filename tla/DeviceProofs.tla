---------------------------- MODULE DeviceProofs ----------------------------
(* Theorems about the device handles a caller opens: HotplugBridge, for      *)
(* any queue capacity and any number of events, and DuplicationRegistry, for *)
(* any number of handles, shared or exclusive, on any of two devices. The    *)
(* two systems share no state: each theorem is about one of them, and the    *)
(* names of the second one's begin with Registry where both have one.        *)
EXTENDS HotplugBridge, DuplicationRegistry, SequenceTheorems, TLAPS

-----------------------------------------------------------------------------
(* I. HotplugBridge.                                                         *)

\* The assumptions on the constants.
LEMMA Constants == QueueCap \in Nat \ {0} /\ MaxEvents \in Nat
  BY CapAssumption, BoundAssumption

-----------------------------------------------------------------------------
(* The inductive invariant.                                                  *)

Running == {"construct", "loop", "poll", "callback", "close"}
Joining == {"unregistering", "closing"}

\* The bridging thread lives from register_callback to the end of the join that
\* takes it out of the handle, and its backend from construct to close.
BridgeOwned ==
  /\ bridge \in Running => mode = "Pushing" \/ pc \in Joining
  /\ session["push"] = "live" <=> bridge \in Running \ {"construct"}

\* A pulled backend is live in a Pulling handle only; a call that takes the
\* thread out leaves the handle Idle, and a freed handle holds nothing.
HandleOwned ==
  /\ session["pull"] = "live" => mode = "Pulling" /\ pc # "freed"
  /\ pc \in Joining => mode = "Idle"
  /\ pc = "polling" => mode = "Pulling"
  /\ pc = "freed" => mode # "Pushing"

\* Nothing is delivered before it happened; a backend that is not live is empty.
Pending ==
  /\ delivered <= happened
  /\ \A b \in Backend : session[b] # "live" => queue[b] = <<>>

IInv == TypeOK /\ BridgeOwned /\ HandleOwned /\ Pending /\ QueueIsSuffix

-----------------------------------------------------------------------------
(* The event queue.                                                          *)

\* push_bounded keeps the capacity, appends the event, and keeps the order of
\* the rest, dropping at most the first.
LEMMA PushBoundedKeeps ==
  ASSUME NEW e \in 1 .. MaxEvents, NEW q \in Seq(1 .. MaxEvents), Len(q) <= QueueCap
  PROVE  LET r == PushBounded(q, e) IN
         /\ r \in Seq(1 .. MaxEvents) /\ Len(r) \in 1 .. QueueCap
         /\ r[Len(r)] = e
         /\ \A i \in 1 .. Len(r) - 1 : LET j == i + 1 + Len(q) - Len(r)
                                       IN j \in 1 .. Len(q) /\ r[i] = q[j]
<1> USE Constants
<1>1. CASE Len(q) >= QueueCap
  <2>1. /\ Tail(q) \in Seq(1 .. MaxEvents) /\ Len(Tail(q)) = Len(q) - 1
        /\ \A i \in 1 .. Len(q) - 1 : Tail(q)[i] = q[i + 1]
    BY <1>1
  <2>2. PushBounded(q, e) = Append(Tail(q), e)
    BY <1>1 DEF PushBounded
  <2> HIDE DEF PushBounded
  <2> QED
    BY <1>1, <2>1, <2>2
<1>2. CASE Len(q) < QueueCap
  <2>1. PushBounded(q, e) = Append(q, e)
    BY <1>2 DEF PushBounded
  <2> QED
    BY <1>2, <2>1
<1> QED
  BY <1>1, <1>2

\* A backend that is opened or closed, and one that is polled, keep the types.
LEMMA EmptiedTyped ==
  ASSUME TypeOK, NEW b \in Backend, NEW s \in {"none", "live", "closed"},
         session' = [session EXCEPT ![b] = s], queue' = [queue EXCEPT ![b] = <<>>]
  PROVE  /\ session' \in [Backend -> {"none", "live", "closed"}]
         /\ queue' \in [Backend -> Seq(1 .. MaxEvents)]
         /\ \A c \in Backend : Len(queue'[c]) <= QueueCap
  BY Constants DEF TypeOK

\* Dropping the oldest event leaves a queue one shorter.
LEMMA TailTyped ==
  ASSUME NEW q \in Seq(1 .. MaxEvents), q # <<>>
  PROVE  /\ Tail(q) \in Seq(1 .. MaxEvents) /\ Len(Tail(q)) = Len(q) - 1
         /\ Head(q) = q[1] /\ q[1] \in 1 .. MaxEvents
         /\ \A i \in 1 .. Len(q) - 1 : Tail(q)[i] = q[i + 1]
<1>1. Len(q) \in Nat \ {0}
  BY EmptySeq
<1>2. /\ Tail(q) \in Seq(1 .. MaxEvents) /\ Len(Tail(q)) = Len(q) - 1
      /\ \A i \in 1 .. Len(q) - 1 : Tail(q)[i] = q[i + 1]
  BY HeadTailProperties
<1>3. Head(q) = q[1]
  OBVIOUS
<1>4. 1 \in 1 .. Len(q)
  BY <1>1
<1>5. q[1] \in 1 .. MaxEvents
  BY <1>4, ElementOfSeq
<1> QED
  BY <1>2, <1>3, <1>5

\* Polling one event leaves a queue and an event.
LEMMA PopTyped ==
  ASSUME TypeOK, NEW b \in Backend, Pops(b)
  PROVE  /\ queue' \in [Backend -> Seq(1 .. MaxEvents)]
         /\ \A c \in Backend : Len(queue'[c]) <= QueueCap
         /\ delivered' \in 1 .. MaxEvents
<1>1. queue[b] \in Seq(1 .. MaxEvents) /\ queue[b] # <<>> /\ Len(queue[b]) <= QueueCap
  BY DEF TypeOK, Pops
<1>2. /\ Tail(queue[b]) \in Seq(1 .. MaxEvents) /\ Head(queue[b]) \in 1 .. MaxEvents
      /\ Len(Tail(queue[b])) = Len(queue[b]) - 1
  BY <1>1, TailTyped
<1>3. Len(Tail(queue[b])) <= QueueCap
  BY <1>1, <1>2, Constants
<1> QED
  BY <1>2, <1>3 DEF TypeOK, Pops

-----------------------------------------------------------------------------
(* Type correctness.                                                         *)

\* Every step of the engine, of the bridging thread or of a call keeps every
\* variable in its type.
LEMMA TypeStep == TypeOK /\ [Next]_vars => TypeOK'
<1> SUFFICES ASSUME TypeOK, [Next]_vars PROVE TypeOK'
  OBVIOUS
<1> USE DEF callVars, osVars
<1>1. CASE Notify
  <2>1. happened + 1 \in 1 .. MaxEvents
    BY <1>1, Constants DEF Notify, TypeOK
  <2>2. \A b \in Backend : /\ queue'[b] \in Seq(1 .. MaxEvents)
                           /\ Len(queue'[b]) <= QueueCap
    <3> SUFFICES ASSUME NEW b \in Backend
                 PROVE  queue'[b] \in Seq(1 .. MaxEvents) /\ Len(queue'[b]) <= QueueCap
      OBVIOUS
    <3>1. queue[b] \in Seq(1 .. MaxEvents) /\ Len(queue[b]) <= QueueCap
      BY DEF TypeOK
    <3>2. queue'[b] = queue[b] \/ queue'[b] = PushBounded(queue[b], happened + 1)
      BY <1>1 DEF Notify
    <3> QED
      BY <2>1, <3>1, <3>2, PushBoundedKeeps, Constants
  <2> QED
    BY <1>1, <2>1, <2>2 DEF Notify, TypeOK
<1>2. CASE BridgeConstruct
  <2>1. CASE Opens("push")
    BY <1>2, <2>1, EmptiedTyped DEF BridgeConstruct, Opens, Backend, TypeOK, BridgeFails
  <2>2. CASE UNCHANGED <<session, queue>>
    BY <1>2, <2>2 DEF BridgeConstruct, TypeOK, BridgeFails
  <2> QED
    BY <1>2, <2>1, <2>2 DEF BridgeConstruct
<1>3. CASE BridgePoll
  <2>1. CASE Pops("push")
    <3>1. "push" \in Backend
      BY DEF Backend
    <3>2. /\ queue' \in [Backend -> Seq(1 .. MaxEvents)]
          /\ \A c \in Backend : Len(queue'[c]) <= QueueCap
          /\ delivered' \in 0 .. MaxEvents
      BY <2>1, <3>1, PopTyped, Constants
    <3> QED
      BY <1>3, <3>2 DEF BridgePoll, TypeOK, BridgeFails
  <2>2. CASE UNCHANGED <<queue, delivered>>
    BY <1>3, <2>2 DEF BridgePoll, TypeOK, BridgeFails
  <2> QED
    BY <1>3, <2>1, <2>2 DEF BridgePoll
<1>4. CASE BridgeCheckStop \/ CallbackReturns
  BY <1>4 DEF BridgeCheckStop, CallbackReturns, TypeOK
<1>5. CASE BridgeClose
  BY <1>5, EmptiedTyped DEF BridgeClose, Leaves, Backend, TypeOK
<1>6. CASE PollReturns
  <2>1. status' \in Status /\ poisoned' \in BOOLEAN
    BY <1>6 DEF PollReturns, Returns, Status, TypeOK
  <2>2. CASE Pops("pull")
    BY <1>6, <2>1, <2>2, PopTyped, Constants DEF PollReturns, Backend, TypeOK
  <2>3. CASE UNCHANGED <<queue, delivered>>
    BY <1>6, <2>1, <2>3 DEF PollReturns, TypeOK
  <2> QED
    BY <1>6, <2>2, <2>3 DEF PollReturns
<1>7. CASE UnregisterReturns \/ CloseReturns
  BY <1>7 DEF UnregisterReturns, CloseReturns, Returns, Status, TypeOK
<1>8. CASE Refused \/ PollAgain
  BY <1>8 DEF Refused, PollAgain, Called, Returns, Status, TypeOK
<1>9. CASE PollConstructs
  <2>1. CASE Opens("pull")
    BY <1>9, <2>1, EmptiedTyped DEF PollConstructs, Opens, Called, Returns, Status, Backend, TypeOK
  <2>2. CASE UNCHANGED <<session, queue>>
    BY <1>9, <2>2 DEF PollConstructs, Called, Returns, Status, TypeOK
  <2> QED
    BY <1>9, <2>1, <2>2 DEF PollConstructs
<1>10. CASE RegisterCallback
  <2>1. ASSUME NEW s \in {"none", "closed"}, Leaves("pull", s) PROVE TypeOK'
    BY <1>10, <2>1, EmptiedTyped DEF RegisterCallback, Leaves, Called, Returns, Status, Backend, TypeOK
  <2>2. CASE UNCHANGED <<session, queue>>
    BY <1>10, <2>2 DEF RegisterCallback, Called, Returns, Status, TypeOK
  <2> QED
    BY <1>10, <2>1, <2>2 DEF RegisterCallback, Switched
<1>11. CASE BeginJoin
  BY <1>11 DEF BeginJoin, Called, Raised, TypeOK
<1>12. CASE ClosePolled
  BY <1>12, EmptiedTyped DEF ClosePolled, Leaves, Switched, Called, Returns, Status, Backend, TypeOK
<1>13. CASE UNCHANGED vars
  BY <1>13 DEF vars, TypeOK
<1> QED
  BY <1>1, <1>2, <1>3, <1>4, <1>5, <1>6, <1>7, <1>8, <1>9, <1>10, <1>11, <1>12, <1>13
     DEF Next, Bridge, InCall

-----------------------------------------------------------------------------
(* Who owns what.                                                            *)

\* Every step keeps the bridging thread and both backends with their owners.
LEMMA OwnedStep ==
  TypeOK /\ BridgeOwned /\ HandleOwned /\ [Next]_vars => BridgeOwned' /\ HandleOwned'
<1> SUFFICES ASSUME TypeOK, BridgeOwned, HandleOwned, [Next]_vars
             PROVE  BridgeOwned' /\ HandleOwned'
  OBVIOUS
<1> USE DEF BridgeOwned, HandleOwned, Running, Joining, callVars, osVars
<1>0. /\ session \in [Backend -> {"none", "live", "closed"}]
      /\ "pull" \in Backend /\ "push" \in Backend
  BY DEF TypeOK, Backend
<1>1. CASE Notify
  BY <1>1 DEF Notify
<1>2. CASE BridgeConstruct
  BY <1>0, <1>2 DEF BridgeConstruct, BridgeFails, Opens
<1>3. CASE BridgeCheckStop \/ BridgePoll \/ CallbackReturns
  BY <1>3 DEF BridgeCheckStop, BridgePoll, CallbackReturns, BridgeFails
<1>4. CASE BridgeClose
  BY <1>0, <1>4 DEF BridgeClose, Leaves
<1>5. CASE InCall
  BY <1>5 DEF InCall, PollReturns, UnregisterReturns, CloseReturns, Joined
<1>6. CASE Refused \/ PollAgain \/ BeginJoin
  BY <1>6 DEF Refused, PollAgain, BeginJoin, Called
<1>7. CASE PollConstructs
  BY <1>0, <1>7 DEF PollConstructs, Called, Opens
<1>8. CASE RegisterCallback
  <2>1. bridge \notin Running /\ session["push"] # "live"
    BY <1>8 DEF RegisterCallback, Called
  <2> QED
    BY <1>0, <1>8, <2>1 DEF RegisterCallback, Called, Leaves, Switched
<1>9. CASE ClosePolled
  BY <1>0, <1>9 DEF ClosePolled, Called, Leaves, Switched
<1>10. CASE UNCHANGED vars
  BY <1>10 DEF vars
<1> QED
  BY <1>1, <1>2, <1>3, <1>4, <1>5, <1>6, <1>7, <1>8, <1>9, <1>10 DEF Next, Bridge

\* Hence no two backends are live together.
LEMMA OneLive == BridgeOwned /\ HandleOwned => OneSession
  BY DEF BridgeOwned, HandleOwned, OneSession, Running, Joining

-----------------------------------------------------------------------------
(* What is pending.                                                          *)

\* An event that happens goes to the end of every live queue.
LEMMA NotifyQueues == IInv /\ Notify => Pending' /\ QueueIsSuffix'
<1> SUFFICES ASSUME IInv, Notify PROVE Pending' /\ QueueIsSuffix'
  OBVIOUS
<1> USE Constants DEF IInv
<1>1. /\ happened \in Nat /\ delivered \in Nat /\ delivered <= happened
      /\ happened' = happened + 1 /\ happened' \in 1 .. MaxEvents
      /\ delivered' = delivered /\ session' = session
  BY DEF Notify, TypeOK, Pending
<1>2. \A b \in Backend : session[b] # "live" => queue'[b] = queue[b]
  BY DEF Notify
<1>3. ASSUME NEW b \in Backend, session[b] = "live", NEW i \in 1 .. Len(queue'[b])
      PROVE  /\ queue'[b][i] = happened' - Len(queue'[b]) + i
             /\ queue'[b][i] > delivered'
  <2> DEFINE q == queue[b]
             r == PushBounded(q, happened')
  <2>1. queue'[b] = r
    BY <1>1, <1>3 DEF Notify
  <2>2. q \in Seq(1 .. MaxEvents) /\ Len(q) <= QueueCap
    BY DEF TypeOK
  <2>3. \A j \in 1 .. Len(q) : q[j] = happened - Len(q) + j /\ q[j] > delivered
    BY <1>3 DEF QueueIsSuffix
  <2>4. /\ Len(r) \in 1 .. QueueCap /\ r[Len(r)] = happened'
        /\ \A k \in 1 .. Len(r) - 1 : LET j == k + 1 + Len(q) - Len(r)
                                      IN j \in 1 .. Len(q) /\ r[k] = q[j]
    BY ZenonT(30), <1>1, <2>2, PushBoundedKeeps
  <2> HIDE DEF r
  <2>5. i \in 1 .. Len(r) /\ Len(q) \in Nat
    BY <2>1, <2>2, <1>3
  <2> HIDE DEF q
  <2>6. CASE i = Len(r)
    BY <1>1, <2>1, <2>4, <2>6
  <2>7. CASE i # Len(r)
    <3> DEFINE j == i + 1 + Len(q) - Len(r)
    <3>1. j \in 1 .. Len(q) /\ r[i] = q[j]
      BY SMTT(30), <2>4, <2>5, <2>7
    <3>2. q[j] = happened - Len(q) + j /\ q[j] > delivered
      BY <2>3, <3>1
    <3> QED
      BY <1>1, <2>1, <2>4, <2>5, <3>1, <3>2
  <2> QED
    BY <2>6, <2>7
<1>4. QueueIsSuffix'
  BY <1>1, <1>3 DEF QueueIsSuffix
<1>5. Pending'
  BY <1>1, <1>2 DEF Pending
<1> QED
  BY <1>4, <1>5

\* A backend that is opened or closed has nothing pending.
LEMMA EmptiedQueues ==
  ASSUME IInv, NEW b \in Backend, NEW s,
         session' = [session EXCEPT ![b] = s], queue' = [queue EXCEPT ![b] = <<>>],
         UNCHANGED <<happened, delivered>>
  PROVE  Pending' /\ QueueIsSuffix'
<1>1. queue'[b] = <<>> /\ Len(queue'[b]) = 0
  BY DEF IInv, TypeOK
<1>2. \A c \in Backend \ {b} : queue'[c] = queue[c] /\ session'[c] = session[c]
  BY DEF IInv, TypeOK
<1> QED
  BY <1>1, <1>2 DEF IInv, Pending, QueueIsSuffix

\* A polled event is newer than any delivered before, and older than the rest.
LEMMA PopQueues ==
  ASSUME IInv, NEW b \in Backend, session[b] = "live", Pops(b),
         UNCHANGED <<session, happened>>
  PROVE  Pending' /\ QueueIsSuffix' /\ delivered' > delivered
<1> DEFINE q == queue[b]
<1>1. q \in Seq(1 .. MaxEvents) /\ q # <<>> /\ happened \in Nat /\ delivered \in Nat
  BY DEF IInv, TypeOK, Pops
<1>2. \A i \in 1 .. Len(q) : q[i] = happened - Len(q) + i /\ q[i] > delivered
  BY DEF IInv, QueueIsSuffix
<1>3. /\ Len(q) \in Nat \ {0} /\ Len(Tail(q)) = Len(q) - 1 /\ Head(q) = q[1]
      /\ \A i \in 1 .. Len(q) - 1 : Tail(q)[i] = q[i + 1]
  BY <1>1, EmptySeq, TailTyped
<1>4. delivered' = q[1] /\ queue' = [queue EXCEPT ![b] = Tail(q)] /\ q = queue[b]
  BY <1>3 DEF Pops
<1>5. \A c \in Backend \ {b} : session[c] # "live" /\ queue'[c] = queue[c]
  BY <1>4, OneLive DEF IInv, OneSession, Backend, TypeOK
<1>6. queue'[b] = Tail(q)
  BY <1>4 DEF IInv, TypeOK
<1> HIDE DEF q
<1>7. delivered' = happened - Len(q) + 1 /\ delivered' > delivered
  BY <1>2, <1>3, <1>4
<1>8. \A i \in 1 .. Len(Tail(q)) : /\ Tail(q)[i] = happened - Len(Tail(q)) + i
                                  /\ Tail(q)[i] > delivered'
  BY <1>1, <1>2, <1>3, <1>7
<1>9. QueueIsSuffix'
  <2>1. ASSUME NEW c \in Backend, session'[c] = "live"
        PROVE  c = b
    BY <1>5, <2>1
  <2> QED
    BY <1>6, <1>8, <2>1 DEF QueueIsSuffix
<1>10. Pending'
  <2>1. delivered' <= happened'
    BY <1>1, <1>3, <1>7
  <2>2. \A c \in Backend : session'[c] # "live" => c # b /\ session[c] # "live"
    OBVIOUS
  <2> QED
    BY <1>5, <2>1, <2>2 DEF IInv, Pending
<1> QED
  BY <1>7, <1>9, <1>10

\* Every step keeps the queues; one that delivers an event delivers a newer one.
LEMMA QueueStep ==
  IInv /\ [Next]_vars => Pending' /\ QueueIsSuffix' /\ [delivered' > delivered]_delivered
<1> SUFFICES ASSUME IInv, [Next]_vars
             PROVE  Pending' /\ QueueIsSuffix' /\ (delivered' > delivered \/ UNCHANGED delivered)
  OBVIOUS
<1> USE DEF callVars, osVars
<1>0. "pull" \in Backend /\ "push" \in Backend
  BY DEF Backend
<1>1. UNCHANGED <<session, queue, happened, delivered>> => Pending' /\ QueueIsSuffix'
  BY DEF IInv, Pending, QueueIsSuffix
<1>2. CASE Notify
  BY <1>2, NotifyQueues DEF Notify
<1>3. CASE BridgeConstruct \/ BridgeClose \/ PollConstructs \/ RegisterCallback \/ ClosePolled
  <2>1. UNCHANGED <<happened, delivered>>
    BY <1>3 DEF BridgeConstruct, BridgeClose, PollConstructs, RegisterCallback, ClosePolled
  <2>2. \/ UNCHANGED <<session, queue>>
        \/ \E b \in Backend, s \in {"none", "live", "closed"} :
              session' = [session EXCEPT ![b] = s] /\ queue' = [queue EXCEPT ![b] = <<>>]
    BY <1>0, <1>3 DEF BridgeConstruct, BridgeClose, PollConstructs, RegisterCallback,
       ClosePolled, Opens, Leaves, Switched
  <2> QED
    BY <1>1, <2>1, <2>2, EmptiedQueues
<1>4. CASE BridgePoll
  <2>1. session["push"] = "live" /\ UNCHANGED <<session, happened>>
    BY <1>4 DEF BridgePoll, IInv, BridgeOwned, Running
  <2> QED
    BY <1>0, <1>1, <1>4, <2>1, PopQueues DEF BridgePoll
<1>5. CASE PollReturns
  BY <1>0, <1>1, <1>5, PopQueues DEF PollReturns
<1>6. CASE \/ BridgeCheckStop \/ CallbackReturns \/ UnregisterReturns \/ CloseReturns
           \/ Refused \/ PollAgain \/ BeginJoin \/ UNCHANGED vars
  BY <1>1, <1>6 DEF BridgeCheckStop, CallbackReturns, UnregisterReturns, CloseReturns,
     Refused, PollAgain, BeginJoin, vars
<1> QED
  BY <1>2, <1>3, <1>4, <1>5, <1>6 DEF Next, Bridge, InCall

-----------------------------------------------------------------------------
(* The theorems.                                                             *)

\* The inductive invariant holds in every reachable state.
THEOREM Invariance == Spec => []IInv
<1>1. Init => IInv
  <2> SUFFICES ASSUME Init PROVE IInv
    OBVIOUS
  <2>1. /\ queue \in [Backend -> Seq(1 .. MaxEvents)]
        /\ \A b \in Backend : Len(queue[b]) <= QueueCap
    BY Constants, EmptySeq DEF Init
  <2>2. TypeOK
    <3>1. 0 \in 0 .. MaxEvents
      BY Constants
    <3>2. session \in [Backend -> {"none", "live", "closed"}]
      BY DEF Init
    <3> QED
      BY <2>1, <3>1, <3>2 DEF Init, TypeOK, Status
  <2>3. BridgeOwned /\ HandleOwned
    BY DEF Init, BridgeOwned, HandleOwned, Running, Joining, Backend
  <2>4. Pending /\ QueueIsSuffix
    BY DEF Init, Pending, QueueIsSuffix
  <2> QED
    BY <2>2, <2>3, <2>4 DEF IInv
<1>2. IInv /\ [Next]_vars => IInv'
  BY TypeStep, OwnedStep, QueueStep DEF IInv
<1> QED
  BY <1>1, <1>2, PTL DEF Spec

\* Every variable keeps its type, and no queue grows past its capacity
\* (push_bounded).
THEOREM TypeCorrect == Spec => []TypeOK
<1>1. IInv => TypeOK
  BY DEF IInv
<1> QED
  BY <1>1, Invariance, PTL

\* A pulled backend and a bridging thread's are never registered together, in
\* whatever order polls, registrations and failures come (register_callback).
THEOREM OneRegistration == Spec => []OneSession
<1>1. IInv => OneSession
  BY OneLive DEF IInv
<1> QED
  BY <1>1, Invariance, PTL

\* The callback runs only between register_callback and the return of the call
\* that takes it back (join_callback).
THEOREM CallbackConfined == Spec => []CallbackWhileRegistered
<1>1. IInv => CallbackWhileRegistered
  BY DEF IInv, BridgeOwned, CallbackWhileRegistered, Running, Joining
<1> QED
  BY <1>1, Invariance, PTL

\* A freed handle leaves no thread running and no backend registered
\* (mediaway_device_hotplug_close).
THEOREM CloseIsFinal == Spec => []NothingOutlivesClose
<1>1. IInv => NothingOutlivesClose
  BY DEF IInv, TypeOK, BridgeOwned, HandleOwned, NothingOutlivesClose, Running, Joining, Backend
<1> QED
  BY <1>1, Invariance, PTL

\* What a live queue holds is the latest stretch of what happened, none of it
\* delivered before (push_bounded, poll_event).
THEOREM OnlyOldestLost == Spec => []QueueIsSuffix
<1>1. IInv => QueueIsSuffix
  BY DEF IInv
<1> QED
  BY <1>1, Invariance, PTL

\* Through polls, callbacks and switches between them, events reach the caller
\* in the order they happened, each at most once.
THEOREM DeliveredInOrder == Spec => InOrder
<1>1. IInv /\ [Next]_vars => [delivered' # delivered => delivered' > delivered]_vars
  BY QueueStep
<1> QED
  BY <1>1, Invariance, PTL DEF Spec, InOrder

-----------------------------------------------------------------------------
(* II. DuplicationRegistry.                                                  *)

-----------------------------------------------------------------------------
(* The inductive invariant.                                                  *)

\* The registry mutex is held from the lookup to the end of the handshake, by a
\* failed attach to the end of its drop.
Locked == \A h \in Handle :
  phase[h] \in {"locked", "spawning", "attaching", "failing"} => h \in Shared /\ lock = h

\* Where a handle owns a strong Arc. Only shared ones ever do.
OwnedArcs == \A h \in Handle :
  /\ joined[h] # None <=> \/ phase[h] \in {"attaching", "failing", "closing"}
                          \/ phase[h] = "open" /\ h \in Shared
  /\ phase[h] \in {"closing", "joining"} => h \in Shared

\* The session anyone owns is the registered one; a spawn finds none, and none
\* appears before its handshake is over.
OneOwnedSession ==
  /\ \A h \in Handle : joined[h] # None => joined[h] = weak
  /\ \A h, g \in Handle : phase[h] = "spawning" => joined[g] = None

\* A driver is starting only for the open that spawned it, and no handle has a
\* driver before.
DriverSpawned == \A s \in Shared :
  /\ driver[s] = "starting" => phase[s] = "spawning"
  /\ phase[s] \in {"idle", "locked"} => driver[s] = "none"

RegistryInv == RegistryTypeOK /\ Locked /\ OwnedArcs /\ OneOwnedSession /\ DriverSpawned
        /\ DuplicationAccounted

-----------------------------------------------------------------------------
(* Type correctness.                                                         *)

\* Every step of a driver or a handle keeps every variable in its type.
LEMMA RegistryTypeStep ==
  RegistryTypeOK /\ Locked /\ OwnedArcs /\ [RegistryNext]_registryVars => RegistryTypeOK'
<1> SUFFICES ASSUME RegistryTypeOK, Locked, OwnedArcs, [RegistryNext]_registryVars
             PROVE  RegistryTypeOK'
  OBVIOUS
<1> USE DEF RegistryTypeOK
<1>0. Shared \subseteq Handle /\ None \notin Handle
  BY RegistryAssumption DEF Shared
<1>1. ASSUME NEW s \in Shared, DriverOpens(s) PROVE RegistryTypeOK'
  BY <1>0, <1>1 DEF DriverOpens
<1>2. ASSUME NEW s \in Shared, DriverStops(s) \/ AccessLost(s) PROVE RegistryTypeOK'
  BY <1>0, <1>2 DEF DriverStops, AccessLost
<1>3. ASSUME NEW h \in Handle, LockRegistry(h) \/ Close(h) PROVE RegistryTypeOK'
  BY <1>3 DEF LockRegistry, Close, Step
<1>4. ASSUME NEW h \in Handle, Upgrade(h) \/ Spawn(h) PROVE RegistryTypeOK'
  BY <1>4 DEF Upgrade, Spawn, Step, CanUpgrade
<1>5. ASSUME NEW h \in Handle, SpawnReady(h) PROVE RegistryTypeOK'
  <2>1. h \in Shared
    BY <1>5 DEF SpawnReady, Locked
  <2> QED
    BY <1>5, <2>1 DEF SpawnReady, Step, Registered
<1>6. ASSUME NEW h \in Handle, SpawnFailed(h) \/ Attached(h) \/ AttachFailed(h)
      PROVE  RegistryTypeOK'
  BY <1>6 DEF SpawnFailed, Attached, AttachFailed, Step, Return, Unlock
<1>7. ASSUME NEW h \in Handle, DropArc(h) PROVE RegistryTypeOK'
  <2>1. joined[h] \in Shared
    BY <1>7 DEF DropArc, OwnedArcs
  <2> QED
    BY <1>7, <2>1 DEF DropArc, Step, Unlock
<1>8. ASSUME NEW h \in Handle, JoinDriver(h) PROVE RegistryTypeOK'
  BY <1>8 DEF JoinDriver, Step, Unlock
<1>9. ASSUME NEW h \in Handle, OpenExclusive(h) \/ CloseExclusive(h) PROVE RegistryTypeOK'
  BY <1>9 DEF OpenExclusive, CloseExclusive, Step, Return, ReleasedBy
<1>10. CASE UNCHANGED registryVars
  BY <1>10 DEF registryVars
<1> QED
  BY <1>1, <1>2, <1>3, <1>4, <1>5, <1>6, <1>7, <1>8, <1>9, <1>10
     DEF RegistryNext, DriverStep, CallStep

-----------------------------------------------------------------------------
(* Who holds the mutex, who owns which session, and which drivers start.     *)

ArcInv == Locked /\ OwnedArcs /\ OneOwnedSession /\ DriverSpawned

\* Without a live session to upgrade to, no handle owns any.
LEMMA NoOwner ==
  RegistryTypeOK /\ OneOwnedSession /\ ~CanUpgrade => \A h \in Handle : joined[h] = None
<1> SUFFICES ASSUME RegistryTypeOK, OneOwnedSession, ~CanUpgrade, NEW h \in Handle, joined[h] # None
             PROVE  FALSE
  OBVIOUS
<1>1. joined[h] = weak
  BY DEF OneOwnedSession
<1>2. h \in Owners(weak)
  BY <1>1 DEF Owners
<1> QED
  BY <1>1, <1>2 DEF CanUpgrade

\* Every step keeps all four.
LEMMA ArcStep == RegistryTypeOK /\ ArcInv /\ [RegistryNext]_registryVars => ArcInv'
<1> SUFFICES ASSUME RegistryTypeOK, ArcInv, [RegistryNext]_registryVars PROVE ArcInv'
  OBVIOUS
<1> USE DEF RegistryTypeOK, ArcInv, Locked, OwnedArcs, OneOwnedSession, DriverSpawned
<1>0. Shared \subseteq Handle /\ None \notin Handle /\ Shared \cap Exclusive = {}
  BY RegistryAssumption DEF Shared
<1>1. ASSUME NEW s \in Shared, DriverOpens(s) \/ DriverStops(s) \/ AccessLost(s) PROVE ArcInv'
  BY <1>0, <1>1 DEF DriverOpens, DriverStops, AccessLost
<1>2. ASSUME NEW h \in Handle, LockRegistry(h) PROVE ArcInv'
  BY <1>0, <1>2 DEF LockRegistry, Step
<1>3. ASSUME NEW h \in Handle, Upgrade(h) PROVE ArcInv'
  BY <1>0, <1>3 DEF Upgrade, Step, CanUpgrade
<1>4. ASSUME NEW h \in Handle, Spawn(h) PROVE ArcInv'
  <2>1. \A g \in Handle : joined[g] = None
    BY <1>4, NoOwner DEF Spawn
  <2> QED
    BY <1>0, <1>4, <2>1 DEF Spawn, Step
<1>5. ASSUME NEW h \in Handle, SpawnReady(h) PROVE ArcInv'
  BY <1>0, <1>5 DEF SpawnReady, Step, Registered
<1>6. ASSUME NEW h \in Handle, SpawnFailed(h) PROVE ArcInv'
  BY <1>0, <1>6 DEF SpawnFailed, Step, Unlock
<1>7. ASSUME NEW h \in Handle, Attached(h) \/ AttachFailed(h) PROVE ArcInv'
  BY <1>0, <1>7 DEF Attached, AttachFailed, Step, Unlock
<1>8. ASSUME NEW h \in Handle, Close(h) PROVE ArcInv'
  BY <1>0, <1>8 DEF Close, Step
<1>9. ASSUME NEW h \in Handle, DropArc(h) PROVE ArcInv'
  BY <1>0, <1>9 DEF DropArc, Step, Unlock
<1>10. ASSUME NEW h \in Handle, JoinDriver(h) PROVE ArcInv'
  BY <1>0, <1>10 DEF JoinDriver, Step, Unlock
<1>11. ASSUME NEW h \in Handle, OpenExclusive(h) \/ CloseExclusive(h) PROVE ArcInv'
  BY <1>0, <1>11 DEF OpenExclusive, CloseExclusive, Step
<1>12. CASE UNCHANGED registryVars
  BY <1>12 DEF registryVars
<1> QED
  BY <1>1, <1>2, <1>3, <1>4, <1>5, <1>6, <1>7, <1>8, <1>9, <1>10, <1>11, <1>12
     DEF RegistryNext, DriverStep, CallStep

-----------------------------------------------------------------------------
(* Who has the duplication.                                                  *)

\* Every step leaves the duplication with somebody who will give it up.
LEMMA AccountedStep ==
  RegistryTypeOK /\ ArcInv /\ DuplicationAccounted /\ [RegistryNext]_registryVars
    => DuplicationAccounted'
<1> SUFFICES ASSUME RegistryTypeOK, ArcInv, DuplicationAccounted, [RegistryNext]_registryVars,
                    duplication' # None
             PROVE  DuplicationAccounted'
  BY DEF DuplicationAccounted
<1> USE DEF RegistryTypeOK, DuplicationAccounted, Owners
<1>0. /\ Shared \subseteq Handle /\ Exclusive \subseteq Handle /\ None \notin Handle
      /\ Shared \cap Exclusive = {}
  BY RegistryAssumption DEF Shared
<1>1. ASSUME NEW s \in Shared, DriverOpens(s) \/ DriverStops(s) \/ AccessLost(s)
      PROVE  DuplicationAccounted'
  BY <1>0, <1>1 DEF DriverOpens, DriverStops, AccessLost, ArcInv, DriverSpawned
<1>2. ASSUME NEW h \in Handle, LockRegistry(h) \/ Close(h) PROVE DuplicationAccounted'
  BY <1>0, <1>2 DEF LockRegistry, Close, Step
<1>3. ASSUME NEW h \in Handle, Upgrade(h) PROVE DuplicationAccounted'
  <2>1. joined[h] = None
    BY <1>3 DEF Upgrade, ArcInv, OwnedArcs
  <2> QED
    BY <1>0, <1>3, <2>1 DEF Upgrade, Step
<1>4. ASSUME NEW h \in Handle, Spawn(h) PROVE DuplicationAccounted'
  <2>1. h \in Shared /\ driver[h] = "none"
    BY <1>4 DEF Spawn, ArcInv, Locked, DriverSpawned
  <2> QED
    BY <1>0, <1>4, <2>1 DEF Spawn, Step
<1>5. ASSUME NEW h \in Handle, SpawnReady(h) PROVE DuplicationAccounted'
  <2>1. h \in Shared /\ joined[h] = None
    BY <1>5 DEF SpawnReady, ArcInv, Locked, OwnedArcs
  <2> QED
    BY <1>0, <1>5, <2>1 DEF SpawnReady, Step
<1>6. ASSUME NEW h \in Handle, SpawnFailed(h) \/ Attached(h) \/ AttachFailed(h)
      PROVE  DuplicationAccounted'
  BY <1>0, <1>6 DEF SpawnFailed, Attached, AttachFailed, Step
<1>7. ASSUME NEW h \in Handle, DropArc(h) PROVE DuplicationAccounted'
  <2>1. CASE Owners(joined[h]) = {h}
    BY <1>0, <1>7, <2>1 DEF DropArc, Step
  <2>2. CASE Owners(joined[h]) # {h}
    <3>1. h \in Owners(joined[h])
      OBVIOUS
    <3>2. PICK g \in Owners(joined[h]) : g # h
      BY <2>2, <3>1
    <3>3. \A s \in Shared : Owners(s) # {} => \E k \in Handle \ {h} : joined[k] = s
      BY <3>2
    <3> QED
      BY <1>0, <1>7, <2>2, <3>3 DEF DropArc, Step
  <2> QED
    BY <2>1, <2>2
<1>8. ASSUME NEW h \in Handle, JoinDriver(h) PROVE DuplicationAccounted'
  BY <1>0, <1>8 DEF JoinDriver, Step
<1>9. ASSUME NEW h \in Handle, OpenExclusive(h) \/ CloseExclusive(h)
      PROVE  DuplicationAccounted'
  BY <1>0, <1>9 DEF OpenExclusive, CloseExclusive, Step, ReleasedBy
<1>10. CASE UNCHANGED registryVars
  BY <1>10 DEF registryVars
<1> QED
  BY <1>1, <1>2, <1>3, <1>4, <1>5, <1>6, <1>7, <1>8, <1>9, <1>10
     DEF RegistryNext, DriverStep, CallStep

-----------------------------------------------------------------------------
(* The theorems.                                                             *)

\* The inductive invariant holds in every reachable state.
THEOREM RegistryInvariance == RegistrySpec => []RegistryInv
<1>1. RegistryInit => RegistryInv
  BY DEF RegistryInit, RegistryInv, RegistryTypeOK, Locked, OwnedArcs, OneOwnedSession,
     DriverSpawned, DuplicationAccounted
<1>2. RegistryInv /\ [RegistryNext]_registryVars => RegistryInv'
  BY RegistryTypeStep, ArcStep, AccountedStep DEF RegistryInv, ArcInv
<1> QED
  BY <1>1, <1>2, PTL DEF RegistrySpec

\* Every variable keeps its type.
THEOREM RegistryTypeCorrect == RegistrySpec => []RegistryTypeOK
<1>1. RegistryInv => RegistryTypeOK
  BY DEF RegistryInv
<1> QED
  BY <1>1, RegistryInvariance, PTL

\* No driver is spawned beside a session that could have been joined, nor
\* beside another one being spawned (attach, spawn_driver).
THEOREM NoSecondSession == RegistrySpec => []SpawnOnlyWhenAlone
<1>1. RegistryInv => SpawnOnlyWhenAlone
  <2> SUFFICES ASSUME RegistryInv, NEW s \in Shared, driver[s] = "starting", NEW t \in Shared
               PROVE  Owners(t) = {} /\ (t # s => driver[t] # "starting")
    BY DEF SpawnOnlyWhenAlone
  <2>1. s \in Handle /\ t \in Handle /\ t # None
    BY RegistryAssumption DEF Shared
  <2>2. phase[s] = "spawning" /\ lock = s
    BY <2>1 DEF RegistryInv, DriverSpawned, Locked
  <2>3. Owners(t) = {}
    BY <2>1, <2>2 DEF RegistryInv, OneOwnedSession, Owners
  <2>4. driver[t] = "starting" => t = s
    BY <2>1, <2>2 DEF RegistryInv, DriverSpawned, Locked
  <2> QED
    BY <2>3, <2>4
<1> QED
  BY <1>1, RegistryInvariance, PTL

\* The output's one duplication is always with an open exclusive handle, or
\* with a running driver that somebody owns, awaits or is stopping
\* (SharedDuplication::drop, ExclusiveDuplication::drop).
THEOREM DuplicationNeverLost == RegistrySpec => []DuplicationAccounted
<1>1. RegistryInv => DuplicationAccounted
  BY DEF RegistryInv
<1> QED
  BY <1>1, RegistryInvariance, PTL
=============================================================================
