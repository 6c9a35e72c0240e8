--------------------------- MODULE HotplugBridge ---------------------------
(* Device hotplug through the C ABI (mediaway-ffi, device/hotplug.rs) over   *)
(* the Windows backend (mediaway-device, windows/hotplug.rs). A handle is    *)
(* Idle, Pulling (poll_event drains the backend on the caller's thread) or   *)
(* Pushing (a bridging thread constructs its own backend, drains it into the *)
(* caller's callback, and closes it). The audio engine's threads push events *)
(* into the queue of every registered backend.                               *)
(*                                                                           *)
(* A handle takes one call at a time (adr/device/0001, section 9). Events    *)
(* are numbered as they happen, and are all of watched kinds. `happened` and *)
(* `delivered` are history variables: no guard of the code reads them.       *)
EXTENDS Naturals, Sequences

CONSTANTS QueueCap,     \* HOTPLUG_QUEUE_CAP
          MaxEvents     \* bound: events that happen

ASSUME CapAssumption == QueueCap \in Nat \ {0}
ASSUME BoundAssumption == MaxEvents \in Nat

Backend == {"pull", "push"}

VARIABLES
  pc,         \* the call in progress on the handle, if any
  status,     \* what the last finished call returned
  mode,       \* HotplugBackend's variant
  poisoned,   \* the shared poisoned flag
  stop,       \* CallbackBridge::stop
  bridge,     \* where the bridging thread is
  session,    \* session[b]: the backend of the handle ("pull"), of the bridge ("push")
  queue,      \* queue[b]: its HotplugQueue
  happened,   \* history: events so far
  delivered   \* history: the last event a poll returned or a callback got

callVars == <<pc, status>>
osVars == <<session, queue, happened>>
vars == <<callVars, mode, poisoned, stop, bridge, osVars, delivered>>

Status == {"Ok", "HandlePoisoned", "CallbackModeActive", "Closed", "InternalPanic",
           "CallbackAlreadyRegistered", "BackendFailure"}

TypeOK ==
  /\ pc \in {"out", "polling", "unregistering", "closing", "freed"}
  /\ status \in Status
  /\ mode \in {"Idle", "Pulling", "Pushing"}
  /\ poisoned \in BOOLEAN /\ stop \in BOOLEAN
  /\ bridge \in {"none", "construct", "loop", "poll", "callback", "close",
                 "ended", "panicked"}
  /\ session \in [Backend -> {"none", "live", "closed"}]
  /\ queue \in [Backend -> Seq(1 .. MaxEvents)]
  /\ \A b \in Backend : Len(queue[b]) <= QueueCap
  /\ happened \in 0 .. MaxEvents /\ delivered \in 0 .. MaxEvents

Init ==
  /\ pc = "out" /\ status = "Ok"
  /\ mode = "Idle" /\ poisoned = FALSE /\ stop = FALSE /\ bridge = "none"
  /\ session = [b \in Backend |-> "none"] /\ queue = [b \in Backend |-> <<>>]
  /\ happened = 0 /\ delivered = 0

-----------------------------------------------------------------------------
\* push_bounded: the oldest pending event makes room.
PushBounded_Unbounded(q, e) == Append(q, e)  \* mutant: no cap
PushBounded_Mutant(q, e) ==                  \* mutant: the newest is refused
  IF Len(q) >= QueueCap THEN q ELSE Append(q, e)
PushBounded(q, e) ==
  Append(IF Len(q) >= QueueCap THEN Tail(q) ELSE q, e)

\* The engine calls every registered IMMNotificationClient.
Notify ==
  /\ happened < MaxEvents
  /\ happened' = happened + 1
  /\ queue' = [b \in Backend |-> IF session[b] = "live"
                                   THEN PushBounded(queue[b], happened + 1)
                                   ELSE queue[b]]
  /\ UNCHANGED <<callVars, mode, poisoned, stop, bridge, session, delivered>>

\* WindowsDeviceHotplug::open and close; a closed backend's queue is gone.
Opens(b) == /\ session' = [session EXCEPT ![b] = "live"]
            /\ queue' = [queue EXCEPT ![b] = <<>>]
Leaves(b, s) == /\ session' = [session EXCEPT ![b] = s]
                /\ queue' = [queue EXCEPT ![b] = <<>>]

\* poll_event's pop_front.
Pops_Mutant(b) ==                            \* mutant: pop_back
  /\ queue[b] # <<>>
  /\ delivered' = queue[b][Len(queue[b])]
  /\ queue' = [queue EXCEPT ![b] = SubSeq(@, 1, Len(@) - 1)]
Pops(b) ==
  /\ queue[b] # <<>>
  /\ delivered' = Head(queue[b])
  /\ queue' = [queue EXCEPT ![b] = Tail(@)]

-----------------------------------------------------------------------------
(* The bridging thread: bridging_loop and poll_and_invoke.                   *)

BridgeFails(next) == poisoned' = TRUE /\ bridge' = next

BridgeConstruct ==
  /\ bridge = "construct"
  /\ \/ Opens("push") /\ bridge' = "loop" /\ UNCHANGED poisoned
     \/ BridgeFails("ended") /\ UNCHANGED <<session, queue>>
  /\ UNCHANGED <<callVars, mode, stop, happened, delivered>>

\* The flag is read before each poll: an event may still be delivered after it
\* is raised.
BridgeCheckStop ==
  /\ bridge = "loop"
  /\ bridge' = IF stop THEN "close" ELSE "poll"
  /\ UNCHANGED <<callVars, mode, poisoned, stop, osVars, delivered>>

BridgePoll ==
  /\ bridge = "poll"
  /\ \/ Pops("push") /\ bridge' = "callback" /\ UNCHANGED poisoned
     \/ /\ queue["push"] = <<>> /\ bridge' = "loop"
        /\ UNCHANGED <<queue, delivered, poisoned>>
     \/ BridgeFails("close") /\ UNCHANGED <<queue, delivered>>
  /\ UNCHANGED <<callVars, mode, stop, session, happened>>

CallbackReturns ==
  /\ bridge = "callback" /\ bridge' = "loop"
  /\ UNCHANGED <<callVars, mode, poisoned, stop, osVars, delivered>>

\* close is outside every catch_unwind.
BridgeClose ==
  /\ bridge = "close"
  /\ Leaves("push", "none") /\ bridge' \in {"ended", "panicked"}
  /\ UNCHANGED <<callVars, mode, poisoned, stop, happened, delivered>>

Bridge == BridgeConstruct \/ BridgeCheckStop \/ BridgePoll \/ CallbackReturns
          \/ BridgeClose

-----------------------------------------------------------------------------
(* The caller.                                                               *)

Called(to) == pc = "out" /\ pc' = to
Returns(s) == status' = s

\* A call that is refused before it touches anything.
Refused ==
  /\ Called("out")
  /\ \/ poisoned /\ Returns("HandlePoisoned")           \* poll_event, register
     \/ ~poisoned /\ mode = "Pushing"
        /\ (Returns("CallbackModeActive") \/ Returns("CallbackAlreadyRegistered"))
     \/ mode # "Pushing" /\ Returns("Ok")               \* unregister: a no-op
  /\ UNCHANGED <<mode, poisoned, stop, bridge, osVars, delivered>>

\* poll_event on an Idle handle constructs the backend on the calling thread.
PollConstructs ==
  /\ mode = "Idle" /\ ~poisoned
  /\ \/ /\ Called("polling") /\ Opens("pull") /\ mode' = "Pulling"
        /\ UNCHANGED <<status, poisoned>>
     \/ /\ Called("out") /\ Returns("BackendFailure")
        /\ UNCHANGED <<session, queue, mode, poisoned>>
     \/ /\ Called("out") /\ Returns("InternalPanic") /\ poisoned' = TRUE
        /\ UNCHANGED <<session, queue, mode>>
  /\ UNCHANGED <<stop, bridge, happened, delivered>>

PollAgain ==
  /\ mode = "Pulling" /\ ~poisoned /\ Called("polling")
  /\ UNCHANGED <<status, mode, poisoned, stop, bridge, osVars, delivered>>

PollReturns ==
  /\ pc = "polling" /\ pc' = "out"
  /\ \/ session["pull"] = "closed" /\ Returns("Closed")
        /\ UNCHANGED <<queue, delivered, poisoned>>
     \/ /\ session["pull"] = "live" /\ Returns("Ok") /\ UNCHANGED poisoned
        /\ \/ Pops("pull")
           \/ queue["pull"] = <<>> /\ UNCHANGED <<queue, delivered>>
     \/ /\ session["pull"] = "live" /\ Returns("BackendFailure")
        /\ UNCHANGED <<queue, delivered, poisoned>>
     \/ /\ session["pull"] = "live" /\ Returns("InternalPanic") /\ poisoned' = TRUE
        /\ UNCHANGED <<queue, delivered>>
  /\ UNCHANGED <<mode, stop, bridge, session, happened>>

\* What register_callback leaves of a pulled backend: closed before the spawn,
\* and dropped once the handle is Pushing.
Switched_Mutant == session["pull"]           \* mutant: it is neither
Switched == "none"

RegisterCallback ==
  /\ Called("out") /\ ~poisoned /\ mode # "Pushing"
  /\ \/ /\ Leaves("pull", Switched) /\ mode' = "Pushing"
        /\ bridge' = "construct" /\ stop' = FALSE /\ Returns("Ok")
     \/ /\ IF mode = "Pulling" THEN Leaves("pull", "closed")
                               ELSE UNCHANGED <<session, queue>>
        /\ Returns("BackendFailure")         \* the thread cannot be spawned
        /\ UNCHANGED <<mode, bridge, stop>>
  /\ UNCHANGED <<poisoned, happened, delivered>>

\* join_callback up to the join: the Pushing state is taken out of the handle.
Raised_Mutant == stop                        \* mutant: nobody tells the thread
Raised == TRUE

BeginJoin ==
  /\ mode = "Pushing"
  /\ Called("unregistering") \/ Called("closing")
  /\ mode' = "Idle" /\ stop' = Raised
  /\ UNCHANGED <<status, poisoned, bridge, osVars, delivered>>

\* The thread's JoinHandle yields.
Joined_Mutant == TRUE                        \* mutant: the thread is detached
Joined == bridge \in {"ended", "panicked"}

UnregisterReturns ==
  /\ pc = "unregistering" /\ Joined /\ pc' = "out"
  /\ Returns(IF bridge = "panicked" THEN "InternalPanic" ELSE "Ok")
  /\ poisoned' = (poisoned \/ bridge = "panicked")
  /\ UNCHANGED <<mode, stop, bridge, osVars, delivered>>

\* close in callback mode; the handle's Box is dropped as it returns.
CloseReturns ==
  /\ pc = "closing" /\ Joined /\ pc' = "freed"
  /\ Returns(IF bridge = "panicked" THEN "InternalPanic" ELSE "Ok")
  /\ poisoned' = (poisoned \/ bridge = "panicked")
  /\ UNCHANGED <<mode, stop, bridge, osVars, delivered>>

\* close otherwise; a pulled backend is closed, whatever its close reports.
ClosePolled ==
  /\ mode # "Pushing" /\ Called("freed")
  /\ Leaves("pull", Switched)
  /\ \/ Returns("Ok")
     \/ session["pull"] = "live" /\ Returns("BackendFailure")
  /\ UNCHANGED <<mode, poisoned, stop, bridge, happened, delivered>>

InCall == PollReturns \/ UnregisterReturns \/ CloseReturns

Next == \/ Notify \/ Bridge \/ InCall
        \/ Refused \/ PollConstructs \/ PollAgain
        \/ RegisterCallback \/ BeginJoin \/ ClosePolled

Spec == Init /\ [][Next]_vars

\* The bridging thread is scheduled, callbacks return (their contract, section 5
\* of adr/device/0002), and a call that can proceed does.
FairSpec == Spec /\ WF_vars(Bridge) /\ WF_vars(InCall)

-----------------------------------------------------------------------------
(* Properties.                                                               *)

\* Switching modes never leaves two registrations draining the same stream of
\* events: a bridging thread's backend and a pulled one are not live together.
OneSession == ~(session["pull"] = "live" /\ session["push"] = "live")

\* The caller's function runs only while it is registered: once unregister or
\* close has returned, user_data may be freed.
CallbackWhileRegistered ==
  bridge \in {"poll", "callback"} => mode = "Pushing" \/ pc \in {"unregistering", "closing"}

\* close leaves no thread and no OS registration behind the freed handle.
NothingOutlivesClose ==
  pc = "freed" => /\ bridge \in {"none", "ended", "panicked"}
                  /\ \A b \in Backend : session[b] # "live"

\* A live queue is the latest stretch of what happened: overflow only ever
\* costs the oldest events, and what was delivered is not pending again.
QueueIsSuffix ==
  \A b \in Backend : session[b] = "live" =>
    \A i \in 1 .. Len(queue[b]) :
      /\ queue[b][i] = happened - Len(queue[b]) + i
      /\ queue[b][i] > delivered

\* Across polls, callbacks and changes of mode, events come in order, each at
\* most once.
InOrder == [][delivered' # delivered => delivered' > delivered]_vars

\* unregister and close come back, in whatever state they find the thread.
JoinReturns == pc \in {"unregistering", "closing"} ~> pc \in {"out", "freed"}
=============================================================================
