------------------------ MODULE DuplicationRegistry ------------------------
(* Opening and closing captures of one output (mediaway-device, dxgi.rs,    *)
(* dxgi_shared.rs::attach, dxgi_exclusive.rs). A process-wide registry maps *)
(* the output to a Weak<SharedDuplication>; a shared open joins the session *)
(* it finds alive or spawns one, all under the registry mutex, while the    *)
(* sessions' driver threads open and drop the one duplication DXGI allows   *)
(* per output and process. What happens inside a session is                 *)
(* SharedDuplication; here a session is its owners and its driver's life.   *)
(* A session is named by the handle whose open spawned it.                  *)
EXTENDS FiniteSets

CONSTANTS Handle,       \* WindowsScreenCapture objects, each opened once
          Exclusive,    \* those opened with CaptureSharing::Exclusive
          Other,        \* those opened with a second ID3D11Device
          None

ASSUME RegistryAssumption == /\ Exclusive \subseteq Handle /\ Other \subseteq Handle
                             /\ None \notin Handle

Shared == Handle \ Exclusive

VARIABLES
  phase,      \* where each handle's thread is
  result,     \* what open returned
  lock,       \* owner of the registry mutex
  weak,       \* the session the registry's Weak points to
  joined,     \* joined[h]: the session h owns a strong Arc of
  leaving,    \* leaving[h]: the session whose driver h joins in Drop
  driver,     \* driver[s]: the life of session s's driver thread
  shutdown,   \* sessions whose shutdown flag is raised
  duplication \* owner of the output's IDXGIOutputDuplication

registryVars == <<phase, result, lock, weak, joined, leaving, driver, shutdown, duplication>>

RegistryTypeOK ==
  /\ phase \in [Handle -> {"idle", "locked", "spawning", "attaching", "open",
                        "failing", "closing", "joining", "done"}]
  /\ result \in [Handle -> {"none", "ok", "AccessDenied", "InvalidInput", "Backend"}]
  /\ lock \in Shared \cup {None} /\ weak \in Shared \cup {None}
  /\ joined \in [Handle -> Shared \cup {None}]
  /\ leaving \in [Handle -> Shared \cup {None}]
  /\ driver \in [Shared -> {"none", "starting", "denied", "broken", "running", "exited"}]
  /\ shutdown \subseteq Shared
  /\ duplication \in Handle \cup {None}

RegistryInit ==
  /\ phase = [h \in Handle |-> "idle"] /\ result = [h \in Handle |-> "none"]
  /\ lock = None /\ weak = None /\ joined = [h \in Handle |-> None]
  /\ leaving = [h \in Handle |-> None] /\ driver = [s \in Shared |-> "none"]
  /\ shutdown = {} /\ duplication = None

Owners(s) == {h \in Handle : joined[h] = s}
SameDevice(h, s) == h \in Other <=> s \in Other

\* Weak::upgrade succeeds.
CanUpgrade == weak # None /\ Owners(weak) # {}

Return(h, r) == result' = [result EXCEPT ![h] = r]
Step(h, to) == phase' = [phase EXCEPT ![h] = to]
Unlock(h) == lock' = IF lock = h THEN None ELSE lock

-----------------------------------------------------------------------------
(* A driver thread: open_duplication and create_ring, then its loop.         *)

\* The ready message reports success or why the thread gave up; a driver that
\* gives up has dropped the duplication it may have obtained.
DriverOpens(s) ==
  /\ driver[s] = "starting"
  /\ \/ /\ duplication # None
        /\ driver' = [driver EXCEPT ![s] = "denied"] /\ UNCHANGED duplication
     \/ /\ duplication = None
        /\ driver' = [driver EXCEPT ![s] = "broken"] /\ UNCHANGED duplication
     \/ /\ duplication = None
        /\ driver' = [driver EXCEPT ![s] = "running"] /\ duplication' = s
  /\ UNCHANGED <<phase, result, lock, weak, joined, leaving, shutdown>>

\* The loop ends on the shutdown flag or on DXGI_ERROR_ACCESS_LOST.
DriverStops(s) ==
  /\ driver[s] = "running" /\ s \in shutdown
  /\ driver' = [driver EXCEPT ![s] = "exited"] /\ duplication' = None
  /\ UNCHANGED <<phase, result, lock, weak, joined, leaving, shutdown>>

AccessLost(s) ==
  /\ driver[s] = "running" /\ s \notin shutdown
  /\ driver' = [driver EXCEPT ![s] = "exited"] /\ duplication' = None
  /\ UNCHANGED <<phase, result, lock, weak, joined, leaving, shutdown>>

-----------------------------------------------------------------------------
(* dxgi_shared::attach, close, and SharedDuplication::drop.                  *)

LockRegistry_Mutant(h) ==                      \* mutant: Exclusive takes this path too
  /\ phase[h] = "idle" /\ lock = None
  /\ lock' = h /\ Step(h, "locked")
  /\ UNCHANGED <<result, weak, joined, leaving, driver, shutdown, duplication>>

LockRegistry(h) ==
  /\ h \in Shared /\ phase[h] = "idle" /\ lock = None
  /\ lock' = h /\ Step(h, "locked")
  /\ UNCHANGED <<result, weak, joined, leaving, driver, shutdown, duplication>>

Upgrade(h) ==
  /\ phase[h] = "locked" /\ CanUpgrade
  /\ joined' = [joined EXCEPT ![h] = weak] /\ Step(h, "attaching")
  /\ UNCHANGED <<result, lock, weak, leaving, driver, shutdown, duplication>>

Spawn(h) ==
  /\ phase[h] = "locked" /\ ~CanUpgrade
  /\ driver' = [driver EXCEPT ![h] = "starting"] /\ Step(h, "spawning")
  /\ UNCHANGED <<result, lock, weak, joined, leaving, shutdown, duplication>>

\* What attach leaves in the registry after a spawn.
Registered_Mutant(h) == weak                   \* mutant: map.insert forgotten
Registered(h) == h

SpawnReady(h) ==
  /\ phase[h] = "spawning" /\ driver[h] \in {"running", "exited"}
  /\ joined' = [joined EXCEPT ![h] = h] /\ weak' = Registered(h)
  /\ Step(h, "attaching")
  /\ UNCHANGED <<result, lock, leaving, driver, shutdown, duplication>>

\* spawn_driver joins the thread that gave up and returns its error.
SpawnFailed(h) ==
  /\ phase[h] = "spawning" /\ driver[h] \in {"denied", "broken"}
  /\ Return(h, IF driver[h] = "denied" THEN "AccessDenied" ELSE "Backend")
  /\ Step(h, "done") /\ Unlock(h)
  /\ UNCHANGED <<weak, joined, leaving, driver, shutdown, duplication>>

\* The device check comes first; then the driver answers, or is gone.
Attached(h) ==
  /\ phase[h] = "attaching"
  /\ SameDevice(h, joined[h]) /\ driver[joined[h]] = "running"
  /\ Return(h, "ok") /\ Step(h, "open") /\ Unlock(h)
  /\ UNCHANGED <<weak, joined, leaving, driver, shutdown, duplication>>

AttachFailed(h) ==
  /\ phase[h] = "attaching"
  /\ \/ ~SameDevice(h, joined[h]) /\ Return(h, "InvalidInput")
     \/ /\ SameDevice(h, joined[h]) /\ driver[joined[h]] = "exited"
        /\ Return(h, "Backend")
  /\ Step(h, "failing")
  /\ UNCHANGED <<lock, weak, joined, leaving, driver, shutdown, duplication>>

\* close, or the handle is dropped.
Close(h) ==
  /\ h \in Shared /\ phase[h] = "open"
  /\ Step(h, "closing")
  /\ UNCHANGED <<result, lock, weak, joined, leaving, driver, shutdown, duplication>>

\* The mutex is still held when a failed attach drops its Arc: `shared` is
\* declared after the guard. The last Arc raises the flag and joins the driver.
DropArc_Mutant(h) ==                           \* mutant: the flag is not raised
  /\ phase[h] \in {"failing", "closing"}
  /\ joined' = [joined EXCEPT ![h] = None]
  /\ leaving' = [leaving EXCEPT ![h] = joined[h]]
  /\ Step(h, "joining")
  /\ UNCHANGED <<result, lock, weak, driver, shutdown, duplication>>

DropArc(h) ==
  /\ phase[h] \in {"failing", "closing"}
  /\ joined' = [joined EXCEPT ![h] = None]
  /\ IF Owners(joined[h]) = {h}
       THEN /\ shutdown' = shutdown \cup {joined[h]}
            /\ leaving' = [leaving EXCEPT ![h] = joined[h]]
            /\ Step(h, "joining") /\ UNCHANGED lock
       ELSE Step(h, "done") /\ Unlock(h) /\ UNCHANGED <<shutdown, leaving>>
  /\ UNCHANGED <<result, weak, driver, duplication>>

JoinDriver(h) ==
  /\ phase[h] = "joining" /\ driver[leaving[h]] = "exited"
  /\ Step(h, "done") /\ Unlock(h)
  /\ UNCHANGED <<result, weak, joined, leaving, driver, shutdown, duplication>>

-----------------------------------------------------------------------------
(* ExclusiveDuplication: no thread, no registry.                             *)

OpenExclusive(h) ==
  /\ h \in Exclusive /\ phase[h] = "idle"
  /\ \/ /\ duplication = None
        /\ duplication' = h /\ Return(h, "ok") /\ Step(h, "open")
     \/ /\ duplication # None
        /\ Return(h, "AccessDenied") /\ Step(h, "done") /\ UNCHANGED duplication
     \/ /\ duplication = None
        /\ Return(h, "Backend") /\ Step(h, "done") /\ UNCHANGED duplication
  /\ UNCHANGED <<lock, weak, joined, leaving, driver, shutdown>>

ReleasedBy_Mutant(h) == duplication            \* mutant: the COM object leaks
ReleasedBy(h) == None

CloseExclusive(h) ==
  /\ h \in Exclusive /\ phase[h] = "open"
  /\ duplication' = ReleasedBy(h) /\ Step(h, "done")
  /\ UNCHANGED <<result, lock, weak, joined, leaving, driver, shutdown>>

-----------------------------------------------------------------------------
DriverStep(s) == DriverOpens(s) \/ DriverStops(s)

\* Steps of a call already made; taking the mutex is one, opening is not.
CallStep(h) == \/ Upgrade(h) \/ Spawn(h) \/ SpawnReady(h) \/ SpawnFailed(h)
               \/ Attached(h) \/ AttachFailed(h) \/ DropArc(h) \/ JoinDriver(h)

RegistryNext ==
  \/ \E s \in Shared : DriverStep(s) \/ AccessLost(s)
  \/ \E h \in Handle : \/ LockRegistry(h) \/ Close(h) \/ CallStep(h)
                       \/ OpenExclusive(h) \/ CloseExclusive(h)

RegistrySpec == RegistryInit /\ [][RegistryNext]_registryVars

RegistryFairSpec ==
  /\ RegistrySpec
  /\ \A s \in Shared : WF_registryVars(DriverStep(s))
  /\ \A h \in Handle : WF_registryVars(CallStep(h))

-----------------------------------------------------------------------------
(* Properties.                                                               *)

\* A driver thread is spawned only when no live session could be joined: the
\* registry mutex held across the handshake keeps opens from racing each other
\* into a second DuplicateOutput on the same output.
SpawnOnlyWhenAlone ==
  \A s \in Shared : driver[s] = "starting"
    => \A t \in Shared : Owners(t) = {} /\ (t # s => driver[t] # "starting")

\* Whoever has the duplication is somebody who will give it up: a session whose
\* driver runs for an owner, for an opener, or for the handle that joins it, or
\* an exclusive handle that is open.
DuplicationAccounted ==
  \/ duplication = None
  \/ duplication \in Exclusive /\ phase[duplication] = "open"
  \/ /\ duplication \in Shared /\ driver[duplication] = "running"
     /\ \/ Owners(duplication) # {} \/ phase[duplication] = "spawning"
        \/ \E h \in Handle : phase[h] = "joining" /\ leaving[h] = duplication

\* An open or a drop never keeps the registry mutex for ever, even the failed
\* attach that drops the last Arc and joins the driver under it.
RegistryReleased == \A h \in Shared : lock = h ~> lock # h
=============================================================================
