--------------------------- MODULE WasapiPlayback ---------------------------
(* WindowsWasapiPlayback: the caller's side of a session, the worker thread  *)
(* that feeds the render client, and the endpoint that plays its buffer.     *)
(* Time is counted in sample frames. A frame of the caller is the sequence   *)
(* of its samples, numbered in the order they were accepted; 0 is a sample   *)
(* of silence. Format checks and the underrun counter are left out: nothing  *)
(* else depends on them.                                                     *)
EXTENDS Naturals, Sequences, FiniteSets, SequencesExt, SequenceSums

CONSTANTS
  QueueCap,    \* PLAYBACK_QUEUE_CAP
  BufferSize,  \* GetBufferSize
  Lead,        \* silence_lead
  FrameSizes,  \* the sizes of the frames the caller writes
  MaxSamples,  \* bound: samples written
  MaxUnread    \* bound: GetPosition fails only while the tracker holds no more than this

ASSUME PlaybackAssumption ==
  /\ QueueCap \in Nat \ {0} /\ BufferSize \in Nat \ {0} /\ Lead \in Nat \ {0}
  /\ FrameSizes \subseteq Nat /\ MaxSamples \in Nat /\ MaxUnread \in Nat

VARIABLES
  call,       \* the caller: "idle", "flushing", "closing", "closed"
  accepted,   \* samples accepted so far
  queue,      \* state.frames
  cursor,     \* state.cursor: samples of the front frame already taken
  requested,  \* flush_requested
  stop,       \* stop
  lost,       \* device_lost
  played,     \* played: what played_frames returns
  worker,     \* the worker's place in pump_playback_loop
  padding,    \* what GetCurrentPadding returned
  take,       \* frames and data of the turn
  chunk,      \* the samples written to the buffer GetBuffer returned
  tracker,    \* PlayedTracker
  buffer,     \* the endpoint: released and not played yet
  heard,      \* history: the sample heard last
  asked,      \* history: samples accepted before the last flush began
  answered,   \* history: that number when a flush last returned Ok
  since       \* history: the caller's samples heard since open or the last reset

callerVars == <<call, accepted, asked, answered>>
sharedVars == <<queue, cursor, requested, stop, lost, played>>
workerVars == <<worker, padding, take, chunk, tracker>>
endpointVars == <<buffer, heard, since>>
vars == <<callerVars, sharedVars, workerVars, endpointVars>>

Silence(n) == [i \in 1 .. n |-> 0]
Least(a, b) == IF a < b THEN a ELSE b

----------------------------------------------------------------------------
(* PlayedTracker. Its positions are counted back from the last release, so   *)
(* that a stream's position is the length of what is still in the buffer.    *)
NewTracker == [released |-> <<>>, before |-> 0]
Unplayed(t) == Total([i \in DOMAIN t.released |-> t.released[i].frames])

\* release
Released(t, frames, data) ==
  LET n == Len(t.released) IN
  IF n > 0 /\ t.released[n].data = data
  THEN [t EXCEPT !.released[n].frames = @ + frames]
  ELSE [t EXCEPT !.released = Append(@, [frames |-> frames, data |-> data])]

\* played, as it leaves the tracker: the stretches played in full are dropped.
Caught(t, unplayed) ==
  LET From(i) == SubSeq(t.released, i + 1, Len(t.released))
      Left(i) == Unplayed([t EXCEPT !.released = From(i)])
      n == CHOOSE n \in 0 .. Len(t.released) :
             /\ Left(n) >= unplayed
             /\ n = Len(t.released) \/ Left(n + 1) < unplayed
      data == [i \in 1 .. n |-> IF t.released[i].data THEN t.released[i].frames ELSE 0]
  IN [released |-> From(n), before |-> t.before + Total(data)]

\* played, what it returns of the tracker it leaves.
Count(t, unplayed) ==
  t.before + (IF t.released # <<>> /\ t.released[1].data THEN Unplayed(t) - unplayed ELSE 0)

----------------------------------------------------------------------------
Init ==
  /\ call = "idle" /\ accepted = 0 /\ asked = 0 /\ answered = 0
  /\ queue = <<>> /\ cursor = 0 /\ requested = FALSE /\ stop = FALSE /\ lost = FALSE
  /\ played = 0
  /\ worker = "top" /\ padding = 0 /\ take = [frames |-> 0, data |-> FALSE] /\ chunk = <<>>
  /\ tracker = NewTracker
  /\ buffer = <<>> /\ heard = 0 /\ since = 0

(* The caller.                                                               *)
\* write_frame. QueueFull and DeviceLost change nothing.
Write(n) ==
  /\ call = "idle" /\ ~lost /\ Len(queue) < QueueCap /\ accepted + n <= MaxSamples
  /\ queue' = Append(queue, [i \in 1 .. n |-> accepted + i])
  /\ accepted' = accepted + n
  /\ UNCHANGED <<call, asked, answered, cursor, requested, stop, lost, played, workerVars,
                 endpointVars>>

\* flush, up to its wait. The queue is cleared and the flag set under the lock.
BeginFlush ==
  /\ call = "idle" /\ ~lost
  /\ call' = "flushing" /\ asked' = accepted
  /\ requested' = TRUE /\ queue' = <<>> /\ cursor' = 0
  /\ UNCHANGED <<accepted, answered, stop, lost, played, workerVars, endpointVars>>

FlushReturns ==
  /\ call = "flushing" /\ ~requested
  /\ call' = "idle" /\ answered' = asked
  /\ UNCHANGED <<accepted, asked, sharedVars, workerVars, endpointVars>>

\* The device is gone, or a second has passed. The request stands.
FlushFails ==
  /\ call = "flushing" /\ requested
  /\ call' = "idle"
  /\ UNCHANGED <<accepted, asked, answered, sharedVars, workerVars, endpointVars>>

Close ==
  /\ call = "idle" /\ call' = "closing" /\ stop' = TRUE
  /\ UNCHANGED <<accepted, asked, answered, queue, cursor, requested, lost, played, workerVars,
                 endpointVars>>

Join ==
  /\ call = "closing" /\ worker = "exited" /\ call' = "closed"
  /\ UNCHANGED <<accepted, asked, answered, sharedVars, workerVars, endpointVars>>

----------------------------------------------------------------------------
(* The worker.                                                               *)
\* stop, then flush_requested: one step. Nobody but the worker touches flush_requested once
\* the caller has closed, so a close between the two loads is one right after them.
StartTurn ==
  /\ worker = "top"
  /\ worker' = IF stop THEN "exited" ELSE IF requested THEN "reset" ELSE "padding"
  /\ UNCHANGED <<callerVars, sharedVars, padding, take, chunk, tracker, endpointVars>>

\* The tracker of a client that was reset.
Restarted_Mutant == tracker                          \* mutant: it goes on
Restarted == NewTracker

\* Stop, Reset and Start: the endpoint forgets what it has not played.
Reset ==
  /\ worker = "reset" /\ worker' = "rezero"
  /\ buffer' = <<>> /\ tracker' = Restarted /\ since' = 0
  /\ UNCHANGED <<callerVars, sharedVars, padding, take, chunk, heard>>

Rezero ==
  /\ worker = "rezero" /\ worker' = "answer" /\ played' = 0
  /\ UNCHANGED <<callerVars, queue, cursor, requested, stop, lost, padding, take, chunk, tracker,
                 endpointVars>>

\* flush_requested once the flush is answered.
Outstanding_Mutant == requested                      \* mutant: it is never cleared
Outstanding == FALSE

AnswerFlush ==
  /\ worker = "answer" /\ worker' = "padding" /\ requested' = Outstanding
  /\ UNCHANGED <<callerVars, queue, cursor, stop, lost, played, padding, take, chunk, tracker,
                 endpointVars>>

\* A call of the client fails: the loop ends. What ReleaseBuffer returns is ignored; if
\* the device is gone by then, the next call fails.
DeviceFails ==
  /\ worker \in {"reset", "padding", "fill"}
  /\ worker' = "exited" /\ lost' = TRUE
  /\ UNCHANGED <<callerVars, queue, cursor, requested, stop, played, padding, take, chunk, tracker,
                 endpointVars>>

\* GetCurrentPadding.
ReadPadding ==
  /\ worker = "padding" /\ worker' = "clock" /\ padding' = Len(buffer)
  /\ UNCHANGED <<callerVars, sharedVars, take, chunk, tracker, endpointVars>>

\* GetPosition, which may fail and is then left out.
ReadClock ==
  /\ worker = "clock" /\ worker' = "measure"
  /\ \/ /\ tracker' = Caught(tracker, Len(buffer))
        /\ played' = Count(tracker', Len(buffer))
     \/ Unplayed(tracker) <= MaxUnread /\ UNCHANGED <<tracker, played>>
  /\ UNCHANGED <<callerVars, queue, cursor, requested, stop, lost, padding, take, chunk,
                 endpointVars>>

Queued == Total([i \in DOMAIN queue |-> Len(queue[i])]) - cursor

Room_Mutant == BufferSize                            \* mutant: the padding is forgotten
Room == BufferSize - padding
Shortfall_Mutant == BufferSize                       \* mutant: silence fills the buffer
Shortfall == IF Lead > padding THEN Lead - padding ELSE 0

\* What is queued, as far as it fits; with nothing queued, silence up to its lead.
Measure ==
  /\ worker = "measure"
  /\ take' = IF Queued > 0 THEN [frames |-> Least(Room, Queued), data |-> TRUE]
             ELSE [frames |-> Least(Room, Shortfall), data |-> FALSE]
  /\ worker' = IF take'.frames = 0 THEN "top" ELSE "fill"
  /\ UNCHANGED <<callerVars, sharedVars, padding, chunk, tracker, endpointVars>>

\* fill_from_queue copies n samples. It pops each frame it comes to the end of, and
\* goes on past empty ones only while it wants more.
Samples == LET all == FlattenSeq(queue) IN SubSeq(all, cursor + 1, Len(all))
Ends(k) == Total([i \in 1 .. k |-> Len(queue[i])])
Popped(n) == Cardinality({k \in DOMAIN queue :
               Ends(k) <= cursor + n /\ (Ends(k - 1) < cursor + n \/ n < take.frames)})

\* GetBuffer, and under the lock what goes into it: nothing of what was written after a
\* flush that came since the queue was measured.
Skipped_Mutant == ~take.data                         \* mutant: the flush is not looked for again
Skipped == ~take.data \/ requested
Fill ==
  LET n == Least(take.frames, Queued) IN
  /\ worker = "fill" /\ worker' = "release"
  /\ IF Skipped
     THEN chunk' = Silence(take.frames) /\ UNCHANGED <<queue, cursor>>
     ELSE /\ chunk' = SubSeq(Samples, 1, n) \o Silence(take.frames - n)
          /\ queue' = SubSeq(queue, Popped(n) + 1, Len(queue))
          /\ cursor' = cursor + n - Ends(Popped(n))
  /\ UNCHANGED <<callerVars, requested, stop, lost, played, padding, take, tracker, endpointVars>>

Release ==
  /\ worker = "release" /\ worker' = "top"
  /\ tracker' = Released(tracker, take.frames, take.data)
  /\ buffer' = buffer \o chunk /\ chunk' = <<>>
  /\ UNCHANGED <<callerVars, sharedVars, padding, take, heard, since>>

Worker ==
  \/ StartTurn \/ Reset \/ Rezero \/ AnswerFlush
  \/ ReadPadding \/ ReadClock \/ Measure \/ Fill \/ Release

----------------------------------------------------------------------------
\* The endpoint plays the next sample; the client is stopped when the loop has ended.
Play ==
  /\ buffer # <<>> /\ worker # "exited"
  /\ buffer' = Tail(buffer)
  /\ IF Head(buffer) = 0 THEN UNCHANGED <<heard, since>>
     ELSE heard' = Head(buffer) /\ since' = since + 1
  /\ UNCHANGED <<callerVars, sharedVars, workerVars>>

Next ==
  \/ \E n \in FrameSizes : Write(n)
  \/ BeginFlush \/ FlushReturns \/ FlushFails \/ Close \/ Join
  \/ Worker \/ DeviceFails \/ Play

Spec == Init /\ [][Next]_vars

\* The worker never waits for anyone, and the endpoint plays what it is given.
FairSpec == Spec /\ WF_vars(Worker) /\ WF_vars(Play)

----------------------------------------------------------------------------
TypeOK ==
  /\ call \in {"idle", "flushing", "closing", "closed"}
  /\ accepted \in 0 .. MaxSamples /\ asked \in 0 .. accepted /\ answered \in 0 .. asked
  /\ queue \in Seq(Seq(1 .. accepted)) /\ Len(queue) <= QueueCap
  /\ cursor = 0 \/ (queue # <<>> /\ cursor \in 1 .. Len(queue[1]) - 1)
  /\ worker \in {"top", "reset", "rezero", "answer", "padding", "clock", "measure", "fill",
                 "release", "exited"}
  /\ {requested, stop, lost, take.data} \subseteq BOOLEAN
  /\ Len(buffer) + (IF worker = "release" THEN Len(chunk) ELSE 0) <= BufferSize
  /\ Len(buffer) <= Unplayed(tracker)

\* In order: what the endpoint holds, what the worker is handing over, what waits.
InFlight == buffer \o chunk \o Samples
Pending == Only(InFlight, Nat \ {0})

\* Frames are heard in the order they were written, none is lost but to a flush
\* that came after it, and none that a flush has discarded is heard once the
\* flush has returned (wasapi_playback.rs:160-163).
Playout == INSTANCE PlayoutQueue WITH pending <- Pending
RefinesPlayout == Playout!Spec

\* played_frames is a clock of the caller's own audio (wasapi_playback.rs:147-152):
\* it never runs ahead of what was heard, and what the worker knows of the buffer is
\* enough to tell how much that is, whatever silence went in between.
PlayedTrue ==
  /\ worker # "rezero" => played <= since
  /\ ~requested => Count(Caught(tracker, Len(buffer)), Len(buffer)) = since

\* Never more than the lead's length of silence is in front of anything
\* (wasapi_playback.rs:38-41), except in a buffer that is about to be reset.
LeadBounded ==
  ~requested => Len(Only(buffer, {0})) <= Lead

\* Every frame that was accepted is heard or discarded in the end, unless the
\* session ends first: a flush that was never answered holds nothing up.
AllHeard ==
  \A s \in 1 .. MaxSamples : s \in ToSet(InFlight) ~> s \notin ToSet(InFlight) \/ lost \/ stop
=============================================================================
