-------------------------- MODULE MessageChannels ---------------------------
(* What an RTMP chunk stream promises of its chunk stream ids, and an MP4    *)
(* file of its tracks: on each of them the messages that went in come out,   *)
(* whole, unchanged, once and in their order. Nothing is promised between    *)
(* one and another.                                                          *)
EXTENDS Sequences, SequencesExt

CONSTANTS Csid, None

VARIABLES
  queue,      \* queue[c]: the messages on chunk stream c not returned yet
  returned    \* the message poll_message is returning, or None

Init == queue = [c \in Csid |-> <<>>] /\ returned = None

\* A call of the sender puts messages on some of the streams.
Send == /\ DOMAIN queue' = Csid
        /\ \A c \in Csid : IsPrefix(queue[c], queue'[c])
        /\ returned' = None

\* poll_message returns the next message of some stream.
Deliver(c) == /\ queue[c] # <<>>
              /\ returned' = Head(queue[c])
              /\ queue' = [queue EXCEPT ![c] = Tail(@)]

Next == Send \/ \E c \in Csid : Deliver(c)
Spec == Init /\ [][Next]_<<queue, returned>>
=============================================================================
