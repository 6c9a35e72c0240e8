---------------------------- MODULE FrameFanout ----------------------------
(* What a shared screen capture promises each of its consumers, with no     *)
(* ring, no slots and no threads: frames are published in order; a consumer *)
(* is shown, one at a time, a subsequence of them that never repeats and    *)
(* never goes back, and the picture it is shown does not change under it    *)
(* until it gives the frame back.                                           *)
EXTENDS Naturals

CONSTANT Capture          \* the handles open on one output

VARIABLES published,      \* number of the newest frame published (0: none)
          view,           \* view[c]: the frame c is being shown, 0 for none
          seen            \* seen[c]: the last frame c was shown

vars == <<published, view, seen>>

Init == /\ published = 0
        /\ view = [c \in Capture |-> 0]
        /\ seen = [c \in Capture |-> 0]

\* The driver publishes a newer frame; frames it never published are skipped.
Publish == /\ published' \in Nat /\ published' > published
           /\ UNCHANGED <<view, seen>>

\* A consumer is shown a published frame it has not been shown before.
Show(c) == /\ view[c] = 0
           /\ \E f \in seen[c] + 1 .. published :
                /\ view' = [view EXCEPT ![c] = f]
                /\ seen' = [seen EXCEPT ![c] = f]
           /\ UNCHANGED published

\* A consumer gives its frame back (or its record is dropped with the frame).
GiveBack(c) == /\ view[c] # 0
               /\ view' = [view EXCEPT ![c] = 0]
               /\ UNCHANGED <<published, seen>>

Next == Publish \/ \E c \in Capture : Show(c) \/ GiveBack(c)

Spec == Init /\ [][Next]_vars
=============================================================================
