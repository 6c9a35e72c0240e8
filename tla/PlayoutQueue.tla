---------------------------- MODULE PlayoutQueue ----------------------------
(* What a playback session promises: what it accepts is heard once, in the   *)
(* order it was accepted; a flush lets go of what was accepted before it,    *)
(* of nothing else, and of all of it once it has returned. Samples are       *)
(* numbered in the order they are accepted.                                  *)
EXTENDS Naturals, Sequences, SequencesExt, SequenceSums

VARIABLES
  accepted,  \* how many samples were accepted so far
  pending,   \* those not heard yet and not discarded, in order
  heard,     \* the sample heard last; 0: none yet
  asked,     \* the samples accepted before the last flush began: those up to here
  answered   \* the value of asked when a flush last returned

vars == <<accepted, pending, heard, asked, answered>>

Init == accepted = 0 /\ pending = <<>> /\ heard = 0 /\ asked = 0 /\ answered = 0

Write ==
  /\ accepted' > accepted
  /\ pending' = pending \o [i \in 1 .. accepted' - accepted |-> accepted + i]
  /\ UNCHANGED <<heard, asked, answered>>

Hear ==
  /\ pending # <<>> /\ heard' = Head(pending) /\ pending' = Tail(pending)
  /\ UNCHANGED <<accepted, asked, answered>>

\* What a flush has asked for may go at any time after that, in any pieces.
Forget ==
  /\ asked' \in {asked, accepted}
  /\ \E kept \in SUBSET ToSet(pending) :
       /\ \A s \in ToSet(pending) \ kept : s <= asked'
       /\ pending' = Only(pending, kept)
  /\ UNCHANGED <<accepted, heard, answered>>

Answer ==
  /\ answered' = asked /\ \A s \in ToSet(pending) : s > asked
  /\ UNCHANGED <<accepted, pending, heard, asked>>

Next == Write \/ Hear \/ Forget \/ Answer

Spec == Init /\ [][Next]_vars
=============================================================================
