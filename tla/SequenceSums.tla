---------------------------- MODULE SequenceSums ----------------------------
(* The sum of a sequence of naturals, `.map(..).sum()` in the code, and the  *)
(* elements of a sequence that lie in a set, `.filter(..)`, in their order.  *)
EXTENDS Naturals, Sequences, SequencesExt

Total(sizes) == FoldLeft(LAMBDA sum, n : sum + n, 0, sizes)

Only(s, T) == FlattenSeq([i \in DOMAIN s |-> IF s[i] \in T THEN <<s[i]>> ELSE <<>>])
=============================================================================
