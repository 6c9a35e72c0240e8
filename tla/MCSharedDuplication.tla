------------------------ MODULE MCSharedDuplication ------------------------
(* SharedDuplication on small instances.                                    *)
EXTENDS SharedDuplication, TLC

\* Handles of one device are interchangeable, and so are fallback textures.
\* Only sound for the safety runs.
Symmetry == Permutations(Capture \ Foreign) \cup Permutations(Transient)
=============================================================================
