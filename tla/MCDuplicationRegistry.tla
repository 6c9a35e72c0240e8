----------------------- MODULE MCDuplicationRegistry -----------------------
(* DuplicationRegistry on small instances.                                  *)
EXTENDS DuplicationRegistry, TLC
=============================================================================
