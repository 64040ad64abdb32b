------------------------ MODULE MCSessionCoordination ------------------------
(***************************************************************************)
(* Small instances of SessionCoordination.                                 *)
(***************************************************************************)
EXTENDS SessionCoordination, TLC

TabSymmetry == Permutations(Tabs)
=============================================================================
