------------------------------- MODULE MCRoi -------------------------------
(* Small instances of Roi for TLC.                                         *)
EXTENDS Roi, TLC

MCSymmetry == Permutations(Requests)
=============================================================================
