------------------------------- MODULE MCOsd -------------------------------
(* Small instances of Osd for TLC.                                         *)
EXTENDS Osd, TLC

CONSTANTS v1, v2

MCSymmetry == Permutations(Requests)

\* one of the two texts is the name of a key
MCMentions == (v1 :> {}) @@ (v2 :> {"attribute"})
=============================================================================
