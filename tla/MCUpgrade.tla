----------------------------- MODULE MCUpgrade -----------------------------
(* Small instances of Upgrade for TLC.                                     *)
EXTENDS Upgrade, TLC

MCSymmetry == Permutations(Clients) \cup Permutations(FileIds)
=============================================================================
