----------------------------- MODULE MCFaceList -----------------------------
(* Small instances of FaceList for TLC.                                    *)
EXTENDS FaceList, TLC

MCSymmetry == Permutations(Requests) \cup Permutations(Labels) \cup Permutations(Persons)

\* what one careful client does; a reboot empties the list behind its back, and the
\* copy of a snapshot is nothing the recogniser hears of
SerialOps == AllOps \ {"reboot", "copy"}

\* The invariants under interference say nothing once stale holds, and it holds
\* for ever: states beyond need no exploring.
Current == ~stale

\* ... but for the invariants that hold in any case: beyond, the list of one row is
\* explored
CurrentOrOneRow == Current \/ Listed \subseteq {0}
=============================================================================
