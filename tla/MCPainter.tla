----------------------------- MODULE MCPainter -----------------------------
(* Painter with the channel name and one text (to it all texts are alike)   *)
(* and every record the same at first.                                      *)
EXTENDS Painter

MCOpening == {[r \in Regions |-> [look |-> "a", place |-> "p"]]}
=============================================================================
