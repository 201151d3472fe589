--------------------------- MODULE MCPaperTrading ---------------------------
(* Instances of PaperTrading for TLC. *)
EXTENDS PaperTrading, TLC

Symmetry == Permutations(Markets) \cup Permutations(Workers)
=============================================================================
