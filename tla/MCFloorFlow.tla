----------------------------- MODULE MCFloorFlow -----------------------------
(* Two barcodes, which no definition tells apart.                            *)
EXTENDS FloorFlow, TLC

CONSTANTS b1, b2

Symmetry == Permutations({b1, b2})
=============================================================================
