---------------------------- MODULE MCSkuCatalog ----------------------------
(* Three products on two pages: one with two barcodes, one with none, one    *)
(* without an id.                                                            *)
EXTENDS SkuCatalog

CONSTANTS p1, p2, p3, b1, b2, b3

List == <<p3, p1, p2>>
Defaults == [p \in Products |-> CASE p = p1 -> b1 [] p = p2 -> b3 [] OTHER -> NoBarcode]
Others == [p \in Products |-> IF p = p1 THEN {b2} ELSE {}]
=============================================================================
