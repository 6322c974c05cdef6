--------------------------- MODULE MCCaptureScreen ---------------------------
(* Two barcodes of two SKUs and one nobody knows.                            *)
EXTENDS CaptureScreen

CONSTANTS b1, b2, b3, s1, s2

Catalog == [b \in Barcodes |-> CASE b = b1 -> s1 [] b = b2 -> s2 [] OTHER -> NoSku]
=============================================================================
