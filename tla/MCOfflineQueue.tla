--------------------------- MODULE MCOfflineQueue ---------------------------
(* Two devices: one with two tabs and a form, one with a form only.          *)
EXTENDS OfflineQueue

CONSTANTS phone, tablet, tab1, tab2, form1, form2

Assignment == [x \in Tabs \cup Forms |-> IF x = form2 THEN tablet ELSE phone]
=============================================================================
