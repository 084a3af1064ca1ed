--------------------------- MODULE MCEmailInbound ---------------------------
(* Instances of EmailInbound for TLC.                                      *)
EXTENDS EmailInbound

CONSTANT N
NRows == 1..N

\* The first and the last row are one mail, as with Gmail's All Mail.
Twinned  == [r \in Rows |-> IF r = N THEN 1 ELSE r]
Distinct == [r \in Rows |-> r]
=============================================================================
