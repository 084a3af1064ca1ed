--------------------------- MODULE MCSendPipeline ---------------------------
(* Instances of SendPipeline for TLC: which channel each request uses.     *)
EXTENDS SendPipeline

CONSTANTS r1, r2

AllEmail         == [r \in Reqs |-> "email"]
AllWhatsapp      == [r \in Reqs |-> "whatsapp"]
AllImessage      == [r \in Reqs |-> "imessage"]
=============================================================================
