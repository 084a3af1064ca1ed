------------------------------ MODULE MCTailer ------------------------------
(* Tailer with as many messages as a run needs.                            *)
EXTENDS Tailer

CONSTANT N
NMsgs == 1..N
=============================================================================
