------------------------------ MODULE OwnerGate ------------------------------
(***************************************************************************)
(* What the outbound side of the registry promises its owner, whatever the *)
(* channel: a request leaves the machine only after the owner allowed it   *)
(* (a `yes` mode, an allowlisted recipient under `ask`, or an approved     *)
(* record), and it leaves once, unless a driver was stopped or the kernel  *)
(* killed in the meantime.  SendPipeline implements it.                    *)
(***************************************************************************)
EXTENDS Naturals

CONSTANT Reqs       \* the sends the PAIs ask for

VARIABLES granted,  \* the requests the owner has allowed
          sends,    \* how often each request has left the machine
          disturbed \* has a driver been stopped since the beginning?

gateVars == <<granted, sends, disturbed>>

GateInit == /\ granted = {}
            /\ sends = [r \in Reqs |-> 0]
            /\ disturbed = FALSE

\* The owner's mode, allowlist or decision covers one more request.
Grant(r) == /\ granted' = granted \cup {r}
            /\ UNCHANGED <<sends, disturbed>>

\* A granted request leaves; a second copy only after a disturbance.
Send(r) == /\ r \in granted
           /\ disturbed \/ sends[r] = 0
           /\ sends' = [sends EXCEPT ![r] = @ + 1]
           /\ UNCHANGED <<granted, disturbed>>

\* A driver task is stopped, or the kernel dies.
Disturb == /\ disturbed' = TRUE
           /\ UNCHANGED <<granted, sends>>

GateNext == \/ \E r \in Reqs : Grant(r) \/ Send(r)
            \/ Disturb

GateSpec == GateInit /\ [][GateNext]_gateVars
==============================================================================
