-------------------------- MODULE MCCTraderGateway --------------------------
(* The gateway alone, with the fairness of FairSpec, for TLC.  (No symmetry: *)
(* the run checks liveness.)                                                 *)
EXTENDS CTraderGateway

\* Where the search goes on.  It loses nothing of RequestsAcked: an acknowledged
\* message stays so, and no worker looks at whether the caller was answered.
Unsettled == \A r \in Requests : answer[r] = None /\ msg[r] # "acked"
=============================================================================
