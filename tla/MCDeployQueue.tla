--------------------------- MODULE MCDeployQueue ---------------------------
(***************************************************************************)
(* An instance of DeployQueue for TLC: two workers share one token and     *)
(* serve three deployments, so that a request can block behind a full      *)
(* buffer and a worker can wait for the token.  A behaviour either creates *)
(* the last deployment or starts the process again, never both: three      *)
(* deployments make the contention, two are enough to lose some in one     *)
(* process and to have others in the next.  Neither step is one that       *)
(* fairness asks for.                                                      *)
(***************************************************************************)
EXTENDS DeployQueue

CONSTANT Last   \* the deployment that only the first process creates

MCNext == Next /\ (request'[Last] = "none" \/ restarts' = 0)
MCSpec == Init /\ [][MCNext]_vars /\ Fairness
=============================================================================
