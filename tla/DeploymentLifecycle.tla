------------------------ MODULE DeploymentLifecycle ------------------------
(***************************************************************************)
(* What the deploy queue promises of one deployment, whatever the number   *)
(* of workers and the size of the queue: AT MOST ONE execution.  A job is  *)
(* offered by the request that created its row, may be accepted or         *)
(* refused, is executed at most once, and only its own execution may give  *)
(* its row a final status.  A job that has not settled may be lost with    *)
(* the process, and nothing ever brings it back.                           *)
(***************************************************************************)

CONSTANT Deployments

VARIABLES
    status,   \* deployments.status, the three working states folded into one
    job       \* where the deployment's job is, as seen from outside

vars == <<status, job>>

Final == {"success", "failed"}
Status == {"absent", "queued", "active"} \union Final
Job == {"new", "offered", "pending", "executing", "settled", "lost"}

Init ==
    /\ status = [d \in Deployments |-> "absent"]
    /\ job = [d \in Deployments |-> "new"]

Move(d, from, to) ==
    /\ job[d] = from
    /\ job' = [job EXCEPT ![d] = to]

(* A request creates the row and will offer the job to the queue. *)
Create(d) ==
    /\ Move(d, "new", "offered")
    /\ status' = [status EXCEPT ![d] = "queued"]

Accept(d) ==
    /\ Move(d, "offered", "pending")
    /\ UNCHANGED status

Begin(d) ==
    /\ Move(d, "pending", "executing")
    /\ UNCHANGED status

(* The working states: written by the execution, by a rollback request     *)
(* before it offers its job, and by the manual restart of any deployment.  *)
Activate(d) ==
    /\ job[d] # "new"
    /\ status' = [status EXCEPT ![d] = "active"]
    /\ UNCHANGED job

(* The result is written once; it is dropped if it cannot be written.      *)
Settle(d) ==
    /\ Move(d, "executing", "settled")
    /\ \/ \E s \in Final : status' = [status EXCEPT ![d] = s]
       \/ UNCHANGED status

(* A refused offer, a shutdown or a crash: the rows keep what they held.   *)
Lose(S) ==
    /\ \A d \in S : job[d] \notin {"new", "settled"}
    /\ job' = [d \in Deployments |-> IF d \in S THEN "lost" ELSE job[d]]
    /\ UNCHANGED status

Next ==
    \/ \E d \in Deployments :
          Create(d) \/ Accept(d) \/ Begin(d) \/ Activate(d) \/ Settle(d)
    \/ \E S \in SUBSET Deployments : Lose(S)

Spec == Init /\ [][Next]_vars
=============================================================================
