----------------------------- MODULE BlueGreen -----------------------------
(***************************************************************************)
(* What a blue/green deployment promises of an application's containers:   *)
(* one candidate at a time, a container goes live only after it has passed *)
(* the healthcheck gate, going live replaces the container that was live   *)
(* in the same step, and a container that has gone never comes back.       *)
(***************************************************************************)

CONSTANT Deployments    \* a deployment stands for the container it starts

VARIABLE stage

Stage == {"new", "candidate", "healthy", "live", "gone"}

Init == stage = [d \in Deployments |-> "new"]

Launch(d) ==
    /\ stage[d] = "new"
    /\ \A e \in Deployments : stage[e] \notin {"candidate", "healthy"}
    /\ stage' = [stage EXCEPT ![d] = "candidate"]

Pass(d) ==
    /\ stage[d] = "candidate"
    /\ stage' = [stage EXCEPT ![d] = "healthy"]

GoLive(d) ==
    /\ stage[d] = "healthy"
    /\ stage' = [e \in Deployments |->
                    IF e = d THEN "live"
                    ELSE IF stage[e] = "live" THEN "gone" ELSE stage[e]]

(* A container that never went live: rolled back, or left by an error, a   *)
(* cancelled context or a crash.                                           *)
Discard(d) ==
    /\ stage[d] \in {"new", "candidate", "healthy"}
    /\ stage' = [stage EXCEPT ![d] = "gone"]

Next == \E d \in Deployments : Launch(d) \/ Pass(d) \/ GoLive(d) \/ Discard(d)

Spec == Init /\ [][Next]_stage
=============================================================================
