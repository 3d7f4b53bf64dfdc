--------------------------- MODULE MCApplications --------------------------
(***************************************************************************)
(* Instances of Applications and CronJobs in one run.  FRESH: the first    *)
(* two deployments of an application and one request.  DEPLOYED: the first *)
(* has its container, its domain and its route, and the second one meets   *)
(* two requests.  SCHEDULED: the cron job runs commands in that container, *)
(* which the second deployment takes away: all the runs with no mishap, or *)
(* all but one with mishaps.                                               *)
(***************************************************************************)
EXTENDS CronJobs, TLC

CONSTANTS First, Domain   \* the deployment that has been, and its domain

NoCron == cron = None /\ starts = MaxStarts

Fresh ==
    /\ row = [domain |-> None, limits |-> None, container |-> None, status |-> "idle"]
    /\ container = [d \in Deployments |-> "absent"]
    /\ routes = <<>> /\ asked = {}
    /\ served = MaxRequests - 1 /\ mishaps = 0 /\ NoCron

Standing ==
    /\ row = [domain |-> Domain, limits |-> None, container |-> First, status |-> "running"]
    /\ container = [d \in Deployments |-> IF d = First THEN "running" ELSE "absent"]
    /\ routes = <<[domain |-> Domain, upstream |-> First]>> /\ asked = {First}

Deployed == Standing /\ served = 0 /\ mishaps = 0 /\ NoCron

Scheduled ==
    /\ Standing /\ served = MaxRequests
    /\ \/ mishaps = MaxMishaps /\ cron = None /\ starts = 0
       \/ mishaps = 0 /\ cron = [enabled |-> TRUE, last |-> None] /\ starts = 1

MCInit ==
    /\ Fresh \/ Deployed \/ Scheduled
    /\ limited = [d \in Deployments |-> None]
    /\ queue = {} /\ job = NoJob
    /\ req = [r \in Requests |-> Idle] /\ poll = NoPoll
    /\ lapses = {}
    /\ scheduler = TRUE /\ mark = FALSE
    /\ run = [r \in Runs |-> NoRun] /\ command = [r \in Runs |-> None]
    /\ toggle = None

(* Somebody has the application's page open.                               *)
MCPolled ==
    /\ WF_allVars(PollRead /\ UNCHANGED cronVars)
    /\ WF_allVars((PollInspect \/ PollWrite) /\ UNCHANGED cronVars)

MCSpec == MCInit /\ [][CronNext]_allVars /\ MCPolled
=============================================================================
