----------------------------- MODULE MCServices ----------------------------
(***************************************************************************)
(* Small instances of the three components of Services.  A behaviour is    *)
(* one of a single component, its part; the others stay in their initial   *)
(* states, where no step that fairness asks for is enabled.                *)
(*                                                                         *)
(* The databases in two families.  ALONE: one database, the others deleted *)
(* long ago, with every request the bound allows, so that requests of one  *)
(* database meet each other, its provisioning and its poll.  TOGETHER: all *)
(* the databases, whose names may collide, one request and one mishap.     *)
(***************************************************************************)
EXTENDS Services

CONSTANT Former   \* databases deleted before the run begins

VARIABLE part

ASSUME InstancesAssumption == ServicesAssumption

Alone ==
    /\ prov = [d \in Databases |-> IF d \in Former THEN "done" ELSE "none"]
    /\ docker = [d \in Databases |-> IF d \in Former THEN "gone" ELSE "none"]
    /\ started = 0 /\ mishaps = 0

Together ==
    /\ prov = [d \in Databases |-> "none"]
    /\ docker = [d \in Databases |-> "none"]
    /\ started = MaxRequests - 1 /\ mishaps = MaxMishaps - 1

DatabasesInit ==
    /\ Alone \/ (part = "databases" /\ Together)
    /\ row = [d \in Databases |-> None]
    /\ limited = [d \in Databases |-> None]
    /\ name = [d \in Databases |-> None]
    /\ req = [r \in Requests |-> Idle]
    /\ poll = [d \in Databases |-> NoPoll]
    /\ lapses = {}

MCInit ==
    /\ part \in {"databases", "pool", "streams"}
    /\ DatabasesInit /\ P!Init /\ S!Init
    /\ part # "streams" => kind = "log"

MCNext ==
    /\ UNCHANGED part
    /\ \/ part = "databases" /\ DatabasesStep
       \/ part = "pool" /\ PoolStep
       \/ part = "streams" /\ StreamStep

mcVars == <<part, servicesVars>>
MCSpec == MCInit /\ [][MCNext]_mcVars /\ Fairness /\ S!Fairness
=============================================================================
