------------------------------ MODULE Services -----------------------------
(***************************************************************************)
(* Three components of one process that do not call each other and share   *)
(* no state: the managed databases, the pool of Docker clients of remote   *)
(* servers, and a page that follows a container.                           *)
(***************************************************************************)
EXTENDS ManagedDatabases

CONSTANTS Servers, Callers, MaxCalls, MaxTunnels, MaxPieces

VARIABLES
    server, pooled, tunnels, alive, lock, caller, calls, failures,
    kind, handler, copier, pieces, client, container, flowing, cancelled

P == INSTANCE ClientPool WITH mishaps <- failures
S == INSTANCE ContainerStreams

ServicesAssumption ==
    DatabasesAssumption /\ P!PoolAssumption /\ S!StreamsAssumption

poolVars == <<server, pooled, tunnels, alive, lock, caller, calls, failures>>
streamVars == <<kind, handler, copier, pieces, client, container, flowing, cancelled>>
servicesVars == <<vars, poolVars, streamVars>>

ServicesInit == Init /\ P!Init /\ S!Init

DatabasesStep == Next /\ UNCHANGED <<poolVars, streamVars>>
PoolStep == P!Next /\ UNCHANGED <<vars, streamVars>>
StreamStep == S!Next /\ UNCHANGED <<vars, poolVars>>

ServicesNext == DatabasesStep \/ PoolStep \/ StreamStep
ServicesSpec == ServicesInit /\ [][ServicesNext]_servicesVars
----------------------------------------------------------------------------
(* The types of the three states.                                          *)
StateTypeOK == TypeOK /\ P!TypeOK /\ S!TypeOK

(* ClientPool: one tunnel to each server and the same for all, however many*)
(* callers meet one that is not in the pool (docker.ClientPool.GetClient). *)
OneTunnel == P!OneTunnel

(* ContainerStreams: handler and copier of a page that was left end, unless*)
(* they are stuck in one of the two places named there                     *)
(* (handler/terminal.go, modules/deployments/handler.go).                  *)
PagesEnd == S!PagesEnd
=============================================================================
