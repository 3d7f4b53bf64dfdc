------------------------------ MODULE Readings -----------------------------
(***************************************************************************)
(* Three more components next to those of Traffic, what a page of the      *)
(* console reads: the log of a deployment, a list that changes while its   *)
(* pages are turned, and the figures of the machine.  All ten share no     *)
(* state and do not call each other here, so that a behaviour is one of a  *)
(* single component, its part; the others stay in their initial states.    *)
(***************************************************************************)
EXTENDS Traffic

CONSTANTS
    MaxSize, MaxFiles, MaxMessage, Long, MaxLines, MaxFailures,
    Readers, Limit, Hits, MaxListed, MaxDeletes, MaxWalks,
    Modulus, MegaByte, Memory, Disk, MaxAdvances, MaxStep, MaxSlips

VARIABLES
    part,
    job, final, directory, file, rotated, writer, second, lines, stream, held, failures,
    due, turned, overwritten, stuck,
    listed, inserted, deleted, walk,
    kernel, last, cpu, memory, disk, ticks, slips, seen, span

L == INSTANCE DeployLogs WITH MaxMishaps <- MaxFailures, mishaps <- failures
G == INSTANCE Listing WITH MaxRows <- MaxListed, rows <- listed
U == INSTANCE Heartbeat WITH MaxTicks <- MaxAdvances, MaxMishaps <- MaxSlips, mishaps <- slips

ReadingsAssumption ==
    /\ TrafficAssumption
    /\ L!LogsAssumption /\ G!ListingAssumption /\ U!HeartbeatAssumption

logsVars == <<job, final, directory, file, rotated, writer, second, lines, stream, held,
              failures, due, turned, overwritten, stuck>>
listVars == <<listed, inserted, deleted, walk>>
beatVars == <<kernel, last, cpu, memory, disk, ticks, slips, seen, span>>
readingsVars == <<part, accessVars, vars, runnerVars, fileVars, hookVars, channelVars,
                  limiterVars, logsVars, listVars, beatVars>>

ReadingsInit ==
    /\ part \in {"access", "workspace", "logs", "runner", "list", "hooks", "file",
                 "channels", "limiter", "heartbeat"}
    /\ Init /\ A!Init /\ L!Init /\ R!Init /\ G!Init /\ H!Init /\ F!Init /\ N!Init
    /\ B!Init /\ U!Init
    /\ part # "heartbeat" => kernel = [busy |-> 0, idle |-> 1]
    /\ part # "logs" => ~directory
    /\ part # "hooks" => host = "generic"

(* The parts whose component does not take the step.                       *)
Others(own) ==
    /\ UNCHANGED part
    /\ part = own
    /\ own # "access" => UNCHANGED accessVars
    /\ own # "workspace" => UNCHANGED vars
    /\ own # "logs" => UNCHANGED logsVars
    /\ own # "runner" => UNCHANGED runnerVars
    /\ own # "list" => UNCHANGED listVars
    /\ own # "hooks" => UNCHANGED hookVars
    /\ own # "file" => UNCHANGED fileVars
    /\ own # "channels" => UNCHANGED channelVars
    /\ own # "limiter" => UNCHANGED limiterVars
    /\ own # "heartbeat" => UNCHANGED beatVars

ReadingsNext ==
    \/ Others("access") /\ A!Next
    \/ Others("workspace") /\ Next
    \/ Others("logs") /\ L!Next
    \/ Others("runner") /\ R!Next
    \/ Others("list") /\ G!Next
    \/ Others("hooks") /\ H!Next
    \/ Others("file") /\ F!Next
    \/ Others("channels") /\ N!Next
    \/ Others("limiter") /\ B!Next
    \/ Others("heartbeat") /\ U!Next

ReadingsSpec == ReadingsInit /\ [][ReadingsNext]_readingsVars
----------------------------------------------------------------------------
(* The types of all ten states.                                            *)
StateTypeOK ==
    /\ TypeOK /\ A!TypeOK /\ R!TypeOK /\ F!TypeOK
    /\ H!TypeOK /\ N!TypeOK /\ B!TypeOK
    /\ L!TypeOK /\ G!TypeOK /\ U!TypeOK

(* DeployLogs: a stream that ends with "done" has delivered the log        *)
(* (modules/deployments/handler.go, StreamDeploymentLogs).                 *)
DoneDelivers == L!DoneDelivers

(* DeployLogs: rotation loses only the oldest lines                        *)
(* (logging/rotating.go, rotate and cleanupOldFiles).                      *)
RotationKeeps == L!RotationKeeps

(* Listing: turning the pages of a list that changes passes over few rows  *)
(* (the List handlers and the paginated queries of their repositories).    *)
FewSkipped == G!FewSkipped

(* Heartbeat: the processor's figure is that of the time since the last    *)
(* reading, wherever the counters wrap (runner/metrics.go, collectCPU).    *)
CpuHonest == U!CpuHonest
=============================================================================
